------------------------ MODULE ServiceRuntimeProofs ------------------------
(***************************************************************************)
(* Proofs about ServiceRuntime, for every set of installations, valid or   *)
(* not, any number of networks and blocks, errors, shutdown, crashes and   *)
(* restarts.                                                               *)
(***************************************************************************)
EXTENDS ServiceRuntime, TLAPS

\* No two files of monitors have the same key: their names do not differ in the case of
\* ".json" alone.
KeysDiffer ==
    \A i \in Installations : \A f, g \in {h \in i.monitors : h.json} :
        f # g => DOMAIN f.items \cap DOMAIN g.items = {}

\* What was read was valid, and what was accepted has been looked at.
ConfigurationIsValid ==
    /\ \A k \in DOMAIN networks : ValidNetwork(networks[k])
    /\ \A k \in DOMAIN triggers : ValidTrigger(triggers[k])
    /\ \A k \in DOMAIN monitors : ValidMonitor(monitors[k])
    /\ loading = "accepted" => \A k \in DOMAIN monitors : ValidReferences(monitors[k])

\* main goes beyond loading only with an accepted configuration.
PhaseFitsLoading ==
    /\ phase = "loading" => loading \notin {"accepted", "rejected"}
    /\ phase \in {"scripts", "executing"} \union LivePhases => loading = "accepted"

\* A network that is not watched although it has monitors was given up.
GivenUp(k) == ~HasEndpoint(networks[k]) \/ ~SchedulesJobs(networks[k])
                                        \/ networks[k].slug \in unreachable

NetworksAreStarted ==
    /\ phase \in {"starting", "running"} =>
           \A k \in WithMonitors : k \in toStart \/ networks[k].slug \in watchers \/ GivenUp(k)
    /\ phase = "running" => toStart = {}

\* The inductive invariant, whatever the installation.
IInv == TypeOK /\ ConfigurationIsValid /\ PhaseFitsLoading /\ NetworksAreStarted

\* Every monitor that was read is kept under the stem of its file.
MonitorsAreKept ==
    /\ loading = "monitors" => files \subseteq installation.monitors
    /\ loading \in {"monitors", "references", "accepted"} =>
           \A f \in installation.monitors : f.json /\ (loading = "monitors" => f \notin files) =>
               \A k \in DOMAIN f.items : k \in DOMAIN monitors /\ monitors[k] = f.items[k]

\* Some monitor that is not paused matches the block.
Matched(o) == \E m \in EveryMonitor : ~ m.paused /\ o[1] \in m.networks /\ o \in m.blocks

\* Blocks that the pipeline or the last processed block has left behind.
Passed(o) == stage[o] = "over" \/ o[2] <= saved[o[1]]

\* A match that has no task is one that was given up, or will be when its filter or its
\* task hears of the shutdown; what a run does not contain was skipped.
MatchesAccounted(o) ==
    /\ Passed(o) /\ Matched(o) /\ o \notin disturbed => task[o] \in {"running", "done"}
    /\ Passed(o) /\ Matched(o) /\ shutdown /\ <<"task", o>> \in hears => o \in disturbed
    /\ stage[o] = "filtering" /\ shutdown /\ <<"filter", o>> \in hears => o \in disturbed
    /\ stage[o] \in {"empty", "lost"} /\ Matched(o) => o \in disturbed
    /\ stage[o] # "none" => /\ from[o[1]] <= o[2] /\ o[2] <= upto[o[1]]
                            /\ saved[o[1]] < o[2]
    /\ saved[o[1]] < o[2] /\ o[2] <= upto[o[1]] /\ o[2] < from[o[1]] => o \in disturbed

\* The inductive invariant for NoMatchLost.
PeaceInv ==
    /\ IInv
    /\ installation \in Installations
    /\ MonitorsAreKept
    /\ \A o \in Block : MatchesAccounted(o)

-----------------------------------------------------------------------------
(* The configuration.                                                      *)

\* Whether an item is valid depends on the scripts that are installed, and whether a
\* monitor's references are on what else is kept.
LEMMA ValidityStays ==
    ASSUME UNCHANGED installation
    PROVE  /\ \A n : ValidNetwork(n)' <=> ValidNetwork(n)
           /\ \A t : ValidTrigger(t)' <=> ValidTrigger(t)
           /\ \A m : ValidMonitor(m)' <=> ValidMonitor(m)
           /\ UNCHANGED <<networks, triggers>> => \A m : ValidReferences(m)' <=> ValidReferences(m)
<1>1. \A c : ValidScript(c)' <=> ValidScript(c)
    BY DEF ValidScript
<1>2. \A c : ValidConfig(c)' <=> ValidConfig(c)
    BY <1>1 DEF ValidConfig, ValidSlack, ValidDiscord, ValidTelegram, ValidWebhook, ValidEmail, ValidMessage
<1>3. \A t : ValidTrigger(t)' <=> ValidTrigger(t)
    BY <1>2 DEF ValidTrigger
<1>4. \A m : ValidMonitor(m)' <=> ValidMonitor(m)
    BY <1>1 DEF ValidMonitor
<1>5. ASSUME UNCHANGED <<networks, triggers>>
      PROVE  \A m : ValidReferences(m)' <=> ValidReferences(m)
    BY <1>1, <1>5 DEF ValidReferences, ValidSignatures
<1>6. \A n : ValidNetwork(n)' <=> ValidNetwork(n)
    BY DEF ValidNetwork, ValidUrl
<1> QED BY <1>3, <1>4, <1>5, <1>6

\* A step of the loading.
LEMMA LoadKeepsValidity ==
    ASSUME TypeOK, ConfigurationIsValid, Load
    PROVE  /\ ConfigurationIsValid'
           /\ installation' = installation
           /\ loading' \in Kinds \union {"references", "accepted", "rejected"}
<1>1. CASE NoDirectory
    <2>1. loading' = "rejected" /\ UNCHANGED <<installation, networks, triggers, monitors>>
        BY <1>1 DEF NoDirectory, Reject
    <2> QED BY <2>1, ValidityStays DEF ConfigurationIsValid
<1>2. CASE NextKind
    <2>1. loading' \in {"triggers", "monitors", "references"} /\ UNCHANGED <<installation, networks, triggers, monitors>>
        BY <1>2 DEF NextKind, Kinds
    <2> QED BY <2>1, ValidityStays DEF ConfigurationIsValid, Kinds
<1>3. CASE CheckReferences
    <2>1. /\ loading' \in {"accepted", "rejected"} /\ UNCHANGED <<installation, networks, triggers, monitors>>
          /\ loading' = "accepted" => \A k \in DOMAIN monitors : ValidReferences(monitors[k])
        BY <1>3 DEF CheckReferences, Reject
    <2> QED BY <2>1, ValidityStays DEF ConfigurationIsValid
<1>4. ASSUME NEW f \in files, ReadFile(f)
      PROVE  /\ ConfigurationIsValid'
             /\ installation' = installation
             /\ loading' \in Kinds \union {"references", "accepted", "rejected"}
    <2>1. CASE ~ f.json \/ ~ Acceptable(loading, f)
        <3>1. /\ loading' \in {loading, "rejected"} /\ loading \in Kinds
              /\ UNCHANGED <<installation, networks, triggers, monitors>>
            BY <1>4, <2>1 DEF ReadFile, Reject
        <3> QED BY <3>1, ValidityStays DEF ConfigurationIsValid, Kinds
    <2>2. CASE f.json /\ Acceptable(loading, f)
        <3>1. UNCHANGED <<installation, loading>> /\ loading \in Kinds /\ Keep(loading, f.items)
            BY <1>4, <2>2 DEF ReadFile
        <3>2. \A k \in DOMAIN f.items : Valid(loading, f.items[k])
            BY <2>2 DEF Acceptable, Items
        <3>3. \A k \in DOMAIN triggers' : ValidTrigger(triggers'[k])
            <4>1. CASE loading = "triggers"
                <5>1. triggers' = Together(f.items, triggers)
                    BY <3>1, <4>1 DEF Keep
                <5>2. \A k \in DOMAIN f.items : ValidTrigger(f.items[k])
                    BY <3>2, <4>1 DEF Valid
                <5>3. \A k \in DOMAIN triggers : ValidTrigger(triggers[k])
                    BY DEF ConfigurationIsValid
                <5>4. /\ DOMAIN triggers' = DOMAIN f.items \cup DOMAIN triggers
                      /\ \A k \in DOMAIN f.items : triggers'[k] = f.items[k]
                      /\ \A k \in DOMAIN triggers \ DOMAIN f.items : triggers'[k] = triggers[k]
                    BY <5>1 DEF Together
                <5>5. TAKE k \in DOMAIN triggers'
                <5>6. CASE k \in DOMAIN f.items
                    <6>1. triggers'[k] = f.items[k]
                        BY <5>4, <5>6
                    <6> QED BY <5>2, <5>6, <6>1
                <5>7. CASE k \in DOMAIN triggers \ DOMAIN f.items
                    <6>1. triggers'[k] = triggers[k]
                        BY <5>4, <5>7
                    <6> QED BY <5>3, <5>7, <6>1
                <5> QED BY <5>4, <5>5, <5>6, <5>7
            <4>2. CASE loading # "triggers"
                BY <3>1, <4>2 DEF Keep, ConfigurationIsValid
            <4> QED BY <4>1, <4>2
        <3>4. \A k \in DOMAIN monitors' : ValidMonitor(monitors'[k])
            <4>1. CASE loading = "monitors"
                <5>1. monitors' = Together(f.items, monitors)
                    BY <3>1, <4>1 DEF Keep
                <5>2. \A k \in DOMAIN f.items : ValidMonitor(f.items[k])
                    BY <3>2, <4>1 DEF Valid
                <5>3. \A k \in DOMAIN monitors : ValidMonitor(monitors[k])
                    BY DEF ConfigurationIsValid
                <5>4. /\ DOMAIN monitors' = DOMAIN f.items \cup DOMAIN monitors
                      /\ \A k \in DOMAIN f.items : monitors'[k] = f.items[k]
                      /\ \A k \in DOMAIN monitors \ DOMAIN f.items : monitors'[k] = monitors[k]
                    BY <5>1 DEF Together
                <5>5. TAKE k \in DOMAIN monitors'
                <5>6. CASE k \in DOMAIN f.items
                    <6>1. monitors'[k] = f.items[k]
                        BY <5>4, <5>6
                    <6> QED BY <5>2, <5>6, <6>1
                <5>7. CASE k \in DOMAIN monitors \ DOMAIN f.items
                    <6>1. monitors'[k] = monitors[k]
                        BY <5>4, <5>7
                    <6> QED BY <5>3, <5>7, <6>1
                <5> QED BY <5>4, <5>5, <5>6, <5>7
            <4>2. CASE loading # "monitors"
                BY <3>1, <4>2 DEF Keep, ConfigurationIsValid
            <4> QED BY <4>1, <4>2
        <3>5. \A k \in DOMAIN networks' : ValidNetwork(networks'[k])
            <4>1. CASE loading = "networks"
                <5>1. networks' = Together(f.items, networks)
                    BY <3>1, <4>1 DEF Keep
                <5>2. \A k \in DOMAIN f.items : ValidNetwork(f.items[k])
                    BY <3>2, <4>1 DEF Valid
                <5>3. \A k \in DOMAIN networks : ValidNetwork(networks[k])
                    BY DEF ConfigurationIsValid
                <5>4. /\ DOMAIN networks' = DOMAIN f.items \cup DOMAIN networks
                      /\ \A k \in DOMAIN f.items : networks'[k] = f.items[k]
                      /\ \A k \in DOMAIN networks \ DOMAIN f.items : networks'[k] = networks[k]
                    BY <5>1 DEF Together
                <5>5. TAKE k \in DOMAIN networks'
                <5>6. CASE k \in DOMAIN f.items
                    <6>1. networks'[k] = f.items[k]
                        BY <5>4, <5>6
                    <6> QED BY <5>2, <5>6, <6>1
                <5>7. CASE k \in DOMAIN networks \ DOMAIN f.items
                    <6>1. networks'[k] = networks[k]
                        BY <5>4, <5>7
                    <6> QED BY <5>3, <5>7, <6>1
                <5> QED BY <5>4, <5>5, <5>6, <5>7
            <4>2. CASE loading # "networks"
                BY <3>1, <4>2 DEF Keep, ConfigurationIsValid
            <4> QED BY <4>1, <4>2
        <3> QED BY <3>1, <3>3, <3>4, <3>5, ValidityStays DEF ConfigurationIsValid, Kinds
    <2> QED BY <2>1, <2>2
<1> QED BY <1>1, <1>2, <1>3, <1>4 DEF Load

-----------------------------------------------------------------------------
(* Types.                                                                  *)

\* A block is a network and a number.
LEMMA BlockTypes ==
    \A o \in Block : o[1] \in Slugs /\ o[2] \in Nat /\ 2 <= o[2]
<1> TAKE o \in Block
<1>1. PICK n \in Slugs : o \in {n} \X (2 .. LastBlock[n])
    BY DEF Block
<1>2. LastBlock[n] \in Nat
    BY ChainsAssumption
<1> QED BY <1>1, <1>2

\* Steps of the pipeline and of the tasks, as far as their types go.
LEMMA BlockStepKeepsTypes ==
    ASSUME TypeOK, Alive,
           stage' \in [Block -> Piped \union {"none", "over", "lost"}],
           task' \in [Block -> {"none", "running", "done", "stopped"}],
           hears' \subseteq {"filter", "task"} \X Block,
           disturbed' \subseteq Block,
           UNCHANGED <<saved, from, upto, configVars, executionVars, mainVars, head, restarts>>
    PROVE  TypeOK'
BY DEF TypeOK, Alive, LivePhases, configVars, executionVars, mainVars

LEMMA HandleBlockKeepsTypes ==
    ASSUME TypeOK, NEW o \in Block, HandleBlocks(o)
    PROVE  TypeOK'
<1> DEFINE Stages == Piped \union {"none", "over", "lost"}
<1>1. /\ Alive /\ HandleBlock(o)
      /\ UNCHANGED <<configVars, executionVars, mainVars, head, restarts>>
    BY DEF HandleBlocks
<1>2. /\ UNCHANGED <<saved, from, upto>>
      /\ hears' \subseteq hears \union {<<"filter", o>>, <<"task", o>>}
      /\ disturbed' \subseteq disturbed \union {o}
      /\ task' = task \/ task' = [task EXCEPT ![o] = "running"]
      /\ \E s \in Stages : stage' = [stage EXCEPT ![o] = s]
    BY <1>1 DEF HandleBlock, BeginBlock, FilterBlock, FilterFails, FilterIsCancelled, EndsFilter, HandOver, Hear,
                Stage, Piped
<1>3. stage' \in [Block -> Stages]
    BY <1>2 DEF TypeOK
<1>4. /\ task' \in [Block -> {"none", "running", "done", "stopped"}]
      /\ hears' \subseteq {"filter", "task"} \X Block /\ disturbed' \subseteq Block
    BY <1>2 DEF TypeOK
<1> QED BY <1>1, <1>2, <1>3, <1>4, BlockStepKeepsTypes

LEMMA RunTaskKeepsTypes ==
    ASSUME TypeOK, NEW o \in Block, RunTasks(o)
    PROVE  TypeOK'
<1>1. /\ Alive /\ RunTask(o)
      /\ UNCHANGED <<configVars, executionVars, mainVars, head, restarts>>
    BY DEF RunTasks
<1>2. /\ UNCHANGED <<saved, from, upto, stage, disturbed>> /\ hears' \subseteq hears
      /\ \E result \in {"done", "stopped"} : task' = [task EXCEPT ![o] = result]
    BY <1>1 DEF RunTask, TaskEnds, TaskIsCancelled, EndsTask
<1>3. task' \in [Block -> {"none", "running", "done", "stopped"}]
    BY <1>2 DEF TypeOK
<1>4. hears' \subseteq {"filter", "task"} \X Block
    BY <1>2 DEF TypeOK
<1>5. stage' \in [Block -> Piped \union {"none", "over", "lost"}] /\ disturbed' \subseteq Block
    BY <1>2 DEF TypeOK
<1> QED BY <1>1, <1>2, <1>3, <1>4, <1>5, BlockStepKeepsTypes

LEMMA PanicKeepsTypes ==
    ASSUME TypeOK, NEW n \in Slugs, Panic(n)
    PROVE  TypeOK'
<1> DEFINE dropped == {p \in Block : p[1] = n /\ stage[p] \in {"queued", "filtering"}}
<1>1. /\ Alive
      /\ UNCHANGED <<saved, from, upto, task, configVars, executionVars, mainVars, head, restarts>>
      /\ stage' = [p \in Block |-> IF p \in dropped THEN "lost" ELSE stage[p]]
      /\ hears' \subseteq hears /\ disturbed' = disturbed \union dropped
    BY DEF Panic, HandlerPanics
<1>2. /\ stage' \in [Block -> Piped \union {"none", "over", "lost"}]
      /\ task' \in [Block -> {"none", "running", "done", "stopped"}]
    BY <1>1 DEF TypeOK
<1>3. hears' \subseteq {"filter", "task"} \X Block /\ disturbed' \subseteq Block
    BY <1>1 DEF TypeOK
<1> QED BY <1>1, <1>2, <1>3, BlockStepKeepsTypes

\* A run's first block comes after the last processed one.
LEMMA TickStarts ==
    ASSUME TypeOK, ConfigurationIsValid, NEW n \in Slugs, Tick(n)
    PROVE  from' \in [Slugs -> Nat] /\ saved[n] < from'[n]
<1>1. PICK k \in DOMAIN networks : \E past \in PastBlocks(networks[k]) :
          from' = [from EXCEPT ![n] = IF head[n] <= saved[n] + past THEN saved[n] + 1 ELSE head[n] - past]
    BY DEF Tick
<1>2. PICK past \in PastBlocks(networks[k]) :
          from' = [from EXCEPT ![n] = IF head[n] <= saved[n] + past THEN saved[n] + 1 ELSE head[n] - past]
    BY <1>1
<1>3. /\ networks[k].max_past_blocks \subseteq Nat
      /\ networks[k].block_time_ms \in Nat /\ networks[k].block_time_ms > 0
      /\ networks[k].confirmation_blocks \in Nat
    <2>1. ValidNetwork(networks[k])
        BY DEF ConfigurationIsValid
    <2>2. networks[k].block_time_ms \in Nat /\ networks[k].block_time_ms >= 100
        BY <2>1 DEF ValidNetwork
    <2>3. networks[k].confirmation_blocks \in Nat /\ networks[k].max_past_blocks \subseteq Nat
        BY <2>1 DEF ValidNetwork
    <2> QED BY <2>2, <2>3
<1>4. CronIntervalMs \in Nat
    BY ChainsAssumption
<1>5. Recommended(networks[k]) \in Nat
    BY <1>3, <1>4 DEF Recommended
<1>6. past \in Nat
    BY <1>3, <1>5 DEF PastBlocks
<1>7. from \in [Slugs -> Nat] /\ head[n] \in Nat /\ saved[n] \in Nat
    BY DEF TypeOK
<1> QED BY <1>2, <1>6, <1>7

\* A run that begins or ends.
LEMMA WatchKeepsTypes ==
    ASSUME TypeOK, ConfigurationIsValid, NEW n \in Slugs, Watch(n)
    PROVE  TypeOK'
<1> DEFINE Stages == Piped \union {"none", "over", "lost"}
<1>1. Alive /\ UNCHANGED <<task, hears, configVars, executionVars, mainVars, head, restarts>>
    BY DEF Watch, Tick, Save, RunFails, EndsRun
<1>2. stage \in [Block -> Stages]
    BY DEF TypeOK
<1>3. /\ {saved, from, upto}' \subseteq [Slugs -> Nat]
      /\ \A i \in Slugs : saved'[i] <= head[i] /\ upto'[i] <= head[i]
      /\ stage' \in [Block -> Stages] /\ disturbed' \subseteq Block
    <2>1. CASE Tick(n)
        <3>1. from' \in [Slugs -> Nat]
            BY <2>1, TickStarts
        <3>2. \A o \in Block : stage'[o] \in {"queued", "lost", stage[o]}
            BY <2>1 DEF Tick
        <3>3. stage' = [o \in Block |-> stage'[o]]
            BY <2>1 DEF Tick
        <3>4. stage' \in [Block -> Stages]
            BY <1>2, <3>2, <3>3 DEF Piped
        <3> QED BY <2>1, <3>1, <3>4 DEF Tick, TypeOK
    <2>2. CASE EndsRun(n) /\ (saved' = saved \/ saved' = [saved EXCEPT ![n] = upto[n]])
        <3>1. stage' \in [Block -> Stages]
            BY <1>2, <2>2 DEF EndsRun
        <3> QED BY <2>2, <3>1 DEF EndsRun, TypeOK
    <2> QED BY <2>1, <2>2 DEF Watch, Save, RunFails
<1> QED BY <1>1, <1>3 DEF TypeOK, Alive, LivePhases, configVars, executionVars, mainVars

\* The end of the process.
LEMMA EndKeepsTypes ==
    ASSUME TypeOK, NEW p \in {"exited", "crashed"}, End(p),
           UNCHANGED <<configVars, executionVars, saved, head, restarts>>
    PROVE  TypeOK'
<1>1. /\ phase' = p /\ toStart' = {} /\ watchers' = {} /\ ticking' = {} /\ shutdown' = FALSE
      /\ from' = [n \in Slugs |-> 0] /\ upto' = [n \in Slugs |-> 0] /\ hears' = {}
      /\ stage' = [o \in Block |-> "none"]
      /\ task' = [o \in Block |-> IF o \in Running THEN "stopped" ELSE task[o]]
      /\ disturbed' \subseteq Block
    BY DEF End, TypeOK, Running
<1>2. /\ stage' \in [Block -> Piped \union {"none", "over", "lost"}]
      /\ task' \in [Block -> {"none", "running", "done", "stopped"}] /\ Running' = {}
    BY <1>1 DEF TypeOK, Running
<1>3. ~ Alive'
    BY <1>1 DEF Alive, LivePhases
<1>4. \A n \in Slugs : saved[n] <= head[n] /\ upto'[n] <= head[n]
    BY <1>1 DEF TypeOK
<1>5. /\ saved' = saved /\ head' = head /\ loading' = loading /\ networks' = networks
      /\ executing' = executing /\ found' = found /\ handled' = handled
    BY DEF configVars, executionVars
<1>6. {head, saved, from, upto}' \subseteq [Slugs -> Nat]
    BY <1>1, <1>5 DEF TypeOK
<1> QED BY <1>1, <1>2, <1>3, <1>4, <1>5, <1>6 DEF TypeOK

\* What a step does to the configuration.
LEMMA ConfigurationSteps ==
    ASSUME [Next]_vars
    PROVE  \/ LoadConfiguration
           \/ Restart
           \/ UNCHANGED configVars
BY DEF Next, Main, LoadScripts, ExecuteMonitor, StartWatcher, ClientFails, Started, StopWatcher, Sleep, Exit,
       Signal, Crash, Watch, Panic, NewBlock, HandleBlocks, RunTasks, vars

\* The steps of main.
LEMMA MainKeepsTypes ==
    ASSUME TypeOK, Main
    PROVE  TypeOK'
<1>1. CASE LoadConfiguration
    <2>1. /\ phase = "loading" /\ Load
          /\ phase' \in {"loading", "scripts", "exited"}
          /\ UNCHANGED <<toStart, unreachable, watchers, ticking, shutdown, executionVars, blockVars, head, restarts>>
        BY <1>1 DEF LoadConfiguration, Become
    <2>2. loading' \in Kinds \union {"references", "accepted", "rejected"}
        <3>1. loading \in Kinds \union {"references", "accepted", "rejected"}
            BY DEF TypeOK
        <3> QED BY <2>1, <3>1 DEF Load, NoDirectory, NextKind, CheckReferences, ReadFile, Reject, Kinds
    <2>3. ~ Alive /\ ~ Alive' /\ shutdown = FALSE
        <3>1. ~ Alive /\ ~ Alive'
            BY <2>1 DEF Alive, LivePhases
        <3>2. shutdown \in BOOLEAN /\ (shutdown => phase \in {"stopping", "sleeping"})
            BY DEF TypeOK
        <3> QED BY <2>1, <3>1, <3>2
    <2>4. toStart' = {} /\ watchers' = {} /\ ticking' = {} /\ Running' = {} /\ hears' = {}
        BY <2>1, <2>3 DEF TypeOK, Running, blockVars
    <2>5. (/\ stage \in [Block -> Piped \union {"none", "over", "lost"}]
           /\ task \in [Block -> {"none", "running", "done", "stopped"}])'
        BY <2>1 DEF TypeOK, blockVars
    <2>6. /\ UNCHANGED <<executing, found, handled, head, saved, from, upto, hears, disturbed, shutdown>>
          /\ phase' \in {"loading", "scripts", "executing", "exited", "crashed"} \union LivePhases
        BY <2>1 DEF executionVars, blockVars
    <2> QED BY <2>2, <2>3, <2>4, <2>5, <2>6 DEF TypeOK
<1>2. CASE LoadScripts
    <2>1. /\ phase = "scripts" /\ phase' \in {"exited", "executing", "starting"}
          /\ toStart' \in {toStart, WithMonitors}
          /\ phase' # "starting" => toStart' = toStart
          /\ UNCHANGED <<unreachable, watchers, ticking, shutdown, configVars, executionVars, blockVars, head, restarts>>
        BY <1>2 DEF LoadScripts, Become
    <2>2. ~ Alive /\ shutdown = FALSE
        BY <2>1 DEF Alive, LivePhases, TypeOK
    <2>3. toStart = {} /\ watchers = {} /\ ticking = {} /\ Running = {} /\ hears = {}
        BY <2>2 DEF TypeOK
    <2>4. WithMonitors \subseteq DOMAIN networks
        BY DEF WithMonitors
    <2>5. Running' = Running
        BY <2>1 DEF Running, blockVars
    <2> QED BY <2>1, <2>2, <2>3, <2>4, <2>5 DEF TypeOK, Alive, LivePhases, configVars, executionVars, blockVars
<1>3. CASE ExecuteMonitor
    <2>1. /\ phase = "executing" /\ Execute /\ phase' \in {"executing", "exited"}
          /\ UNCHANGED <<toStart, unreachable, watchers, ticking, shutdown, configVars, blockVars, head, restarts>>
        BY <1>3 DEF ExecuteMonitor, Become
    <2>2. /\ executing' \in {"no", "networks", "matches", "done", "failed"}
          /\ handled' \subseteq found'
        BY <2>1 DEF Execute, StartExecution, ExecuteNetwork, ExecuteNetworkFails, HandleMatches, HandleMatch,
                    FinishExecution, TypeOK
    <2>3. ~ Alive /\ ~ Alive' /\ shutdown = FALSE
        BY <2>1 DEF Alive, LivePhases, TypeOK
    <2>4. Running' = Running
        BY <2>1 DEF Running, blockVars
    <2> QED BY <2>1, <2>2, <2>3, <2>4 DEF TypeOK, configVars, blockVars
<1>4. ASSUME NEW k \in toStart, StartWatcher(k)
      PROVE  TypeOK'
    <2>1. /\ phase = "starting" /\ toStart' = toStart \ {k} /\ k \in DOMAIN networks
          /\ \E started \in {{}, {networks[k].slug}} :
                 watchers' = watchers \union started /\ ticking' = ticking \union started
          /\ UNCHANGED <<phase, unreachable, shutdown, configVars, executionVars, blockVars, head, restarts>>
        BY <1>4 DEF StartWatcher, TypeOK
    <2>2. /\ watchers' \subseteq ticking' 
          /\ ticking' \subseteq {networks[j].slug : j \in DOMAIN networks}
        BY <2>1 DEF TypeOK
    <2> QED BY <2>1, <2>2 DEF TypeOK, Alive, LivePhases, configVars, executionVars, blockVars
<1>5. ASSUME NEW k \in toStart, ClientFails(k)
      PROVE  TypeOK'
    BY <1>5 DEF ClientFails, TypeOK, Alive, LivePhases, configVars, executionVars, blockVars
<1>6. CASE Started
    BY <1>6 DEF Started, Become, TypeOK, Alive, LivePhases, configVars, executionVars, blockVars
<1>7. ASSUME NEW n \in watchers, StopWatcher(n)
      PROVE  TypeOK'
    BY <1>7 DEF StopWatcher, TypeOK, Alive, LivePhases, configVars, executionVars, blockVars
<1>8. CASE Sleep
    BY <1>8 DEF Sleep, Become, TypeOK, Alive, LivePhases, configVars, executionVars, blockVars
<1>9. CASE Exit
    BY <1>9, EndKeepsTypes DEF Exit
<1> QED BY <1>1, <1>2, <1>3, <1>4, <1>5, <1>6, <1>7, <1>8, <1>9 DEF Main

\* Every step keeps the types.
LEMMA TypesKept ==
    ASSUME TypeOK, ConfigurationIsValid, [Next]_vars
    PROVE  TypeOK'
<1>1. CASE Signal
    <2>1. disturbed' \subseteq Block
        BY <1>1 DEF Signal, TypeOK
    <2> QED BY <1>1, <2>1 DEF Signal, TypeOK, Alive, LivePhases, Running, configVars, executionVars
<1>2. CASE Crash
    BY <1>2, EndKeepsTypes DEF Crash
<1>3. CASE Restart
    <2>1. phase \in {"crashed", "exited"} /\ phase' = "loading" /\ loading' = "networks" /\ networks' = Nothing
          /\ UNCHANGED <<executionVars, toStart, unreachable, watchers, ticking, shutdown, blockVars, head>>
        BY <1>3 DEF Restart
    <2>2. ~ Alive /\ ~ Alive' /\ shutdown = FALSE
        BY <2>1 DEF Alive, LivePhases, TypeOK
    <2>3. toStart' = {} /\ watchers' = {} /\ ticking' = {} /\ Running' = {} /\ hears' = {}
        BY <2>1, <2>2 DEF TypeOK, Running, blockVars
    <2> QED BY <2>1, <2>2, <2>3 DEF TypeOK, Kinds, executionVars, blockVars
<1>4. ASSUME NEW n \in Slugs, NewBlock(n)
      PROVE  TypeOK'
    <2>1. head' = [head EXCEPT ![n] = @ + 1]
          /\ UNCHANGED <<configVars, executionVars, mainVars, blockVars>>
        BY <1>4 DEF NewBlock
    <2>2. /\ head' \in [Slugs -> Nat]
          /\ \A i \in Slugs : saved'[i] <= head'[i] /\ upto'[i] <= head'[i]
        BY <2>1 DEF TypeOK, blockVars
    <2>3. Running' = Running
        BY <2>1 DEF Running, blockVars
    <2> QED BY <2>1, <2>2, <2>3 DEF TypeOK, Alive, configVars, executionVars, mainVars, blockVars
<1>5. CASE UNCHANGED vars
    BY <1>5 DEF TypeOK, Alive, Running, vars, configVars, executionVars, mainVars, blockVars
<1> QED BY <1>1, <1>2, <1>3, <1>4, <1>5, MainKeepsTypes, WatchKeepsTypes, PanicKeepsTypes, HandleBlockKeepsTypes,
       RunTaskKeepsTypes DEF Next

-----------------------------------------------------------------------------
(* What is accepted, and what is watched.                                  *)

\* Every step keeps what is kept valid.
LEMMA ValidityKept ==
    ASSUME TypeOK, ConfigurationIsValid, [Next]_vars
    PROVE  ConfigurationIsValid'
<1>1. CASE LoadConfiguration
    BY <1>1, LoadKeepsValidity DEF LoadConfiguration
<1>2. CASE Restart
    <2>1. loading' = "networks" /\ networks' = Nothing /\ triggers' = Nothing /\ monitors' = Nothing
        BY <1>2 DEF Restart
    <2> QED BY <2>1 DEF ConfigurationIsValid, Nothing
<1>3. CASE UNCHANGED configVars
    BY <1>3, ValidityStays DEF ConfigurationIsValid, configVars
<1> QED BY <1>1, <1>2, <1>3, ConfigurationSteps

\* Every step keeps the phase fitting the loading.
LEMMA PhaseKept ==
    ASSUME TypeOK, PhaseFitsLoading, [Next]_vars
    PROVE  PhaseFitsLoading'
<1>1. CASE LoadConfiguration
    <2>1. /\ phase = "loading"
          /\ phase' = CASE loading' = "rejected" -> "exited"
                        [] loading' = "accepted" /\ Command.mode = "check" -> "exited"
                        [] loading' = "accepted" /\ Command.mode # "check" -> "scripts"
                        [] OTHER -> "loading"
        BY <1>1 DEF LoadConfiguration, Become
    <2>2. /\ phase' \in {"loading", "scripts", "exited"}
          /\ phase' = "loading" => loading' \notin {"accepted", "rejected"}
          /\ phase' = "scripts" => loading' = "accepted"
        BY <2>1
    <2> QED BY <2>2 DEF PhaseFitsLoading, LivePhases
<1>2. CASE Restart
    BY <1>2 DEF Restart, PhaseFitsLoading, LivePhases
<1>3. CASE UNCHANGED configVars /\ ~ Restart /\ ~ LoadConfiguration
    <2>1. loading' = loading
        BY <1>3 DEF configVars
    <2>2. \/ phase' = phase
          \/ phase \in {"scripts", "executing"} \union LivePhases /\ phase' # "loading"
          \/ phase' \in {"exited", "crashed"}
        BY <1>3 DEF Next, Main, LoadScripts, ExecuteMonitor, Become, StartWatcher, ClientFails, Started, StopWatcher,
                    Sleep, Exit, Signal, Crash, End, Watch, Panic, NewBlock, HandleBlocks, RunTasks, mainVars, vars, LivePhases
    <2> QED BY <2>1, <2>2 DEF PhaseFitsLoading, LivePhases
<1> QED BY <1>1, <1>2, <1>3, ConfigurationSteps

\* The watchers of a process that starts or runs.
LEMMA StartedKept ==
    ASSUME TypeOK, PhaseFitsLoading, NetworksAreStarted, [Next]_vars
    PROVE  NetworksAreStarted'
<1> DEFINE Accounted(k) == k \in toStart \/ networks[k].slug \in watchers \/ GivenUp(k)
<1>1. SUFFICES ASSUME phase' \in {"starting", "running"}
               PROVE  NetworksAreStarted'
    BY DEF NetworksAreStarted
<1>2. CASE LoadScripts
    <2>1. toStart' = WithMonitors /\ phase' = "starting" /\ UNCHANGED <<configVars>>
        BY <1>1, <1>2 DEF LoadScripts, Become
    <2>2. WithMonitors' = WithMonitors
        BY <2>1 DEF WithMonitors, Applicable, ActiveMonitors, configVars
    <2> QED BY <2>1, <2>2 DEF NetworksAreStarted
<1>3. CASE phase \in {"starting", "running"} /\ ~ LoadScripts
    <2>1. UNCHANGED configVars
        BY <1>3, ConfigurationSteps DEF LoadConfiguration, Restart
    <2>2. WithMonitors' = WithMonitors
        BY <2>1 DEF WithMonitors, Applicable, ActiveMonitors, configVars
    <2>3. \A k \in WithMonitors : Accounted(k)
        BY <1>3 DEF NetworksAreStarted
    <2>4. /\ watchers \subseteq watchers' /\ unreachable \subseteq unreachable'
          /\ \A k \in toStart \ toStart' : networks[k].slug \in watchers' \/ networks[k].slug \in unreachable'
                                              \/ ~ HasEndpoint(networks[k]) \/ ~ SchedulesJobs(networks[k])
        <3>1. CASE \E k \in toStart : StartWatcher(k) \/ ClientFails(k)
            BY <3>1 DEF StartWatcher, ClientFails
        <3>2. CASE UNCHANGED <<toStart, watchers, unreachable>>
            BY <3>2
        <3>3. ~ Crash /\ ~ Exit /\ ~ LoadConfiguration /\ ~ Restart /\ (\A n \in watchers : ~ StopWatcher(n))
            BY <1>1, <1>3 DEF Crash, Exit, End, LoadConfiguration, Restart, StopWatcher
        <3> QED BY <1>3, <3>1, <3>2, <3>3
                DEF Next, Main, ExecuteMonitor, Become, Started, Sleep, Signal, Watch, Panic, NewBlock, HandleBlocks, RunTasks,
                    mainVars, vars
    <2>5. \A k : HasEndpoint(networks[k])' <=> HasEndpoint(networks[k])
        BY <2>1 DEF HasEndpoint, configVars
    <2>6. \A k : SchedulesJobs(networks[k])' <=> SchedulesJobs(networks[k])
        BY <2>1 DEF SchedulesJobs, configVars
    <2>7. networks' = networks
        BY <2>1 DEF configVars
    <2>8. \A k \in WithMonitors : Accounted(k)'
        BY <2>3, <2>4, <2>5, <2>6, <2>7 DEF GivenUp
    <2>9. phase' = "running" => toStart' = {}
        <3>1. CASE Started
            BY <3>1 DEF Started, Become
        <3>2. CASE phase' = phase
            <4>1. CASE phase = "starting"
                BY <3>2, <4>1
            <4>2. CASE phase = "running"
                <5>1. toStart = {}
                    BY <4>2 DEF NetworksAreStarted
                <5>2. toStart' = {}
                    BY <1>3, <4>2, <5>1, <3>2
                       DEF Next, Main, LoadConfiguration, ExecuteMonitor, Become, StartWatcher, ClientFails, Started,
                           StopWatcher, Sleep, Exit, Signal, Crash, End, Restart, Watch, Panic, NewBlock, HandleBlocks, RunTasks,
                           mainVars, vars
                <5> QED BY <5>2
            <4> QED BY <1>3, <4>1, <4>2
        <3> QED BY <1>1, <1>3, <3>1, <3>2
                DEF Next, Main, LoadConfiguration, ExecuteMonitor, Become, StartWatcher, ClientFails, StopWatcher,
                    Sleep, Exit, Signal, Crash, End, Restart, Watch, Panic, NewBlock, HandleBlocks, RunTasks, mainVars, vars
    <2> QED BY <2>2, <2>8, <2>9 DEF NetworksAreStarted
<1>4. phase \in {"starting", "running"} \/ LoadScripts
    BY <1>1 DEF Next, Main, LoadConfiguration, ExecuteMonitor, Become, StartWatcher, ClientFails, Started, StopWatcher,
                Sleep, Exit, Signal, Crash, End, Restart, Watch, Panic, NewBlock, HandleBlocks, RunTasks, mainVars, vars
<1> QED BY <1>2, <1>3, <1>4

\* The inductive invariant holds, whatever the installation.
THEOREM ServiceInvariance == Spec => []IInv
<1>1. Init => IInv
    <2> SUFFICES ASSUME Init PROVE IInv
        OBVIOUS
    <2>1. /\ loading = "networks" /\ networks = Nothing /\ triggers = Nothing /\ monitors = Nothing
          /\ executing = "no" /\ found = {} /\ handled = {}
        BY DEF Init, ConfigInit, ExecutionInit
    <2>2. ~ Alive /\ phase = "loading" /\ shutdown = FALSE
        BY DEF Init, Alive, LivePhases
    <2>3. /\ stage \in [Block -> Piped \union {"none", "over", "lost"}]
          /\ task \in [Block -> {"none", "running", "done", "stopped"}] /\ Running = {}
        BY DEF Init, Running
    <2>4. /\ toStart = {} /\ watchers = {} /\ ticking = {} /\ hears = {} /\ disturbed = {}
          /\ head = [n \in Slugs |-> 1] /\ saved = [n \in Slugs |-> 1]
          /\ from = [n \in Slugs |-> 0] /\ upto = [n \in Slugs |-> 0]
        BY DEF Init
    <2>5. TypeOK
        <3>1. /\ {head, saved, from, upto} \subseteq [Slugs -> Nat]
              /\ \A n \in Slugs : saved[n] <= head[n] /\ upto[n] <= head[n]
            BY <2>4
        <3>2. phase \in {"loading", "scripts", "executing", "exited", "crashed"} \union LivePhases
            BY <2>2
        <3>3. /\ toStart \subseteq DOMAIN networks
              /\ ticking \subseteq {networks[k].slug : k \in DOMAIN networks}
              /\ watchers \subseteq ticking
            BY <2>4
        <3>4. loading \in Kinds
            BY <2>1 DEF Kinds
        <3> QED BY <2>1, <2>2, <2>3, <2>4, <3>1, <3>2, <3>3, <3>4 DEF TypeOK
    <2>6. ConfigurationIsValid
        BY <2>1 DEF ConfigurationIsValid, Nothing
    <2>7. PhaseFitsLoading /\ NetworksAreStarted
        BY <2>1, <2>2 DEF PhaseFitsLoading, NetworksAreStarted, LivePhases
    <2> QED BY <2>5, <2>6, <2>7 DEF IInv
<1>2. IInv /\ [Next]_vars => IInv'
    BY TypesKept, ValidityKept, PhaseKept, StartedKept DEF IInv
<1> QED BY <1>1, <1>2, PTL DEF Spec

\* An accepted configuration is complete: each monitor's networks, triggers and scripts are there
\* and valid (Configuration::validate_monitor_references, repositories/monitor.rs:104-196).
THEOREM CompletelyAccepted == Spec => []AcceptedIsComplete
<1>1. IInv => AcceptedIsComplete
    BY DEF IInv, ConfigurationIsValid, AcceptedIsComplete, ValidMonitor, ValidReferences
<1> QED BY <1>1, ServiceInvariance, PTL

\* Every network of an active monitor is watched while the service runs, whatever happened to the
\* others, unless it was given up (main.rs:318-436).
THEOREM ActivelyWatched == Spec => []ActiveNetworksAreWatched
<1>1. IInv => ActiveNetworksAreWatched
    <2> SUFFICES ASSUME IInv, phase = "running",
                        NEW m \in ActiveMonitors, NEW k \in m.networks,
                        networks[k].slug = k
                 PROVE  \/ networks[k].slug \in watchers
                        \/ ~HasEndpoint(networks[k]) \/ ~SchedulesJobs(networks[k])
                        \/ networks[k].slug \in unreachable
        BY DEF ActiveNetworksAreWatched
    <2>1. loading = "accepted"
        BY DEF IInv, PhaseFitsLoading, LivePhases
    <2>2. k \in DOMAIN networks
        BY <2>1 DEF IInv, ConfigurationIsValid, ValidReferences, ActiveMonitors
    <2>3. k \in WithMonitors
        BY <2>2 DEF WithMonitors, Applicable
    <2> QED BY <2>3 DEF IInv, NetworksAreStarted, GivenUp
<1> QED BY <1>1, ServiceInvariance, PTL

-----------------------------------------------------------------------------
(* Matches that are behind the last processed block.                       *)

\* Every monitor that was read stays, under its file's stem.
LEMMA MonitorsStay ==
    ASSUME KeysDiffer, installation \in Installations, MonitorsAreKept, [Next]_vars
    PROVE  installation' = installation /\ MonitorsAreKept'
<1>1. CASE LoadConfiguration
    <2>1. Load
        BY <1>1 DEF LoadConfiguration
    <2>2. CASE NoDirectory
        BY <2>2 DEF NoDirectory, Reject, MonitorsAreKept
    <2>3. CASE NextKind
        <3>1. /\ UNCHANGED <<installation, monitors>>
              /\ files = {}
              /\ \/ loading' = "triggers"
                 \/ loading' = "monitors" /\ files' = installation.monitors
                 \/ loading = "monitors" /\ loading' = "references"
            BY <2>3 DEF NextKind, Kinds
        <3> QED BY <3>1 DEF MonitorsAreKept
    <2>4. CASE CheckReferences
        BY <2>4 DEF CheckReferences, Reject, MonitorsAreKept
    <2>5. ASSUME NEW f \in files, ReadFile(f)
          PROVE  installation' = installation /\ MonitorsAreKept'
        <3>1. CASE ~ f.json
            <4>1. loading \in Kinds /\ files' = files \ {f} /\ UNCHANGED <<installation, loading, monitors>>
                BY <2>5, <3>1 DEF ReadFile
            <4> QED BY <3>1, <4>1 DEF MonitorsAreKept, Kinds
        <3>2. CASE f.json /\ Acceptable(loading, f)
            <4>1. loading \in Kinds /\ files' = files \ {f} /\ UNCHANGED <<installation, loading>>
                  /\ Keep(loading, f.items)
                BY <2>5, <3>2 DEF ReadFile
            <4>2. CASE loading = "monitors"
                <5>1. monitors' = Together(f.items, monitors)
                    BY <4>1, <4>2 DEF Keep
                <5>2. /\ DOMAIN monitors' = DOMAIN f.items \cup DOMAIN monitors
                      /\ \A k \in DOMAIN f.items : monitors'[k] = f.items[k]
                      /\ \A k \in DOMAIN monitors \ DOMAIN f.items : monitors'[k] = monitors[k]
                    BY <5>1 DEF Together
                <5>3. files \subseteq installation.monitors /\ files' \subseteq installation.monitors
                    BY <4>1, <4>2 DEF MonitorsAreKept
                <5>4. ASSUME NEW g \in installation.monitors, g.json, g \notin files'
                      PROVE  \A k \in DOMAIN g.items : k \in DOMAIN monitors' /\ monitors'[k] = g.items[k]
                    <6>1. CASE g = f
                        BY <5>2, <6>1
                    <6>2. CASE g # f
                        <7>1. g \notin files
                            BY <4>1, <5>4, <6>2
                        <7>2. \A k \in DOMAIN g.items : k \in DOMAIN monitors /\ monitors[k] = g.items[k]
                            BY <4>2, <5>4, <7>1 DEF MonitorsAreKept
                        <7>3. f \in installation.monitors
                            BY <5>3
                        <7>4. DOMAIN f.items \cap DOMAIN g.items = {}
                            BY <3>2, <5>4, <6>2, <7>3 DEF KeysDiffer
                        <7> QED BY <5>2, <7>2, <7>4
                    <6> QED BY <6>1, <6>2
                <5> QED BY <4>1, <4>2, <5>3, <5>4 DEF MonitorsAreKept
            <4>3. CASE loading # "monitors"
                <5>1. monitors' = monitors
                    BY <4>1, <4>3 DEF Keep
                <5> QED BY <4>1, <4>3, <5>1 DEF MonitorsAreKept, Kinds
            <4> QED BY <4>2, <4>3
        <3>3. CASE f.json /\ ~ Acceptable(loading, f)
            BY <2>5, <3>3 DEF ReadFile, Reject, MonitorsAreKept
        <3> QED BY <3>1, <3>2, <3>3
    <2> QED BY <2>1, <2>2, <2>3, <2>4, <2>5 DEF Load
<1>2. CASE Restart
    BY <1>2 DEF Restart, MonitorsAreKept
<1>3. CASE UNCHANGED configVars
    BY <1>3 DEF MonitorsAreKept, configVars
<1> QED BY <1>1, <1>2, <1>3, ConfigurationSteps

\* While the process lives, a monitor that is not paused is one of the applicable ones.
LEMMA MatchedIsFound ==
    ASSUME PhaseFitsLoading, MonitorsAreKept, Alive,
           NEW o, Matched(o)
    PROVE  HasMatch(o)
<1>1. loading = "accepted"
    BY DEF PhaseFitsLoading, Alive
<1>2. PICK m \in EveryMonitor : ~ m.paused /\ o[1] \in m.networks /\ o \in m.blocks
    BY DEF Matched
<1>3. PICK f \in installation.monitors : f.json /\ \E k \in DOMAIN f.items : m = f.items[k]
    BY <1>2 DEF EveryMonitor, Items
<1>4. PICK k \in DOMAIN f.items : m = f.items[k]
    BY <1>3
<1>5. k \in DOMAIN monitors /\ monitors[k] = m
    BY <1>1, <1>3, <1>4 DEF MonitorsAreKept
<1>6. m \in ActiveMonitors
    BY <1>2, <1>5 DEF ActiveMonitors
<1> QED BY <1>2, <1>6 DEF HasMatch, Applicable

\* Which blocks match does not depend on the state.
LEMMA MatchedStays ==
    ASSUME installation' = installation
    PROVE  \A o : Matched(o)' <=> Matched(o)
BY DEF Matched, EveryMonitor

\* A block that no step of its own concerns.
LEMMA AccountedStays ==
    ASSUME NEW o \in Block, MatchesAccounted(o), installation' = installation,
           stage'[o] = stage[o], task'[o] = task[o], saved'[o[1]] = saved[o[1]],
           from'[o[1]] = from[o[1]], upto'[o[1]] = upto[o[1]],
           o \in disturbed => o \in disturbed',
           \A kind \in {"filter", "task"} : <<kind, o>> \in hears' => <<kind, o>> \in hears,
           shutdown' = shutdown
    PROVE  MatchesAccounted(o)'
<1>1. Matched(o)' <=> Matched(o)
    BY MatchedStays
<1>2. Passed(o)' <=> Passed(o)
    BY DEF Passed
<1> QED BY <1>1, <1>2 DEF MatchesAccounted

\* A step of a block's handler.
LEMMA HandledAccounted ==
    ASSUME IInv, MonitorsAreKept, installation' = installation,
           \A p \in Block : MatchesAccounted(p),
           NEW o \in Block, HandleBlocks(o)
    PROVE  \A p \in Block : MatchesAccounted(p)'
<1> USE DEF EndsFilter, Stage
<1>1. /\ Alive /\ HandleBlock(o)
      /\ UNCHANGED <<shutdown, saved, from, upto>>
    BY DEF HandleBlocks, mainVars, HandleBlock, BeginBlock, FilterBlock, FilterFails, FilterIsCancelled, HandOver
<1>2. /\ stage \in [Block -> Piped \union {"none", "over", "lost"}]
      /\ task \in [Block -> {"none", "running", "done", "stopped"}]
      /\ shutdown \in BOOLEAN
    BY DEF IInv, TypeOK
<1>3. ASSUME NEW p \in Block, p # o
      PROVE  MatchesAccounted(p)'
    <2>1. stage'[p] = stage[p] /\ task'[p] = task[p]
        BY <1>1, <1>2, <1>3 DEF HandleBlock, BeginBlock, FilterBlock, FilterFails, FilterIsCancelled, HandOver
    <2>2. p \in disturbed => p \in disturbed'
        BY <1>1 DEF HandleBlock, BeginBlock, FilterBlock, FilterFails, FilterIsCancelled, HandOver
    <2>3. \A kind \in {"filter", "task"} : <<kind, p>> \in hears' => <<kind, p>> \in hears
        BY <1>1, <1>3 DEF HandleBlock, BeginBlock, FilterBlock, FilterFails, FilterIsCancelled, HandOver, Hear
    <2> QED BY <1>1, <2>1, <2>2, <2>3, AccountedStays
<1>4. MatchesAccounted(o)'
    <2>1. MatchesAccounted(o)
        OBVIOUS
    <2>2. Matched(o)' <=> Matched(o)
        BY MatchedStays
    <2>3. stage[o] # "none" /\ ~ (o[2] <= saved[o[1]])
        <3>1. o[2] \in Nat /\ saved[o[1]] \in Nat
            BY BlockTypes DEF IInv, TypeOK
        <3>2. stage[o] # "none"
            BY <1>1 DEF HandleBlock, BeginBlock, FilterBlock, FilterFails, FilterIsCancelled, HandOver
        <3> QED BY <2>1, <3>1, <3>2 DEF MatchesAccounted
    <2>4. ASSUME NEW s, s # "over", stage' = [stage EXCEPT ![o] = s],
                 o \in disturbed => o \in disturbed',
                 s = "filtering" /\ shutdown /\ <<"filter", o>> \in hears' => o \in disturbed',
                 s \in {"empty", "lost"} /\ Matched(o) => o \in disturbed'
          PROVE  MatchesAccounted(o)'
        <3>1. stage'[o] = s
            BY <1>2, <2>4
        <3>2. ~ Passed(o)'
            BY <1>1, <2>3, <2>4, <3>1 DEF Passed
        <3> QED BY <1>1, <2>1, <2>2, <2>3, <2>4, <3>1, <3>2 DEF MatchesAccounted
    <2>5. CASE BeginBlock(o)
        BY <2>4, <2>5 DEF BeginBlock, Hear
    <2>6. CASE FilterBlock(o)
        <3>1. Matched(o) => HasMatch(o)
            BY <1>1, MatchedIsFound DEF IInv
        <3> QED BY <2>4, <2>6, <3>1 DEF FilterBlock
    <2>7. CASE FilterFails(o)
        BY <2>4, <2>7 DEF FilterFails
    <2>8. CASE FilterIsCancelled(o)
        <3>1. o \in disturbed
            BY <2>1, <2>8 DEF FilterIsCancelled, MatchesAccounted
        <3> QED BY <2>4, <2>8, <3>1 DEF FilterIsCancelled
    <2>9. CASE HandOver(o)
        <3>1. stage'[o] = "over" /\ disturbed' = disturbed
            BY <1>2, <2>9 DEF HandOver
        <3>2. CASE stage[o] = "found"
            <4>1. task'[o] = "running" /\ (shutdown => <<"task", o>> \notin hears')
                BY <1>2, <2>9, <3>2 DEF HandOver, Hear
            <4> QED BY <1>1, <2>1, <2>2, <2>3, <3>1, <4>1 DEF MatchesAccounted
        <3>3. CASE stage[o] = "empty"
            <4>1. Matched(o) => o \in disturbed
                BY <2>1, <3>3 DEF MatchesAccounted
            <4> QED BY <1>1, <2>1, <2>2, <2>3, <3>1, <4>1 DEF MatchesAccounted
        <3> QED BY <2>9, <3>2, <3>3 DEF HandOver
    <2> QED BY <1>1, <2>5, <2>6, <2>7, <2>8, <2>9 DEF HandleBlock
<1> QED BY <1>3, <1>4

\* The end of a task.
LEMMA TasksAccounted ==
    ASSUME IInv, installation' = installation,
           \A p \in Block : MatchesAccounted(p),
           NEW o \in Block, RunTasks(o)
    PROVE  \A p \in Block : MatchesAccounted(p)'
<1>1. /\ RunTask(o) /\ UNCHANGED <<shutdown, saved, from, upto, stage, disturbed>>
      /\ task[o] = "running" /\ hears' = hears \ {<<"task", o>>}
    BY DEF RunTasks, mainVars, RunTask, TaskEnds, TaskIsCancelled, EndsTask
<1>2. PICK result \in {"done", "stopped"} :
          /\ task' = [task EXCEPT ![o] = result]
          /\ result = "stopped" => shutdown /\ <<"task", o>> \in hears
    BY <1>1 DEF RunTask, TaskEnds, TaskIsCancelled, EndsTask
<1>3. task'[o] = result /\ \A p \in Block \ {o} : task'[p] = task[p]
    BY <1>2 DEF IInv, TypeOK
<1>4. ASSUME NEW p \in Block, p # o
      PROVE  MatchesAccounted(p)'
    BY <1>1, <1>3, <1>4, AccountedStays
<1>5. MatchesAccounted(o)'
    <2>1. MatchesAccounted(o) /\ (Matched(o)' <=> Matched(o)) /\ (Passed(o)' <=> Passed(o))
        BY <1>1, MatchedStays DEF Passed
    <2>2. result = "stopped" /\ Passed(o) /\ Matched(o) => o \in disturbed
        BY <1>2, <2>1 DEF MatchesAccounted
    <2> QED BY <1>1, <1>3, <2>1, <2>2 DEF MatchesAccounted
<1> QED BY <1>4, <1>5

\* A handler that panics.
LEMMA PanicAccounted ==
    ASSUME IInv, installation' = installation,
           \A p \in Block : MatchesAccounted(p),
           NEW n \in Slugs, Panic(n)
    PROVE  \A p \in Block : MatchesAccounted(p)'
<1> DEFINE dropped == {p \in Block : p[1] = n /\ stage[p] \in {"queued", "filtering"}}
<1>1. /\ UNCHANGED <<shutdown, saved, from, upto, task>>
      /\ stage' = [p \in Block |-> IF p \in dropped THEN "lost" ELSE stage[p]]
      /\ hears' \subseteq hears /\ disturbed' = disturbed \union dropped
    BY DEF Panic, HandlerPanics, mainVars
<1> SUFFICES ASSUME NEW o \in Block PROVE MatchesAccounted(o)'
    OBVIOUS
<1>2. CASE o \notin dropped
    <2>1. stage'[o] = stage[o]
        BY <1>1, <1>2
    <2> QED BY <1>1, <2>1, AccountedStays
<1>3. CASE o \in dropped
    <2>1. stage'[o] = "lost" /\ o \in disturbed' /\ stage[o] # "none" /\ stage[o] # "over"
        BY <1>1, <1>3
    <2>2. MatchesAccounted(o)
        OBVIOUS
    <2> QED BY <1>1, <2>1, <2>2 DEF MatchesAccounted
<1> QED BY <1>2, <1>3

\* A run that begins.
LEMMA TickAccounted ==
    ASSUME IInv, installation' = installation, shutdown' = shutdown,
           \A p \in Block : MatchesAccounted(p),
           NEW n \in Slugs, Tick(n)
    PROVE  \A p \in Block : MatchesAccounted(p)'
<1> DEFINE Range(o) == o[1] = n /\ saved[n] < o[2] /\ o[2] <= head[n]
<1>1. /\ UNCHANGED <<saved, task, hears>> /\ upto[n] = 0
      /\ upto' = [upto EXCEPT ![n] = head[n]]
      /\ from' \in [Slugs -> Nat] /\ saved[n] < from'[n]
      /\ \A i \in Slugs \ {n} : from'[i] = from[i]
    <2>1. \A i \in Slugs \ {n} : from'[i] = from[i]
        BY DEF Tick, IInv, TypeOK
    <2> QED BY <2>1, TickStarts DEF Tick, IInv
<1>2. PICK delivered \in SUBSET InRun(n)' :
          /\ stage' = [o \in Block |-> IF o \in delivered THEN "queued"
                                       ELSE IF o \in InRun(n)' THEN "lost" ELSE stage[o]]
          /\ disturbed' = {o \in Block : IF Range(o) THEN o \notin delivered ELSE o \in disturbed}
    BY DEF Tick
<1> SUFFICES ASSUME NEW o \in Block PROVE MatchesAccounted(o)'
    OBVIOUS
<1>3. /\ o[1] \in Slugs /\ o[2] \in Nat /\ 2 <= o[2]
      /\ saved \in [Slugs -> Nat] /\ upto \in [Slugs -> Nat] /\ head \in [Slugs -> Nat]
    BY BlockTypes DEF IInv, TypeOK
<1>4. upto'[n] = head[n]
    BY <1>1, <1>3
<1>5. o \in InRun(n)' <=> o[1] = n /\ from'[n] <= o[2] /\ o[2] <= head[n]
    BY <1>4 DEF InRun
<1>6. CASE o[1] # n
    <2>1. /\ o \notin InRun(n)' /\ upto'[o[1]] = upto[o[1]] /\ from'[o[1]] = from[o[1]]
        BY <1>1, <1>3, <1>5, <1>6
    <2>2. stage'[o] = stage[o] /\ (o \in disturbed => o \in disturbed')
        BY <1>2, <1>6, <2>1
    <2> QED BY <1>1, <2>1, <2>2, AccountedStays
<1>7. CASE o[1] = n
    <2>1. MatchesAccounted(o) /\ (Matched(o)' <=> Matched(o))
        BY MatchedStays
    <2>2. stage[o] = "none"
        BY <1>1, <1>3, <1>7, <2>1 DEF MatchesAccounted
    <2>3. CASE Range(o)
        <3>1. o \in disturbed' <=> o \notin delivered
            BY <1>2, <2>3
        <3>2. stage'[o] = IF o \in delivered THEN "queued" ELSE IF o \in InRun(n)' THEN "lost" ELSE "none"
            BY <1>2, <2>2
        <3>3. ~ Passed(o)'
            BY <1>1, <1>3, <1>7, <2>3, <3>2 DEF Passed
        <3>4. o \in delivered => from'[n] <= o[2]
            BY <1>2, <1>5
        <3>5. stage'[o] # "none" => from'[n] <= o[2]
            BY <1>5, <3>2, <3>4
        <3>6. o[2] < from'[n] => o \in disturbed'
            BY <1>1, <1>3, <3>1, <3>4
        <3>7. stage'[o] = "lost" => o \in disturbed'
            BY <3>1, <3>2
        <3>8. stage'[o] \in {"queued", "lost", "none"}
            BY <3>2
        <3> QED BY <1>1, <1>4, <1>7, <2>1, <2>3, <3>3, <3>5, <3>6, <3>7, <3>8 DEF MatchesAccounted
    <2>4. CASE ~ Range(o)
        <3>1. o \notin InRun(n)'
            BY <1>1, <1>3, <1>5, <1>7, <2>4
        <3>2. stage'[o] = "none" /\ (o \in disturbed' <=> o \in disturbed)
            BY <1>2, <2>2, <2>4, <3>1
        <3>3. Passed(o)' <=> Passed(o)
            BY <1>1, <2>2, <3>2 DEF Passed
        <3>4. ~ (saved'[o[1]] < o[2] /\ o[2] <= upto'[o[1]])
            BY <1>1, <1>4, <1>7, <2>4
        <3> QED BY <1>1, <2>1, <2>2, <3>2, <3>3, <3>4 DEF MatchesAccounted
    <2> QED BY <2>3, <2>4
<1> QED BY <1>6, <1>7

\* A run that ends, saved or not.
LEMMA EndedRunAccounted ==
    ASSUME IInv, installation' = installation, shutdown' = shutdown,
           \A p \in Block : MatchesAccounted(p),
           NEW n \in Slugs, Save(n) \/ RunFails(n)
    PROVE  \A p \in Block : MatchesAccounted(p)'
<1>1. /\ UNCHANGED <<task, hears, disturbed>> /\ PipeIsEmpty(n)
      /\ stage' = [o \in Block |-> IF o \in InRun(n) THEN "none" ELSE stage[o]]
      /\ from' = [from EXCEPT ![n] = 0] /\ upto' = [upto EXCEPT ![n] = 0]
      /\ saved' = saved \/ saved' = [saved EXCEPT ![n] = upto[n]]
    BY DEF Save, RunFails, EndsRun
<1> SUFFICES ASSUME NEW o \in Block PROVE MatchesAccounted(o)'
    OBVIOUS
<1>2. /\ o[1] \in Slugs /\ o[2] \in Nat /\ 2 <= o[2]
      /\ {saved, from, upto} \subseteq [Slugs -> Nat]
    BY BlockTypes DEF IInv, TypeOK
<1>3. o \in InRun(n) <=> o[1] = n /\ from[n] <= o[2] /\ o[2] <= upto[n]
    BY DEF InRun
<1>4. CASE o[1] # n
    <2>1. stage'[o] = stage[o] /\ from'[o[1]] = from[o[1]] /\ upto'[o[1]] = upto[o[1]] /\ saved'[o[1]] = saved[o[1]]
        BY <1>1, <1>2, <1>3, <1>4
    <2> QED BY <1>1, <2>1, AccountedStays
<1>5. CASE o[1] = n
    <2>1. MatchesAccounted(o) /\ (Matched(o)' <=> Matched(o))
        BY MatchedStays
    <2>2. stage'[o] = "none" /\ upto'[n] = 0
        BY <1>1, <1>2, <1>3, <1>5, <2>1 DEF MatchesAccounted
    <2>3. ASSUME Passed(o)', Matched(o)
          PROVE  Passed(o) \/ o \in disturbed
        <3>1. o[2] <= saved[n] \/ o[2] <= upto[n]
            BY <1>1, <1>2, <1>5, <2>2, <2>3 DEF Passed
        <3>2. CASE o[2] <= saved[n]
            BY <1>5, <3>2 DEF Passed
        <3>3. CASE saved[n] < o[2] /\ o[2] <= upto[n] /\ o[2] < from[n]
            BY <1>5, <2>1, <3>3 DEF MatchesAccounted
        <3>4. CASE o \in InRun(n)
            <4>1. stage[o] \in {"over", "lost"}
                BY <1>1, <3>4 DEF PipeIsEmpty
            <4> QED BY <2>1, <2>3, <4>1 DEF MatchesAccounted, Passed
        <3> QED BY <1>2, <1>3, <1>5, <3>1, <3>2, <3>3, <3>4
    <2>4. ~ (o[2] <= upto'[o[1]])
        BY <1>2, <1>5, <2>2
    <2> QED BY <1>1, <2>1, <2>2, <2>3, <2>4 DEF MatchesAccounted
<1> QED BY <1>4, <1>5

\* The end of the process.
LEMMA EndedAccounted ==
    ASSUME IInv, installation' = installation, saved' = saved,
           \A p \in Block : MatchesAccounted(p),
           NEW phase_, End(phase_)
    PROVE  \A p \in Block : MatchesAccounted(p)'
<1>1. /\ shutdown' = FALSE /\ upto' = [n \in Slugs |-> 0]
      /\ stage' = [o \in Block |-> "none"]
      /\ task' = [o \in Block |-> IF o \in Running THEN "stopped" ELSE task[o]]
      /\ disturbed' = {o \in disturbed \union Running : o[2] <= saved[o[1]]}
    BY DEF End
<1> SUFFICES ASSUME NEW o \in Block PROVE MatchesAccounted(o)'
    OBVIOUS
<1>2. MatchesAccounted(o) /\ (Matched(o)' <=> Matched(o))
    BY MatchedStays
<1>3. ~ (o[2] <= upto'[o[1]])
    BY <1>1, BlockTypes
<1>4. ASSUME Passed(o)', Matched(o), o \notin disturbed'
      PROVE  task'[o] \in {"running", "done"}
    <2>1. o[2] <= saved[o[1]]
        BY <1>1, <1>4 DEF Passed
    <2>2. o \notin disturbed /\ o \notin Running
        BY <1>1, <1>4, <2>1
    <2>3. task[o] \in {"running", "done"}
        BY <1>2, <1>4, <2>1, <2>2 DEF MatchesAccounted, Passed
    <2> QED BY <1>1, <2>2, <2>3
<1> QED BY <1>1, <1>2, <1>3, <1>4 DEF MatchesAccounted

\* Every step keeps each block accounted for.
LEMMA MatchesStayAccounted ==
    ASSUME IInv, MonitorsAreKept, installation' = installation,
           \A p \in Block : MatchesAccounted(p),
           [Next]_vars
    PROVE  \A p \in Block : MatchesAccounted(p)'
<1>1. CASE Signal
    <2>1. /\ UNCHANGED <<stage, task, saved, from, upto, hears>>
          /\ disturbed' = disturbed \union {x[2] : x \in hears}
        BY <1>1 DEF Signal
    <2>2. ASSUME NEW p \in Block
          PROVE  MatchesAccounted(p)'
        <3>1. \A kind : <<kind, p>> \in hears => p \in disturbed'
            BY <2>1
        <3>2. (Matched(p)' <=> Matched(p)) /\ (Passed(p)' <=> Passed(p))
            BY <2>1, MatchedStays DEF Passed
        <3>3. MatchesAccounted(p)
            OBVIOUS
        <3> QED BY <2>1, <3>1, <3>2, <3>3 DEF MatchesAccounted
    <2> QED BY <2>2
<1>2. CASE Exit \/ Crash
    <2>1. saved' = saved
        BY <1>2 DEF Exit, Crash
    <2>2. \E p : End(p)
        BY <1>2 DEF Exit, Crash
    <2> QED BY <2>1, <2>2, EndedAccounted
<1>3. ASSUME NEW n \in Slugs, Watch(n)
      PROVE  \A p \in Block : MatchesAccounted(p)'
    <2>1. shutdown' = shutdown
        BY <1>3 DEF Watch, mainVars
    <2> QED BY <1>3, <2>1, TickAccounted, EndedRunAccounted DEF Watch
<1>4. ASSUME NEW n \in Slugs, Panic(n)
      PROVE  \A p \in Block : MatchesAccounted(p)'
    BY <1>4, PanicAccounted
<1>5. ASSUME NEW o \in Block, HandleBlocks(o) \/ RunTasks(o)
      PROVE  \A p \in Block : MatchesAccounted(p)'
    BY <1>5, HandledAccounted, TasksAccounted
<1>6. CASE UNCHANGED <<blockVars, shutdown>>
    BY <1>6, AccountedStays DEF blockVars
<1>7. \/ Signal \/ Exit \/ Crash
      \/ \E n \in Slugs : Watch(n) \/ Panic(n)
      \/ \E o \in Block : HandleBlocks(o) \/ RunTasks(o)
      \/ UNCHANGED <<blockVars, shutdown>>
    BY DEF Next, Main, LoadConfiguration, LoadScripts, ExecuteMonitor, Become, StartWatcher, ClientFails, Started,
           StopWatcher, Sleep, Restart, NewBlock, vars, mainVars
<1> QED BY <1>1, <1>2, <1>3, <1>4, <1>5, <1>6, <1>7

\* A match behind the last processed block is accounted for, when each monitor that was read is kept.
THEOREM PeaceInvariance == KeysDiffer => (Spec => []PeaceInv)
<1> SUFFICES ASSUME KeysDiffer PROVE Spec => []PeaceInv
    OBVIOUS
<1>1. Init => installation \in Installations /\ MonitorsAreKept /\ \A o \in Block : MatchesAccounted(o)
    <2> SUFFICES ASSUME Init
                 PROVE  installation \in Installations /\ MonitorsAreKept /\ \A o \in Block : MatchesAccounted(o)
        OBVIOUS
    <2>1. installation \in Installations /\ loading = "networks"
        BY DEF Init, ConfigInit
    <2>2. MonitorsAreKept
        BY <2>1 DEF MonitorsAreKept
    <2>3. ASSUME NEW o \in Block
          PROVE  MatchesAccounted(o)
        <3>1. o[1] \in Slugs /\ o[2] \in Nat /\ 2 <= o[2]
            BY BlockTypes
        <3>2. stage[o] = "none" /\ saved[o[1]] = 1 /\ upto[o[1]] = 0
            BY <3>1 DEF Init
        <3>3. ~ Passed(o) /\ ~ (o[2] <= upto[o[1]])
            BY <3>1, <3>2 DEF Passed
        <3> QED BY <3>2, <3>3 DEF MatchesAccounted
    <2> QED BY <2>1, <2>2, <2>3
<1>2. /\ installation \in Installations /\ MonitorsAreKept /\ (\A o \in Block : MatchesAccounted(o))
      /\ IInv /\ [Next]_vars
      => (installation \in Installations /\ MonitorsAreKept /\ \A o \in Block : MatchesAccounted(o))'
    BY MonitorsStay, MatchesStayAccounted
<1>3. (installation \in Installations /\ MonitorsAreKept /\ \A o \in Block : MatchesAccounted(o)) /\ IInv => PeaceInv
    BY DEF PeaceInv
<1> QED BY <1>1, <1>2, <1>3, ServiceInvariance, PTL DEF Spec

\* A match behind the last processed block has a task that executes its triggers or has done so,
\* unless its block was skipped, not delivered, dropped by a panic, in the way of a failing filter,
\* or in flight when the process was told to stop, exited or crashed
\* (bootstrap/mod.rs:255-276, blockwatcher/service.rs:453-732).
THEOREM NoMatchIsLost == KeysDiffer => (Spec => []NoMatchLost)
<1>1. PeaceInv => NoMatchLost
    <2> SUFFICES ASSUME PeaceInv, NEW o \in Block, o[2] <= saved[o[1]], o \notin disturbed
                 PROVE  \/ task[o] \in {"running", "done"}
                        \/ \A m \in EveryMonitor : m.paused \/ o[1] \notin m.networks \/ o \notin m.blocks
        BY DEF NoMatchLost
    <2>1. MatchesAccounted(o) /\ Passed(o)
        BY DEF PeaceInv, Passed
    <2> QED BY <2>1 DEF MatchesAccounted, Matched
<1> QED BY <1>1, PeaceInvariance, PTL
=============================================================================
