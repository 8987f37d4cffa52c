--------------------------- MODULE ServiceRuntime ---------------------------
(***************************************************************************)
(* The process: it loads the configuration and the scripts, starts a       *)
(* watcher for each network with active monitors, runs until ctrl-c or the *)
(* end of the metrics server, tells the shutdown to every task that        *)
(* subscribed, stops the watchers, waits one second and exits, which ends  *)
(* whatever still runs.  It may be killed at any time and started again;   *)
(* only the last processed blocks survive.                                 *)
(*                                                                         *)
(* A watcher's run takes the blocks after the last processed one that      *)
(* max_past_blocks does not skip, as far as its client delivers them; what *)
(* it leaves out is MissedBlockRecovery's.  The stages of BlockPipeline    *)
(* appear here as far as a panic, the shutdown, a failure or a crash can   *)
(* tell them apart: a block is filtered while it awaits its client and its *)
(* answers, a handler that panics takes the blocks with it that are not    *)
(* filtered yet, blocks are handed to the trigger handler in order, tasks  *)
(* run beside the watcher, and the last block is saved when nothing is     *)
(* left in the pipeline, whatever was lost there.  A run of a network      *)
(* begins only after the previous one has ended, and nodes do not go back  *)
(* (BlockWatcher looks at runs that overlap and answers that lag).         *)
(***************************************************************************)
EXTENDS MonitorExecution

CONSTANTS
    Slugs,           \* the networks that may be watched
    CronIntervalMs,  \* the time between two ticks of a cron_schedule
    LastBlock        \* bound: each chain's last block

ASSUME ChainsAssumption == CronIntervalMs \in Nat /\ LastBlock \in [Slugs -> Nat]

VARIABLES
    phase,       \* the stage of main
    toStart,     \* keys of the networks whose watchers main has still to start
    unreachable, \* networks that no client could be made for
    watchers,    \* active_watchers, by slug
    ticking,     \* the networks whose scheduler runs
    shutdown,    \* the shutdown channel's value
    head,        \* each chain's latest confirmed block
    saved,       \* the last processed block in each network's file
    from,        \* start_block of each network's run
    upto,        \* latest_confirmed_block of each network's run, 0 without one
    stage,       \* how far each block of a run is
    task,        \* the last task that each block's matches were handed to
    hears,       \* filters and tasks at work that subscribed before the shutdown
    disturbed,   \* history: blocks in the way of one of the events that may lose them
    restarts     \* how often the process was started again

\* Each chain's first block was processed before.
Block == UNION {{n} \X (2 .. LastBlock[n]) : n \in Slugs}

mainVars  == <<phase, toStart, unreachable, watchers, ticking, shutdown>>
blockVars == <<saved, from, upto, stage, task, hears, disturbed>>
vars      == <<configVars, executionVars, mainVars, blockVars, head, restarts>>

Piped == {"queued", "filtering", "found", "empty"}

Init ==
    /\ \E chosen \in Installations : ConfigInit(chosen)
    /\ ExecutionInit
    /\ phase = "loading"
    /\ toStart = {} /\ unreachable = {} /\ watchers = {} /\ ticking = {}
    /\ shutdown = FALSE
    /\ head = [n \in Slugs |-> 1]
    /\ saved = [n \in Slugs |-> 1]
    /\ from = [n \in Slugs |-> 0] /\ upto = [n \in Slugs |-> 0]
    /\ stage = [o \in Block |-> "none"] /\ task = [o \in Block |-> "none"]
    /\ hears = {} /\ disturbed = {}
    /\ restarts = 0

(***************************************************************************)
(* Startup.                                                                *)
(***************************************************************************)
Become(p) == phase' = p /\ UNCHANGED <<toStart, unreachable, watchers, ticking, shutdown>>

LoadConfiguration ==
    /\ phase = "loading" /\ Load
    /\ Become(CASE loading' = "rejected" -> "exited"
                [] loading' = "accepted" /\ Command.mode = "check" -> "exited"
                [] loading' = "accepted" /\ Command.mode # "check" -> "scripts"
                [] OTHER -> "loading")
    /\ UNCHANGED <<executionVars, blockVars, head, restarts>>

\* load_scripts reads the scripts of the active monitors; an unreadable one is
\* an error, as is no network with a monitor when there is no error to report.
LoadScripts ==
    /\ phase = "scripts"
    /\ IF \E m \in ActiveMonitors : \E p \in ScriptsOf(m) :
              p \notin DOMAIN installation.scripts \/ ~installation.scripts[p].readable
       THEN Become("exited")
       ELSE IF Command.mode = "execute" THEN Become("executing")
       ELSE IF WithMonitors = {} THEN Become("exited")
       ELSE /\ phase' = "starting"
            /\ toStart' = WithMonitors
            /\ UNCHANGED <<unreachable, watchers, ticking, shutdown>>
    /\ UNCHANGED <<configVars, executionVars, blockVars, head, restarts>>

ExecuteMonitor ==
    /\ phase = "executing" /\ Execute
    /\ Become(IF executing' \in {"done", "failed"} THEN "exited" ELSE "executing")
    /\ UNCHANGED <<configVars, blockVars, head, restarts>>

\* A client needs an endpoint with a weight that its transport can talk to.
HasEndpoint(n) ==
    \E u \in n.rpc_urls : u.weight > 0 /\ (n.network_type # "Midnight" => u.protocol \in {"http", "https"})

\* The recovery job's schedule is parsed only here.
SchedulesJobs(n) == \A r \in n.recovery_config : r.enabled => r.cron_schedule = "valid"

\* Mutant: the first watcher that does not start ends the loop.
StartWatcherOrGiveUp(k) ==
    /\ phase = "starting" /\ k \in toStart
    /\ LET n == networks[k]
       IN  /\ unreachable' = unreachable
           /\ IF HasEndpoint(n) /\ SchedulesJobs(n)
              THEN /\ watchers' = watchers \union {n.slug}
                   /\ ticking' = ticking \union {n.slug}
                   /\ toStart' = toStart \ {k}
              ELSE toStart' = {} /\ UNCHANGED <<watchers, ticking>>
    /\ UNCHANGED <<phase, shutdown, configVars, executionVars, blockVars, head, restarts>>

\* No endpoint answers: the network is logged and left out.
ClientFails(k) ==
    /\ phase = "starting" /\ k \in toStart
    /\ toStart' = toStart \ {k}
    /\ unreachable' = unreachable \union {networks[k].slug}
    /\ UNCHANGED <<phase, watchers, ticking, shutdown, configVars, executionVars, blockVars, head, restarts>>

\* start_network_watcher: a watcher whose jobs cannot be scheduled is dropped
\* with its scheduler.
StartWatcher(k) ==
    /\ phase = "starting" /\ k \in toStart
    /\ toStart' = toStart \ {k}
    /\ LET n == networks[k]
           started == IF HasEndpoint(n) /\ SchedulesJobs(n) THEN {n.slug} ELSE {}
       IN  watchers' = watchers \union started /\ ticking' = ticking \union started
    /\ UNCHANGED <<phase, unreachable, shutdown, configVars, executionVars, blockVars, head, restarts>>

Started ==
    /\ phase = "starting" /\ toStart = {}
    /\ Become("running")
    /\ UNCHANGED <<configVars, executionVars, blockVars, head, restarts>>

(***************************************************************************)
(* A watcher's run and the handlers.                                       *)
(***************************************************************************)
Stage(o, s) == stage' = [stage EXCEPT ![o] = s]

LivePhases == {"starting", "running", "stopping", "sleeping"}

Alive == phase \in LivePhases

\* create_block_handler looks for the monitors of the network's slug.
HasMatch(o) == \E m \in Applicable(o[1]) : o \in m.blocks

Earlier(o) == {p \in Block : p[1] = o[1] /\ from[o[1]] <= p[2] /\ p[2] < o[2]}

InRun(n) == {p \in Block : p[1] = n /\ from[n] <= p[2] /\ p[2] <= upto[n]}

PipeIsEmpty(n) == \A p \in InRun(n) : stage[p] \in {"over", "lost"}

\* get_recommended_past_blocks.
Recommended(net) == CronIntervalMs \div net.block_time_ms + net.confirmation_blocks + 1

PastBlocks(net) == IF net.max_past_blocks = {} THEN {Recommended(net)} ELSE net.max_past_blocks

\* max_past_blocks may skip blocks, and a client may leave any block of the range
\* out.  A tick whose requests fail changes nothing.
Tick(n) ==
    /\ n \in ticking /\ upto[n] = 0 /\ head[n] > saved[n]
    /\ \E k \in DOMAIN networks : \E past \in PastBlocks(networks[k]) :
           /\ networks[k].slug = n
           /\ from' = [from EXCEPT ![n] = IF head[n] <= saved[n] + past THEN saved[n] + 1 ELSE head[n] - past]
    /\ upto' = [upto EXCEPT ![n] = head[n]]
    /\ \E delivered \in SUBSET InRun(n)' :
           /\ stage' = [o \in Block |-> IF o \in delivered THEN "queued"
                                        ELSE IF o \in InRun(n)' THEN "lost" ELSE stage[o]]
           /\ disturbed' = {o \in Block : IF o[1] = n /\ saved[n] < o[2] /\ o[2] <= head[n]
                                          THEN o \notin delivered ELSE o \in disturbed}
    /\ UNCHANGED <<saved, task, hears>>

Hear(x) == hears' = IF shutdown THEN hears \ {x} ELSE hears \union {x}

\* The handler subscribes and asks for the client.
BeginBlock(o) ==
    /\ stage[o] = "queued"
    /\ \A p \in Earlier(o) : stage[p] # "queued"
    /\ Stage(o, "filtering") /\ Hear(<<"filter", o>>)
    /\ UNCHANGED <<saved, from, upto, task, disturbed>>

\* The filter ends, and its subscription with it.
EndsFilter(o, s) ==
    /\ stage[o] = "filtering"
    /\ Stage(o, s) /\ hears' = hears \ {<<"filter", o>>}
    /\ UNCHANGED <<saved, from, upto, task>>

FilterBlock(o) ==
    /\ EndsFilter(o, IF HasMatch(o) THEN "found" ELSE "empty")
    /\ UNCHANGED disturbed

\* No client, or an error of the filter: a block without matches.
FilterFails(o) ==
    /\ EndsFilter(o, "empty")
    /\ disturbed' = disturbed \union {o}

FilterIsCancelled(o) ==
    /\ shutdown /\ <<"filter", o>> \in hears
    /\ EndsFilter(o, "empty")
    /\ UNCHANGED disturbed

\* Stage 1 dies with the handlers in it and the blocks not read yet.
HandlerPanics(n) ==
    LET dropped == {p \in Block : p[1] = n /\ stage[p] \in {"queued", "filtering"}}
    IN  /\ \E p \in dropped : stage[p] = "filtering"
        /\ stage' = [p \in Block |-> IF p \in dropped THEN "lost" ELSE stage[p]]
        /\ hears' = hears \ ({"filter"} \X dropped)
        /\ disturbed' = disturbed \union dropped
        /\ UNCHANGED <<saved, from, upto, task>>

\* Mutant: what comes after a hole is not handed over when stage 1 has ended.
HandOverInSequence(o) ==
    /\ stage[o] \in {"found", "empty"}
    /\ \A p \in Earlier(o) : stage[p] = "over"
    /\ Stage(o, "over")
    /\ IF stage[o] = "found"
       THEN task' = [task EXCEPT ![o] = "running"] /\ Hear(<<"task", o>>)
       ELSE UNCHANGED <<task, hears>>
    /\ UNCHANGED <<saved, from, upto, disturbed>>

\* In order; what comes after a hole waits for the end of stage 1.
HandOver(o) ==
    /\ stage[o] \in {"found", "empty"}
    /\ \A p \in Earlier(o) : stage[p] \notin Piped
    /\ \/ \A p \in Earlier(o) : stage[p] = "over"
       \/ \A p \in InRun(o[1]) : stage[p] \notin {"queued", "filtering"}
    /\ Stage(o, "over")
    /\ IF stage[o] = "found"
       THEN task' = [task EXCEPT ![o] = "running"] /\ Hear(<<"task", o>>)
       ELSE UNCHANGED <<task, hears>>
    /\ UNCHANGED <<saved, from, upto, disturbed>>

\* A task of an earlier run that was not saved goes on beside the new one and is
\* not followed any more.
EndsTask(o, result) ==
    /\ task[o] = "running"
    /\ task' = [task EXCEPT ![o] = result] /\ hears' = hears \ {<<"task", o>>}
    /\ UNCHANGED <<saved, from, upto, stage, disturbed>>

\* The task has executed its triggers, whatever came of them (TriggerHandler).
TaskEnds(o) == EndsTask(o, "done")

TaskIsCancelled(o) ==
    /\ shutdown /\ <<"task", o>> \in hears
    /\ EndsTask(o, "stopped")

\* The run is over.
EndsRun(n) ==
    /\ stage' = [o \in Block |-> IF o \in InRun(n) THEN "none" ELSE stage[o]]
    /\ from' = [from EXCEPT ![n] = 0] /\ upto' = [upto EXCEPT ![n] = 0]
    /\ UNCHANGED <<task, hears, disturbed>>

\* Mutant: the last block is saved when all blocks were filtered.
SaveEarly(n) ==
    /\ upto[n] # 0
    /\ \A p \in InRun(n) : stage[p] \in {"found", "empty", "over", "lost"}
    /\ saved' = [saved EXCEPT ![n] = upto[n]]
    /\ EndsRun(n)

\* The results of the two stages are ignored.
Save(n) ==
    /\ upto[n] # 0 /\ PipeIsEmpty(n)
    /\ saved' = [saved EXCEPT ![n] = upto[n]]
    /\ EndsRun(n)

\* A file cannot be written, or stage 1 died before it was fed: the run's blocks
\* will be taken again.
RunFails(n) ==
    /\ upto[n] # 0 /\ PipeIsEmpty(n)
    /\ EndsRun(n)
    /\ UNCHANGED saved

HandleBlock(o) ==
    \/ BeginBlock(o)
    \/ FilterBlock(o) \/ FilterFails(o) \/ FilterIsCancelled(o)
    \/ HandOver(o)

RunTask(o) == TaskEnds(o) \/ TaskIsCancelled(o)

HandleBlocks(o) ==
    /\ Alive /\ HandleBlock(o)
    /\ UNCHANGED <<configVars, executionVars, mainVars, head, restarts>>

RunTasks(o) ==
    /\ Alive /\ RunTask(o)
    /\ UNCHANGED <<configVars, executionVars, mainVars, head, restarts>>

Watch(n) ==
    /\ Alive /\ (Tick(n) \/ Save(n) \/ RunFails(n))
    /\ UNCHANGED <<configVars, executionVars, mainVars, head, restarts>>

Panic(n) ==
    /\ Alive /\ HandlerPanics(n)
    /\ UNCHANGED <<configVars, executionVars, mainVars, head, restarts>>

\* Blocks that come while the process is down are there when it runs again.
NewBlock(n) ==
    /\ head[n] < LastBlock[n]
    /\ Alive /\ \E k \in DOMAIN networks : networks[k].slug = n
    /\ head' = [head EXCEPT ![n] = @ + 1]
    /\ UNCHANGED <<configVars, executionVars, mainVars, blockVars, restarts>>

(***************************************************************************)
(* Shutdown, exit, crash and restart.                                      *)
(***************************************************************************)
Running == {o \in Block : task[o] = "running"}

Signal ==
    /\ phase = "running"
    /\ phase' = "stopping"
    /\ shutdown' = TRUE
    /\ disturbed' = disturbed \union {x[2] : x \in hears}
    /\ UNCHANGED <<toStart, unreachable, watchers, ticking>>
    /\ UNCHANGED <<configVars, executionVars, saved, from, upto, stage, task, hears, head, restarts>>

\* stop_network_watcher: the watcher is removed before its scheduler is stopped,
\* which may fail.
StopWatcher(n) ==
    /\ phase = "stopping" /\ n \in watchers
    /\ watchers' = watchers \ {n}
    /\ ticking' \in {ticking, ticking \ {n}}
    /\ UNCHANGED <<phase, toStart, unreachable, shutdown, configVars, executionVars, blockVars, head, restarts>>

\* Mutant: main waits until every scheduler is stopped.
SleepWhenStopped ==
    /\ phase = "stopping" /\ watchers = {} /\ ticking = {}
    /\ Become("sleeping")
    /\ UNCHANGED <<configVars, executionVars, blockVars, head, restarts>>

Sleep ==
    /\ phase = "stopping" /\ watchers = {}
    /\ Become("sleeping")
    /\ UNCHANGED <<configVars, executionVars, blockVars, head, restarts>>

\* The process ends: blocks that were not saved will be processed again.
End(p) ==
    /\ phase' = p
    /\ toStart' = {} /\ unreachable' = {} /\ watchers' = {} /\ ticking' = {}
    /\ shutdown' = FALSE
    /\ from' = [n \in Slugs |-> 0] /\ upto' = [n \in Slugs |-> 0]
    /\ stage' = [o \in Block |-> "none"]
    /\ task' = [o \in Block |-> IF o \in Running THEN "stopped" ELSE task[o]]
    /\ hears' = {}
    /\ disturbed' = {o \in disturbed \union Running : o[2] <= saved[o[1]]}

Exit ==
    /\ phase = "sleeping" /\ End("exited")
    /\ UNCHANGED <<configVars, executionVars, saved, head, restarts>>

Crash ==
    /\ phase \in {"scripts", "starting", "running", "stopping", "sleeping"} /\ End("crashed")
    /\ UNCHANGED <<configVars, executionVars, saved, head, restarts>>

\* The process is started again with the same configuration.
Restart ==
    /\ phase \in {"crashed", "exited"}
    /\ loading = "accepted" /\ Command.mode = "serve"
    /\ restarts < Command.restarts
    /\ restarts' = restarts + 1
    /\ phase' = "loading"
    /\ loading' = "networks" /\ files' = installation.networks /\ read' = {}
    /\ networks' = Nothing /\ triggers' = Nothing /\ monitors' = Nothing
    /\ UNCHANGED <<installation, executionVars, toStart, unreachable, watchers, ticking, shutdown, blockVars, head>>

Main ==
    \/ LoadConfiguration
    \/ LoadScripts
    \/ ExecuteMonitor
    \/ \E k \in toStart : StartWatcher(k)
    \/ \E k \in toStart : ClientFails(k)
    \/ Started
    \/ \E n \in watchers : StopWatcher(n)
    \/ Sleep
    \/ Exit

Next ==
    \/ Main
    \/ Signal
    \/ Crash
    \/ Restart
    \/ \E n \in Slugs : Watch(n)
    \/ \E n \in Slugs : Panic(n)
    \/ \E n \in Slugs : NewBlock(n)
    \/ \E o \in Block : HandleBlocks(o)
    \/ \E o \in Block : RunTasks(o)

\* main goes on, the schedulers tick and their requests are answered in the end,
\* and every client, filter and task ends: their requests have time limits or are
\* modelled with their own in TriggerHandler.  Runs may fail again and again, and
\* nothing makes a panic, a signal, a crash or a restart happen.
Fairness ==
    /\ WF_vars(Main)
    /\ \A n \in Slugs : WF_vars(Watch(n))
    /\ \A o \in Block : WF_vars(HandleBlocks(o)) /\ WF_vars(RunTasks(o))

Spec == Init /\ [][Next]_vars /\ Fairness

-----------------------------------------------------------------------------

(***************************************************************************)
(* Type invariant.                                                         *)
(***************************************************************************)
TypeOK ==
    /\ loading \in Kinds \union {"references", "accepted", "rejected"}
    /\ executing \in {"no", "networks", "matches", "done", "failed"}
    /\ handled \subseteq found
    /\ phase \in {"loading", "scripts", "executing", "exited", "crashed"} \union LivePhases
    /\ toStart \subseteq DOMAIN networks
    /\ watchers \subseteq ticking
    /\ ticking \subseteq {networks[k].slug : k \in DOMAIN networks}
    /\ shutdown \in BOOLEAN
    /\ shutdown => phase \in {"stopping", "sleeping"}
    /\ {head, saved, from, upto} \subseteq [Slugs -> Nat]
    /\ \A n \in Slugs : saved[n] <= head[n] /\ upto[n] <= head[n]
    /\ stage \in [Block -> Piped \union {"none", "over", "lost"}]
    /\ task \in [Block -> {"none", "running", "done", "stopped"}]
    /\ hears \subseteq {"filter", "task"} \X Block /\ disturbed \subseteq Block
    /\ ~Alive => toStart = {} /\ ticking = {} /\ Running = {} /\ hears = {}

(***************************************************************************)
(* An accepted configuration is complete: whatever order its files were    *)
(* read in, every reference of every monitor, paused or not, leads to an   *)
(* item that was kept, and the scripts of its active monitors exist in the *)
(* language they are run with (repositories/monitor.rs:104-196).           *)
(***************************************************************************)
AcceptedIsComplete ==
    loading = "accepted" =>
        \A k \in DOMAIN monitors : LET m == monitors[k] IN
            /\ m.networks # {} /\ m.networks \subseteq DOMAIN networks
            /\ m.triggers \subseteq DOMAIN triggers
            /\ \A t \in m.triggers :
                   triggers[t].trigger_type = triggers[t].config.kind => ValidTrigger(triggers[t])
            /\ \A c \in m.trigger_conditions : ValidScript(c)

(***************************************************************************)
(* While the service runs, every network of an active monitor is watched,  *)
(* whatever happened to the other networks, with the exceptions the code   *)
(* makes: a network whose file is not named after its slug, one without an *)
(* endpoint to talk to, one with a recovery schedule that cannot be        *)
(* parsed, and one that did not answer (main.rs:318-436).                  *)
(***************************************************************************)
ActiveNetworksAreWatched ==
    phase = "running" =>
        \A m \in ActiveMonitors : \A k \in m.networks :
            \/ networks[k].slug \in watchers
            \/ networks[k].slug # k
            \/ ~HasEndpoint(networks[k]) \/ ~SchedulesJobs(networks[k])
            \/ networks[k].slug \in unreachable

(***************************************************************************)
(* A match behind the last processed block has a task that executes its    *)
(* triggers or has done so, with the exceptions that the code makes: its   *)
(* block was skipped or not delivered, it was not filtered yet when a      *)
(* handler of its run panicked, its own filter failed, or its filter or    *)
(* its task had subscribed when the process was told to stop or its task   *)
(* ran when it exited or crashed.  A run that failed or was cut off loses  *)
(* nothing, nor do blocks filtered before a panic or begun after the       *)
(* signal (blockwatcher/service.rs:453-732, bootstrap/mod.rs:255-276).     *)
(***************************************************************************)
NoMatchLost ==
    \A o \in Block :
        o[2] <= saved[o[1]] /\ o \notin disturbed =>
            \/ task[o] \in {"running", "done"}
            \/ \A m \in EveryMonitor : m.paused \/ o[1] \notin m.networks \/ o \notin m.blocks

(***************************************************************************)
(* A match in a watched network's block is notified, however often new     *)
(* blocks arrive, runs fail and the other network is busy, unless one of   *)
(* the events above takes its block or the process ends (main.rs,          *)
(* blockwatcher/service.rs).                                               *)
(***************************************************************************)
EventuallyNotified ==
    \A o \in Block :
        phase = "running" /\ o[1] \in watchers /\ head[o[1]] >= o[2] /\ HasMatch(o)
            ~> task[o] = "done" \/ o \in disturbed \/ ~Alive

(***************************************************************************)
(* The signal ends the process, even when a scheduler cannot be stopped or *)
(* a run goes on: main waits for no block (main.rs:456-475).               *)
(***************************************************************************)
ShutdownCompletes == phase = "stopping" ~> phase \in {"exited", "crashed"}
=============================================================================
