-------------------------- MODULE MonitorExecution --------------------------
(***************************************************************************)
(* execute_monitor: the program run for one monitor (--monitor-path), for  *)
(* one block or the latest, on one network or on all that the monitor      *)
(* names.  The networks are filtered one after the other; an error on any  *)
(* of them ends the execution.  The triggers are executed only when all    *)
(* networks were filtered, match by match, and their failures are only     *)
(* logged.  The trigger conditions are not evaluated.                      *)
(***************************************************************************)
EXTENDS Configuration

VARIABLES
    executing,   \* "no", "networks", "matches", "done" or "failed"
    left,        \* the keys of the networks still to be filtered
    found,       \* the networks with matches, by their slugs
    handled      \* the matches whose triggers were executed

executionVars == <<executing, left, found, handled>>

Command == installation.command

ExecutionInit ==
    /\ executing = "no"
    /\ left = {}
    /\ found = {}
    /\ handled = {}

\* The monitor of the command, as if it was the only one in the repository.
Chosen == Command.monitor

LoadsAlone(m) ==
    /\ \A s \in Secrets("monitors", m) : Resolves(s)
    /\ ValidMonitor(m)
    /\ ValidReferences(m)

NetworksToExecute ==
    IF Command.network # {} THEN Command.network
    ELSE {k \in DOMAIN networks : networks[k].slug \in Chosen.networks /\ ~Chosen.paused}

\* A block needs a network; a network is looked up by its key, and filtered
\* whether the monitor names it or not, or is paused.
StartExecution ==
    /\ executing = "no"
    /\ IF \/ Command.block /\ Command.network = {}
          \/ ~LoadsAlone(Chosen)
          \/ ~(Command.network \subseteq DOMAIN networks)
       THEN executing' = "failed" /\ left' = {}
       ELSE executing' = "networks" /\ left' = NetworksToExecute
    /\ UNCHANGED <<found, handled>>

ExecuteNetwork(k) ==
    /\ executing = "networks" /\ k \in left
    /\ left' = left \ {k}
    /\ found' = IF networks[k].slug \in Chosen.hits THEN found \union {networks[k].slug} ELSE found
    /\ UNCHANGED <<executing, handled>>

\* No client, no block, or a filter that fails.
ExecuteNetworkFails(k) ==
    /\ executing = "networks" /\ k \in left
    /\ executing' = "failed"
    /\ UNCHANGED <<left, found, handled>>

HandleMatches ==
    /\ executing = "networks" /\ left = {}
    /\ executing' = "matches"
    /\ UNCHANGED <<left, found, handled>>

HandleMatch(slug) ==
    /\ executing = "matches"
    /\ slug \in found \ handled
    /\ handled' = handled \union {slug}
    /\ UNCHANGED <<executing, left, found>>

FinishExecution ==
    /\ executing = "matches" /\ handled = found
    /\ executing' = "done"
    /\ UNCHANGED <<left, found, handled>>

Execute ==
    \/ StartExecution
    \/ \E k \in left : ExecuteNetwork(k) \/ ExecuteNetworkFails(k)
    \/ HandleMatches
    \/ \E slug \in found : HandleMatch(slug)
    \/ FinishExecution
=============================================================================
