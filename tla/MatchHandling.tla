---------------------------- MODULE MatchHandling ----------------------------
(***************************************************************************)
(* handle_match for every match of a block, in order: a match becomes the  *)
(* variables that the templates of its triggers use.  A match records the  *)
(* conditions that were met, events and functions, each with a signature,  *)
(* and apart from them the arguments of what met them.                     *)
(***************************************************************************)
EXTENDS Integers, SequencesExt

VARIABLES
    matches,      \* matching_results
    variables     \* the variables of each match handled, in order

(***************************************************************************)
(* The variables of one match.  Every entry of a condition is given the    *)
(* arguments of all entries of its signature, the last one of a name       *)
(* winning.                                                                *)
(***************************************************************************)
PlacesOf(args, name) == {i \in DOMAIN args : args[i].name = name}

Naming(signature, entries, name) ==
    {i \in DOMAIN entries : entries[i].signature = signature /\ PlacesOf(entries[i].args, name) # {}}

Names(signature, entries) ==
    UNION {{arg.name : arg \in ToSet(entry.args)} :
               entry \in {e \in ToSet(entries) : e.signature = signature}}

LastArg(signature, entries, name) ==
    LET args == entries[Max(Naming(signature, entries, name))].args
    IN  args[Max(PlacesOf(args, name))]

ArgVariables(signature, entries) ==
    [name \in Names(signature, entries) |-> LastArg(signature, entries, name).value]

\* Mutant: the arguments of an entry are those recorded at its position.
ConditionVariablesByPosition(found, entries) ==
    [i \in DOMAIN found |-> [signature |-> found[i].signature,
                             args |-> IF i \in DOMAIN entries
                                      THEN ArgVariables(entries[i].signature, <<entries[i]>>)
                                      ELSE <<>>]]

ConditionVariables(found, entries) ==
    [i \in DOMAIN found |-> [signature |-> found[i].signature,
                             args |-> ArgVariables(found[i].signature, entries)]]

MatchVariables(match) ==
    [monitor   |-> match.monitor.name,
     hash      |-> match.tx.hash,
     functions |-> ConditionVariables(match.functions, match.functionArgs),
     events    |-> ConditionVariables(match.events, match.eventArgs)]

(***************************************************************************)
(* The loop over the matches.                                              *)
(***************************************************************************)
HandleNextMatch ==
    /\ Len(variables) < Len(matches)
    /\ variables' = Append(variables, MatchVariables(matches[Len(variables) + 1]))
    /\ UNCHANGED matches

IsList(s) == Len(s) \in Nat /\ DOMAIN s = 1 .. Len(s)

\* What a filter records of a match, as far as handling it depends on.
IsMatch(match) ==
    /\ IsList(match.functionArgs) /\ IsList(match.eventArgs)
    /\ \A i \in DOMAIN match.functionArgs : IsList(match.functionArgs[i].args)
    /\ \A i \in DOMAIN match.eventArgs : IsList(match.eventArgs[i].args)

AreMatches(found) == IsList(found) /\ \A i \in DOMAIN found : IsMatch(found[i])

\* The filters are done before the first match is handled.
FindMatches ==
    /\ variables = <<>>
    /\ AreMatches(matches')
    /\ UNCHANGED variables

HandlingSpec ==
    /\ matches = <<>> /\ variables = <<>>
    /\ [][FindMatches \/ HandleNextMatch]_<<matches, variables>>

(***************************************************************************)
(* The variables of an event or function come from recorded arguments of   *)
(* the same signature, and one whose signature was recorded once has       *)
(* exactly the arguments of that, whichever position it was recorded at    *)
(* (filter_match.rs:82-160).                                               *)
(***************************************************************************)
ComeFrom(made, found, entries) ==
    \A i \in DOMAIN made :
        LET entry == made[i]
            recorded == {e \in ToSet(entries) : e.signature = entry.signature}
        IN  /\ entry.signature = found[i].signature
            /\ \A name \in DOMAIN entry.args : \E e \in recorded : \E arg \in ToSet(e.args) :
                   arg.name = name /\ arg.value = entry.args[name]
            /\ \A e \in recorded :
                   recorded = {e} => DOMAIN entry.args = {arg.name : arg \in ToSet(e.args)}

VariablesComeFromTheMatch ==
    \A k \in DOMAIN variables :
        /\ ComeFrom(variables[k].events, matches[k].events, matches[k].eventArgs)
        /\ ComeFrom(variables[k].functions, matches[k].functions, matches[k].functionArgs)
=============================================================================
