-------------------------- MODULE OrderedDelivery ---------------------------
(***************************************************************************)
(* What process_new_blocks promises of the blocks it has fetched: the      *)
(* trigger handler is called for each of them once, in ascending order of  *)
(* their numbers.  A handler that panics ends the promise for some blocks, *)
(* once; the order holds for the others all the same.                      *)
(***************************************************************************)
EXTENDS Integers

CONSTANT Fetches        \* the sets of block numbers a fetch may return

VARIABLES
    remaining,          \* the numbers the handler is still going to be called for
    panicked            \* a block handler has panicked

Init == remaining \in Fetches /\ panicked = FALSE

\* The handler is called for the smallest number that is left.
Deliver(n) ==
    /\ n \in remaining
    /\ \A m \in remaining : n <= m
    /\ remaining' = remaining \ {n}
    /\ UNCHANGED panicked

\* A block handler panics: the blocks not handled yet are given up.
GiveUp(lost) ==
    /\ ~panicked
    /\ panicked' = TRUE
    /\ remaining' = remaining \ lost

Next ==
    \/ \E n \in remaining : Deliver(n)
    \/ \E lost \in SUBSET remaining : GiveUp(lost)

Spec == Init /\ [][Next]_<<remaining, panicked>>
=============================================================================
