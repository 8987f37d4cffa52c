-------------------------- MODULE MCBlockPipeline ---------------------------
(***************************************************************************)
(* Instances of BlockPipeline for TLC.                                     *)
(***************************************************************************)
EXTENDS BlockPipeline, SequencesExt

Numbers == 3 .. 6

\* Every set of numbers from 3 to 6, listed in every order.
MCBatches ==
    {[blocks |-> s, start_block |-> 3] : s \in UNION {SetToSeqs(T) : T \in SUBSET Numbers}}

MCHistories == {<<>>, <<1, 2>>, <<5>>}
MCExpectations == {Vacant, 3, 9}
=============================================================================
