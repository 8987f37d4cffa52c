---------------------------- MODULE MCTransports -----------------------------
(***************************************************************************)
(* Instances of Transports for TLC.                                        *)
(***************************************************************************)
EXTENDS Transports

CONSTANTS u1, u2, u3

\* As they are all alike, their number is what tells configurations apart.
UpToThreeUrls == {<<u1>>, <<u1, u2>>, <<u1, u2, u3>>}
=============================================================================
