--------------------------- MODULE MCDockerTracker ---------------------------
(***************************************************************************)
(* Instances of DockerTracker for TLC.                                     *)
(***************************************************************************)
EXTENDS DockerTracker, TLC

CONSTANTS c1, c2

\* c2 runs at first, c1 does not: they are not interchangeable.
Two == {c1, c2}
Second == {c2}
=============================================================================
