------------------------------- MODULE MCVmm -------------------------------
(* The instances of Vmm that TLC checks.                                   *)
EXTENDS Vmm, TLC

CONSTANTS boot, child, other, zero, one

\* The spaces that come and go are interchangeable, for the safety runs.
SpaceSymmetry == Permutations({child, other})
=============================================================================
