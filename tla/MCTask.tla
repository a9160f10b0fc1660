------------------------------- MODULE MCTask -------------------------------
(* The instances of Task that TLC checks.                                  *)
EXTENDS Task, TLC

CONSTANTS p1, p2, p3

\* Signals other than SIGKILL and a default SIGTERM are left to task_signals.
AllOps  == Operations \ {"pend"}

\* Frames are interchangeable (used by the safety runs only).
FrameSymmetry == Permutations(Pml4s)
=============================================================================
