-------------------------------- MODULE MCIpc --------------------------------
(***************************************************************************)
(* Local sockets and a timerfd.  They share no state: focus, chosen at the *)
(* start, is the one that moves, so a run explores the sum of their state  *)
(* spaces.                                                                 *)
(***************************************************************************)
EXTENDS UnixSocket, TimerFd, SequencesExt, TLC

VARIABLE focus

CONSTANTS s1, s2, s3, f1, f2, f3

\* Sockets and descriptor numbers are interchangeable.
SocketSymmetry == Permutations(SocketSlots) \cup Permutations(SocketFds)

\* unix_slot_reset and compat_entry_release the way they call each other.
ForgottenBy(S, i) ==
  LET p == S[i].peer IN
  IF p # Nobody /\ S[p].used /\ S[p].peer = i THEN [S EXCEPT ![p].peer = Nobody] ELSE S

RECURSIVE ResetInSteps(_, _), ReleaseInSteps(_, _)
ReleaseInSteps(S, i) ==
  IF ~S[i].used \/ S[i].refs = 0 THEN S
  ELSE IF S[i].refs > 1 THEN [S EXCEPT ![i].refs = @ - 1]
  ELSE ResetInSteps([S EXCEPT ![i].refs = 0], i)
ResetInSteps(S, i) ==
  IF ~S[i].used THEN S
  ELSE LET refused  == FoldLeft(ResetInSteps, ForgottenBy(S, i), S[i].pending)
           returned == FoldLeft(ReleaseInSteps, refused, S[i].rights)
       IN  [returned EXCEPT ![i] = FreeSocket]

\* The slots that a call resets at once are those that the code resets one by
\* one, whatever backlogs and messages hold: for every reference that can be
\* given back and every connection that can be refused.
ResetsAsCoded ==
  focus = "socket" =>
    /\ \A i \in UsedSlots : compat_entry_release(socket, i) = ReleaseInSteps(socket, i)
    /\ \A i \in UsedSlots : socket[i].pending # << >> =>
         LET popped == [socket EXCEPT ![i].pending = Tail(@)]
         IN  unix_slot_reset(popped, Head(socket[i].pending))
               = ResetInSteps(popped, Head(socket[i].pending))

IpcInit ==
  /\ focus \in {"socket", "timer"}
  /\ UnixInit /\ TimerInit

IpcNext ==
  /\ UNCHANGED focus
  /\ \/ /\ focus = "socket" /\ UnixNext
        /\ UNCHANGED <<timerVars>>
     \/ /\ focus = "timer" /\ TimerNext
        /\ UNCHANGED <<unixVars>>

ipcVars == <<focus, unixVars, timerVars>>
IpcSpec == IpcInit /\ [][IpcNext]_ipcVars
=============================================================================
