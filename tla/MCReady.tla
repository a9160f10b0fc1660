------------------------------- MODULE MCReady -------------------------------
(***************************************************************************)
(* Readiness, the signals of a process, and the windows of a program.      *)
(* They share no state: focus, chosen at the start, is the one that moves, *)
(* so a run explores the sum of their state spaces. The fairness of each   *)
(* is that of its own specification.                                       *)
(***************************************************************************)
EXTENDS Readiness, Signals, Windows

VARIABLE focus

\* Level-triggered, level-triggered and one-shot, edge-triggered.
MCForms == {[edge |-> FALSE, oneshot |-> FALSE], [edge |-> FALSE, oneshot |-> TRUE],
            [edge |-> TRUE, oneshot |-> FALSE]}
MCInterests == {{"in"}}
MCPollSets == {{3}}

WaitInit ==
  /\ focus \in {"ready", "signals", "windows"}
  /\ ReadyInit /\ SignalsInit /\ WinInit

WaitNext ==
  /\ UNCHANGED focus
  /\ \/ /\ focus = "ready" /\ ReadyNext
        /\ UNCHANGED <<signalVars, winVars>>
     \/ /\ focus = "signals" /\ SignalsNext
        /\ UNCHANGED <<readyVars, winVars>>
     \/ /\ focus = "windows" /\ WinNext
        /\ UNCHANGED <<readyVars, signalVars>>

waitVars == <<focus, readyVars, signalVars, winVars>>
WaitSpec == WaitInit /\ [][WaitNext]_waitVars
          /\ WF_readyVars(focus = "ready" /\ EpollWaitAgain)
          /\ WF_readyVars(focus = "ready" /\ linux_compat_poll)
          /\ WF_signalVars(focus = "signals" /\ OtherCall)
          /\ WF_signalVars(focus = "signals" /\ linux_rt_sigreturn)
          /\ WF_winVars(focus = "windows" /\ GuiLoop)
=============================================================================
