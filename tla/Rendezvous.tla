----------------------------- MODULE Rendezvous -----------------------------
(***************************************************************************)
(* What the one-shot barrier of hw5 and of the Final client promises: no   *)
(* thread leaves it before every thread has entered it.                    *)
(***************************************************************************)
CONSTANT Threads

VARIABLES entered, left

vars == <<entered, left>>

Init == entered = {} /\ left = {}

Enter(t) ==
  /\ t \notin entered
  /\ entered' = entered \cup {t}
  /\ UNCHANGED left

Leave(t) ==
  /\ entered = Threads
  /\ t \notin left
  /\ left' = left \cup {t}
  /\ UNCHANGED entered

Next == \E t \in Threads : Enter(t) \/ Leave(t)

Spec == Init /\ [][Next]_vars /\ \A t \in Threads : WF_vars(Leave(t))
=============================================================================
