------------------------- MODULE ConnectionHandoff -------------------------
(***************************************************************************)
(* What the request queue of the transaction server promises, with no      *)
(* mutex, counter or condition variable: accepted connections are handed   *)
(* to idle worker threads in the order in which they were accepted, each   *)
(* to exactly one worker, and none is left behind while a worker is idle.  *)
(* WorkQueue implements it.                                                *)
(***************************************************************************)
EXTENDS Naturals, Sequences

CONSTANTS Workers,   \* the worker threads
          Conns,     \* the connections that may arrive
          None       \* "no connection"

VARIABLES accepted,  \* connections in the order of their accept()
          taken,     \* connections in the order they were handed out
          serving    \* the connection each worker is serving, or None

vars == <<accepted, taken, serving>>

Init == /\ accepted = <<>>
        /\ taken = <<>>
        /\ serving = [w \in Workers |-> None]

\* A connection that was never accepted before is accepted.
Accept(c) ==
  /\ \A i \in 1 .. Len(accepted) : accepted[i] # c
  /\ accepted' = Append(accepted, c)
  /\ UNCHANGED <<taken, serving>>

\* An idle worker takes the oldest connection that nobody has taken.
Take(w) ==
  /\ serving[w] = None
  /\ Len(taken) < Len(accepted)
  /\ taken' = Append(taken, accepted[Len(taken) + 1])
  /\ serving' = [serving EXCEPT ![w] = accepted[Len(taken) + 1]]
  /\ UNCHANGED accepted

Finish(w) ==
  /\ serving[w] # None
  /\ serving' = [serving EXCEPT ![w] = None]
  /\ UNCHANGED <<accepted, taken>>

TakeSome == \E w \in Workers : Take(w)

Next == \/ \E c \in Conns : Accept(c)
        \/ TakeSome
        \/ \E w \in Workers : Finish(w)

Spec == Init /\ [][Next]_vars /\ WF_vars(TakeSome)
=============================================================================
