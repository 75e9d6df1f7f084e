---------------------------- MODULE PosixBarrier ----------------------------
(***************************************************************************)
(* The barrier of hw5/threads_synchronization.c 97-101, which client.c     *)
(* 45-49 repeats: a counter, a mutex and a condition variable.             *)
(*                                                                         *)
(*     lock; ++arrived;                                                    *)
(*     while (arrived < M) wait;                                           *)
(*     broadcast; unlock                                                   *)
(*                                                                         *)
(* arrived is never reset: the barrier is used once.                       *)
(***************************************************************************)
EXTENDS Integers, FiniteSets

CONSTANTS Threads, None

ASSUME BarrierAssumption == IsFiniteSet(Threads) /\ None \notin Threads

M == Cardinality(Threads)

VARIABLES
  arrived,    \* the counter
  mtx,        \* the holder of the mutex
  waiters,    \* threads blocked in pthread_cond_wait
  bpc         \* where each thread is relative to the barrier

bvars == <<arrived, mtx, waiters, bpc>>

BarrierLabels == {"before", "test", "wait", "unlock", "after"}

BInit ==
  /\ arrived = 0
  /\ mtx = None
  /\ waiters = {}
  /\ bpc = [t \in Threads |-> "before"]

-----------------------------------------------------------------------------
\* Faulty variants, none of them the code.

FaultyWake(t) ==   \* "if" instead of "while"
  /\ bpc[t] = "wait"
  /\ t \notin waiters
  /\ mtx = None
  /\ mtx' = t
  /\ bpc' = [bpc EXCEPT ![t] = "unlock"]
  /\ UNCHANGED <<arrived, waiters>>

FaultyPass(t) ==   \* the last thread does not broadcast
  /\ bpc[t] = "test"
  /\ arrived >= M
  /\ bpc' = [bpc EXCEPT ![t] = "unlock"]
  /\ UNCHANGED <<arrived, mtx, waiters>>

FaultyArrive(t) ==   \* the counter is read and incremented twice
  /\ bpc[t] = "before"
  /\ mtx = None
  /\ mtx' = t
  /\ arrived' = arrived + 2
  /\ bpc' = [bpc EXCEPT ![t] = "test"]
  /\ UNCHANGED waiters

-----------------------------------------------------------------------------
Arrive(t) ==
  /\ bpc[t] = "before"
  /\ mtx = None
  /\ mtx' = t
  /\ arrived' = arrived + 1
  /\ bpc' = [bpc EXCEPT ![t] = "test"]
  /\ UNCHANGED waiters

Wait(t) ==
  /\ bpc[t] = "test"
  /\ arrived < M
  /\ waiters' = waiters \cup {t}
  /\ mtx' = None
  /\ bpc' = [bpc EXCEPT ![t] = "wait"]
  /\ UNCHANGED arrived

\* pthread_cond_wait returns, after a broadcast or for no reason at all
\* (a signal handler that runs in the thread is a common one).
SpuriousWakeup(t) ==
  /\ t \in waiters
  /\ waiters' = waiters \ {t}
  /\ UNCHANGED <<arrived, mtx, bpc>>

Wake(t) ==
  /\ bpc[t] = "wait"
  /\ t \notin waiters
  /\ mtx = None
  /\ mtx' = t
  /\ bpc' = [bpc EXCEPT ![t] = "test"]
  /\ UNCHANGED <<arrived, waiters>>

\* Every thread that finds the counter full broadcasts.
Pass(t) ==
  /\ bpc[t] = "test"
  /\ arrived >= M
  /\ waiters' = {}
  /\ bpc' = [bpc EXCEPT ![t] = "unlock"]
  /\ UNCHANGED <<arrived, mtx>>

Unlock(t) ==
  /\ bpc[t] = "unlock"
  /\ mtx' = None
  /\ bpc' = [bpc EXCEPT ![t] = "after"]
  /\ UNCHANGED <<arrived, waiters>>

\* Everything a thread does once it has arrived.
Inside(t) == Wait(t) \/ Wake(t) \/ Pass(t) \/ Unlock(t)

BNext == \E t \in Threads : Arrive(t) \/ Inside(t) \/ SpuriousWakeup(t)

\* Threads run, all of them reach the barrier, and spurious wakeups stop.
BFairness ==
  /\ \A t \in Threads : WF_bvars(Arrive(t)) /\ WF_bvars(Inside(t))
  /\ <>[][\A t \in Threads : ~SpuriousWakeup(t)]_bvars

BSafe == BInit /\ [][BNext]_bvars
BSpec == BSafe /\ BFairness

-----------------------------------------------------------------------------
BTypeOK ==
  /\ arrived \in Nat
  /\ mtx \in Threads \cup {None}
  /\ waiters \in SUBSET Threads
  /\ bpc \in [Threads -> BarrierLabels]

Entered == {t \in Threads : bpc[t] # "before"}
Passed == {t \in Threads : bpc[t] \in {"unlock", "after"}}

\* arrived counts the threads that have entered.
CountsArrivals == arrived = Cardinality(Entered)

\* No thread is past the barrier while another has not reached it.
NoEarlyPass == Passed # {} => Entered = Threads

\* A thread sleeps only while the counter is short, or the thread that filled
\* it is about to broadcast: nobody sleeps through the opening.
NoSleeperLeft ==
  waiters # {} /\ arrived >= M =>
    \E t \in Threads : bpc[t] = "test" /\ mtx = t

Holding(t) == bpc[t] \in {"test", "unlock"}

BMutexInv ==
  /\ \A t \in Threads : Holding(t) <=> mtx = t
  /\ \A t \in waiters : bpc[t] = "wait"

BInv == /\ BTypeOK /\ BMutexInv /\ CountsArrivals
        /\ NoEarlyPass /\ NoSleeperLeft

Abstract == INSTANCE Rendezvous WITH entered <- Entered, left <- Passed

\* The barrier is a rendezvous: threads leave only when all have entered.
RendezvousSafety == Abstract!Init /\ [][Abstract!Next]_Abstract!vars

\* Every thread gets through.
AllPass == <>(Passed = Threads)
=============================================================================
