----------------------------- MODULE WorkQueue -----------------------------
(***************************************************************************)
(* The request queue of the transaction server (server.c, queue.c): the    *)
(* main thread accepts connections and appends them to a list, the worker  *)
(* threads remove them.  The list and the counter size_queue are guarded   *)
(* by mutex_queue; cond_queue tells the workers that there is work.        *)
(* What a worker does with a connection is one step here (Finish) and is   *)
(* opened up in TransactionServer.                                         *)
(*                                                                         *)
(* A connection stands for the descriptor that accept() returns: the       *)
(* server never closes the descriptors of its queue, so the kernel never   *)
(* hands the same number out twice.                                        *)
(***************************************************************************)
EXTENDS Integers, Sequences

CONSTANTS Workers,   \* the threads that run myThread
          Conns,     \* the connections that may arrive
          Main,      \* the thread that runs main
          None       \* no thread, or no connection (the -1 of poll_int)

ASSUME WorkQueueAssumption ==
  /\ Main \notin Workers
  /\ None \notin Workers \cup Conns \cup {Main}

VARIABLES
  backlog,       \* connections the kernel has completed and not handed out
  mainPc,        \* where main is in its accept loop
  reqSocketFD,   \* the connection main has accepted and not yet queued
  mutex_queue,   \* the holder of the mutex
  queue,         \* the list of queue.c
  size_queue,    \* the counter kept beside it
  waiters,       \* the workers blocked in pthread_cond_wait
  pc,            \* where each worker is
  fd_server,     \* each worker's local variable
  accepted,      \* history: connections in the order of accept()
  taken          \* history: connections in the order of poll_int()

mainVars == <<backlog, mainPc, reqSocketFD, accepted>>
workerVars == <<pc, fd_server, taken>>
vars == <<backlog, mainPc, reqSocketFD, mutex_queue, queue, size_queue,
          waiters, pc, fd_server, accepted, taken>>

MainLabels == {"accept", "lock", "offer", "count", "broadcast", "unlock"}
Labels == {"lock", "test", "wait", "poll", "count", "unlock", "serve"}

Elems(s) == {s[i] : i \in 1 .. Len(s)}

Init ==
  /\ backlog = <<>>
  /\ mainPc = "accept"
  /\ reqSocketFD = None
  /\ mutex_queue = None
  /\ queue = <<>>
  /\ size_queue = 0
  /\ waiters = {}
  /\ pc = [w \in Workers |-> "lock"]
  /\ fd_server = [w \in Workers |-> None]
  /\ accepted = <<>>
  /\ taken = <<>>

-----------------------------------------------------------------------------
\* Faulty variants of the steps below, none of them the code: each breaks a
\* property, which shows that the property depends on the code.

FaultyMainOffer ==   \* a new connection goes to the head of the list
  /\ mainPc = "offer"
  /\ queue' = <<reqSocketFD>> \o queue
  /\ mainPc' = "count"
  /\ UNCHANGED <<backlog, reqSocketFD, accepted, mutex_queue, size_queue,
                 waiters, workerVars>>

FaultyMainBroadcast ==   \* nobody is woken
  /\ mainPc = "broadcast"
  /\ mainPc' = "unlock"
  /\ UNCHANGED <<backlog, reqSocketFD, accepted, mutex_queue, queue,
                 size_queue, waiters, workerVars>>

-----------------------------------------------------------------------------
\* The environment: a peer's connect() completes.

Connect(c) ==
  /\ c \notin Elems(backlog) \cup Elems(accepted)
  /\ backlog' = Append(backlog, c)
  /\ UNCHANGED <<mainPc, reqSocketFD, accepted, mutex_queue, queue,
                 size_queue, waiters, workerVars>>

-----------------------------------------------------------------------------
\* The main thread.

MainAccept ==
  /\ mainPc = "accept"
  /\ backlog # <<>>
  /\ reqSocketFD' = Head(backlog)
  /\ backlog' = Tail(backlog)
  /\ accepted' = Append(accepted, Head(backlog))
  /\ mainPc' = "lock"
  /\ UNCHANGED <<mutex_queue, queue, size_queue, waiters, workerVars>>

MainLock ==
  /\ mainPc = "lock"
  /\ mutex_queue = None
  /\ mutex_queue' = Main
  /\ mainPc' = "offer"
  /\ UNCHANGED <<backlog, reqSocketFD, accepted, queue, size_queue, waiters,
                 workerVars>>

\* offer_int(&queue, reqSocketFD)
MainOffer ==
  /\ mainPc = "offer"
  /\ queue' = Append(queue, reqSocketFD)
  /\ mainPc' = "count"
  /\ UNCHANGED <<backlog, reqSocketFD, accepted, mutex_queue, size_queue,
                 waiters, workerVars>>

MainCount ==
  /\ mainPc = "count"
  /\ size_queue' = size_queue + 1
  /\ mainPc' = "broadcast"
  /\ UNCHANGED <<backlog, reqSocketFD, accepted, mutex_queue, queue, waiters,
                 workerVars>>

MainBroadcast ==
  /\ mainPc = "broadcast"
  /\ waiters' = {}
  /\ mainPc' = "unlock"
  /\ UNCHANGED <<backlog, reqSocketFD, accepted, mutex_queue, queue,
                 size_queue, workerVars>>

MainUnlock ==
  /\ mainPc = "unlock"
  /\ mutex_queue' = None
  /\ mainPc' = "accept"
  /\ UNCHANGED <<backlog, reqSocketFD, accepted, queue, size_queue, waiters,
                 workerVars>>

MainStep == \/ MainAccept \/ MainLock \/ MainOffer
            \/ MainCount \/ MainBroadcast \/ MainUnlock

-----------------------------------------------------------------------------
\* The workers.

Lock(w) ==
  /\ pc[w] = "lock"
  /\ mutex_queue = None
  /\ mutex_queue' = w
  /\ pc' = [pc EXCEPT ![w] = "test"]
  /\ UNCHANGED <<mainVars, queue, size_queue, waiters, fd_server, taken>>

\* while (size_queue == 0) pthread_cond_wait(&cond_queue, &mutex_queue)
Wait(w) ==
  /\ pc[w] = "test"
  /\ size_queue = 0
  /\ waiters' = waiters \cup {w}
  /\ mutex_queue' = None
  /\ pc' = [pc EXCEPT ![w] = "wait"]
  /\ UNCHANGED <<mainVars, queue, size_queue, fd_server, taken>>

\* pthread_cond_wait returns with the mutex held, and the loop tests again.
Wake(w) ==
  /\ pc[w] = "wait"
  /\ w \notin waiters
  /\ mutex_queue = None
  /\ mutex_queue' = w
  /\ pc' = [pc EXCEPT ![w] = "test"]
  /\ UNCHANGED <<mainVars, queue, size_queue, waiters, fd_server, taken>>

\* POSIX lets a waiting thread wake up with nobody having signalled it.
SpuriousWakeup(w) ==
  /\ w \in waiters
  /\ waiters' = waiters \ {w}
  /\ UNCHANGED <<mainVars, mutex_queue, queue, size_queue, workerVars>>

LeaveWait(w) ==
  /\ pc[w] = "test"
  /\ size_queue # 0
  /\ pc' = [pc EXCEPT ![w] = "poll"]
  /\ UNCHANGED <<mainVars, mutex_queue, queue, size_queue, waiters, fd_server,
                 taken>>

\* fd_server = poll_int(&queue), which returns -1 for an empty list
Poll(w) ==
  /\ pc[w] = "poll"
  /\ IF queue = <<>>
       THEN /\ fd_server' = [fd_server EXCEPT ![w] = None]
            /\ UNCHANGED <<queue, taken>>
       ELSE /\ fd_server' = [fd_server EXCEPT ![w] = Head(queue)]
            /\ queue' = Tail(queue)
            /\ taken' = Append(taken, Head(queue))
  /\ pc' = [pc EXCEPT ![w] = "count"]
  /\ UNCHANGED <<mainVars, mutex_queue, size_queue, waiters>>

Count(w) ==
  /\ pc[w] = "count"
  /\ size_queue' = size_queue - 1
  /\ pc' = [pc EXCEPT ![w] = "unlock"]
  /\ UNCHANGED <<mainVars, mutex_queue, queue, waiters, fd_server, taken>>

Unlock(w) ==
  /\ pc[w] = "unlock"
  /\ mutex_queue' = None
  /\ pc' = [pc EXCEPT ![w] = "serve"]
  /\ UNCHANGED <<mainVars, queue, size_queue, waiters, fd_server, taken>>

\* The worker is done with the connection and goes round its loop.
Finish(w) ==
  /\ pc[w] = "serve"
  /\ pc' = [pc EXCEPT ![w] = "lock"]
  /\ UNCHANGED <<mainVars, mutex_queue, queue, size_queue, waiters, fd_server,
                 taken>>

QueueStep(w) == \/ Lock(w) \/ Wait(w) \/ Wake(w) \/ LeaveWait(w)
                \/ Poll(w) \/ Count(w) \/ Unlock(w)

Next == \/ \E c \in Conns : Connect(c)
        \/ MainStep
        \/ \E w \in Workers : QueueStep(w) \/ Finish(w) \/ SpuriousWakeup(w)

\* Every thread runs, serving a connection ends, and spurious wakeups stop:
\* main could otherwise lose every race for the mutex to workers that wake
\* up for nothing.
Fairness ==
  /\ WF_vars(MainStep)
  /\ \A w \in Workers : WF_vars(QueueStep(w)) /\ WF_vars(Finish(w))
  /\ <>[][\A w \in Workers : ~SpuriousWakeup(w)]_vars

Spec == Init /\ [][Next]_vars /\ Fairness

-----------------------------------------------------------------------------
\* Properties.

TypeOK ==
  /\ backlog \in Seq(Conns)
  /\ mainPc \in MainLabels
  /\ reqSocketFD \in Conns \cup {None}
  /\ mainPc \in {"lock", "offer"} => reqSocketFD \in Conns
  /\ mutex_queue \in Workers \cup {Main, None}
  /\ queue \in Seq(Conns)
  /\ size_queue \in Int
  /\ waiters \in SUBSET Workers
  /\ pc \in [Workers -> Labels]
  /\ fd_server \in [Workers -> Conns \cup {None}]
  /\ accepted \in Seq(Conns)
  /\ taken \in Seq(Conns)

\* The connection main holds between accept() and offer_int().
InMainsHand == IF mainPc \in {"lock", "offer"} THEN <<reqSocketFD>> ELSE <<>>

\* Every accepted connection is, in the order of accept(), with a worker, in
\* the list, or in main's hand: none is lost, duplicated or overtaken on its
\* way through offer_int and poll_int.
NothingLost == accepted = taken \o queue \o InMainsHand

\* Whenever nobody holds mutex_queue the counter, which the workers test, and
\* the list, which they take from, agree.
CountMatchesQueue == mutex_queue = None => size_queue = Len(queue)

\* A worker that left the wait loop finds a connection in the list: poll_int
\* does not return -1, although several workers are woken for one connection.
NoEmptyPoll ==
  \A w \in Workers : pc[w] \in {"count", "unlock", "serve"}
                       => fd_server[w] # None

\* No worker sleeps on cond_queue while the counter says there is work, but
\* for the moment between main's size_queue++ and its broadcast.
NoLostWakeup == waiters # {} /\ size_queue # 0 => mainPc = "broadcast"

\* Two workers never serve the same connection.
OneServerPerConnection ==
  \A v, w \in Workers :
    v # w /\ pc[v] = "serve" /\ pc[w] = "serve" => fd_server[v] # fd_server[w]

\* The queue implements the abstract handoff; a worker serves a connection
\* from poll_int() until it is done with it.
Handoff == INSTANCE ConnectionHandoff WITH
  serving <- [w \in Workers |-> IF pc[w] \in {"count", "unlock", "serve"}
                                   THEN fd_server[w] ELSE None]

HandoffSpec == Handoff!Spec

\* Its safety part, without the fairness: every step of the queue is a step of
\* the handoff or leaves it unchanged.
HandoffSafety == Handoff!Init /\ [][Handoff!Next]_Handoff!vars

-----------------------------------------------------------------------------
\* The inductive invariant behind the safety properties (WorkQueue_proof).

MainHolds == mainPc \in {"offer", "count", "broadcast", "unlock"}
Holds(w) == pc[w] \in {"test", "poll", "count", "unlock"}
HasConn(w) == pc[w] \in {"count", "unlock", "serve"}

\* The threads inside the critical section are the holder of mutex_queue.
MutexInv ==
  /\ MainHolds <=> mutex_queue = Main
  /\ \A w \in Workers : Holds(w) <=> mutex_queue = w
  /\ \A w \in waiters : pc[w] = "wait"

\* How far the counter is from the list at each point of a critical section.
CountInv ==
  /\ mainPc = "count" => Len(queue) = size_queue + 1
  /\ \A w \in Workers : pc[w] = "count" => size_queue = Len(queue) + 1
  /\ mainPc # "count" /\ (\A w \in Workers : pc[w] # "count")
       => size_queue = Len(queue)
  /\ \A w \in Workers : pc[w] = "poll" => size_queue # 0

\* No connection is accepted twice.
AcceptedOnce ==
  /\ \A i, j \in 1 .. Len(accepted) : accepted[i] = accepted[j] => i = j
  /\ \A i, j \in 1 .. Len(backlog) : backlog[i] = backlog[j] => i = j
  /\ \A i \in 1 .. Len(accepted), j \in 1 .. Len(backlog) :
       accepted[i] # backlog[j]

\* What the workers serve was taken from the list, by one of them.
ServingInv ==
  /\ \A w \in Workers : HasConn(w) => fd_server[w] \in Elems(taken)
  /\ \A v, w \in Workers :
       v # w /\ HasConn(v) /\ HasConn(w) => fd_server[v] # fd_server[w]

IInv ==
  /\ TypeOK
  /\ MutexInv
  /\ CountInv
  /\ NothingLost
  /\ NoLostWakeup
  /\ AcceptedOnce
  /\ ServingInv

=============================================================================
