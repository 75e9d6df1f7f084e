-------------------------- MODULE WorkQueue_proof --------------------------
(***************************************************************************)
(* Proofs about WorkQueue for any number of workers and connections: the   *)
(* inductive invariant IInv is proved one conjunct at a time, each from    *)
(* the ones before it.                                                     *)
(***************************************************************************)
EXTENDS WorkQueue, SequenceTheorems, TLAPS

USE DEF MainLabels, Labels

\* Moving the head of t to the end of s does not change s \o t: what poll_int
\* does to the history of taken connections and to the list.
LEMMA MoveHead ==
  ASSUME NEW S, NEW s \in Seq(S), NEW t \in Seq(S), t # <<>>
  PROVE  Append(s, Head(t)) \o Tail(t) = s \o t
<1>1. Head(t) \in S /\ Tail(t) \in Seq(S)
  BY HeadTailProperties
<1>2. <<Head(t)>> \in Seq(S)
  BY <1>1
<1>3. Append(s, Head(t)) = s \o <<Head(t)>>
  BY <1>1, AppendIsConcat
<1>4. t = <<Head(t)>> \o Tail(t)
  BY <1>1, <1>2, HeadTailProperties, ConcatProperties, SeqEqual
<1> QED
  BY <1>1, <1>2, <1>3, <1>4, ConcatAssociative

\* Every variable of WorkQueue keeps its type, whatever the interleaving of
\* main (server.c 311-332) and the workers (server.c 77-95).
THEOREM Typing == Spec => []TypeOK
<1>1. Init => TypeOK
  BY DEF Init, TypeOK
<1>2. TypeOK /\ [Next]_vars => TypeOK'
  <2> SUFFICES ASSUME TypeOK, [Next]_vars PROVE TypeOK'
    OBVIOUS
  <2> USE DEF TypeOK, mainVars, workerVars
  <2>1. ASSUME NEW c \in Conns, Connect(c) PROVE TypeOK'
    BY <2>1, AppendProperties DEF Connect
  <2>2. CASE MainAccept
    <3>1. Head(backlog) \in Conns /\ Tail(backlog) \in Seq(Conns)
      BY <2>2, HeadTailProperties DEF MainAccept
    <3>2. Append(accepted, Head(backlog)) \in Seq(Conns)
      BY <3>1, AppendProperties
    <3> QED
      BY <2>2, <3>1, <3>2 DEF MainAccept
  <2>3. CASE MainLock
    BY <2>3 DEF MainLock
  <2>4. CASE MainOffer
    BY <2>4, AppendProperties DEF MainOffer
  <2>5. CASE MainCount
    BY <2>5 DEF MainCount
  <2>6. CASE MainBroadcast
    BY <2>6 DEF MainBroadcast
  <2>7. CASE MainUnlock
    BY <2>7 DEF MainUnlock
  <2>8. ASSUME NEW w \in Workers, QueueStep(w) PROVE TypeOK'
    <3>1. CASE Poll(w)
      <4>1. CASE queue = <<>>
        BY <3>1, <4>1 DEF Poll
      <4>2. CASE queue # <<>>
        <5>1. Head(queue) \in Conns /\ Tail(queue) \in Seq(Conns)
          BY <4>2, HeadTailProperties
        <5>2. Append(taken, Head(queue)) \in Seq(Conns)
          BY <5>1, AppendProperties
        <5> QED
          BY <3>1, <4>2, <5>1, <5>2 DEF Poll
      <4> QED
        BY <4>1, <4>2
    <3>2. CASE Lock(w) \/ Wake(w)
      BY <3>2 DEF Lock, Wake
    <3>3. CASE Wait(w)
      BY <3>3 DEF Wait
    <3>4. CASE LeaveWait(w)
      BY <3>4 DEF LeaveWait
    <3>5. CASE Count(w)
      BY <3>5 DEF Count
    <3>6. CASE Unlock(w)
      BY <3>6 DEF Unlock
    <3> QED
      BY <2>8, <3>1, <3>2, <3>3, <3>4, <3>5, <3>6 DEF QueueStep
  <2>9. ASSUME NEW w \in Workers, Finish(w) \/ SpuriousWakeup(w) PROVE TypeOK'
    BY <2>9 DEF Finish, SpuriousWakeup
  <2>10. CASE UNCHANGED vars
    BY <2>10 DEF vars
  <2> QED
    BY <2>1, <2>2, <2>3, <2>4, <2>5, <2>6, <2>7, <2>8, <2>9, <2>10
       DEF Next, MainStep
<1> QED
  BY <1>1, <1>2, PTL DEF Spec

\* Only the holder of mutex_queue is inside a critical section: main between
\* server.c 321 and 325, a worker between 86 and 93.
THEOREM MutualExclusion == Spec => []MutexInv
<1>1. Init => MutexInv
  BY WorkQueueAssumption DEF Init, MutexInv, MainHolds, Holds
<1>2. TypeOK /\ MutexInv /\ [Next]_vars => MutexInv'
  <2> SUFFICES ASSUME TypeOK, MutexInv, [Next]_vars PROVE MutexInv'
    OBVIOUS
  <2> USE WorkQueueAssumption
      DEF TypeOK, MutexInv, MainHolds, Holds, mainVars, workerVars
  <2>1. ASSUME NEW c \in Conns, Connect(c) PROVE MutexInv'
    BY <2>1 DEF Connect
  <2>2. CASE MainStep
    BY <2>2 DEF MainStep, MainAccept, MainLock, MainOffer, MainCount,
                MainBroadcast, MainUnlock
  <2>3. ASSUME NEW w \in Workers, QueueStep(w) PROVE MutexInv'
    <3>1. CASE Lock(w)
      BY <3>1 DEF Lock
    <3>2. CASE Wait(w)
      BY <3>2 DEF Wait
    <3>3. CASE Wake(w)
      BY <3>3 DEF Wake
    <3>4. CASE LeaveWait(w) \/ Count(w) \/ Unlock(w)
      BY <3>4 DEF LeaveWait, Count, Unlock
    <3>5. CASE Poll(w)
      BY <3>5 DEF Poll
    <3> QED
      BY <2>3, <3>1, <3>2, <3>3, <3>4, <3>5 DEF QueueStep
  <2>4. ASSUME NEW w \in Workers, Finish(w) \/ SpuriousWakeup(w)
        PROVE  MutexInv'
    BY <2>4 DEF Finish, SpuriousWakeup
  <2>5. CASE UNCHANGED vars
    BY <2>5 DEF vars
  <2> QED
    BY <2>1, <2>2, <2>3, <2>4, <2>5 DEF Next
<1> QED
  BY <1>1, <1>2, Typing, PTL DEF Spec

\* The offsets between counter and list inside a critical section (server.c
\* 322-323, 90-91), and that a worker at poll_int has seen a counter above 0.
LEMMA Counting == Spec => []CountInv
<1>1. Init => CountInv
  BY DEF Init, CountInv
<1>2. TypeOK /\ MutexInv /\ MutexInv' /\ CountInv /\ [Next]_vars => CountInv'
  <2> SUFFICES ASSUME TypeOK, MutexInv, MutexInv', CountInv, [Next]_vars
               PROVE  CountInv'
    OBVIOUS
  <2> USE WorkQueueAssumption
      DEF TypeOK, CountInv, MutexInv, MainHolds, Holds, mainVars, workerVars
  <2>1. ASSUME NEW c \in Conns, Connect(c) PROVE CountInv'
    BY <2>1 DEF Connect
  <2>2. CASE MainAccept \/ MainLock \/ MainBroadcast \/ MainUnlock
    BY <2>2 DEF MainAccept, MainLock, MainBroadcast, MainUnlock
  <2>3. CASE MainOffer
    <3>1. Len(queue') = Len(queue) + 1
      BY <2>3, AppendProperties DEF MainOffer
    <3>2. Len(queue) \in Nat
      BY LenProperties
    <3> QED
      BY <2>3, <3>1, <3>2 DEF MainOffer
  <2>4. CASE MainCount
    BY <2>4, LenProperties DEF MainCount
  <2>5. ASSUME NEW w \in Workers, Poll(w) PROVE CountInv'
    <3>1. size_queue = Len(queue) /\ size_queue # 0
      BY <2>5 DEF Poll
    <3>2. queue # <<>>
      BY <3>1, EmptySeq
    <3>3. Len(queue') = Len(queue) - 1
      BY <2>5, <3>2, HeadTailProperties DEF Poll
    <3> QED
      BY <2>5, <3>1, <3>3 DEF Poll
  <2>6. ASSUME NEW w \in Workers, Count(w) PROVE CountInv'
    BY <2>6, LenProperties DEF Count
  <2>7. ASSUME NEW w \in Workers, Lock(w) \/ Wake(w) PROVE CountInv'
    BY <2>7 DEF Lock, Wake
  <2>8. ASSUME NEW w \in Workers, LeaveWait(w) PROVE CountInv'
    BY <2>8 DEF LeaveWait
  <2>9. ASSUME NEW w \in Workers, Wait(w) \/ Unlock(w) PROVE CountInv'
    BY <2>9 DEF Wait, Unlock
  <2>10. ASSUME NEW w \in Workers, Finish(w) \/ SpuriousWakeup(w)
         PROVE  CountInv'
    BY <2>10 DEF Finish, SpuriousWakeup
  <2>11. CASE UNCHANGED vars
    BY <2>11 DEF vars
  <2> QED
    BY <2>1, <2>2, <2>3, <2>4, <2>5, <2>6, <2>7, <2>8, <2>9, <2>10, <2>11
       DEF Next, MainStep, QueueStep
<1> QED
  BY <1>1, <1>2, Typing, MutualExclusion, PTL DEF Spec

\* Whenever mutex_queue is free, size_queue is the length of the list: both
\* critical sections close the gap before they release the mutex.
THEOREM CountIsExact == Spec => []CountMatchesQueue
<1>1. TypeOK /\ MutexInv /\ CountInv => CountMatchesQueue
  BY WorkQueueAssumption
     DEF TypeOK, MutexInv, CountInv, CountMatchesQueue, MainHolds, Holds
<1> QED
  BY <1>1, Typing, MutualExclusion, Counting, PTL

\* A worker asleep on cond_queue is never left behind with work in the list:
\* the test of size_queue and the wait are one step under mutex_queue, and
\* main broadcasts before it releases the mutex (server.c 86-88, 321-325).
THEOREM WakeupsReach == Spec => []NoLostWakeup
<1>1. Init => NoLostWakeup
  BY DEF Init, NoLostWakeup
<1>2. TypeOK /\ MutexInv /\ CountInv /\ NoLostWakeup /\ [Next]_vars
        => NoLostWakeup'
  <2> SUFFICES ASSUME TypeOK, MutexInv, CountInv, NoLostWakeup, [Next]_vars
               PROVE  NoLostWakeup'
    OBVIOUS
  <2> USE WorkQueueAssumption DEF TypeOK, NoLostWakeup, mainVars, workerVars
  <2>1. ASSUME NEW c \in Conns, Connect(c) PROVE NoLostWakeup'
    BY <2>1 DEF Connect
  <2>2. CASE MainStep
    BY <2>2 DEF MainStep, MainAccept, MainLock, MainOffer, MainCount,
                MainBroadcast, MainUnlock
  <2>3. ASSUME NEW w \in Workers, Count(w) PROVE NoLostWakeup'
    \* The counter goes down by one: it was not zero before.
    <3>1. size_queue # 0
      BY <2>3, LenProperties DEF Count, CountInv
    <3> QED
      BY <2>3, <3>1 DEF Count
  <2>4. ASSUME NEW w \in Workers, QueueStep(w), ~Count(w) PROVE NoLostWakeup'
    BY <2>4 DEF QueueStep, Lock, Wait, Wake, LeaveWait, Poll, Unlock
  <2>5. ASSUME NEW w \in Workers, Finish(w) \/ SpuriousWakeup(w)
        PROVE  NoLostWakeup'
    BY <2>5 DEF Finish, SpuriousWakeup
  <2>6. CASE UNCHANGED vars
    BY <2>6 DEF vars
  <2> QED
    BY <2>1, <2>2, <2>3, <2>4, <2>5, <2>6 DEF Next
<1>3. Spec => []CountInv
  BY Counting
<1> QED
  BY <1>1, <1>2, <1>3, Typing, MutualExclusion, PTL DEF Spec

\* On its way from accept() to a worker no connection is lost, duplicated or
\* overtaken (server.c 316-325, 86-93 and queue.c).
THEOREM Conservation == Spec => []NothingLost
<1>1. Init => NothingLost
  <2> SUFFICES ASSUME Init PROVE NothingLost
    OBVIOUS
  <2> QED
    BY ConcatEmptySeq, EmptySeq DEF Init, NothingLost, InMainsHand
<1>2. TypeOK /\ NothingLost /\ [Next]_vars => NothingLost'
  <2> SUFFICES ASSUME TypeOK, NothingLost, [Next]_vars PROVE NothingLost'
    OBVIOUS
  <2> USE DEF TypeOK, NothingLost, InMainsHand, mainVars, workerVars
  <2>1. ASSUME NEW c \in Conns, Connect(c) PROVE NothingLost'
    BY <2>1 DEF Connect
  <2>2. CASE MainAccept
    <3> DEFINE c == Head(backlog)
    <3>1. c \in Conns /\ taken \o queue \in Seq(Conns)
      BY <2>2, HeadTailProperties, ConcatProperties DEF MainAccept
    <3>2. accepted = taken \o queue
      BY <2>2, <3>1, ConcatEmptySeq DEF MainAccept
    <3>3. accepted' = (taken \o queue) \o <<c>>
      BY <2>2, <3>1, <3>2, AppendIsConcat DEF MainAccept
    <3> QED
      BY <2>2, <3>3 DEF MainAccept
  <2>3. CASE MainOffer
    <3>1. queue' = queue \o <<reqSocketFD>>
      BY <2>3, AppendIsConcat DEF MainOffer
    <3>2. <<reqSocketFD>> \in Seq(Conns)
      BY <2>3 DEF MainOffer
    <3>3. accepted = taken \o (queue \o <<reqSocketFD>>)
      BY <2>3, <3>2, ConcatAssociative DEF MainOffer
    <3>4. queue \o <<reqSocketFD>> \in Seq(Conns)
      BY <3>2, ConcatProperties
    <3>5. taken \o (queue \o <<reqSocketFD>>) \in Seq(Conns)
      BY <3>4, ConcatProperties
    <3>6. accepted = (taken \o (queue \o <<reqSocketFD>>)) \o <<>>
      BY <3>3, <3>5, ConcatEmptySeq
    <3> QED
      BY <2>3, <3>1, <3>6 DEF MainOffer
  <2>4. CASE MainLock \/ MainCount \/ MainBroadcast \/ MainUnlock
    BY <2>4 DEF MainLock, MainCount, MainBroadcast, MainUnlock
  <2>5. ASSUME NEW w \in Workers, Poll(w) PROVE NothingLost'
    <3>1. CASE queue = <<>>
      BY <2>5, <3>1 DEF Poll
    <3>2. CASE queue # <<>>
      <4>1. taken' \o queue' = taken \o queue
        BY <2>5, <3>2, MoveHead DEF Poll
      <4> QED
        BY <2>5, <3>2, <4>1 DEF Poll
    <3> QED
      BY <3>1, <3>2
  <2>6. ASSUME NEW w \in Workers, QueueStep(w), ~Poll(w) PROVE NothingLost'
    BY <2>6 DEF QueueStep, Lock, Wait, Wake, LeaveWait, Count, Unlock
  <2>7. ASSUME NEW w \in Workers, Finish(w) \/ SpuriousWakeup(w)
        PROVE  NothingLost'
    BY <2>7 DEF Finish, SpuriousWakeup
  <2>8. CASE UNCHANGED vars
    BY <2>8 DEF vars
  <2> QED
    BY <2>1, <2>2, <2>3, <2>4, <2>5, <2>6, <2>7, <2>8 DEF Next, MainStep
<1> QED
  BY <1>1, <1>2, Typing, PTL DEF Spec

\* In a concatenation of three sequences the first one comes first, and the
\* head of the second one next.
LEMMA ThreeParts ==
  ASSUME NEW S, NEW s \in Seq(S), NEW t \in Seq(S), NEW u \in Seq(S), NEW a,
         a = (s \o t) \o u
  PROVE  /\ Len(s) <= Len(a)
         /\ \A i \in 1 .. Len(s) : a[i] = s[i]
         /\ t # <<>> => Len(s) + 1 <= Len(a) /\ a[Len(s) + 1] = Head(t)
<1>1. /\ s \o t \in Seq(S)
      /\ Len(s \o t) = Len(s) + Len(t)
      /\ \A i \in 1 .. Len(s) + Len(t) :
           (s \o t)[i] = IF i <= Len(s) THEN s[i] ELSE t[i - Len(s)]
  BY ConcatProperties, Zenon
<1>2. \A p \in Seq(S) :
        /\ Len(p \o u) = Len(p) + Len(u)
        /\ \A i \in 1 .. Len(p) + Len(u) :
             (p \o u)[i] = IF i <= Len(p) THEN p[i] ELSE u[i - Len(p)]
  BY ConcatProperties, Zenon
<1>3. Len(s) \in Nat /\ Len(t) \in Nat /\ Len(u) \in Nat
  BY LenProperties
<1>4. Len(s) <= Len(a)
  BY <1>1, <1>2, <1>3
<1>5. \A i \in 1 .. Len(s) : a[i] = s[i]
  BY <1>1, <1>2, <1>3
<1>6. ASSUME t # <<>>
      PROVE  Len(s) + 1 <= Len(a) /\ a[Len(s) + 1] = Head(t)
  <2>1. Len(t) >= 1 /\ Head(t) = t[1]
    BY <1>3, <1>6, EmptySeq
  <2> QED
    BY <1>1, <1>2, <1>3, <2>1
<1> QED
  BY <1>4, <1>5, <1>6

\* What NothingLost says of single connections: the taken ones are the first
\* of the accepted ones, and the head of the list is the next.
LEMMA NextIsHead ==
  ASSUME TypeOK, NothingLost
  PROVE  /\ Len(taken) <= Len(accepted)
         /\ \A i \in 1 .. Len(taken) : accepted[i] = taken[i]
         /\ queue # <<>> => /\ Len(taken) + 1 <= Len(accepted)
                           /\ accepted[Len(taken) + 1] = Head(queue)
<1>1. InMainsHand \in Seq(Conns)
  BY DEF TypeOK, InMainsHand
<1>2. taken \in Seq(Conns) /\ queue \in Seq(Conns)
  BY DEF TypeOK
<1>3. accepted = (taken \o queue) \o InMainsHand
  BY DEF NothingLost
<1> QED
  BY <1>1, <1>2, <1>3, ThreeParts

\* Appending a new element to a sequence without repetitions.
LEMMA AppendDistinct ==
  ASSUME NEW S, NEW s \in Seq(S), NEW e \in S,
         \A i, j \in 1 .. Len(s) : s[i] = s[j] => i = j,
         \A i \in 1 .. Len(s) : s[i] # e
  PROVE  \A i, j \in 1 .. Len(Append(s, e)) :
           Append(s, e)[i] = Append(s, e)[j] => i = j
<1> DEFINE a == Append(s, e)
<1>1. /\ Len(a) = Len(s) + 1
      /\ \A i \in 1 .. Len(s) : a[i] = s[i]
      /\ a[Len(s) + 1] = e
      /\ Len(s) \in Nat
  BY AppendProperties, LenProperties
<1> HIDE DEF a
<1> SUFFICES ASSUME NEW i \in 1 .. Len(a), NEW j \in 1 .. Len(a), a[i] = a[j]
             PROVE  i = j
  BY DEF a
<1>2. CASE i \in 1 .. Len(s) /\ j \in 1 .. Len(s)
  BY <1>1, <1>2
<1>3. CASE i = Len(s) + 1 /\ j \in 1 .. Len(s)
  BY <1>1, <1>3
<1>4. CASE j = Len(s) + 1 /\ i \in 1 .. Len(s)
  BY <1>1, <1>4
<1>5. CASE i = Len(s) + 1 /\ j = Len(s) + 1
  BY <1>5
<1> QED
  BY <1>1, <1>2, <1>3, <1>4, <1>5

\* accept() never yields a connection twice.
LEMMA Unique == Spec => []AcceptedOnce
<1>1. Init => AcceptedOnce
  BY DEF Init, AcceptedOnce
<1>2. TypeOK /\ AcceptedOnce /\ [Next]_vars => AcceptedOnce'
  <2> SUFFICES ASSUME TypeOK, AcceptedOnce, [Next]_vars PROVE AcceptedOnce'
    OBVIOUS
  <2> USE DEF TypeOK, mainVars, workerVars
  <2>0. Len(backlog) \in Nat /\ Len(accepted) \in Nat
    BY LenProperties
  <2>1. ASSUME NEW c \in Conns, Connect(c) PROVE AcceptedOnce'
    <3>1. /\ backlog' = Append(backlog, c)
          /\ accepted' = accepted
          /\ \A i \in 1 .. Len(backlog) : backlog[i] # c
          /\ \A i \in 1 .. Len(accepted) : accepted[i] # c
      BY <2>1 DEF Connect, Elems
    <3>2. \A i, j \in 1 .. Len(backlog') : backlog'[i] = backlog'[j] => i = j
      BY <3>1, AppendDistinct DEF AcceptedOnce
    <3>3. \A j \in 1 .. Len(backlog') :
            backlog'[j] = c \/ (j \in 1 .. Len(backlog) /\ backlog'[j] = backlog[j])
      BY <2>0, <3>1, AppendProperties
    <3>4. \A i \in 1 .. Len(accepted'), j \in 1 .. Len(backlog') :
            accepted'[i] # backlog'[j]
      <4> TAKE i \in 1 .. Len(accepted'), j \in 1 .. Len(backlog')
      <4>1. i \in 1 .. Len(accepted) /\ accepted'[i] = accepted[i]
        BY <3>1
      <4>2. CASE backlog'[j] = c
        BY <3>1, <4>1, <4>2
      <4>3. CASE j \in 1 .. Len(backlog) /\ backlog'[j] = backlog[j]
        BY <4>1, <4>3 DEF AcceptedOnce
      <4> QED
        BY <3>3, <4>2, <4>3
    <3>5. \A i, j \in 1 .. Len(accepted') :
            accepted'[i] = accepted'[j] => i = j
      BY <3>1 DEF AcceptedOnce
    <3> QED
      BY <3>2, <3>4, <3>5 DEF AcceptedOnce
  <2>2. CASE MainAccept
    <3> DEFINE c == Head(backlog)
    <3>1. /\ Len(backlog) >= 1
          /\ c = backlog[1]
          /\ c \in Conns
          /\ Len(backlog') = Len(backlog) - 1
          /\ \A i \in 1 .. Len(backlog) - 1 : backlog'[i] = backlog[i + 1]
      BY <2>0, <2>2, HeadTailProperties, EmptySeq DEF MainAccept
    <3>2. accepted' = Append(accepted, c)
      BY <2>2 DEF MainAccept
    <3> HIDE DEF c
    <3>3. \A i \in 1 .. Len(accepted) : accepted[i] # c
      BY <2>0, <3>1 DEF AcceptedOnce
    <3>4. \A i, j \in 1 .. Len(accepted') :
            accepted'[i] = accepted'[j] => i = j
      BY <3>1, <3>2, <3>3, AppendDistinct DEF AcceptedOnce
    <3>5. \A j \in 1 .. Len(backlog') :
            j + 1 \in 2 .. Len(backlog) /\ backlog'[j] = backlog[j + 1]
      BY <2>0, <3>1
    <3>6. \A i, j \in 1 .. Len(backlog') : backlog'[i] = backlog'[j] => i = j
      <4> TAKE i, j \in 1 .. Len(backlog')
      <4>1. i \in Int /\ j \in Int
        OBVIOUS
      <4>2. backlog[i + 1] = backlog[j + 1] => i + 1 = j + 1
        BY <2>0, <3>1, <3>5 DEF AcceptedOnce
      <4> QED
        BY <3>5, <4>1, <4>2
    <3>7. \A i \in 1 .. Len(accepted') :
            accepted'[i] = c \/ (/\ i \in 1 .. Len(accepted)
                                 /\ accepted'[i] = accepted[i])
      BY <2>0, <3>1, <3>2, AppendProperties
    <3>8. \A j \in 1 .. Len(backlog') : backlog'[j] # c
      <4> TAKE j \in 1 .. Len(backlog')
      <4>1. j \in Nat /\ j >= 1 /\ j + 1 \in 1 .. Len(backlog)
        BY <2>0, <3>5
      <4>2. backlog[j + 1] = backlog[1] => j + 1 = 1
        BY <2>0, <3>1, <4>1 DEF AcceptedOnce
      <4> QED
        BY <3>1, <3>5, <4>1, <4>2
    <3>9. \A i \in 1 .. Len(accepted'), j \in 1 .. Len(backlog') :
            accepted'[i] # backlog'[j]
      <4> TAKE i \in 1 .. Len(accepted'), j \in 1 .. Len(backlog')
      <4>1. j + 1 \in 1 .. Len(backlog) /\ backlog'[j] = backlog[j + 1]
        BY <2>0, <3>5
      <4>2. \A m \in 1 .. Len(accepted) : accepted[m] # backlog'[j]
        BY <4>1 DEF AcceptedOnce
      <4>3. CASE accepted'[i] = c
        BY <3>8, <4>3
      <4>4. CASE i \in 1 .. Len(accepted) /\ accepted'[i] = accepted[i]
        BY <4>2, <4>4
      <4> QED
        BY <3>7, <4>3, <4>4
    <3> QED
      BY <3>4, <3>6, <3>9 DEF AcceptedOnce
  <2>3. CASE UNCHANGED <<backlog, accepted>>
    BY <2>3 DEF AcceptedOnce
  <2> QED
    BY <2>1, <2>2, <2>3
       DEF Next, vars, MainStep, MainLock, MainOffer, MainCount,
           MainBroadcast, MainUnlock, QueueStep, Lock, Wait, Wake, LeaveWait,
           Poll, Count, Unlock, Finish, SpuriousWakeup
<1> QED
  BY <1>1, <1>2, Typing, PTL DEF Spec

\* A worker between poll_int and the end of its loop body has a connection
\* of its own.
LEMMA Serving == Spec => []ServingInv
<1>1. Init => ServingInv
  BY DEF Init, ServingInv, HasConn
<1>2. /\ TypeOK /\ MutexInv /\ CountInv /\ NothingLost /\ AcceptedOnce
      /\ ServingInv /\ [Next]_vars
      => ServingInv'
  <2> SUFFICES ASSUME TypeOK, MutexInv, CountInv, NothingLost, AcceptedOnce,
                      ServingInv, [Next]_vars
               PROVE  ServingInv'
    OBVIOUS
  <2> USE DEF ServingInv, HasConn, mainVars, workerVars
  <2>1. ASSUME NEW w \in Workers, Poll(w) PROVE ServingInv'
    <3> DEFINE c == Head(queue)
    <3>1. queue # <<>>
      BY <2>1, WorkQueueAssumption, EmptySeq
         DEF Poll, CountInv, MutexInv, MainHolds, Holds
    <3>2. c \in Conns
      BY <3>1, HeadTailProperties DEF TypeOK
    <3>3. c \notin Elems(taken)
      BY <3>1, NextIsHead, LenProperties DEF TypeOK, AcceptedOnce, Elems
    <3>4. Elems(taken') = Elems(taken) \cup {c}
      <4>1. taken' = Append(taken, c)
        BY <2>1, <3>1 DEF Poll
      <4> QED
        BY <3>2, <4>1, AppendProperties, LenProperties DEF TypeOK, Elems
    <3> HIDE DEF c
    <3>5. /\ fd_server' = [fd_server EXCEPT ![w] = c]
          /\ pc' = [pc EXCEPT ![w] = "count"]
          /\ pc[w] = "poll"
      BY <2>1, <3>1 DEF Poll, c
    <3> QED
      BY <3>3, <3>4, <3>5 DEF TypeOK
  <2>2. ASSUME UNCHANGED <<fd_server, taken>>,
               \A w \in Workers : HasConn(w)' => HasConn(w)
        PROVE  ServingInv'
    BY <2>2
  <2>3. ASSUME NEW w \in Workers, QueueStep(w), ~Poll(w) PROVE ServingInv'
    BY <2>2, <2>3
       DEF TypeOK, QueueStep, Lock, Wait, Wake, LeaveWait, Count, Unlock
  <2>4. ASSUME NEW w \in Workers, Finish(w) \/ SpuriousWakeup(w)
        PROVE  ServingInv'
    BY <2>2, <2>4 DEF TypeOK, Finish, SpuriousWakeup
  <2>5. CASE UNCHANGED workerVars
    BY <2>2, <2>5
  <2> QED
    BY <2>1, <2>3, <2>4, <2>5
       DEF Next, vars, Connect, MainStep, MainAccept, MainLock, MainOffer,
           MainCount, MainBroadcast, MainUnlock
<1> QED
  BY <1>1, <1>2, Typing, MutualExclusion, Counting, Conservation, Unique, PTL DEF Spec

\* Two workers never serve the same connection, so no client gets two
\* answers on one socket (server.c 95-199).
THEOREM ExclusiveService == Spec => []OneServerPerConnection
<1>1. ServingInv => OneServerPerConnection
  BY DEF ServingInv, HasConn, OneServerPerConnection
<1> QED
  BY <1>1, Serving, PTL

\* poll_int never returns -1 to a worker: the while loop around
\* pthread_cond_wait (server.c 88) tests again after every wakeup.
THEOREM PollFinds == Spec => []NoEmptyPoll
<1>1. TypeOK /\ ServingInv => NoEmptyPoll
  <2> SUFFICES ASSUME TypeOK, ServingInv, NEW w \in Workers, HasConn(w)
               PROVE  fd_server[w] # None
    BY DEF NoEmptyPoll, HasConn
  <2>1. PICK k \in 1 .. Len(taken) : fd_server[w] = taken[k]
    BY DEF ServingInv, Elems
  <2>2. taken[k] \in Conns
    BY <2>1 DEF TypeOK
  <2> QED
    BY <2>1, <2>2, WorkQueueAssumption
<1> QED
  BY <1>1, Typing, Serving, PTL

\* The queue implements the abstract handoff: accept() is Accept, poll_int is
\* Take of the oldest connection, the end of the loop body is Finish, and
\* every other step of main and the workers is a stutter.
THEOREM ImplementsHandoff == Spec => HandoffSafety
<1> USE DEF HandoffSafety
<1>1. Init => Handoff!Init
  BY DEF Init, Handoff!Init
<1>2. /\ TypeOK /\ MutexInv /\ CountInv /\ NothingLost /\ AcceptedOnce
      /\ ServingInv /\ [Next]_vars
      => [Handoff!Next]_Handoff!vars
  <2> SUFFICES ASSUME TypeOK, MutexInv, CountInv, NothingLost, AcceptedOnce,
                      ServingInv, [Next]_vars
               PROVE  [Handoff!Next]_Handoff!vars
    OBVIOUS
  <2> DEFINE serving == [w \in Workers |->
                          IF pc[w] \in {"count", "unlock", "serve"}
                            THEN fd_server[w] ELSE None]
  <2> USE DEF mainVars, workerVars
  <2>1. ASSUME UNCHANGED <<accepted, taken, fd_server>>,
               \A w \in Workers : HasConn(w)' = HasConn(w)
        PROVE  UNCHANGED Handoff!vars
    BY <2>1 DEF Handoff!vars, HasConn
  <2>2. CASE MainAccept
    <3>1. Head(backlog) \in Conns /\ Len(backlog) \in Nat /\ Len(backlog) # 0
          /\ Head(backlog) = backlog[1]
      BY <2>2, HeadTailProperties, EmptySeq, LenProperties
         DEF MainAccept, TypeOK
    <3>2. \A i \in 1 .. Len(accepted) : accepted[i] # Head(backlog)
      BY <3>1 DEF AcceptedOnce
    <3>3. Handoff!Accept(Head(backlog))
      BY <2>2, <3>2 DEF MainAccept, Handoff!Accept
    <3> QED
      BY <3>1, <3>3 DEF Handoff!Next
  <2>3. CASE MainStep /\ ~MainAccept
    BY <2>1, <2>3 DEF MainStep, MainLock, MainOffer, MainCount,
                      MainBroadcast, MainUnlock, HasConn
  <2>4. ASSUME NEW w \in Workers, Poll(w) PROVE Handoff!Next
    <3>1. queue # <<>>
      BY <2>4, WorkQueueAssumption, EmptySeq
         DEF Poll, TypeOK, CountInv, MutexInv, MainHolds, Holds
    <3>2. /\ Len(taken) + 1 <= Len(accepted)
          /\ accepted[Len(taken) + 1] = Head(queue)
      BY <3>1, NextIsHead
    <3>3. Len(taken) \in Nat /\ Len(accepted) \in Nat
      BY LenProperties DEF TypeOK
    <3>4. serving[w] = None /\ serving' = [serving EXCEPT ![w] = Head(queue)]
      BY <2>4, <3>1 DEF Poll, TypeOK
    <3>5. Handoff!Take(w)
      BY <2>4, <3>1, <3>2, <3>3, <3>4 DEF Poll, Handoff!Take
    <3> QED
      BY <3>5 DEF Handoff!Next, Handoff!TakeSome
  <2>5. ASSUME NEW w \in Workers, QueueStep(w), ~Poll(w)
        PROVE  UNCHANGED Handoff!vars
    BY <2>1, <2>5
       DEF TypeOK, QueueStep, Lock, Wait, Wake, LeaveWait, Count, Unlock,
           HasConn
  <2>6. ASSUME NEW w \in Workers, Finish(w) PROVE Handoff!Next
    <3>1. serving[w] # None
      BY <2>6, WorkQueueAssumption
         DEF Finish, TypeOK, ServingInv, HasConn, Elems
    <3>2. serving' = [serving EXCEPT ![w] = None]
      BY <2>6 DEF Finish, TypeOK
    <3>3. Handoff!Finish(w)
      BY <2>6, <3>1, <3>2 DEF Finish, Handoff!Finish
    <3> QED
      BY <3>3 DEF Handoff!Next
  <2>7. ASSUME NEW w \in Workers, SpuriousWakeup(w)
        PROVE  UNCHANGED Handoff!vars
    BY <2>1, <2>7 DEF SpuriousWakeup, HasConn
  <2>8. ASSUME NEW c \in Conns, Connect(c) PROVE UNCHANGED Handoff!vars
    BY <2>1, <2>8 DEF Connect, HasConn
  <2>9. CASE UNCHANGED vars
    BY <2>1, <2>9 DEF vars, HasConn
  <2> QED
    BY <2>2, <2>3, <2>4, <2>5, <2>6, <2>7, <2>8, <2>9 DEF Next
<1> QED
  BY <1>1, <1>2, Typing, MutualExclusion, Counting, Conservation, Unique,
     Serving, PTL DEF Spec
=============================================================================
