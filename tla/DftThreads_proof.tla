--------------------------- MODULE DftThreads_proof ---------------------------
(***************************************************************************)
(* Proofs about the barrier of PosixBarrier, for every finite set of       *)
(* threads, and about DftThreads, which extends it, for any number of      *)
(* threads and rows that main accepts and a SIGINT at any time or never.   *)
(***************************************************************************)
EXTENDS DftThreads, FiniteSetTheorems, TLAPS

-----------------------------------------------------------------------------
\* The barrier alone.

USE DEF BarrierLabels

\* The variables of the barrier keep their types.
THEOREM BTyping == BSafe => []BTypeOK
<1>1. BInit => BTypeOK
  BY DEF BInit, BTypeOK
<1>2. BTypeOK /\ [BNext]_bvars => BTypeOK'
  <2> SUFFICES ASSUME BTypeOK, [BNext]_bvars PROVE BTypeOK'
    OBVIOUS
  <2> USE DEF BTypeOK
  <2>1. ASSUME NEW t \in Threads, Arrive(t) PROVE BTypeOK'
    BY <2>1 DEF Arrive
  <2>2. ASSUME NEW t \in Threads, Wait(t) PROVE BTypeOK'
    BY <2>2 DEF Wait
  <2>3. ASSUME NEW t \in Threads, Wake(t) PROVE BTypeOK'
    BY <2>3 DEF Wake
  <2>4. ASSUME NEW t \in Threads, Pass(t) \/ Unlock(t) PROVE BTypeOK'
    BY <2>4 DEF Pass, Unlock
  <2>5. ASSUME NEW t \in Threads, SpuriousWakeup(t) PROVE BTypeOK'
    BY <2>5 DEF SpuriousWakeup
  <2>6. CASE UNCHANGED bvars
    BY <2>6 DEF bvars
  <2> QED
    BY <2>1, <2>2, <2>3, <2>4, <2>5, <2>6 DEF BNext, Inside
<1> QED
  BY <1>1, <1>2, PTL DEF BSafe

\* The holder of the mutex is the one thread inside the critical section, and
\* sleepers are outside.
LEMMA BExclusion == BSafe => []BMutexInv
<1>1. BInit => BMutexInv
  BY BarrierAssumption DEF BInit, BMutexInv, Holding
<1>2. BTypeOK /\ BMutexInv /\ [BNext]_bvars => BMutexInv'
  <2> SUFFICES ASSUME BTypeOK, BMutexInv, [BNext]_bvars PROVE BMutexInv'
    OBVIOUS
  <2> USE BarrierAssumption DEF BTypeOK, BMutexInv, Holding
  <2>1. ASSUME NEW t \in Threads, Arrive(t) PROVE BMutexInv'
    BY <2>1 DEF Arrive
  <2>2. ASSUME NEW t \in Threads, Wait(t) PROVE BMutexInv'
    BY <2>2 DEF Wait
  <2>3. ASSUME NEW t \in Threads, Wake(t) PROVE BMutexInv'
    BY <2>3 DEF Wake
  <2>4. ASSUME NEW t \in Threads, Pass(t) PROVE BMutexInv'
    BY <2>4 DEF Pass
  <2>5. ASSUME NEW t \in Threads, Unlock(t) PROVE BMutexInv'
    BY <2>5 DEF Unlock
  <2>6. ASSUME NEW t \in Threads, SpuriousWakeup(t) PROVE BMutexInv'
    BY <2>6 DEF SpuriousWakeup
  <2>7. CASE UNCHANGED bvars
    BY <2>7 DEF bvars
  <2> QED
    BY <2>1, <2>2, <2>3, <2>4, <2>5, <2>6, <2>7 DEF BNext, Inside
<1> QED
  BY <1>1, <1>2, BTyping, PTL DEF BSafe

\* Only Arrive changes the set of threads that have entered.
LEMMA EnteredSteps ==
  ASSUME BTypeOK
  PROVE  /\ \A t \in Threads : Arrive(t) =>
              t \notin Entered /\ Entered' = Entered \cup {t}
         /\ \A t \in Threads : Inside(t) \/ SpuriousWakeup(t) =>
              Entered' = Entered /\ arrived' = arrived
<1> USE DEF BTypeOK, Entered
<1>1. ASSUME NEW t \in Threads, Arrive(t)
      PROVE  t \notin Entered /\ Entered' = Entered \cup {t}
  BY <1>1 DEF Arrive
<1>2. ASSUME NEW t \in Threads, Inside(t)
      PROVE  Entered' = Entered /\ arrived' = arrived
  BY <1>2 DEF Inside, Wait, Wake, Pass, Unlock
<1>3. ASSUME NEW t \in Threads, SpuriousWakeup(t)
      PROVE  Entered' = Entered /\ arrived' = arrived
  BY <1>3 DEF SpuriousWakeup
<1> QED
  BY <1>1, <1>2, <1>3

\* The counter counts: arrived is the number of threads that have entered.
LEMMA BCounting == BSafe => []CountsArrivals
<1>1. BInit => CountsArrivals
  <2> SUFFICES ASSUME BInit PROVE CountsArrivals
    OBVIOUS
  <2>1. Entered = {}
    BY DEF BInit, Entered
  <2> QED
    BY <2>1, FS_EmptySet DEF BInit, CountsArrivals
<1>2. BTypeOK /\ CountsArrivals /\ [BNext]_bvars => CountsArrivals'
  <2> SUFFICES ASSUME BTypeOK, CountsArrivals, [BNext]_bvars
               PROVE  CountsArrivals'
    OBVIOUS
  <2> USE DEF CountsArrivals
  <2>1. ASSUME NEW t \in Threads, Arrive(t) PROVE CountsArrivals'
    <3>1. IsFiniteSet(Entered)
      BY BarrierAssumption, FS_Subset DEF Entered
    <3>2. Cardinality(Entered \cup {t}) = Cardinality(Entered) + 1
      BY <2>1, <3>1, EnteredSteps, FS_AddElement
    <3> QED
      BY <2>1, <3>2, EnteredSteps DEF Arrive
  <2>2. ASSUME NEW t \in Threads, Inside(t) \/ SpuriousWakeup(t)
        PROVE  CountsArrivals'
    BY <2>2, EnteredSteps
  <2>3. CASE UNCHANGED bvars
    BY <2>3 DEF bvars, Entered
  <2> QED
    BY <2>1, <2>2, <2>3 DEF BNext
<1> QED
  BY <1>1, <1>2, BTyping, PTL DEF BSafe

\* A full counter means that every thread has entered.
LEMMA FullMeansAll ==
  ASSUME BTypeOK, CountsArrivals, arrived >= M
  PROVE  Entered = Threads
<1>1. Entered \subseteq Threads
  BY DEF Entered
<1>2. /\ Cardinality(Entered) <= Cardinality(Threads)
      /\ Cardinality(Entered) = Cardinality(Threads) => Entered = Threads
  BY <1>1, BarrierAssumption, FS_Subset
<1>3. Cardinality(Entered) \in Nat /\ Cardinality(Threads) \in Nat
  BY <1>1, BarrierAssumption, FS_Subset, FS_CardinalityType
<1> QED
  BY <1>2, <1>3 DEF CountsArrivals, M

\* No thread starts the second part of its work (hw5 104-140, client.c 52)
\* before every thread has done the first.
THEOREM BarrierHolds == BSafe => []NoEarlyPass
<1>1. BInit => NoEarlyPass
  BY DEF BInit, NoEarlyPass, Passed
<1>2. BTypeOK /\ CountsArrivals /\ NoEarlyPass /\ [BNext]_bvars => NoEarlyPass'
  <2> SUFFICES ASSUME BTypeOK, CountsArrivals, NoEarlyPass, [BNext]_bvars
               PROVE  NoEarlyPass'
    OBVIOUS
  <2> USE DEF NoEarlyPass
  <2>1. ASSUME NEW t \in Threads, Pass(t) PROVE NoEarlyPass'
    <3>1. Entered = Threads
      BY <2>1, FullMeansAll DEF Pass
    <3> QED
      BY <2>1, <3>1, EnteredSteps DEF Inside
  <2>2. ASSUME Passed' = Passed, Entered \subseteq Entered' PROVE NoEarlyPass'
    BY <2>2 DEF Entered
  <2>3. ASSUME NEW t \in Threads,
               Arrive(t) \/ Wait(t) \/ Wake(t) \/ Unlock(t) \/ SpuriousWakeup(t)
        PROVE  Passed' = Passed /\ Entered \subseteq Entered'
    BY <2>3
       DEF Arrive, Wait, Wake, Unlock, SpuriousWakeup, Passed, Entered, BTypeOK
  <2>4. CASE UNCHANGED bvars
    BY <2>4 DEF bvars, Passed, Entered
  <2> QED
    BY <2>1, <2>2, <2>3, <2>4 DEF BNext, Inside
<1> QED
  BY <1>1, <1>2, BTyping, BCounting, PTL DEF BSafe

\* Nobody sleeps through the opening of the barrier: the test of the counter
\* and the wait are one step under the mutex, and the thread that fills the
\* counter broadcasts before it releases the mutex.
THEOREM NobodySleepsOn == BSpec => []NoSleeperLeft
<1>1. BInit => NoSleeperLeft
  BY DEF BInit, NoSleeperLeft
<1>2. BTypeOK /\ BMutexInv /\ NoSleeperLeft /\ [BNext]_bvars => NoSleeperLeft'
  <2> SUFFICES ASSUME BTypeOK, BMutexInv, NoSleeperLeft, [BNext]_bvars
               PROVE  NoSleeperLeft'
    OBVIOUS
  <2>1. M \in Nat /\ M' = M
    BY BarrierAssumption, FS_CardinalityType DEF M
  <2> USE BarrierAssumption DEF BTypeOK, NoSleeperLeft
  <2>2. ASSUME NEW t \in Threads, Arrive(t) PROVE NoSleeperLeft'
    BY <2>2 DEF Arrive
  <2>3. ASSUME NEW t \in Threads, Wait(t) PROVE NoSleeperLeft'
    BY <2>1, <2>3 DEF Wait
  <2>4. ASSUME NEW t \in Threads, Wake(t) PROVE NoSleeperLeft'
    BY <2>1, <2>4 DEF Wake
  <2>5. ASSUME NEW t \in Threads, Pass(t) PROVE NoSleeperLeft'
    BY <2>5 DEF Pass
  <2>6. ASSUME NEW t \in Threads, Unlock(t) PROVE NoSleeperLeft'
    BY <2>1, <2>6 DEF Unlock, BMutexInv, Holding
  <2>7. ASSUME NEW t \in Threads, SpuriousWakeup(t) PROVE NoSleeperLeft'
    BY <2>1, <2>7 DEF SpuriousWakeup
  <2>8. CASE UNCHANGED bvars
    BY <2>1, <2>8 DEF bvars
  <2> QED
    BY <2>2, <2>3, <2>4, <2>5, <2>6, <2>7, <2>8 DEF BNext, Inside
<1> QED
  BY <1>1, <1>2, BTyping, BExclusion, PTL DEF BSpec, BSafe

\* The barrier implements the rendezvous: ++arrived is Enter, finding the
\* counter full is Leave, the rest is invisible.
THEOREM ImplementsRendezvous == BSpec => RendezvousSafety
<1> USE DEF RendezvousSafety
<1>1. BInit => Abstract!Init
  BY DEF BInit, Abstract!Init, Entered, Passed
<1>2. BTypeOK /\ CountsArrivals /\ [BNext]_bvars
        => [Abstract!Next]_Abstract!vars
  <2> SUFFICES ASSUME BTypeOK, CountsArrivals, [BNext]_bvars
               PROVE  [Abstract!Next]_Abstract!vars
    OBVIOUS
  <2> USE DEF Abstract!vars, Abstract!Next
  <2>1. ASSUME NEW t \in Threads, Arrive(t) PROVE Abstract!Next
    <3>1. Passed' = Passed
      BY <2>1 DEF Arrive, Passed, BTypeOK
    <3>2. Abstract!Enter(t)
      BY <2>1, <3>1, EnteredSteps DEF Abstract!Enter
    <3> QED
      BY <3>2
  <2>2. ASSUME NEW t \in Threads, Pass(t) PROVE Abstract!Next
    <3>1. Entered = Threads /\ Entered' = Entered
      BY <2>2, FullMeansAll, EnteredSteps DEF Pass, Inside
    <3>2. t \notin Passed /\ Passed' = Passed \cup {t}
      BY <2>2 DEF Pass, Passed, BTypeOK
    <3>3. Abstract!Leave(t)
      BY <3>1, <3>2 DEF Abstract!Leave
    <3> QED
      BY <3>3
  <2>3. ASSUME NEW t \in Threads,
               Wait(t) \/ Wake(t) \/ Unlock(t) \/ SpuriousWakeup(t)
        PROVE  UNCHANGED Abstract!vars
    BY <2>3 DEF Wait, Wake, Unlock, SpuriousWakeup, Passed, Entered, BTypeOK
  <2>4. CASE UNCHANGED bvars
    BY <2>4 DEF bvars, Passed, Entered
  <2> QED
    BY <2>1, <2>2, <2>3, <2>4 DEF BNext, Inside
<1> QED
  BY <1>1, <1>2, BTyping, BCounting, PTL DEF BSpec, BSafe

-----------------------------------------------------------------------------
\* The shares of the threads: thread t has the rows from t * gap on.
First(t) == t * gap
Behind(t) == t * gap + gap   \* the first row behind the share

LEMMA Products ==
  ASSUME NEW a \in Nat, NEW b \in Nat, NEW c \in Nat, a <= b
  PROVE  a * c <= b * c
<1>1. PICK d \in Nat : b = a + d
  <2>1. b - a \in Nat /\ b = a + (b - a)
    OBVIOUS
  <2> QED
    BY <2>1
<1>2. b * c = a * c + d * c
  BY <1>1
<1>3. d * c \in Nat /\ a * c \in Nat
  OBVIOUS
<1> QED
  BY <1>2, <1>3

\* They lie in turn, do not overlap and cover all rows.
LEMMA Shares ==
  /\ M \in Nat \ {0} /\ Threads = 0 .. M - 1
  /\ gap \in Nat \ {0} /\ Size = M * gap
  /\ \A t \in Threads : /\ First(t) \in Nat /\ Behind(t) = First(t) + gap
                         /\ Behind(t) <= Size /\ Behind(t) = First(t + 1)
  /\ First(0) = 0
  /\ \A t, u \in Threads : t < u => Behind(t) <= First(u)
  /\ \A r \in Rows : \E t \in Threads : First(t) <= r /\ r < Behind(t)
<1>1. M \in Nat \ {0} /\ Threads = 0 .. M - 1
  BY DftAssumption, BarrierAssumption, FS_CardinalityType, FS_EmptySet DEF M
<1>2. Size \in Nat /\ Size >= 4 /\ Size % M = 0
  BY DftAssumption DEF M
<1>3. gap \in Int /\ Size = M * gap
  BY <1>1, <1>2 DEF gap
<1>4. gap \in Nat \ {0}
  <2>1. SUFFICES ASSUME gap <= 0 PROVE FALSE
    BY <1>3
  <2>2. PICK n \in Nat : gap = -n
    BY <1>3, <2>1
  <2>3. /\ \A a, b, c \in Int : a * (b + c) = a * b + a * c
        /\ \A a \in Int : a * 0 = 0
        /\ \A a, b \in Nat : a * b \in Nat
    OBVIOUS
  <2>4. Size + M * n = 0 /\ M * n \in Nat
    <3>1. M * (gap + n) = M * gap + M * n /\ M * 0 = 0 /\ M * n \in Nat
      BY <1>1, <1>3, <2>2, <2>3
    <3>2. gap + n = 0
      BY <2>2
    <3> QED
      BY <1>3, <3>1, <3>2
  <2> QED
    BY <1>2, <2>4
<1>5. \A t \in Threads : First(t) \in Nat /\ Behind(t) = (t + 1) * gap
  BY <1>1, <1>4 DEF First, Behind
<1>6. /\ First(0) = 0
      /\ \A t \in Threads : /\ Behind(t) = First(t) + gap
                             /\ Behind(t) = First(t + 1)
  BY <1>1, <1>4, <1>5 DEF First, Behind
<1>7. ASSUME NEW t \in Threads PROVE Behind(t) <= Size
  <2>1. t + 1 \in Nat /\ M \in Nat /\ gap \in Nat /\ t + 1 <= M
    BY <1>1, <1>4
  <2>2. (t + 1) * gap <= M * gap
    BY <2>1, Products
  <2> QED
    BY <2>2, <1>3, <1>5
<1>8. ASSUME NEW t \in Threads, NEW u \in Threads, t < u
      PROVE  Behind(t) <= First(u)
  <2>1. t + 1 \in Nat /\ u \in Nat /\ t + 1 <= u
    BY <1>1, <1>8
  <2> QED
    BY <2>1, <1>4, <1>5, Products DEF First
<1>9. ASSUME NEW r \in Rows
      PROVE  \E t \in Threads : First(t) <= r /\ r < Behind(t)
  <2> DEFINE t == r \div gap
  <2>1. r \in Nat /\ r < M * gap
    BY <1>2, <1>3, <1>9 DEF Rows
  <2>2. t \in Nat /\ t * gap <= r /\ r < t * gap + gap
    BY <2>1, <1>4
  <2>3. t < M
    <3>1. SUFFICES ASSUME M <= t PROVE FALSE
      BY <1>1, <2>2
    <3>2. M * gap <= t * gap
      BY <1>1, <1>4, <2>2, <3>1, Products
    <3> QED
      BY <2>1, <2>2, <3>2, <1>3, <1>2, <1>4
  <2> QED
    BY <1>1, <2>2, <2>3 DEF First, Behind
<1> QED
  BY <1>1, <1>3, <1>4, <1>5, <1>6, <1>7, <1>8, <1>9

LEMMA ShareBounds ==
  ASSUME NEW t \in Threads
  PROVE  /\ First(t) \in 0 .. Size /\ Behind(t) \in 0 .. Size
         /\ First(t) < Behind(t) /\ Behind(t) = First(t) + gap
<1>1. /\ First(t) \in Nat /\ Behind(t) = First(t) + gap /\ Behind(t) <= Size
      /\ gap \in Nat \ {0} /\ Size \in Nat
  BY Shares, DftAssumption
<1> QED
  BY <1>1

-----------------------------------------------------------------------------
\* The strengthened invariant.

\* main hands out the shares before it creates a thread.
SharesSet ==
  /\ mainPc = "fill" => /\ counter = First(k)
                        /\ \A t \in Threads : pc[t] = "none"
                        /\ \A t \in Threads : t < k => indKeeper[t] = First(t)
  /\ mainPc = "create" => \A t \in Threads : k <= t => pc[t] = "none"
  /\ mainPc \notin {"fill", "crashed"} =>
       \A t \in Threads : indKeeper[t] = First(t)
  /\ \A t \in Threads : pc[t] # "none" => indKeeper[t] = First(t)

\* Where a thread is, and where it is relative to the barrier.
Places ==
  \A t \in Threads :
    /\ pc[t] \in {"none", "start", "find", "product", "multiply", "ready"}
         => bpc[t] = "before"
    /\ pc[t] \in {"dft", "last"} => bpc[t] = "after"
    /\ pc[t] = "exited" => bpc[t] = "after" \/ (sigint /\ bpc[t] = "before")

\* A thread at or behind the barrier has its share of the product.
Multiplied(t, r) == matrixC[r] = "product" \/ r < First(t) \/ Behind(t) <= r
ProductGrows ==
  \A t \in Threads :
    /\ pc[t] = "product" => row[t] = First(t)
    /\ pc[t] = "multiply" =>
         /\ First(t) <= row[t] /\ row[t] <= Behind(t)
         /\ \A r \in Rows : r < row[t] => Multiplied(t, r)
    /\ pc[t] \in {"ready", "barrier"} \/ bpc[t] # "before" =>
         \A r \in Rows : Multiplied(t, r)

\* ... and of the result, when it is done.
Transformed(t, r) == dft2dArr[r] = "right" \/ r < First(t) \/ Behind(t) <= r
ResultGrows ==
  \A t \in Threads :
    /\ pc[t] = "dft" =>
         /\ First(t) <= row[t] /\ row[t] <= Behind(t)
         /\ \A r \in Rows : r < row[t] => Transformed(t, r)
    /\ pc[t] = "last" \/ (pc[t] = "exited" /\ bpc[t] = "after") =>
         \A r \in Rows : Transformed(t, r)

\* main joins the threads in turn and frees what nobody uses any more.
Joins ==
  /\ mainPc = "created" => k = 0
  /\ mainPc = "join" => \A t \in Threads : t < k => pc[t] = "exited"
  /\ mainPc \in {"joined", "output", "done"} =>
       \A t \in Threads : pc[t] = "exited"
  /\ mainPc \in {"output", "done"} => \A t \in Threads : bpc[t] = "after"
  /\ mainPc \in {"free", "gone"} => sigint
  /\ freed => sigint \/ mainPc = "done"

DInv == /\ DTypeOK /\ NoEarlyPass /\ SharesSet /\ Places /\ ProductGrows
        /\ ResultGrows /\ Joins /\ DftReadsFinalProduct

USE DEF ThreadLabels, MainLabels, Goto, MainGoto, mainVars, threadVars, bvars

\* Each step is a step of the barrier or leaves it alone.
LEMMA StepsOfBarrier == [DNext]_allVars => [BNext]_bvars
<1> SUFFICES ASSUME [DNext]_allVars PROVE [BNext]_bvars
  OBVIOUS
<1>1. CASE Sigint \/ MainStep
  BY <1>1 DEF Sigint, MainStep, FillIndex, CreateThread, CheckFlag, JoinThread,
              Output, FreeMatrices
<1>2. ASSUME NEW t \in Threads, ThreadStep(t) PROVE [BNext]_bvars
  BY <1>2 DEF ThreadStep, TestFlag, FindRows, Multiply, EnterBarrier, InBarrier,
              LeaveBarrier, Dft, BNext
<1>3. CASE UNCHANGED allVars
  BY <1>3 DEF allVars
<1> QED
  BY <1>1, <1>2, <1>3 DEF DNext

\* So what is proved of the barrier holds here.
LEMMA BarrierInside == DSpec => [](BTypeOK /\ NoEarlyPass)
<1>1. DInit => BInit
  BY DEF DInit
<1> QED
  BY <1>1, StepsOfBarrier, BTyping, BarrierHolds, PTL DEF DSpec, BSafe

\* The steps inside the barrier.
LEMMA BarrierSteps ==
  ASSUME DTypeOK, NEW t \in Threads, EnterBarrier(t) \/ InBarrier(t)
  PROVE  /\ UNCHANGED dvars
         /\ pc[t] = "barrier" /\ bpc' \in [Threads -> BarrierLabels]
         /\ \A u \in Threads \ {t} : bpc'[u] = bpc[u]
         /\ bpc'[t] # "before"
         /\ bpc[t] # "after"
<1> USE DEF DTypeOK, BTypeOK, BarrierLabels
<1>1. CASE EnterBarrier(t)
  BY <1>1 DEF EnterBarrier, Arrive
<1>2. CASE InBarrier(t) /\ Wait(t)
  BY <1>2 DEF InBarrier, Wait
<1>3. CASE InBarrier(t) /\ Wake(t)
  BY <1>3 DEF InBarrier, Wake
<1>4. CASE InBarrier(t) /\ Pass(t)
  BY <1>4 DEF InBarrier, Pass
<1>5. CASE InBarrier(t) /\ Unlock(t)
  BY <1>5 DEF InBarrier, Unlock
<1> QED
  BY <1>1, <1>2, <1>3, <1>4, <1>5 DEF InBarrier, Inside

\* What a thread knows of its share.
LEMMA OwnShare ==
  ASSUME SharesSet, NEW t \in Threads, pc[t] # "none"
  PROVE  /\ indKeeper[t] = First(t) /\ indKeeper[t] + gap = Behind(t)
         /\ First(t) \in 0 .. Size /\ Behind(t) \in 0 .. Size
         /\ First(t) < Behind(t) /\ Size \in Nat
<1>1. indKeeper[t] = First(t)
  BY DEF SharesSet
<1> QED
  BY <1>1, ShareBounds, DftAssumption

LEMMA TypeStep ==
  DTypeOK /\ BTypeOK' /\ SharesSet /\ ProductGrows /\ ResultGrows
    /\ [DNext]_allVars => DTypeOK'
<1> SUFFICES ASSUME DTypeOK, BTypeOK', SharesSet, ProductGrows, ResultGrows,
                    [DNext]_allVars
             PROVE  DTypeOK'
  OBVIOUS
<1>0. M \in Nat \ {0} /\ Size \in Nat /\ M' = M /\ Threads = 0 .. M - 1
  BY Shares, DftAssumption DEF M
<1> USE DEF DTypeOK
<1>1. CASE Sigint
  BY <1>1 DEF Sigint
<1>2. CASE FillIndex
  <2>1. CASE k < M
    <3>1. k \in Threads /\ counter = First(k) /\ counter + gap = Behind(k)
      BY <1>0, <1>2, <2>1, Shares DEF FillIndex, SharesSet
    <3>2. counter + gap \in 0 .. Size
      BY <3>1, ShareBounds
    <3>3. counter \in Rows
      BY <3>1, <3>2, Shares DEF Rows
    <3>4. indKeeper' \in [Threads -> Rows \cup {-1}]
      BY <1>2, <2>1, <3>1, <3>3 DEF FillIndex
    <3> QED
      BY <1>0, <1>2, <2>1, <3>2, <3>4 DEF FillIndex
  <2>2. CASE ~(k < M)
    BY <1>0, <1>2, <2>2 DEF FillIndex
  <2> QED
    BY <2>1, <2>2
<1>3. CASE CreateThread
  BY <1>0, <1>3 DEF CreateThread
<1>4. CASE CheckFlag \/ JoinThread
  BY <1>0, <1>4 DEF CheckFlag, JoinThread
<1>5. CASE Output
  BY <1>0, <1>5 DEF Output
<1>6. CASE FreeMatrices
  BY <1>0, <1>6 DEF FreeMatrices
<1>7. ASSUME NEW t \in Threads, TestFlag(t) PROVE DTypeOK'
  BY <1>0, <1>7 DEF TestFlag
<1>8. ASSUME NEW t \in Threads, FindRows(t) \/ LeaveBarrier(t) PROVE DTypeOK'
  <2>1. pc[t] # "none"
    BY <1>8 DEF FindRows, LeaveBarrier
  <2>2. indKeeper[t] \in 0 .. Size
    BY <2>1, OwnShare
  <2> QED
    BY <1>0, <1>8, <2>2 DEF FindRows, LeaveBarrier
<1>9. ASSUME NEW t \in Threads, Multiply(t) PROVE DTypeOK'
  <2>1. pc[t] = "multiply"
    BY <1>9 DEF Multiply
  <2>2. row[t] <= Behind(t) /\ row[t] \in 0 .. Size
    BY <2>1 DEF ProductGrows
  <2>3. row[t] = indKeeper[t] + gap \/ row[t] + 1 \in 0 .. Size
    BY <2>1, <2>2, OwnShare
  <2>4. /\ pc' \in [Threads -> ThreadLabels]
        /\ matrixC' \in [Rows -> {"zero", "partial", "product"}]
    BY <1>9 DEF Multiply
  <2>5. row' \in [Threads -> 0 .. Size]
    BY <1>9, <2>3 DEF Multiply
  <2> QED
    BY <1>0, <1>9, <2>4, <2>5 DEF Multiply
<1>10. ASSUME NEW t \in Threads, Dft(t) PROVE DTypeOK'
  <2>1. pc[t] = "dft"
    BY <1>10 DEF Dft
  <2>2. row[t] <= Behind(t) /\ row[t] \in 0 .. Size
    BY <2>1 DEF ResultGrows
  <2>3. row[t] = indKeeper[t] + gap \/ row[t] + 1 \in 0 .. Size
    BY <2>1, <2>2, OwnShare
  <2> QED
    BY <1>0, <1>10, <2>3 DEF Dft
<1>11. ASSUME NEW t \in Threads, EnterBarrier(t) \/ InBarrier(t) PROVE DTypeOK'
  BY <1>0, <1>11, BarrierSteps, SMTT(30) DEF dvars
<1>12. CASE UNCHANGED allVars
  BY <1>0, <1>12 DEF allVars, dvars
<1> QED
  BY <1>1, <1>2, <1>3, <1>4, <1>5, <1>6, <1>7, <1>8, <1>9, <1>10, <1>11, <1>12
     DEF DNext, MainStep, ThreadStep

-----------------------------------------------------------------------------
\* What the steps leave alone.
LEMMA MainFrame ==
  ASSUME Sigint \/ MainStep
  PROVE  UNCHANGED <<bvars, bpc, matrixC, dft2dArr, row>>
<1> QED
  BY DEF Sigint, MainStep, FillIndex, CreateThread, CheckFlag, JoinThread,
         Output, FreeMatrices

\* A thread that steps has been created, has not ended and touches nothing
\* that belongs to another one.
LEMMA ThreadFrame ==
  ASSUME DTypeOK, NEW t \in Threads, ThreadStep(t)
  PROVE  /\ UNCHANGED <<mainPc, k, counter, indKeeper, freed, sigint>>
         /\ pc[t] \notin {"none", "exited"} /\ pc'[t] # "none"
         /\ \A u \in Threads \ {t} :
              pc'[u] = pc[u] /\ row'[u] = row[u] /\ bpc'[u] = bpc[u]
         /\ EnterBarrier(t) \/ InBarrier(t) \/ bpc' = bpc
<1> USE DEF DTypeOK
<1>1. CASE EnterBarrier(t) \/ InBarrier(t)
  BY <1>1, BarrierSteps DEF dvars
<1>2. CASE TestFlag(t)
  BY <1>2 DEF TestFlag
<1>3. CASE FindRows(t)
  BY <1>3 DEF FindRows
<1>4. CASE Multiply(t)
  BY <1>4 DEF Multiply
<1>5. CASE LeaveBarrier(t)
  BY <1>5 DEF LeaveBarrier
<1>6. CASE Dft(t)
  BY <1>6 DEF Dft
<1> QED
  BY <1>1, <1>2, <1>3, <1>4, <1>5, <1>6 DEF ThreadStep

LEMMA SharesSetStep ==
  DTypeOK /\ SharesSet /\ [DNext]_allVars => SharesSet'
<1> SUFFICES ASSUME DTypeOK, SharesSet, [DNext]_allVars PROVE SharesSet'
  OBVIOUS
<1>0. M \in Nat \ {0} /\ Threads = 0 .. M - 1 /\ k \in 0 .. M
  BY Shares DEF DTypeOK
<1>1. CASE Sigint
  BY <1>1 DEF Sigint, SharesSet
<1>2. CASE FillIndex
  <2>1. CASE k < M
    <3>1. k \in Threads /\ k + 1 \in Nat
      BY <1>0, <2>1
    <3>2. /\ mainPc = "fill" /\ mainPc' = "fill" /\ pc' = pc /\ k' = k + 1
          /\ counter' = First(k) + gap
          /\ indKeeper' = [indKeeper EXCEPT ![k] = First(k)]
      BY <1>2, <2>1 DEF FillIndex, SharesSet
    <3>3. counter' = First(k')
      BY <3>1, <3>2, Shares
    <3>4. indKeeper \in [Threads -> Rows \cup {-1}]
      BY DEF DTypeOK
    <3>5. ASSUME NEW t \in Threads, t < k' PROVE indKeeper'[t] = First(t)
      <4>1. t = k \/ t < k
        BY <1>0, <3>2, <3>5
      <4> QED
        BY <3>1, <3>2, <3>4, <4>1 DEF SharesSet
    <3> QED
      BY <3>2, <3>3, <3>5 DEF SharesSet, First
  <2>2. CASE ~(k < M)
    <3>1. \A t \in Threads : t < k
      BY <1>0, <2>2
    <3> QED
      BY <1>2, <2>2, <3>1 DEF FillIndex, SharesSet, First
  <2> QED
    BY <2>1, <2>2
<1>3. CASE CreateThread
  <2>1. CASE k < M
    <3>1. k \in Threads
      BY <1>0, <2>1
    <3>2. /\ mainPc = "create" /\ mainPc' = "create" /\ k' = k + 1
          /\ pc' = [pc EXCEPT ![k] = "start"] /\ indKeeper' = indKeeper
      BY <1>3, <2>1 DEF CreateThread
    <3>3. ASSUME NEW t \in Threads, k' <= t PROVE pc'[t] = "none"
      <4>1. t # k /\ k <= t
        BY <1>0, <3>2, <3>3
      <4> QED
        BY <3>2, <4>1 DEF SharesSet, DTypeOK
    <3>4. \A t \in Threads : indKeeper[t] = First(t)
      BY <3>2 DEF SharesSet
    <3> QED
      BY <3>2, <3>3, <3>4 DEF SharesSet, First
  <2>2. CASE ~(k < M)
    BY <1>3, <2>2 DEF CreateThread, SharesSet, First
  <2> QED
    BY <2>1, <2>2
<1>4. CASE CheckFlag \/ JoinThread \/ Output \/ FreeMatrices
  BY <1>4 DEF CheckFlag, JoinThread, Output, FreeMatrices, SharesSet, First
<1>5. ASSUME NEW t \in Threads, ThreadStep(t) PROVE SharesSet'
  <2>1. \A u \in Threads : pc'[u] = "none" <=> pc[u] = "none"
    BY <1>5, ThreadFrame
  <2> QED
    BY <1>5, <2>1, ThreadFrame DEF SharesSet, First
<1>6. CASE UNCHANGED allVars
  BY <1>6 DEF allVars, dvars, SharesSet, First
<1> QED
  BY <1>1, <1>2, <1>3, <1>4, <1>5, <1>6 DEF DNext, MainStep

LEMMA PlacesStep ==
  DTypeOK /\ SharesSet /\ Places /\ [DNext]_allVars => Places'
<1> SUFFICES ASSUME DTypeOK, SharesSet, Places, [DNext]_allVars PROVE Places'
  OBVIOUS
<1>0. M \in Nat \ {0} /\ Threads = 0 .. M - 1 /\ k \in 0 .. M
  BY Shares DEF DTypeOK
<1>1. CASE Sigint
  BY <1>1 DEF Sigint, Places
<1>2. CASE CreateThread
  <2>1. CASE k < M
    <3>1. k \in Threads /\ pc[k] = "none"
      BY <1>0, <1>2, <2>1 DEF CreateThread, SharesSet
    <3> QED
      BY <1>2, <2>1, <3>1 DEF CreateThread, Places, DTypeOK
  <2>2. CASE ~(k < M)
    BY <1>2, <2>2 DEF CreateThread, Places
  <2> QED
    BY <2>1, <2>2
<1>3. CASE FillIndex \/ CheckFlag \/ JoinThread \/ Output \/ FreeMatrices
  BY <1>3 DEF FillIndex, CheckFlag, JoinThread, Output, FreeMatrices, Places
<1>4. ASSUME NEW t \in Threads, ThreadStep(t) PROVE Places'
  <2>1. CASE EnterBarrier(t) \/ InBarrier(t)
    BY <2>1, BarrierSteps DEF Places, dvars
  <2>2. CASE TestFlag(t)
    BY <2>2 DEF TestFlag, Places, DTypeOK
  <2>3. CASE FindRows(t) \/ LeaveBarrier(t)
    BY <2>3 DEF FindRows, LeaveBarrier, Places, DTypeOK
  <2>4. CASE Multiply(t)
    BY <2>4 DEF Multiply, Places, DTypeOK
  <2>5. CASE Dft(t)
    BY <2>5 DEF Dft, Places, DTypeOK
  <2> QED
    BY <1>4, <2>1, <2>2, <2>3, <2>4, <2>5 DEF ThreadStep
<1>5. CASE UNCHANGED allVars
  BY <1>5 DEF allVars, dvars, Places
<1> QED
  BY <1>1, <1>2, <1>3, <1>4, <1>5 DEF DNext, MainStep

\* A row of one share is in no other.
LEMMA SharesApart ==
  ASSUME NEW t \in Threads, NEW u \in Threads, t # u, NEW r \in Int,
         First(t) <= r, r < Behind(t)
  PROVE  r < First(u) \/ Behind(u) <= r
<1>1. t < u \/ u < t
  BY Shares
<1>2. /\ First(t) \in Nat /\ Behind(t) \in Nat
      /\ First(u) \in Nat /\ Behind(u) \in Nat
  BY ShareBounds
<1>3. Behind(t) <= First(u) \/ Behind(u) <= First(t)
  BY <1>1, Shares
<1> QED
  BY <1>2, <1>3

LEMMA ProductGrowsStep ==
  DTypeOK /\ SharesSet /\ Places /\ ProductGrows /\ [DNext]_allVars
    => ProductGrows'
<1> SUFFICES ASSUME DTypeOK, SharesSet, Places, ProductGrows, [DNext]_allVars
             PROVE  ProductGrows'
  OBVIOUS
<1>1. CASE UNCHANGED <<pc, row, bpc, matrixC>>
  BY <1>1 DEF ProductGrows, Multiplied, First, Behind
<1>2. CASE CreateThread
  <2>1. \A u \in Threads : pc'[u] = pc[u] \/ pc'[u] = "start"
    BY <1>2 DEF CreateThread, DTypeOK
  <2>2. UNCHANGED <<row, bpc, matrixC>>
    BY <1>2 DEF CreateThread
  <2> QED
    BY <2>1, <2>2 DEF ProductGrows, Multiplied, First, Behind
<1>3. ASSUME NEW t \in Threads, TestFlag(t) PROVE ProductGrows'
  <2>1. ASSUME NEW u \in Threads, pc'[u] = "multiply"
        PROVE  /\ First(u) <= row[u] /\ row[u] <= Behind(u)
               /\ \A r \in Rows : r < row[u] => Multiplied(u, r)
    <3>1. pc[u] = "multiply" \/ (pc[u] = "product" /\ row[u] = First(u))
      BY <1>3, <2>1 DEF TestFlag, ProductGrows, DTypeOK
    <3>2. First(u) <= First(u) /\ First(u) <= Behind(u)
      BY Shares
    <3> QED
      BY <3>1, <3>2 DEF ProductGrows, Multiplied
  <2>2. \A u \in Threads : pc'[u] = "product" => row[u] = First(u)
    BY <1>3 DEF TestFlag, ProductGrows, DTypeOK
  <2>3. ASSUME NEW u \in Threads,
               pc'[u] \in {"ready", "barrier"} \/ bpc[u] # "before"
        PROVE  \A r \in Rows : Multiplied(u, r)
    BY <1>3, <2>3 DEF TestFlag, ProductGrows, DTypeOK
  <2>4. UNCHANGED <<row, bpc, matrixC>>
    BY <1>3 DEF TestFlag
  <2> QED
    BY <2>1, <2>2, <2>3, <2>4 DEF ProductGrows, Multiplied, First, Behind
<1>4. ASSUME NEW t \in Threads, FindRows(t) \/ LeaveBarrier(t)
      PROVE  ProductGrows'
  <2>1. /\ UNCHANGED <<bpc, matrixC>> /\ row'[t] = First(t)
        /\ \A u \in Threads \ {t} : pc'[u] = pc[u] /\ row'[u] = row[u]
        /\ pc'[t] \in {"product", "dft"}
    BY <1>4, OwnShare DEF FindRows, LeaveBarrier, DTypeOK
  <2> QED
    BY <2>1 DEF ProductGrows, Multiplied, First, Behind
<1>5. ASSUME NEW t \in Threads, Multiply(t) PROVE ProductGrows'
  <2>0. /\ pc[t] = "multiply" /\ row[t] \in Nat
        /\ bpc' = bpc /\ bpc[t] = "before"
        /\ First(t) <= row[t] /\ row[t] <= Behind(t)
        /\ indKeeper[t] + gap = Behind(t)
        /\ \A r \in Rows : r < row[t] => Multiplied(t, r)
    BY <1>5, OwnShare DEF Multiply, ProductGrows, Places, DTypeOK
  <2>1. CASE row[t] = indKeeper[t] + gap
    <3>1. \A r \in Rows : Multiplied(t, r)
      BY <2>0, <2>1 DEF Multiplied, Rows
    <3>2. /\ pc' = [pc EXCEPT ![t] = "ready"]
          /\ UNCHANGED <<bpc, row, matrixC>>
      BY <1>5, <2>1 DEF Multiply
    <3> QED
      BY <3>1, <3>2 DEF ProductGrows, Multiplied, First, Behind, DTypeOK
  <2>2. CASE row[t] # indKeeper[t] + gap
    <3>1. row[t] < Behind(t) /\ row[t] \in Rows
      BY <2>0, <2>2, OwnShare DEF Rows
    <3>2. /\ pc' = pc
          /\ \A r \in Rows \ {row[t]} : matrixC'[r] = matrixC[r]
          /\ \A u \in Threads \ {t} : row'[u] = row[u]
          /\ \/ row' = row
             \/ row'[t] = row[t] + 1 /\ matrixC'[row[t]] = "product"
      BY <1>5, <2>2, <3>1 DEF Multiply, DTypeOK
    <3>3. ASSUME NEW u \in Threads, NEW r \in Rows, Multiplied(u, r),
                 u # t \/ r # row[t]
          PROVE  Multiplied(u, r)'
      <4>1. CASE r # row[t]
        BY <3>2, <3>3, <4>1 DEF Multiplied, First, Behind
      <4>2. CASE r = row[t]
        <5>1. r < First(u) \/ Behind(u) <= r
          BY <2>0, <3>1, <3>3, <4>2, SharesApart
        <5> QED
          BY <5>1 DEF Multiplied, First, Behind
      <4> QED
        BY <4>1, <4>2
    <3>4. ASSUME NEW u \in Threads,
                 pc[u] \in {"ready", "barrier"} \/ bpc[u] # "before"
          PROVE  \A r \in Rows : Multiplied(u, r)'
      <4>1. CASE u # t
        BY <3>3, <3>4, <4>1 DEF ProductGrows
      <4>2. CASE u = t
        BY <2>0, <3>2, <3>4, <4>2 DEF ProductGrows
      <4> QED
        BY <4>1, <4>2
    <3>5. ASSUME NEW r \in Rows, r < row'[t] PROVE Multiplied(t, r)'
      <4>1. r < row[t] \/ (r = row[t] /\ matrixC'[r] = "product")
        BY <2>0, <3>2, <3>5 DEF Rows
      <4>2. CASE r < row[t]
        <5>1. Multiplied(t, r) /\ r # row[t]
          BY <2>0, <4>2 DEF Rows
        <5> QED
          BY <3>3, <5>1
      <4> QED
        BY <4>1, <4>2 DEF Multiplied, First, Behind
    <3>6. First(t) <= row'[t] /\ row'[t] <= Behind(t)
      <4>1. row'[t] = row[t] \/ row'[t] = row[t] + 1
        BY <3>2
      <4> QED
        BY <2>0, <3>1, <4>1, ShareBounds
    <3>7. ASSUME NEW u \in Threads \ {t}, pc[u] = "multiply"
          PROVE  /\ First(u) <= row[u] /\ row[u] <= Behind(u)
                 /\ \A r \in Rows : r < row[u] => Multiplied(u, r)'
      BY <3>3, <3>7 DEF ProductGrows
    <3>8. /\ \A u \in Threads : pc[u] = "product" => row'[u] = First(u)
          /\ \A u \in Threads : pc[u] = "multiply" =>
               /\ First(u) <= row'[u] /\ row'[u] <= Behind(u)
               /\ \A r \in Rows : r < row'[u] => Multiplied(u, r)'
      BY <2>0, <3>2, <3>5, <3>6, <3>7 DEF ProductGrows
    <3> QED
      BY <2>0, <3>2, <3>4, <3>8 DEF ProductGrows, Multiplied, First, Behind
  <2> QED
    BY <2>1, <2>2
<1>6. ASSUME NEW t \in Threads, EnterBarrier(t) \/ InBarrier(t)
      PROVE  ProductGrows'
  BY <1>6, BarrierSteps DEF ProductGrows, Multiplied, First, Behind, dvars
<1>7. ASSUME NEW t \in Threads, Dft(t) PROVE ProductGrows'
  <2>1. /\ UNCHANGED <<bpc, matrixC>> /\ pc[t] = "dft"
        /\ \A u \in Threads \ {t} : pc'[u] = pc[u] /\ row'[u] = row[u]
        /\ pc'[t] \in {"dft", "last"}
    BY <1>7 DEF Dft, DTypeOK
  <2> QED
    BY <2>1 DEF ProductGrows, Multiplied, First, Behind
<1>8. CASE \/ Sigint \/ FillIndex \/ CheckFlag \/ JoinThread \/ Output
           \/ FreeMatrices
  BY <1>1, <1>8
     DEF Sigint, FillIndex, CheckFlag, JoinThread, Output, FreeMatrices
<1>9. CASE UNCHANGED allVars
  BY <1>1, <1>9 DEF allVars, dvars
<1> QED
  BY <1>2, <1>3, <1>4, <1>5, <1>6, <1>7, <1>8, <1>9
     DEF DNext, MainStep, ThreadStep

\* Behind the barrier all of the product is there.
LEMMA AllMultiplied ==
  ASSUME NoEarlyPass, ProductGrows, NEW t \in Threads, bpc[t] = "after"
  PROVE  \A r \in Rows : matrixC[r] = "product"
<1>1. \A u \in Threads : bpc[u] # "before"
  BY DEF NoEarlyPass, Passed, Entered
<1>2. ASSUME NEW r \in Rows PROVE matrixC[r] = "product"
  <2>1. PICK u \in Threads : First(u) <= r /\ r < Behind(u)
    BY Shares
  <2>2. Multiplied(u, r)
    BY <1>1 DEF ProductGrows
  <2>3. r \in Int /\ First(u) \in Int /\ Behind(u) \in Int
    BY ShareBounds, DftAssumption DEF Rows
  <2> QED
    BY <2>1, <2>2, <2>3 DEF Multiplied
<1> QED
  BY <1>2

\* So what a thread writes into the result is right.
LEMMA DftIsRight ==
  ASSUME DTypeOK, NoEarlyPass, Places, ProductGrows,
         NEW t \in Threads, Dft(t)
  PROVE  \/ UNCHANGED <<dft2dArr, row>> /\ row[t] = indKeeper[t] + gap
            /\ pc' = [pc EXCEPT ![t] = "last"]
         \/ /\ row[t] # indKeeper[t] + gap
            /\ dft2dArr' = [dft2dArr EXCEPT ![row[t]] = "right"]
            /\ row' = [row EXCEPT ![t] = @ + 1] /\ UNCHANGED pc
<1>1. bpc[t] = "after"
  BY DEF Dft, Places
<1>2. \A r \in Rows : matrixC[r] = "product"
  BY <1>1, AllMultiplied
<1> QED
  BY <1>2 DEF Dft

LEMMA ResultGrowsStep ==
  DTypeOK /\ NoEarlyPass /\ SharesSet /\ Places /\ ProductGrows /\ ResultGrows
    /\ DftReadsFinalProduct /\ [DNext]_allVars
    => ResultGrows' /\ DftReadsFinalProduct'
<1> SUFFICES ASSUME DTypeOK, NoEarlyPass, SharesSet, Places, ProductGrows,
                    ResultGrows, DftReadsFinalProduct, [DNext]_allVars
             PROVE  ResultGrows' /\ DftReadsFinalProduct'
  OBVIOUS
<1> USE DEF DftReadsFinalProduct
<1>1. CASE UNCHANGED <<pc, row, bpc, dft2dArr>>
  BY <1>1 DEF ResultGrows, Transformed, First, Behind
<1>2. CASE CreateThread
  <2>1. \A u \in Threads : pc'[u] = pc[u] \/ pc'[u] = "start"
    BY <1>2 DEF CreateThread, DTypeOK
  <2>2. UNCHANGED <<row, bpc, dft2dArr>>
    BY <1>2 DEF CreateThread
  <2> QED
    BY <2>1, <2>2 DEF ResultGrows, Transformed, First, Behind
<1>3. ASSUME NEW t \in Threads, TestFlag(t)
      PROVE  ResultGrows' /\ DftReadsFinalProduct'
  <2>1. UNCHANGED <<row, bpc, dft2dArr>>
    BY <1>3 DEF TestFlag
  <2>2. \A u \in Threads : pc'[u] = "dft" => pc[u] = "dft"
    BY <1>3 DEF TestFlag, DTypeOK
  <2>3. ASSUME NEW u \in Threads,
               pc'[u] = "last" \/ (pc'[u] = "exited" /\ bpc[u] = "after")
        PROVE  pc[u] = "last" \/ (pc[u] = "exited" /\ bpc[u] = "after")
    BY <1>3, <2>3 DEF TestFlag, DTypeOK, Places
  <2> QED
    BY <2>1, <2>2, <2>3 DEF ResultGrows, Transformed, First, Behind
<1>4. ASSUME NEW t \in Threads, FindRows(t) \/ LeaveBarrier(t)
      PROVE  ResultGrows' /\ DftReadsFinalProduct'
  <2>1. /\ UNCHANGED <<bpc, dft2dArr>> /\ row'[t] = First(t)
        /\ \A u \in Threads \ {t} : pc'[u] = pc[u] /\ row'[u] = row[u]
        /\ pc'[t] \in {"product", "dft"}
    BY <1>4, OwnShare DEF FindRows, LeaveBarrier, DTypeOK
  <2>2. First(t) <= First(t) /\ First(t) <= Behind(t)
    BY ShareBounds
  <2> QED
    BY <2>1, <2>2 DEF ResultGrows, Transformed, First, Behind
<1>5. ASSUME NEW t \in Threads, Multiply(t)
      PROVE  ResultGrows' /\ DftReadsFinalProduct'
  <2>1. /\ UNCHANGED <<bpc, dft2dArr>>
        /\ \A u \in Threads \ {t} : pc'[u] = pc[u] /\ row'[u] = row[u]
        /\ pc'[t] \in {"multiply", "ready"}
    BY <1>5 DEF Multiply, DTypeOK
  <2> QED
    BY <2>1 DEF ResultGrows, Transformed, First, Behind
<1>6. ASSUME NEW t \in Threads, EnterBarrier(t) \/ InBarrier(t)
      PROVE  ResultGrows' /\ DftReadsFinalProduct'
  <2>1. /\ UNCHANGED <<pc, row, dft2dArr>> /\ pc[t] = "barrier"
        /\ \A u \in Threads \ {t} : bpc'[u] = bpc[u]
    BY <1>6, BarrierSteps DEF dvars
  <2> QED
    BY <2>1 DEF ResultGrows, Transformed, First, Behind
<1>7. ASSUME NEW t \in Threads, Dft(t)
      PROVE  ResultGrows' /\ DftReadsFinalProduct'
  <2>0. /\ pc[t] = "dft" /\ row[t] \in Nat /\ bpc' = bpc
        /\ First(t) <= row[t] /\ row[t] <= Behind(t)
        /\ indKeeper[t] + gap = Behind(t)
        /\ \A r \in Rows : r < row[t] => Transformed(t, r)
    BY <1>7, OwnShare DEF Dft, ResultGrows, DTypeOK
  <2>1. CASE row[t] = indKeeper[t] + gap
    <3>1. \A r \in Rows : Transformed(t, r)
      BY <2>0, <2>1 DEF Transformed, Rows
    <3>2. /\ pc' = [pc EXCEPT ![t] = "last"]
          /\ UNCHANGED <<bpc, row, dft2dArr>>
      BY <1>7, <2>0, <2>1, DftIsRight
    <3> QED
      BY <3>1, <3>2 DEF ResultGrows, Transformed, First, Behind, DTypeOK
  <2>2. CASE row[t] # indKeeper[t] + gap
    <3>1. row[t] < Behind(t) /\ row[t] \in Rows
      BY <2>0, <2>2, OwnShare DEF Rows
    <3>2. /\ dft2dArr' = [dft2dArr EXCEPT ![row[t]] = "right"]
          /\ row' = [row EXCEPT ![t] = @ + 1] /\ UNCHANGED pc
      BY <1>7, <2>2, DftIsRight
    <3>3. /\ \A r \in Rows : dft2dArr'[r] = dft2dArr[r] \/ dft2dArr'[r] = "right"
          /\ dft2dArr'[row[t]] = "right"
          /\ row'[t] = row[t] + 1
          /\ \A u \in Threads \ {t} : row'[u] = row[u]
      BY <3>1, <3>2 DEF DTypeOK
    <3>4. ASSUME NEW u \in Threads, NEW r \in Rows, Transformed(u, r)
          PROVE  Transformed(u, r)'
      BY <3>3, <3>4 DEF Transformed, First, Behind
    <3>5. ASSUME NEW r \in Rows, r < row'[t] PROVE Transformed(t, r)'
      <4>1. r < row[t] \/ (r = row[t] /\ dft2dArr'[r] = "right")
        BY <2>0, <3>3, <3>5 DEF Rows
      <4>2. CASE r < row[t]
        BY <2>0, <3>4, <4>2
      <4> QED
        BY <4>1, <4>2 DEF Transformed, First, Behind
    <3>6. First(t) <= row'[t] /\ row'[t] <= Behind(t)
      BY <2>0, <3>1, <3>3, ShareBounds
    <3>7. \A u \in Threads : pc[u] = "dft" =>
            /\ First(u) <= row'[u] /\ row'[u] <= Behind(u)
            /\ \A r \in Rows : r < row'[u] => Transformed(u, r)'
      BY <2>0, <3>3, <3>4, <3>5, <3>6 DEF ResultGrows
    <3>8. ResultGrows'
      BY <2>0, <3>2, <3>4, <3>7 DEF ResultGrows, First, Behind
    <3> QED
      BY <3>3, <3>8
  <2> QED
    BY <2>1, <2>2
<1>8. CASE \/ Sigint \/ FillIndex \/ CheckFlag \/ JoinThread \/ Output
           \/ FreeMatrices
  BY <1>1, <1>8
     DEF Sigint, FillIndex, CheckFlag, JoinThread, Output, FreeMatrices
<1>9. CASE UNCHANGED allVars
  BY <1>1, <1>9 DEF allVars, dvars
<1> QED
  BY <1>2, <1>3, <1>4, <1>5, <1>6, <1>7, <1>8, <1>9
     DEF DNext, MainStep, ThreadStep

LEMMA JoinsStep ==
  DTypeOK /\ Places /\ Joins /\ [DNext]_allVars => Joins'
<1> SUFFICES ASSUME DTypeOK, Places, Joins, [DNext]_allVars PROVE Joins'
  OBVIOUS
<1>0. M \in Nat \ {0} /\ Threads = 0 .. M - 1 /\ k \in 0 .. M
  BY Shares DEF DTypeOK
<1>1. CASE Sigint
  BY <1>1 DEF Sigint, Joins
<1>2. CASE FillIndex \/ CreateThread
  BY <1>2 DEF FillIndex, CreateThread, Joins
<1>3. CASE CheckFlag
  <2>1. mainPc = "created" => \A t \in Threads : ~(t < k)
    BY <1>0 DEF Joins
  <2> QED
    BY <1>3, <2>1 DEF CheckFlag, Joins, Places
<1>4. CASE JoinThread
  <2>1. CASE k < M
    <3>1. \A t \in Threads : t < k + 1 => t < k \/ t = k
      BY <1>0
    <3> QED
      BY <1>4, <2>1, <3>1 DEF JoinThread, Joins
  <2>2. CASE ~(k < M)
    <3>1. \A t \in Threads : t < k
      BY <1>0, <2>2
    <3> QED
      BY <1>4, <2>2, <3>1 DEF JoinThread, Joins
  <2> QED
    BY <2>1, <2>2
<1>5. CASE Output \/ FreeMatrices
  BY <1>5 DEF Output, FreeMatrices, Joins
<1>6. ASSUME NEW t \in Threads, ThreadStep(t) PROVE Joins'
  <2>1. /\ UNCHANGED <<mainPc, k, freed, sigint>>
        /\ \A u \in Threads : pc[u] = "exited" => pc'[u] = "exited"
        /\ \A u \in Threads : pc[u] = "exited" => bpc'[u] = bpc[u]
    BY <1>6, ThreadFrame
  <2> QED
    BY <2>1 DEF Joins
<1>7. CASE UNCHANGED allVars
  BY <1>7 DEF allVars, dvars, Joins
<1> QED
  BY <1>1, <1>2, <1>3, <1>4, <1>5, <1>6, <1>7 DEF DNext, MainStep

-----------------------------------------------------------------------------
LEMMA InitHolds == DInit => DInv
<1> SUFFICES ASSUME DInit PROVE DInv
  OBVIOUS
<1>1. M \in Nat \ {0} /\ Threads = 0 .. M - 1 /\ Size \in Nat /\ First(0) = 0
  BY Shares, DftAssumption
<1>2. DTypeOK
  <2>1. BTypeOK
    BY DEF DInit, BInit, BTypeOK, BarrierLabels
  <2>2. /\ 0 \in 0 .. M /\ 0 \in 0 .. Size
        /\ mainPc = "fill" /\ k = 0 /\ counter = 0
    BY <1>1 DEF DInit
  <2>3. freed \in BOOLEAN /\ sigint \in BOOLEAN
    BY DEF DInit
  <2>4. /\ indKeeper \in [Threads -> Rows \cup {-1}]
        /\ matrixC \in [Rows -> {"zero", "partial", "product"}]
        /\ dft2dArr \in [Rows -> {"zero", "right", "wrong"}]
        /\ pc \in [Threads -> ThreadLabels]
        /\ row \in [Threads -> 0 .. Size]
    BY <2>2 DEF DInit
  <2> QED
    BY <2>1, <2>2, <2>3, <2>4 DEF DTypeOK
<1>3. NoEarlyPass
  BY DEF DInit, BInit, NoEarlyPass, Passed
<1>4. SharesSet
  BY <1>1 DEF DInit, SharesSet
<1>5. Places /\ ProductGrows /\ ResultGrows
  BY DEF DInit, BInit, Places, ProductGrows, ResultGrows
<1>6. Joins /\ DftReadsFinalProduct
  BY DEF DInit, Joins, DftReadsFinalProduct
<1> QED
  BY <1>2, <1>3, <1>4, <1>5, <1>6 DEF DInv

\* The invariant holds from the creation of the threads to the exit.
THEOREM DftInvariance == DSpec => []DInv
<1>1. DInv /\ (BTypeOK /\ NoEarlyPass)' /\ [DNext]_allVars => DInv'
  BY TypeStep, SharesSetStep, PlacesStep, ProductGrowsStep, ResultGrowsStep,
     JoinsStep DEF DInv
<1> QED
  BY <1>1, InitHolds, BarrierInside, PTL DEF DSpec

\* No row of the result is computed before all of the product is there.
THEOREM ProductIsFinal == DSpec => []DftReadsFinalProduct
<1>1. DInv => DftReadsFinalProduct
  BY DEF DInv
<1> QED
  BY <1>1, DftInvariance, PTL

\* main writes its output only when every row of the result is right.
THEOREM OutputIsComplete == DSpec => []OutputComplete
<1>1. DInv => OutputComplete
  <2> SUFFICES ASSUME DInv, mainPc \in {"output", "done"}, NEW r \in Rows
               PROVE  dft2dArr[r] = "right"
    BY DEF OutputComplete
  <2>1. PICK t \in Threads : First(t) <= r /\ r < Behind(t)
    BY Shares
  <2>2. Transformed(t, r)
    BY DEF DInv, Joins, ResultGrows
  <2>3. r \in Int /\ First(t) \in Int /\ Behind(t) \in Int
    BY ShareBounds, DftAssumption DEF Rows
  <2> QED
    BY <2>1, <2>2, <2>3 DEF Transformed
<1> QED
  BY <1>1, DftInvariance, PTL

\* A thread writes rows of the matrix, and no two threads the same one.
THEOREM RowsAreApart == DSpec => []RowsApart
<1>1. DInv => RowsApart
  <2> SUFFICES ASSUME DInv PROVE RowsApart
    OBVIOUS
  <2>1. \A v \in Threads : Writing(v) =>
          First(v) <= row[v] /\ row[v] < Behind(v) /\ row[v] \in Int
    BY OwnShare DEF DInv, Writing, ProductGrows, ResultGrows, DTypeOK
  <2>2. ASSUME NEW t \in Threads, Writing(t) PROVE row[t] \in Rows
    BY <2>1, <2>2, ShareBounds, DftAssumption DEF Rows
  <2>3. ASSUME NEW t \in Threads, NEW u \in Threads, t # u,
               Writing(t), Writing(u), row[t] = row[u]
        PROVE  FALSE
    <3>1. row[t] < First(u) \/ Behind(u) <= row[t]
      BY <2>1, <2>3, SharesApart
    <3> QED
      BY <2>1, <2>3, <3>1, ShareBounds
  <2> QED
    BY <2>2, <2>3 DEF RowsApart
<1> QED
  BY <1>1, DftInvariance, PTL

\* Without SIGINT the matrices outlive their last use.
THEOREM FreedAfterUse == DSpec => []NoUseAfterFree
<1>1. DInv => NoUseAfterFree
  BY DEF DInv, Joins, NoUseAfterFree, Computing
<1> QED
  BY <1>1, DftInvariance, PTL
=============================================================================
