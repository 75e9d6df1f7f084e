---------------------- MODULE SupplierConsumers_proof ----------------------
(***************************************************************************)
(* Theorems about SupplierConsumers, for any numbers of consumers and      *)
(* rounds, any input files and any limit of the semaphores.                *)
(***************************************************************************)
EXTENDS SupplierConsumers, FiniteSetTheorems, TLAPS

\* The constants are numbers, and a file has a length.
LEMMA Parameters == C \in Nat /\ C # 0 /\ N \in Nat /\ SemMax \in Nat
  BY SupplierAssumption

LEMMA FileLength == ASSUME input \in Inputs PROVE Len(input) \in Nat
  BY SupplierAssumption DEF Kinds

\* The variables keep their types; the semaphores stay in their range, so
\* no semop makes one negative or passes SEMVMX.
THEOREM Typing == Spec => []TypeOK
<1> USE Parameters DEF Consumers, MainLabels
<1>1. Init => TypeOK
  <2> SUFFICES ASSUME Init PROVE TypeOK
    OBVIOUS
  <2>1. input \in Inputs /\ pos \in 0 .. Len(input) /\ spc = "none"
    BY FileLength DEF Init
  <2>2. sem \in [Kinds -> 0 .. SemMax]
    BY DEF Init
  <2>3. /\ cpc \in [Consumers -> {"none", "take", "left"}]
        /\ iter \in [Consumers -> 0 .. N]
    BY DEF Init
  <2>4. mainPc \in MainLabels /\ k \in 0 .. C
    BY DEF Init
  <2>5. /\ removed \in BOOLEAN /\ closed \in BOOLEAN /\ sigint \in BOOLEAN
        /\ pending \subseteq Consumers /\ exited = "no"
    BY DEF Init
  <2> QED
    BY <2>1, <2>2, <2>3, <2>4, <2>5 DEF TypeOK
<1>2. TypeOK /\ [Next]_vars => TypeOK'
  <2> SUFFICES ASSUME TypeOK, [Next]_vars PROVE TypeOK'
    OBVIOUS
  <2> USE DEF TypeOK, threads, mainVars, signals
  <2>1. ASSUME Read PROVE TypeOK'
    <3>1. Len(input) \in Nat
      BY FileLength
    <3>2. /\ pos' \in 0 .. Len(input)
          /\ spc' \in {"read", "deliver", "left"}
          /\ spc' = "deliver" => pos' < Len(input) /\ input[pos' + 1] \in Kinds
      BY <2>1, <3>1 DEF Read
    <3>3. UNCHANGED <<input, sem, cpc, iter, removed, closed, mainPc, k, sigint,
                      pending, exited>>
      BY <2>1 DEF Read
    <3> QED
      BY <3>2, <3>3
  <2>2. ASSUME Deliver PROVE TypeOK'
    <3>1. Len(input) \in Nat /\ pos \in Nat
      BY FileLength
    <3>2. CASE removed \/ sem[input[pos + 1]] = SemMax
      BY <2>2, <3>2 DEF Deliver
    <3>3. CASE ~(removed \/ sem[input[pos + 1]] = SemMax)
      <4> DEFINE n == input[pos + 1]
      <4>1. n \in Kinds /\ pos < Len(input)
        BY <2>2 DEF Deliver
      <4>2. sem' = [sem EXCEPT ![n] = @ + 1] /\ pos' = pos + 1 /\ spc' = "read"
        BY <2>2, <3>3 DEF Deliver
      <4>3. sem[n] # SemMax
        BY <3>3
      <4> HIDE DEF n
      <4>4. sem' \in [Kinds -> 0 .. SemMax]
        BY <4>1, <4>2, <4>3
      <4>5. pos' \in 0 .. Len(input)
        BY <3>1, <4>1, <4>2
      <4> QED
        BY <2>2, <3>3, <4>2, <4>4, <4>5 DEF Deliver
    <3> QED
      BY <3>2, <3>3
  <2>3. ASSUME NEW c \in Consumers, Consume(c) PROVE TypeOK'
    <3>1. CASE removed
      BY <2>3, <3>1 DEF Consume
    <3>2. CASE ~removed
      <4>0. \A n \in Kinds : sem[n] - 1 \in 0 .. SemMax
        BY <2>3, <3>2 DEF Consume, Available
      <4>1. sem' \in [Kinds -> 0 .. SemMax]
        BY <2>3, <3>2, <4>0 DEF Consume
      <4>2. iter' \in [Consumers -> 0 .. N]
        <5>1. iter' = [iter EXCEPT ![c] = @ + 1]
          BY <2>3, <3>2 DEF Consume
        <5>2. iter[c] + 1 \in 0 .. N
          BY <2>3 DEF Consume
        <5> QED
          BY <5>1, <5>2
      <4>3. UNCHANGED <<input, pos, spc, cpc, removed, closed, mainPc, k, sigint,
                        pending, exited>>
        BY <2>3, <3>2 DEF Consume
      <4> QED
        BY <4>1, <4>2, <4>3
    <3> QED
      BY <3>1, <3>2
  <2>4. ASSUME NEW c \in Consumers, Leave(c) PROVE TypeOK'
    BY <2>4 DEF Leave
  <2>5. ASSUME Main PROVE TypeOK'
    <3>1. CASE CreateConsumer
      <4>1. cpc' \in [Consumers -> {"none", "take", "left"}]
        BY <3>1 DEF CreateConsumer
      <4>2. k' \in 0 .. C /\ mainPc' \in MainLabels
        BY <3>1 DEF CreateConsumer, Goto
      <4>3. UNCHANGED <<input, pos, sem, spc, iter, removed, closed, sigint,
                        pending, exited>>
        BY <3>1 DEF CreateConsumer
      <4> QED
        BY <4>1, <4>2, <4>3
    <3>2. CASE JoinConsumer
      <4>1. k' \in 0 .. C /\ mainPc' \in MainLabels
        BY <3>2 DEF JoinConsumer, Goto
      <4>2. UNCHANGED <<threads, removed, closed, signals, exited>>
        BY <3>2 DEF JoinConsumer
      <4> QED
        BY <4>1, <4>2
    <3>3. CASE TestFlag
      BY <3>3 DEF TestFlag, Goto
    <3>4. CASE ReadArguments \/ CreateSupplier \/ CloseInput
      BY <3>4 DEF ReadArguments, CreateSupplier, CloseInput, Goto
    <3>5. CASE RemoveSet \/ Exit
      BY <3>5 DEF RemoveSet, Exit, Goto
    <3> QED
      BY <2>5, <3>1, <3>2, <3>3, <3>4, <3>5 DEF Main
  <2>6. ASSUME Sigint PROVE TypeOK'
    <3>1. /\ sigint' \in BOOLEAN /\ pending' \subseteq Consumers
          /\ exited' \in {"no", "failure", "crashed"}
      BY <2>6 DEF Sigint
    <3>2. UNCHANGED <<threads, mainVars>>
      BY <2>6 DEF Sigint
    <3> QED
      BY <3>1, <3>2
  <2>7. ASSUME NEW c \in Consumers, Interrupt(c) PROVE TypeOK'
    BY <2>7 DEF Interrupt
  <2>8. CASE UNCHANGED vars
    BY <2>8 DEF vars
  <2> QED
    BY <2>1, <2>2, <2>3, <2>4, <2>5, <2>6, <2>7, <2>8
       DEF Next, Supplier, Consumer
<1> QED
  BY <1>1, <1>2, PTL DEF Spec

-----------------------------------------------------------------------------
\* How far the program is: who may have been joined, removed or interrupted.
Stages ==
  /\ mainPc \in {"abort", "exit"} \/ pending # {} => sigint
  /\ mainPc = "ready" => k = 0
  /\ mainPc = "join" => \A c \in Consumers : c < k => cpc[c] = "left"
  /\ mainPc \in {"close", "destroy", "done"} => Served
  /\ removed => mainPc \in {"done", "exit"}
  /\ \A c \in Consumers : cpc[c] = "left" => iter[c] = N

LEMMA Staging == Spec => []Stages
<1> USE Parameters DEF Consumers, MainLabels
<1>1. Init => Stages
  BY DEF Init, Stages
<1>2. TypeOK /\ Stages /\ [Next]_vars => Stages'
  <2> SUFFICES ASSUME TypeOK, Stages, [Next]_vars PROVE Stages'
    OBVIOUS
  <2> USE DEF TypeOK, Stages, Served, threads, mainVars, signals
  <2>1. ASSUME Read \/ Deliver PROVE Stages'
    <3>1. UNCHANGED <<cpc, iter, mainVars, signals>>
      BY <2>1 DEF Read, Deliver
    <3> QED
      BY <3>1
  <2>2. ASSUME NEW c \in Consumers, Consume(c) PROVE Stages'
    BY <2>2 DEF Consume
  <2>3. ASSUME NEW c \in Consumers, Leave(c) PROVE Stages'
    <3>1. \A d \in Consumers : cpc'[d] = IF d = c THEN "left" ELSE cpc[d]
      BY <2>3 DEF Leave
    <3>2. iter[c] = N /\ UNCHANGED <<iter, mainPc, k, removed, sigint, pending>>
      BY <2>3 DEF Leave
    <3>3. \A d \in Consumers : cpc[d] = "left" => cpc'[d] = "left"
      BY <3>1
    <3>4. Served => Served'
      BY <3>3
    <3>5. \A d \in Consumers : cpc'[d] = "left" => iter'[d] = N
      BY <3>1, <3>2
    <3> QED
      BY <3>2, <3>3, <3>4, <3>5
  <2>4. ASSUME Main PROVE Stages'
    <3>1. CASE CreateConsumer
      BY <3>1 DEF CreateConsumer, Goto
    <3>2. CASE JoinConsumer
      BY <3>2 DEF JoinConsumer, Goto
    <3>3. CASE TestFlag
      <4>1. /\ UNCHANGED <<cpc, iter, removed, sigint, pending, k>>
            /\ ~removed
        BY <3>3 DEF TestFlag
      <4>2. CASE mainPc = "init"
        BY <3>3, <4>1, <4>2 DEF TestFlag, Goto
      <4>3. CASE mainPc \in {"set", "created"}
        BY <3>3, <4>1, <4>3 DEF TestFlag, Goto
      <4>4. CASE mainPc = "ready"
        BY <3>3, <4>1, <4>4 DEF TestFlag, Goto
      <4> QED
        BY <3>3, <4>2, <4>3, <4>4 DEF TestFlag
    <3>4. CASE ReadArguments \/ CreateSupplier \/ CloseInput
      BY <3>4 DEF ReadArguments, CreateSupplier, CloseInput, Goto
    <3>5. CASE RemoveSet \/ Exit
      BY <3>5 DEF RemoveSet, Exit, Goto
    <3> QED
      BY <2>4, <3>1, <3>2, <3>3, <3>4, <3>5 DEF Main
  <2>5. ASSUME Sigint PROVE Stages'
    BY <2>5 DEF Sigint
  <2>6. ASSUME NEW c \in Consumers, Interrupt(c) PROVE Stages'
    BY <2>6 DEF Interrupt
  <2>7. CASE UNCHANGED vars
    BY <2>7 DEF vars
  <2> QED
    BY <2>1, <2>2, <2>3, <2>4, <2>5, <2>6, <2>7 DEF Next, Supplier, Consumer
<1> QED
  BY <1>1, <1>2, Typing, PTL DEF Spec

-----------------------------------------------------------------------------
\* The sets that are counted.

LEMMA FileFinite ==
  ASSUME TypeOK, NEW n \in Kinds
  PROVE  /\ IsFiniteSet(InFile(n)) /\ IsFiniteSet(Delivered(n))
         /\ Cardinality(InFile(n)) \in Nat /\ Cardinality(Delivered(n)) \in Nat
<1>1. Len(input) \in Int
  BY FileLength DEF TypeOK
<1>2. IsFiniteSet(1 .. Len(input))
  BY <1>1, FS_Interval
<1>3. InFile(n) \in SUBSET (1 .. Len(input))
  BY DEF InFile
<1>4. Delivered(n) \in SUBSET (1 .. Len(input))
  BY DEF Delivered, InFile
<1> QED
  BY <1>2, <1>3, <1>4, FS_Subset, FS_CardinalityType

LEMMA TakenFinite ==
  ASSUME TypeOK
  PROVE  /\ IsFiniteSet(Taken) /\ Cardinality(Taken) \in Nat
         /\ IsFiniteSet(Consumers \X (0 .. N - 1))
         /\ Cardinality(Consumers \X (0 .. N - 1)) = C * N
<1>1. /\ IsFiniteSet(Consumers) /\ Cardinality(Consumers) = C
  BY Parameters, FS_Interval DEF Consumers
<1>2. /\ IsFiniteSet(0 .. N - 1) /\ Cardinality(0 .. N - 1) = N
  BY Parameters, FS_Interval
<1>3. /\ IsFiniteSet(Consumers \X (0 .. N - 1))
      /\ Cardinality(Consumers \X (0 .. N - 1)) = C * N
  BY <1>1, <1>2, FS_Product
<1>4. Taken \in SUBSET (Consumers \X (0 .. N - 1))
  BY DEF Taken
<1> QED
  BY <1>3, <1>4, FS_Subset, FS_CardinalityType

\* While the supplier has a byte in hand, not all of its kind is delivered.
LEMMA OneMoreToCome ==
  ASSUME TypeOK, spc = "deliver"
  PROVE  /\ input[pos + 1] \in Kinds
         /\ Cardinality(Delivered(input[pos + 1]))
              < Cardinality(InFile(input[pos + 1]))
<1> DEFINE n == input[pos + 1]
<1>1. n \in Kinds /\ pos \in Nat /\ pos + 1 \in 1 .. Len(input)
  BY FileLength DEF TypeOK
<1>2. pos + 1 \in InFile(n) /\ pos + 1 \notin Delivered(n)
  BY <1>1 DEF InFile, Delivered
<1>3. Delivered(n) \in SUBSET InFile(n)
  BY DEF Delivered
<1> HIDE DEF n
<1>4. /\ Cardinality(Delivered(n)) <= Cardinality(InFile(n))
      /\ Cardinality(InFile(n)) = Cardinality(Delivered(n)) => InFile(n) = Delivered(n)
  BY <1>1, <1>3, FileFinite, FS_Subset
<1>5. Cardinality(Delivered(n)) < Cardinality(InFile(n))
  BY <1>1, <1>2, <1>4, FileFinite
<1> QED
  BY <1>1, <1>5 DEF n

\* When every consumer has left, C * N pairs are taken.
LEMMA AllTaken ==
  ASSUME TypeOK, Stages, Served
  PROVE  Cardinality(Taken) = C * N
<1>1. \A c \in Consumers : iter[c] = N
  BY DEF Stages, Served
<1>2. Taken = Consumers \X (0 .. N - 1)
  BY <1>1, Parameters DEF Taken
<1> QED
  BY <1>2, TakenFinite

-----------------------------------------------------------------------------
\* The semaphores hold what was delivered and not taken (lines 66-83 and 121).
THEOREM ConservationHolds == Spec => []Conservation
<1>1. Init => Conservation
  <2> SUFFICES ASSUME Init, NEW n \in Kinds
               PROVE  sem[n] = Cardinality(Delivered(n)) - Cardinality(Taken)
    BY DEF Conservation
  <2>1. Delivered(n) = {}
    BY DEF Init, Delivered, InFile
  <2>2. Taken = {}
    BY DEF Init, Taken
  <2>3. sem[n] = 0
    BY DEF Init
  <2> QED
    BY <2>1, <2>2, <2>3, FS_EmptySet
<1>2. TypeOK /\ TypeOK' /\ Conservation /\ [Next]_vars => Conservation'
  <2> SUFFICES ASSUME TypeOK, TypeOK', Conservation, [Next]_vars,
                      NEW n \in Kinds
               PROVE  sem'[n] = Cardinality(Delivered(n)') - Cardinality(Taken')
    BY DEF Conservation
  <2>0. /\ sem[n] = Cardinality(Delivered(n)) - Cardinality(Taken)
        /\ sem[n] \in Nat
        /\ Cardinality(Delivered(n)) \in Nat /\ Cardinality(Taken) \in Nat
        /\ pos \in Nat /\ Len(input) \in Nat
    <3>1. sem[n] = Cardinality(Delivered(n)) - Cardinality(Taken)
      BY DEF Conservation
    <3>2. sem[n] \in Nat /\ pos \in Nat /\ Len(input) \in Nat
      BY FileLength, Parameters DEF TypeOK
    <3> QED
      BY <3>1, <3>2, FileFinite, TakenFinite
  <2>1. CASE UNCHANGED <<input, pos, sem, iter>>
    <3>1. Delivered(n)' = Delivered(n) /\ Taken' = Taken
      BY <2>1 DEF Delivered, InFile, Taken
    <3> QED
      BY <2>0, <2>1, <3>1
  <2>2. CASE Read
    <3>1. CASE pos' = pos
      BY <2>1, <2>2, <3>1 DEF Read
    <3>2. CASE pos' # pos
      <4>1. pos' = pos + 1 /\ input[pos + 1] # n /\ UNCHANGED <<input, sem, iter>>
        BY <2>2, <3>2 DEF Read
      <4>2. Delivered(n)' = Delivered(n)
        BY <4>1, <2>0 DEF Delivered, InFile
      <4>3. Taken' = Taken
        BY <4>1 DEF Taken
      <4> QED
        BY <2>0, <4>1, <4>2, <4>3
    <3> QED
      BY <3>1, <3>2
  <2>3. CASE Deliver
    <3>1. CASE UNCHANGED <<pos, sem>>
      BY <2>1, <2>3, <3>1 DEF Deliver
    <3>2. CASE ~UNCHANGED <<pos, sem>>
      <4>1. /\ sem' = [sem EXCEPT ![input[pos + 1]] = @ + 1]
            /\ pos' = pos + 1
            /\ UNCHANGED <<input, iter>>
            /\ input[pos + 1] \in Kinds /\ pos + 1 \in 1 .. Len(input)
        BY <2>0, <2>3, <3>2 DEF Deliver, TypeOK
      <4>2. Taken' = Taken
        BY <4>1 DEF Taken
      <4>3. CASE input[pos + 1] = n
        <5>1. Delivered(n)' = Delivered(n) \cup {pos + 1}
          BY <2>0, <4>1, <4>3 DEF Delivered, InFile
        <5>2. pos + 1 \notin Delivered(n)
          BY <2>0 DEF Delivered
        <5>3. Cardinality(Delivered(n)') = Cardinality(Delivered(n)) + 1
          BY <5>1, <5>2, FileFinite, FS_AddElement
        <5>4. sem'[n] = sem[n] + 1
          BY <4>1, <4>3 DEF TypeOK
        <5> QED
          BY <2>0, <4>2, <5>3, <5>4
      <4>4. CASE input[pos + 1] # n
        <5>1. Delivered(n)' = Delivered(n)
          BY <2>0, <4>1, <4>4 DEF Delivered, InFile
        <5>2. sem'[n] = sem[n]
          BY <4>1, <4>4 DEF TypeOK
        <5> QED
          BY <2>0, <4>2, <5>1, <5>2
      <4> QED
        BY <4>3, <4>4
    <3> QED
      BY <3>1, <3>2
  <2>4. ASSUME NEW c \in Consumers, Consume(c)
        PROVE  sem'[n] = Cardinality(Delivered(n)') - Cardinality(Taken')
    <3>1. CASE removed
      BY <2>1, <2>4, <3>1 DEF Consume, threads
    <3>2. CASE ~removed
      <4>1. /\ sem' = [m \in Kinds |-> sem[m] - 1]
            /\ iter' = [iter EXCEPT ![c] = @ + 1]
            /\ iter[c] < N /\ iter[c] \in 0 .. N
            /\ UNCHANGED <<input, pos>>
        BY <2>4, <3>2 DEF Consume, TypeOK
      <4>2. Delivered(n)' = Delivered(n)
        BY <4>1 DEF Delivered, InFile
      <4>3. Taken' = Taken \cup {<<c, iter[c]>>}
        <5>1. \A d \in Consumers : iter'[d] = IF d = c THEN iter[c] + 1 ELSE iter[d]
          BY <4>1 DEF TypeOK
        <5>2. \A d \in Consumers : iter[d] \in Nat
          BY Parameters DEF TypeOK
        <5>3. \A d \in Consumers, i \in 0 .. N - 1 :
                i < iter'[d] <=> (i < iter[d] \/ (d = c /\ i = iter[c]))
          BY <5>1, <5>2, Parameters
        <5>4. iter[c] \in 0 .. N - 1
          BY <4>1, Parameters
        <5> QED
          BY <5>3, <5>4 DEF Taken
      <4>4. <<c, iter[c]>> \notin Taken
        BY <4>1, Parameters DEF Taken
      <4>5. Cardinality(Taken') = Cardinality(Taken) + 1
        BY <4>3, <4>4, TakenFinite, FS_AddElement
      <4> QED
        BY <2>0, <4>1, <4>2, <4>5
    <3> QED
      BY <3>1, <3>2
  <2>5. CASE Main
    BY <2>1, <2>5
       DEF Main, ReadArguments, TestFlag, CreateSupplier, CreateConsumer,
           JoinConsumer, CloseInput, RemoveSet, Exit, threads
  <2>6. CASE Sigint \/ (\E c \in Consumers : Leave(c) \/ Interrupt(c)) \/ UNCHANGED vars
    BY <2>1, <2>6 DEF Sigint, Leave, Interrupt, vars, threads
  <2> QED
    BY <2>2, <2>3, <2>4, <2>5, <2>6 DEF Next, Supplier, Consumer
<1> QED
  BY <1>1, <1>2, Typing, PTL DEF Spec

-----------------------------------------------------------------------------
\* A semaphore of a file that fits is below its limit when it is posted.
LEMMA RoomToDeliver ==
  ASSUME TypeOK, Conservation, Fits, spc = "deliver"
  PROVE  sem[input[pos + 1]] # SemMax
<1> DEFINE n == input[pos + 1]
<1>1. n \in Kinds /\ Cardinality(Delivered(n)) < Cardinality(InFile(n))
  BY OneMoreToCome
<1> HIDE DEF n
<1>2. /\ sem[n] = Cardinality(Delivered(n)) - Cardinality(Taken)
      /\ Cardinality(InFile(n)) <= SemMax
  BY <1>1 DEF Conservation, Fits
<1>3. sem[n] # SemMax
  BY <1>1, <1>2, FileFinite, TakenFinite, Parameters
<1> QED
  BY <1>3 DEF n

\* The step that ends the process without SIGINT is a delivery to the removed
\* set: a consumer that still takes would not have been joined.
LEMMA HowItFails ==
  ASSUME TypeOK, Stages, Conservation, Fits, exited = "no", ~sigint', Next,
         exited' # "no"
  PROVE  Deliver /\ removed /\ Served /\ UNCHANGED cpc
<1>1. ~sigint
  BY DEF Next, Main, ReadArguments, TestFlag, CreateSupplier, CreateConsumer,
         JoinConsumer, CloseInput, RemoveSet, Exit, Supplier, Read, Deliver,
         Sigint, Consumer, Consume, Leave, Interrupt, signals
<1>2. removed => Served
  BY <1>1 DEF Stages
<1>3. ~Sigint /\ \A c \in Consumers : ~Interrupt(c)
  BY <1>1 DEF Sigint, Interrupt, Stages
<1>4. ~Main
  BY <1>1 DEF Stages, Main, ReadArguments, TestFlag, CreateSupplier,
              CreateConsumer, JoinConsumer, CloseInput, RemoveSet, Exit
<1>5. \A c \in Consumers : ~Consumer(c)
  BY <1>2 DEF Consumer, Consume, Leave, Served
<1>6. Deliver
  BY <1>3, <1>4, <1>5 DEF Next, Supplier, Read
<1>7. removed
  BY <1>6, RoomToDeliver DEF Deliver
<1> QED
  BY <1>2, <1>6, <1>7 DEF Deliver

\* Without SIGINT, and with a file that fits the semaphores, nothing ends the
\* process before every consumer has taken its pairs and left: the semaphore
\* set is removed (line 301) only behind the last of them.
THEOREM NobodyIsCutOff == Spec => []NobodyCutOff
<1>1. Init => NobodyCutOff
  BY DEF Init, NobodyCutOff
<1>2. TypeOK /\ Stages /\ Conservation /\ NobodyCutOff /\ [Next]_vars
        => NobodyCutOff'
  <2> SUFFICES ASSUME TypeOK, Stages, Conservation, NobodyCutOff, Next,
                      Fits', ~sigint', exited' # "no"
               PROVE  Served'
    BY DEF NobodyCutOff, vars, threads, signals, Fits, InFile, Served
  <2>1. exited = "no"
    BY DEF Next
  <2>2. input' = input
    BY DEF Next, Main, ReadArguments, TestFlag, CreateSupplier, CreateConsumer,
           JoinConsumer, CloseInput, RemoveSet, Exit, Supplier, Read, Deliver,
           Sigint, Consumer, Consume, Leave, Interrupt, threads
  <2>3. Fits
    BY <2>2 DEF Fits, InFile
  <2>4. Served /\ UNCHANGED cpc
    BY <2>1, <2>3, HowItFails
  <2> QED
    BY <2>4 DEF Served
<1> QED
  BY <1>1, <1>2, Typing, Staging, ConservationHolds, PTL DEF Spec

\* With exactly C * N of each kind no semop fails, unless SIGINT arrives: when
\* main removes the set, the supplier has nothing left to deliver.
THEOREM NothingFails == Spec => []NoFailure
<1>1. Init => NoFailure
  BY DEF Init, NoFailure
<1>2. TypeOK /\ Stages /\ Conservation /\ NoFailure /\ [Next]_vars => NoFailure'
  <2> SUFFICES ASSUME TypeOK, Stages, Conservation, NoFailure, Next,
                      Exact', Fits', ~sigint', exited' # "no"
               PROVE  FALSE
    BY DEF NoFailure, vars, threads, signals, Fits, Exact, InFile
  <2>1. exited = "no"
    BY DEF Next
  <2>2. input' = input
    BY DEF Next, Main, ReadArguments, TestFlag, CreateSupplier, CreateConsumer,
           JoinConsumer, CloseInput, RemoveSet, Exit, Supplier, Read, Deliver,
           Sigint, Consumer, Consume, Leave, Interrupt, threads
  <2>3. Fits /\ Exact
    BY <2>2 DEF Fits, Exact, InFile
  <2>4. Deliver /\ Served
    BY <2>1, <2>3, HowItFails
  <2> DEFINE n == input[pos + 1]
  <2>5. n \in Kinds /\ Cardinality(Delivered(n)) < Cardinality(InFile(n))
    BY <2>4, OneMoreToCome DEF Deliver
  <2>6. Cardinality(Taken) = C * N
    BY <2>4, AllTaken
  <2> HIDE DEF n
  <2>7. /\ sem[n] = Cardinality(Delivered(n)) - Cardinality(Taken)
        /\ sem[n] \in Nat
        /\ Cardinality(InFile(n)) = C * N
    BY <2>3, <2>5, Parameters DEF Conservation, TypeOK, Exact
  <2>8. Cardinality(Delivered(n)) \in Nat /\ Cardinality(Taken) \in Nat
    BY <2>5, FileFinite, TakenFinite
  <2> QED
    BY <2>5, <2>6, <2>7, <2>8
<1> QED
  BY <1>1, <1>2, Typing, Staging, ConservationHolds, PTL DEF Spec
=============================================================================
