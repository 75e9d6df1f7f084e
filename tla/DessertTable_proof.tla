------------------------- MODULE DessertTable_proof -------------------------
(***************************************************************************)
(* Proofs about DessertTable for any chefs of the six, any input file whose *)
(* pairs have a chef, and SIGINT to any of the processes at any time.      *)
(***************************************************************************)
EXTENDS DessertTable, FiniteSetTheorems, TLAPS

Places == Ingredients \cup {"i", "t", "n"}
ChefLabels == {"loop", "wait", "initial", "finished", "first", "second",
               "swapped", "swapped2", "take", "taking", "taken", "post",
               "leave", "exited"}
SellerLabels == {"wait", "initial", "initial2", "empty", "empty2", "read",
                 "post", "put", "eof", "collect", "done", "gone"}

TypeOK ==
  /\ addr \in Places \X Places
  /\ tem1 \in [Chefs -> Places]
  /\ sp \in Nat
  /\ pos \in 0 .. Len(Input)
  /\ sigintcaught \in SUBSET Procs
  /\ interrupted \in BOOLEAN
  /\ interrupted => sigintcaught # {}
  /\ pc \in [Procs -> ChefLabels \cup SellerLabels]
  /\ pc[Wholesaler] \in SellerLabels
  /\ \A c \in Chefs : pc[c] \in ChefLabels
  /\ totalDesNum \in [Chefs -> Nat]
  /\ exitStatus \in [Chefs -> Nat]
  /\ reaped \in SUBSET Chefs
  /\ allDeserts \in Nat

\* Between sem_wait and sem_post.
Inside == {"initial", "finished", "first", "second", "swapped", "swapped2",
           "take", "taking", "taken", "post", "leave", "initial2", "empty",
           "empty2", "read", "put", "eof"}

\* Until a sem_wait is interrupted the semaphore keeps all but one process
\* out.
OneInside ==
  ~interrupted =>
    /\ sp \in {0, 1}
    /\ \A p \in Procs : pc[p] \in Inside => sp = 0
    /\ \A p, q \in Procs : pc[p] \in Inside /\ pc[q] \in Inside => p = q

\* Until then, what a process has read of the table still lies there.
SeenBy(c) ==
  /\ pc[c] = "second" => addr[1] = recipe[c][1]
  /\ pc[c] = "swapped2" => addr[1] = recipe[c][2]
  /\ pc[c] \in {"take", "taking"} => IsFor(addr, c)
  /\ pc[c] = "taken" => addr[1] = "t"
Seen ==
  ~interrupted =>
    /\ \A c \in Chefs : SeenBy(c)
    /\ pc[Wholesaler] = "read" =>
         addr[1] \in {"i", "t"} \/ addr[2] \in {"i", "t"}

Taken(c) == IF pc[c] = "taken" THEN 1 ELSE 0
OnTable(c) == IF IsFor(addr, c) THEN 1 ELSE 0

\* Until then, a chef has made, makes or finds as much as was brought for it.
NoneLost ==
  ~interrupted =>
    \A c \in Chefs :
      DeliveredTo(c) = totalDesNum[c] + Taken(c) + OnTable(c)

\* Once it has told the chefs, the wholesaler has no pair left, and until
\* a sem_wait is interrupted nobody touches what it told them.
Announced ==
  pc[Wholesaler] \in {"eof", "collect", "done"} =>
    /\ pos = Len(Input)
    /\ ~interrupted => addr = <<"n", "n">>

\* A sum over the chefs, written out for the six there can be.
Share(f, S, c) == IF c \in S THEN f[c] ELSE 0
Sum6(f, S) == Share(f, S, 0) + Share(f, S, 1) + Share(f, S, 2)
              + Share(f, S, 3) + Share(f, S, 4) + Share(f, S, 5)

delivered == [c \in Chefs |-> DeliveredTo(c)]

\* Every pair is for one chef.
PairsShared == pos = Sum6(delivered, Chefs)

\* What the wholesaler has collected is what the chefs exited with.
Collected ==
  /\ \A c \in Chefs : pc[c] = "exited" /\ sigintcaught = {} =>
       exitStatus[c] = totalDesNum[c] % 256
  /\ \A c \in reaped : pc[c] = "exited"
  /\ allDeserts = Sum6(exitStatus, reaped)
  /\ pc[Wholesaler] = "done" => reaped = Chefs

IInv == /\ TypeOK /\ OneInside /\ Seen /\ NoneLost /\ Announced
        /\ PairsShared /\ Collected

-----------------------------------------------------------------------------
\* The sum when one of the six has one more, and when one more counts.
LEMMA SumOneMore ==
  ASSUME NEW S \in SUBSET (0 .. 5), NEW f, NEW g, NEW d \in S,
         \A c \in S : f[c] \in Nat /\ g[c] = f[c] + (IF c = d THEN 1 ELSE 0)
  PROVE  Sum6(g, S) = Sum6(f, S) + 1
<1>1. \A c \in 0 .. 5 :
        /\ Share(f, S, c) \in Nat /\ Share(g, S, c) \in Nat
        /\ c # d => Share(g, S, c) = Share(f, S, c)
        /\ c = d => Share(g, S, c) = Share(f, S, c) + 1
  BY DEF Share
<1>2. d = 0 \/ d = 1 \/ d = 2 \/ d = 3 \/ d = 4 \/ d = 5
  OBVIOUS
<1> QED
  BY <1>1, <1>2 DEF Sum6

LEMMA SumWithOneMore ==
  ASSUME NEW S \in SUBSET (0 .. 5), NEW d \in (0 .. 5) \ S, NEW f,
         \A c \in S \cup {d} : f[c] \in Nat
  PROVE  Sum6(f, S \cup {d}) = Sum6(f, S) + f[d]
<1>1. \A c \in 0 .. 5 :
        /\ Share(f, S, c) \in Nat /\ Share(f, S \cup {d}, c) \in Nat
        /\ c # d => Share(f, S \cup {d}, c) = Share(f, S, c)
        /\ c = d => Share(f, S \cup {d}, c) = Share(f, S, c) + f[d]
  BY DEF Share
<1>2. d = 0 \/ d = 1 \/ d = 2 \/ d = 3 \/ d = 4 \/ d = 5
  OBVIOUS
<1>3. f[d] \in Nat
  OBVIOUS
<1> QED
  BY <1>1, <1>2, <1>3 DEF Sum6

\* The sum depends on the shares only.
LEMMA SumSame ==
  ASSUME NEW S, NEW f, NEW g, \A c \in S : f[c] = g[c]
  PROVE  Sum6(f, S) = Sum6(g, S)
<1>1. \A c : Share(f, S, c) = Share(g, S, c)
  BY DEF Share
<1> QED
  BY <1>1 DEF Sum6

USE DessertAssumption
    DEF Places, Ingredients, ChefLabels, SellerLabels, Inside, Procs, Wholesaler

-----------------------------------------------------------------------------
\* What the six chefs wait for.
LEMMA Recipe ==
  ASSUME NEW c \in Chefs
  PROVE  /\ c = 0 => recipe[c] = <<"W", "S">>
         /\ c = 1 => recipe[c] = <<"F", "W">>
         /\ c = 2 => recipe[c] = <<"S", "F">>
         /\ c = 3 => recipe[c] = <<"M", "F">>
         /\ c = 4 => recipe[c] = <<"M", "W">>
         /\ c = 5 => recipe[c] = <<"S", "M">>
  BY DEF recipe, chef0, chef1, chef2, chef3, chef4, chef5

\* A table that is not full of ingredients is for no chef.
LEMMA ForNobody ==
  ASSUME NEW p, NEW c \in Chefs,
         p[1] \in {"i", "t", "n"} \/ p[2] \in {"i", "t", "n"}
  PROVE  ~IsFor(p, c)
<1>1. recipe[c][1] \in Ingredients /\ recipe[c][2] \in Ingredients
  BY Recipe, c \in 0 .. 5
<1> QED
  BY <1>1 DEF IsFor

\* A pair is for one chef at most.
LEMMA ForOneChef ==
  ASSUME NEW p, NEW c \in Chefs, NEW d \in Chefs, IsFor(p, c), IsFor(p, d)
  PROVE  c = d
<1> DEFINE On(i) == p[1] = i \/ p[2] = i
<1>1. \A e \in Chefs :
        IsFor(p, e) => /\ e \in 0 .. 5
                       /\ On("W") <=> e \in {0, 1, 4}
                       /\ On("S") <=> e \in {0, 2, 5}
                       /\ On("F") <=> e \in {1, 2, 3}
                       /\ On("M") <=> e \in {3, 4, 5}
  BY Recipe DEF IsFor
<1> QED
  BY <1>1

\* A table that holds both ingredients of a chef is for it.
LEMMA BothBytes ==
  ASSUME TypeOK, NEW c \in Chefs,
         \/ addr[1] = recipe[c][1] /\ addr[2] = recipe[c][2]
         \/ addr[1] = recipe[c][2] /\ addr[2] = recipe[c][1]
  PROVE  IsFor(addr, c)
<1>1. addr = <<addr[1], addr[2]>>
  BY DEF TypeOK
<1>2. recipe[c] = <<recipe[c][1], recipe[c][2]>>
  BY Recipe, c \in 0 .. 5
<1> QED
  BY <1>1, <1>2 DEF IsFor

\* The pairs for chef c among the first k.
For(k, c) == {j \in 1 .. k : IsFor(Input[j], c)}

LEMMA ForIsFinite ==
  ASSUME NEW k \in Nat, NEW c \in Chefs
  PROVE  IsFiniteSet(For(k, c)) /\ Cardinality(For(k, c)) \in Nat
<1>1. IsFiniteSet(1 .. k)
  BY FS_Interval
<1>2. For(k, c) \in SUBSET (1 .. k)
  BY DEF For
<1> QED
  BY <1>1, <1>2, FS_Subset, FS_CardinalityType

\* One more pair is one more for the chef whose it is.
LEMMA OneMore ==
  ASSUME NEW k \in Nat, NEW c \in Chefs
  PROVE  Cardinality(For(k + 1, c)) =
           Cardinality(For(k, c)) + (IF IsFor(Input[k + 1], c) THEN 1 ELSE 0)
<1>1. CASE IsFor(Input[k + 1], c)
  <2>1. For(k + 1, c) = For(k, c) \cup {k + 1}
    BY <1>1 DEF For
  <2>2. k + 1 \notin For(k, c)
    BY DEF For
  <2> QED
    BY <1>1, <2>1, <2>2, ForIsFinite, FS_AddElement
<1>2. CASE ~IsFor(Input[k + 1], c)
  <2>1. For(k + 1, c) = For(k, c)
    BY <1>2 DEF For
  <2> QED
    BY <1>2, <2>1, ForIsFinite
<1> QED
  BY <1>1, <1>2

\* What has been brought for a chef changes only when a pair is delivered.
LEMMA DeliveredNat ==
  ASSUME TypeOK, NEW c \in Chefs
  PROVE  DeliveredTo(c) \in Nat
<1>1. DeliveredTo(c) = Cardinality(For(pos, c))
  BY DEF DeliveredTo, For
<1> QED
  BY <1>1, ForIsFinite DEF TypeOK

LEMMA DeliveredNext ==
  ASSUME TypeOK, NEW c \in Chefs, pos' = pos + 1
  PROVE  DeliveredTo(c)' =
           DeliveredTo(c) + (IF IsFor(Input[pos + 1], c) THEN 1 ELSE 0)
<1>1. DeliveredTo(c) = Cardinality(For(pos, c))
  BY DEF DeliveredTo, For
<1>2. DeliveredTo(c)' = Cardinality(For(pos', c))
  BY DEF DeliveredTo, For
<1>3. pos \in Nat
  BY DEF TypeOK
<1>4. Cardinality(For(pos + 1, c)) =
        Cardinality(For(pos, c)) + (IF IsFor(Input[pos + 1], c) THEN 1 ELSE 0)
  BY <1>3, OneMore
<1> QED
  BY <1>1, <1>2, <1>4

LEMMA DeliveredSame ==
  ASSUME NEW c \in Chefs, pos' = pos
  PROVE  DeliveredTo(c)' = DeliveredTo(c)
  BY DEF DeliveredTo

-----------------------------------------------------------------------------
\* The strengthened invariant holds at the start.
LEMMA Initially == Init => IInv
<1> SUFFICES ASSUME Init PROVE IInv
  OBVIOUS
<1>1. TypeOK
  <2>1. /\ pc \in [Procs -> ChefLabels \cup SellerLabels]
        /\ pc[Wholesaler] \in SellerLabels
        /\ \A c \in Chefs : pc[c] \in ChefLabels
    BY DEF Init
  <2>2. addr \in Places \X Places /\ tem1 \in [Chefs -> Places]
    BY DEF Init
  <2>3. /\ sp \in Nat /\ pos \in 0 .. Len(Input)
        /\ sigintcaught \in SUBSET Procs /\ interrupted = FALSE
        /\ totalDesNum \in [Chefs -> Nat] /\ exitStatus \in [Chefs -> Nat]
        /\ reaped \in SUBSET Chefs /\ allDeserts \in Nat
    BY DEF Init
  <2> QED
    BY <2>1, <2>2, <2>3 DEF TypeOK
<1>2. OneInside /\ Seen /\ Announced
  BY DEF Init, OneInside, Seen, SeenBy, Announced
<1>3. \A c \in Chefs : DeliveredTo(c) = 0
  <2> TAKE c \in Chefs
  <2>1. For(0, c) = {}
    BY DEF For
  <2> QED
    BY <2>1, FS_EmptySet DEF Init, DeliveredTo, For
<1>4. NoneLost
  <2>1. \A c \in Chefs : ~IsFor(addr, c)
    BY ForNobody DEF Init
  <2>2. \A c \in Chefs : pc[c] = "loop" /\ totalDesNum[c] = 0
    BY DEF Init
  <2> QED
    BY <1>3, <2>1, <2>2 DEF NoneLost, Taken, OnTable
<1>5. PairsShared
  BY <1>3 DEF Init, PairsShared, Sum6, Share, delivered
<1>6. Collected
  BY DEF Init, Collected, Sum6, Share
<1> QED
  BY <1>1, <1>2, <1>4, <1>5, <1>6 DEF IInv

-----------------------------------------------------------------------------
\* A pair of the input file is a pair of places on the table.
LEMMA InputPair ==
  ASSUME TypeOK, pos < Len(Input)
  PROVE  /\ Input[pos + 1] \in Places \X Places
         /\ Input[pos + 1][1] \in Ingredients
         /\ Input[pos + 1][2] \in Ingredients
         /\ \E c \in Chefs : IsFor(Input[pos + 1], c)
<1>1. pos + 1 \in 1 .. Len(Input)
  BY DEF TypeOK
<1>2. Input[pos + 1] \in Pairs
  BY <1>1
<1> QED
  BY <1>1, <1>2 DEF Pairs

\* No step leaves the types.
LEMMA TypeStep ==
  ASSUME TypeOK, [Next]_vars
  PROVE  TypeOK'
<1>1. ASSUME NEW c \in Chefs, TestFlag(c) PROVE TypeOK'
  <2> USE DEF TypeOK, Goto, table, signals
  <2>1. exitStatus' \in [Chefs -> Nat]
    BY <1>1 DEF TestFlag
  <2>2. pc' \in [Procs -> ChefLabels \cup SellerLabels]
    BY <1>1 DEF TestFlag
  <2>3. pc'[Wholesaler] \in SellerLabels
    BY <1>1 DEF TestFlag
  <2>4. \A d \in Chefs : pc'[d] \in ChefLabels
    BY <1>1 DEF TestFlag
  <2> QED
    BY <1>1, <2>1, <2>2, <2>3, <2>4 DEF TestFlag
<1>2. ASSUME NEW p \in Procs, SemWait(p) PROVE TypeOK'
  BY <1>2 DEF TypeOK, Goto, table, signals, counts, SemWait
<1>3. ASSUME NEW p \in Procs, SemPost(p) PROVE TypeOK'
  <2> USE DEF TypeOK, Goto, table, signals
  <2>1. exitStatus' \in [Chefs -> Nat]
    <3>1. pc[p] = "leave" => p \in Chefs
      OBVIOUS
    <3> QED
      BY <1>3, <3>1 DEF SemPost
  <2>2. pc' \in [Procs -> ChefLabels \cup SellerLabels]
    BY <1>3 DEF SemPost
  <2>3. pc'[Wholesaler] \in SellerLabels
    BY <1>3 DEF SemPost
  <2>4. \A c \in Chefs : pc'[c] \in ChefLabels
    BY <1>3 DEF SemPost
  <2>5. sp' \in Nat
    BY <1>3 DEF SemPost
  <2>6. UNCHANGED <<addr, tem1, pos, sigintcaught, interrupted, totalDesNum,
                    reaped, allDeserts>>
    BY <1>3 DEF SemPost
  <2> QED
    BY <2>1, <2>2, <2>3, <2>4, <2>5, <2>6
<1>4. ASSUME NEW c \in Chefs, TakeFirst(c) PROVE TypeOK'
  BY <1>4 DEF TypeOK, Goto, table, signals, counts, TakeFirst
<1>5. ASSUME NEW c \in Chefs, TakeSecond(c) PROVE TypeOK'
  <2> USE DEF TypeOK, Goto, TakeSecond
  <2>1. totalDesNum' \in [Chefs -> Nat] /\ tem1' \in [Chefs -> Places]
    BY <1>5 DEF Places
  <2>2. addr' \in Places \X Places
    BY <1>5 DEF Places
  <2>3. /\ pc' \in [Procs -> ChefLabels \cup SellerLabels]
        /\ pc'[Wholesaler] \in SellerLabels
        /\ \A d \in Chefs : pc'[d] \in ChefLabels
    BY <1>5
  <2>4. UNCHANGED <<sp, pos, sigintcaught, interrupted, exitStatus, reaped, allDeserts>>
    BY <1>5 DEF signals
  <2> QED
    BY <2>1, <2>2, <2>3, <2>4 DEF Places
<1>6. ASSUME NEW c \in Chefs, CompareByte(c) PROVE TypeOK'
  <2>1. PICK l \in ChefLabels : pc' = [pc EXCEPT ![c] = l]
    BY <1>6 DEF CompareByte, Goto
  <2>2. UNCHANGED <<addr, tem1, sp, pos, sigintcaught, interrupted,
                    totalDesNum, exitStatus, reaped, allDeserts>>
    BY <1>6 DEF CompareByte, table, signals, counts
  <2> QED
    BY <2>1, <2>2 DEF TypeOK
<1>7. ASSUME LookAtTable PROVE TypeOK'
  BY <1>7 DEF TypeOK, Goto, table, signals, counts, LookAtTable
<1>13. ASSUME NEW c \in Chefs, ReadSecond(c) PROVE TypeOK'
  BY <1>13 DEF TypeOK, Goto, table, signals, counts, ReadSecond
<1>8. ASSUME Deliver PROVE TypeOK'
  <2>1. pos' \in 0 .. Len(Input)
    BY <1>8 DEF TypeOK, Deliver
  <2>2. addr' \in Places \X Places
    BY <1>8, InputPair DEF Deliver
  <2> QED
    BY <1>8, <2>1, <2>2 DEF TypeOK, Goto, signals, counts, Deliver
<1>9. ASSUME EndOfInput PROVE TypeOK'
  BY <1>9 DEF TypeOK, Goto, table, signals, counts, EndOfInput
<1>10. ASSUME Collect PROVE TypeOK'
  <2> USE DEF TypeOK, Goto, table, signals
  <2>1. CASE reaped = Chefs
    BY <1>10, <2>1 DEF Collect
  <2>2. CASE reaped # Chefs
    <3>1. PICK c \in Chefs : /\ reaped' = reaped \cup {c}
                             /\ allDeserts' = allDeserts + exitStatus[c]
                             /\ UNCHANGED pc
      BY <1>10, <2>2 DEF Collect
    <3>2. allDeserts' \in Nat /\ reaped' \in SUBSET Chefs
      BY <3>1
    <3> QED
      BY <1>10, <3>1, <3>2 DEF Collect
  <2> QED
    BY <2>1, <2>2
<1>11. ASSUME NEW p \in Procs, CatchSigint(p) PROVE TypeOK'
  <2> USE DEF TypeOK, Goto, table, signals, counts
  <2>1. pc' \in [Procs -> ChefLabels \cup SellerLabels]
    BY <1>11 DEF CatchSigint
  <2>2. pc'[Wholesaler] \in SellerLabels
    BY <1>11 DEF CatchSigint
  <2>3. \A c \in Chefs : pc'[c] \in ChefLabels
    BY <1>11 DEF CatchSigint
  <2> QED
    BY <1>11, <2>1, <2>2, <2>3 DEF CatchSigint
<1>12. CASE UNCHANGED vars
  BY <1>12 DEF TypeOK, Goto, table, signals, counts, vars
<1> QED
  BY <1>1, <1>2, <1>3, <1>4, <1>5, <1>6, <1>7, <1>8, <1>9, <1>10, <1>11, <1>12, <1>13
     DEF Next, Seller, Chef

\* A process enters only by sem_wait until one is interrupted.
LEMMA InsideStep ==
  ASSUME TypeOK, OneInside, [Next]_vars
  PROVE  OneInside'
<1>1. ASSUME NEW c \in Chefs, TestFlag(c) PROVE OneInside'
  <2>1. /\ pc'[c] \notin Inside /\ \A q \in Procs \ {c} : pc'[q] = pc[q]
        /\ sp' = sp /\ interrupted' = interrupted
    BY <1>1 DEF TestFlag, Goto, TypeOK, signals
  <2> QED
    BY <2>1 DEF OneInside
<1>2. ASSUME NEW p \in Procs, SemWait(p) PROVE OneInside'
  BY <1>2 DEF TypeOK, OneInside, Goto, table, signals, counts, SemWait
<1>3. ASSUME NEW p \in Procs, SemPost(p) PROVE OneInside'
  <2> SUFFICES ASSUME ~interrupted PROVE OneInside'
    BY <1>3 DEF SemPost, OneInside, signals
  <2>1. pc[p] \in Inside /\ pc'[p] \notin Inside
    BY <1>3 DEF SemPost, Goto, TypeOK
  <2>2. \A q \in Procs \ {p} : pc'[q] = pc[q] /\ pc[q] \notin Inside
    BY <1>3, <2>1 DEF SemPost, Goto, TypeOK, OneInside
  <2>3. sp = 0 /\ sp' = 1
    BY <1>3, <2>1 DEF SemPost, OneInside
  <2> QED
    BY <2>1, <2>2, <2>3 DEF OneInside
<1>4. ASSUME NEW c \in Chefs, TakeFirst(c) PROVE OneInside'
  BY <1>4 DEF TypeOK, OneInside, Goto, table, signals, counts, TakeFirst
<1>5. ASSUME NEW c \in Chefs, TakeSecond(c) PROVE OneInside'
  BY <1>5 DEF TypeOK, OneInside, Goto, table, signals, counts, TakeSecond
<1>6. ASSUME NEW c \in Chefs, CompareByte(c) PROVE OneInside'
  BY <1>6 DEF TypeOK, OneInside, Goto, table, signals, counts, CompareByte
<1>7. ASSUME LookAtTable PROVE OneInside'
  BY <1>7 DEF TypeOK, OneInside, Goto, table, signals, counts, LookAtTable
<1>13. ASSUME NEW c \in Chefs, ReadSecond(c) PROVE OneInside'
  BY <1>13 DEF TypeOK, OneInside, Goto, table, signals, counts, ReadSecond
<1>8. ASSUME Deliver PROVE OneInside'
  BY <1>8 DEF TypeOK, OneInside, Goto, table, signals, counts, Deliver
<1>9. ASSUME EndOfInput PROVE OneInside'
  BY <1>9 DEF TypeOK, OneInside, Goto, table, signals, counts, EndOfInput
<1>10. ASSUME Collect PROVE OneInside'
  BY <1>10 DEF TypeOK, OneInside, Goto, table, signals, counts, Collect
<1>11. ASSUME NEW p \in Procs, CatchSigint(p) PROVE OneInside'
  <2>2. ASSUME ~interrupted'
        PROVE  /\ ~interrupted /\ sp' = sp
               /\ pc'[p] = pc[p] \/ pc'[p] \notin Inside
               /\ \A q \in Procs \ {p} : pc'[q] = pc[q]
    <3>1. ~interrupted /\ sp' = sp /\ ~(pc[p] = "wait" /\ pc'[p] # "wait")
      BY <1>11, <2>2 DEF CatchSigint, TypeOK
    <3>2. pc' = pc \/ (pc[p] = "collect" /\ pc' = [pc EXCEPT ![p] = "gone"])
      BY <1>11, <3>1 DEF CatchSigint, Goto, TypeOK
    <3> QED
      BY <3>1, <3>2 DEF TypeOK
  <2> QED
    BY <2>2 DEF OneInside
<1>12. CASE UNCHANGED vars
  BY <1>12 DEF TypeOK, OneInside, Goto, table, signals, counts, vars
<1> QED
  BY <1>1, <1>2, <1>3, <1>4, <1>5, <1>6, <1>7, <1>8, <1>9, <1>10, <1>11, <1>12, <1>13
     DEF Next, Seller, Chef

-----------------------------------------------------------------------------
\* A chef's account: what it has made, is making or finds on the table.
Made(c) == totalDesNum[c] + Taken(c) + OnTable(c)

\* Accounts are numbers.
LEMMA MadeNat ==
  ASSUME TypeOK, NEW c \in Chefs
  PROVE  /\ Taken(c) \in {0, 1} /\ OnTable(c) \in {0, 1}
         /\ totalDesNum[c] \in Nat /\ Made(c) \in Nat
<1>1. Taken(c) \in {0, 1} /\ OnTable(c) \in {0, 1}
  BY DEF Taken, OnTable
<1>2. totalDesNum[c] \in Nat
  BY DEF TypeOK
<1> QED
  BY <1>1, <1>2 DEF Made

\* Steps that touch neither the table nor a chef's count change no account.
LEMMA QuietStep ==
  ASSUME UNCHANGED <<addr, pos, totalDesNum>>, NEW c \in Chefs,
         pc'[c] = "taken" <=> pc[c] = "taken"
  PROVE  /\ DeliveredTo(c)' = DeliveredTo(c)
         /\ Taken(c)' = Taken(c) /\ OnTable(c)' = OnTable(c)
         /\ Made(c)' = Made(c)
<1>1. Taken(c)' = Taken(c)
  BY DEF Taken
<1>2. OnTable(c)' = OnTable(c)
  BY DEF OnTable
<1> QED
  BY <1>1, <1>2, DeliveredSame DEF Made

\* Which steps are quiet.
LEMMA QuietActions ==
  ASSUME TypeOK, NEW d \in Chefs,
         \/ \E c \in Chefs : TestFlag(c) \/ CompareByte(c) \/ ReadSecond(c)
         \/ \E p \in Procs : SemWait(p) \/ SemPost(p) \/ CatchSigint(p)
         \/ LookAtTable \/ Collect \/ UNCHANGED vars
  PROVE  /\ UNCHANGED <<addr, pos, totalDesNum>>
         /\ pc'[d] = "taken" <=> pc[d] = "taken"
<1> USE DEF TypeOK, Goto, table, signals, counts
<1>1. ASSUME NEW c \in Chefs, TestFlag(c)
        PROVE  /\ UNCHANGED <<addr, pos, totalDesNum>>
               /\ pc'[d] = "taken" <=> pc[d] = "taken"
  BY <1>1 DEF TestFlag
<1>9. ASSUME NEW c \in Chefs, ReadSecond(c)
        PROVE  /\ UNCHANGED <<addr, pos, totalDesNum>>
               /\ pc'[d] = "taken" <=> pc[d] = "taken"
  BY <1>9 DEF ReadSecond
<1>2. ASSUME NEW c \in Chefs, CompareByte(c)
        PROVE  /\ UNCHANGED <<addr, pos, totalDesNum>>
               /\ pc'[d] = "taken" <=> pc[d] = "taken"
  BY <1>2 DEF CompareByte
<1>3. ASSUME NEW p \in Procs, SemWait(p)
        PROVE  /\ UNCHANGED <<addr, pos, totalDesNum>>
               /\ pc'[d] = "taken" <=> pc[d] = "taken"
  BY <1>3 DEF SemWait
<1>4. ASSUME NEW p \in Procs, SemPost(p)
        PROVE  /\ UNCHANGED <<addr, pos, totalDesNum>>
               /\ pc'[d] = "taken" <=> pc[d] = "taken"
  BY <1>4 DEF SemPost
<1>5. ASSUME NEW p \in Procs, CatchSigint(p)
        PROVE  /\ UNCHANGED <<addr, pos, totalDesNum>>
               /\ pc'[d] = "taken" <=> pc[d] = "taken"
  BY <1>5 DEF CatchSigint
<1>6. ASSUME LookAtTable
        PROVE  /\ UNCHANGED <<addr, pos, totalDesNum>>
               /\ pc'[d] = "taken" <=> pc[d] = "taken"
  BY <1>6 DEF LookAtTable
<1>7. ASSUME Collect
        PROVE  /\ UNCHANGED <<addr, pos, totalDesNum>>
               /\ pc'[d] = "taken" <=> pc[d] = "taken"
  BY <1>7 DEF Collect
<1>8. CASE UNCHANGED vars
  BY <1>8 DEF vars
<1> QED
  BY <1>1, <1>2, <1>3, <1>4, <1>5, <1>6, <1>7, <1>8, <1>9

\* The chef that takes the first ingredient turns its pair on the table into
\* one it is making, and the table is for nobody.
LEMMA TakeFirstStep ==
  ASSUME TypeOK, NEW c \in Chefs, TakeFirst(c), IsFor(addr, c), NEW d \in Chefs
  PROVE  /\ DeliveredTo(d)' = DeliveredTo(d) /\ Made(d)' = Made(d)
         /\ addr'[1] = "t"
<1>1. /\ addr'[1] = "t" /\ pos' = pos /\ totalDesNum' = totalDesNum
      /\ pc[c] = "taking" /\ IsFor(addr, c) /\ pc'[c] = "taken"
      /\ \A e \in Chefs \ {c} : pc'[e] = pc[e]
  BY DEF TakeFirst, Goto, counts, TypeOK
<1>2. OnTable(d)' = 0
  BY <1>1, ForNobody DEF OnTable
<1>3. CASE d = c
  <2>1. Taken(d) = 0 /\ OnTable(d) = 1 /\ Taken(d)' = 1
    BY <1>1, <1>3 DEF Taken, OnTable, TypeOK
  <2>2. Made(d) = totalDesNum[d] + 0 + 1 /\ Made(d)' = totalDesNum[d] + 1 + 0
    BY <1>1, <1>2, <2>1 DEF Made
  <2> QED
    BY <1>1, <2>2, DeliveredSame DEF TypeOK
<1>4. CASE d # c
  <2>1. ~IsFor(addr, d)
    BY <1>1, <1>4, ForOneChef
  <2> QED
    BY <1>1, <1>2, <1>4, <2>1, DeliveredSame, MadeNat DEF Made, Taken, OnTable
<1> QED
  BY <1>1, <1>3, <1>4

\* A dessert that is finished counts as before; what lay on the table is lost.
LEMMA TakeSecondStep ==
  ASSUME TypeOK, NEW c \in Chefs, TakeSecond(c), NEW d \in Chefs
  PROVE  /\ DeliveredTo(d)' = DeliveredTo(d)
         /\ Made(d)' = Made(d) - OnTable(d)
         /\ addr'[1] = "t"
<1>1. /\ addr'[1] = "t" /\ pos' = pos
      /\ totalDesNum' = [totalDesNum EXCEPT ![c] = @ + 1]
      /\ pc[c] = "taken" /\ pc'[c] = "post"
      /\ \A e \in Chefs \ {c} : pc'[e] = pc[e]
  BY DEF TakeSecond, Goto, counts, TypeOK
<1>2. OnTable(d)' = 0
  BY <1>1, ForNobody DEF OnTable
<1>3. totalDesNum'[d] = IF d = c THEN totalDesNum[d] + 1 ELSE totalDesNum[d]
  BY <1>1 DEF TypeOK
<1>4. Taken(d)' = IF d = c THEN 0 ELSE Taken(d)
  BY <1>1 DEF Taken
<1>5. d = c => Taken(d) = 1
  BY <1>1 DEF Taken
<1>6. Made(d)' = totalDesNum'[d] + Taken(d)' + OnTable(d)'
  BY DEF Made
<1> QED
  BY <1>1, <1>2, <1>3, <1>4, <1>5, <1>6, DeliveredSame, MadeNat DEF Made

\* A delivery puts on the table what it counts as delivered, on a table that
\* was for nobody.
Free == addr[1] \in {"i", "t"} \/ addr[2] \in {"i", "t"}

LEMMA DeliverStep ==
  ASSUME TypeOK, Deliver, Free, NEW d \in Chefs
  PROVE  /\ DeliveredTo(d)' = DeliveredTo(d) + OnTable(d)'
         /\ OnTable(d) = 0
         /\ Made(d)' = Made(d) + OnTable(d)'
         /\ Taken(d)' = Taken(d)
<1>1. /\ pos' = pos + 1 /\ addr' = Input[pos + 1] /\ Free
      /\ totalDesNum' = totalDesNum
      /\ \A e \in Chefs : pc'[e] = pc[e]
  BY DEF Deliver, Goto, counts, TypeOK
<1>2. DeliveredTo(d)' =
        DeliveredTo(d) + (IF IsFor(Input[pos + 1], d) THEN 1 ELSE 0)
  BY <1>1, DeliveredNext
<1>3. OnTable(d)' = IF IsFor(Input[pos + 1], d) THEN 1 ELSE 0
  BY <1>1 DEF OnTable
<1>4. OnTable(d) = 0
  BY <1>1, ForNobody DEF OnTable, Free
<1>5. Taken(d)' = Taken(d)
  BY <1>1 DEF Taken
<1>6. Made(d)' = totalDesNum[d] + Taken(d) + OnTable(d)'
  BY <1>1, <1>5 DEF Made
<1> QED
  BY <1>2, <1>3, <1>4, <1>5, <1>6, DeliveredNat, MadeNat DEF Made

\* Nor is anything lost when the wholesaler announces the end.
LEMMA EndStep ==
  ASSUME TypeOK, EndOfInput, Free, NEW d \in Chefs
  PROVE  /\ DeliveredTo(d)' = DeliveredTo(d) /\ Made(d)' = Made(d)
         /\ Taken(d)' = Taken(d)
<1>1. /\ pos' = pos /\ addr' = <<"n", "n">> /\ Free
      /\ totalDesNum' = totalDesNum
      /\ \A e \in Chefs : pc'[e] = pc[e]
  BY DEF EndOfInput, Goto, counts, TypeOK
<1>2. OnTable(d)' = 0 /\ OnTable(d) = 0
  BY <1>1, ForNobody DEF OnTable, Free
<1>3. Taken(d)' = Taken(d)
  BY <1>1 DEF Taken
<1> QED
  BY <1>1, <1>2, <1>3, DeliveredSame DEF Made

\* The handler has run for good, and so has an interrupted sem_wait.
LEMMA SignalsStay ==
  ASSUME [Next]_vars
  PROVE  /\ sigintcaught' = {} => sigintcaught = {}
         /\ interrupted \in BOOLEAN /\ ~interrupted' => ~interrupted
  BY DEF Next, Seller, Chef, TestFlag, SemWait, SemPost, TakeFirst, TakeSecond,
         CompareByte, ReadSecond, LookAtTable, Deliver, EndOfInput, Collect,
         CatchSigint, vars, signals

\* The steps that write the table.
Writes == \/ \E c \in Chefs : TakeFirst(c) \/ TakeSecond(c)
          \/ Deliver \/ EndOfInput

\* A process outside its sem_wait and sem_post has read nothing.
LEMMA OutsideSawNothing ==
  ASSUME NEW c \in Chefs, pc[c] \notin Inside
  PROVE  SeenBy(c)
  BY DEF SeenBy

\* A step of another process leaves what a chef has seen as it is.
LEMMA SeenByOthers ==
  ASSUME NEW c \in Chefs, SeenBy(c), pc'[c] = pc[c], addr' = addr
  PROVE  SeenBy(c)'
  BY DEF SeenBy, IsFor

\* What a chef has read stays on the table until it has sent its post.
LEMMA SeenByStep ==
  ASSUME TypeOK, OneInside, Seen, [Next]_vars, ~interrupted,
         NEW d \in Chefs
  PROVE  SeenBy(d)'
<1> USE DEF TypeOK, Goto
<1>0. SeenBy(d)
  BY DEF Seen
<1>1. ASSUME NEW c \in Chefs, CompareByte(c) PROVE SeenBy(d)'
  <2>1. addr' = addr /\ \A e \in Chefs \ {c} : pc'[e] = pc[e]
    BY <1>1 DEF CompareByte, table
  <2>2. CASE d # c
    BY <1>0, <2>1, <2>2, SeenByOthers
  <2>3. CASE d = c
    <3>1. pc'[c] = "second" => addr[1] = recipe[c][1]
      BY <1>1 DEF CompareByte
    <3>2. pc'[c] = "swapped2" => addr[1] = recipe[c][2]
      BY <1>1 DEF CompareByte
    <3>3. pc'[c] \notin {"taking", "taken"}
      BY <1>1 DEF CompareByte
    <3>4. ASSUME pc'[c] = "take" PROVE IsFor(addr, c)
      <4>1. \/ pc[c] = "second" /\ addr[2] = recipe[c][2]
            \/ pc[c] = "swapped2" /\ addr[2] = recipe[c][1]
        BY <1>1, <3>4 DEF CompareByte
      <4> QED
        BY <1>0, <2>3, <4>1, BothBytes DEF SeenBy
    <3> QED
      BY <2>1, <2>3, <3>1, <3>2, <3>3, <3>4 DEF SeenBy, IsFor
  <2> QED
    BY <2>2, <2>3
<1>2. ASSUME NEW c \in Chefs, ReadSecond(c) PROVE SeenBy(d)'
  <2>1. /\ addr' = addr /\ \A e \in Chefs \ {c} : pc'[e] = pc[e]
        /\ pc[c] = "take" /\ pc'[c] = "taking"
    BY <1>2 DEF ReadSecond
  <2> QED
    BY <1>0, <2>1, SeenByOthers DEF SeenBy, IsFor
<1>3. CASE Writes
  <2>1. PICK p \in Procs : /\ pc[p] \in Inside
                           /\ \A e \in Procs \ {p} : pc'[e] = pc[e]
                           /\ p \in Chefs => /\ pc'[p] \in {"taken", "post"}
                                             /\ addr'[1] = "t"
    <3>1. ASSUME NEW c \in Chefs, TakeFirst(c)
          PROVE  /\ pc[c] \in Inside
                 /\ \A e \in Procs \ {c} : pc'[e] = pc[e]
                 /\ pc'[c] \in {"taken", "post"} /\ addr'[1] = "t"
      BY <3>1 DEF TakeFirst
    <3>2. ASSUME NEW c \in Chefs, TakeSecond(c)
          PROVE  /\ pc[c] \in Inside
                 /\ \A e \in Procs \ {c} : pc'[e] = pc[e]
                 /\ pc'[c] \in {"taken", "post"} /\ addr'[1] = "t"
      BY <3>2 DEF TakeSecond
    <3>3. ASSUME Deliver \/ EndOfInput
          PROVE  /\ pc[Wholesaler] \in Inside
                 /\ \A e \in Procs \ {Wholesaler} : pc'[e] = pc[e]
      BY <3>3 DEF Deliver, EndOfInput
    <3> QED
      BY <1>3, <3>1, <3>2, <3>3 DEF Writes
  <2>2. CASE d = p
    BY <2>1, <2>2 DEF SeenBy
  <2>3. CASE d # p
    <3>1. pc[d] \notin Inside
      BY <2>1, <2>3 DEF OneInside
    <3>2. pc'[d] \notin Inside
      BY <2>1, <2>3, <3>1
    <3> QED
      BY <3>2 DEF SeenBy
  <2> QED
    BY <2>2, <2>3
<1>4. CASE \/ \E c \in Chefs : TestFlag(c)
           \/ \E p \in Procs : SemWait(p) \/ SemPost(p) \/ CatchSigint(p)
           \/ LookAtTable \/ Collect \/ UNCHANGED vars
  <2>1. addr' = addr
    BY <1>4 DEF TestFlag, SemWait, SemPost, CatchSigint, LookAtTable, Collect,
                vars, table
  <2>2. pc'[d] = pc[d] \/ pc'[d] \in {"initial", "wait", "loop", "exited"}
    <3>1. ASSUME NEW p \in Procs, SemPost(p)
          PROVE  pc'[d] = pc[d] \/ pc'[d] \in {"loop", "exited"}
      <4>1. CASE p # d
        <5>1. PICK l : pc' = [pc EXCEPT ![p] = l]
          BY <3>1 DEF SemPost
        <5> QED
          BY <4>1, <5>1
      <4>2. CASE p = d
        <5>1. d # Wholesaler
          OBVIOUS
        <5>2. pc[d] \notin {"put", "eof"}
          BY DEF TypeOK
        <5> QED
          BY <3>1, <4>2, <5>1, <5>2 DEF SemPost
      <4> QED
        BY <4>1, <4>2
    <3>2. ASSUME NEW p \in Procs, SemWait(p) \/ CatchSigint(p)
          PROVE  pc'[d] = pc[d] \/ pc'[d] = "initial"
      <4>1. CASE p # d
        <5>1. pc' = pc \/ \E l \in {"initial", "gone"} : pc' = [pc EXCEPT ![p] = l]
          BY <3>2 DEF SemWait, CatchSigint
        <5> QED
          BY <4>1, <5>1
      <4>2. CASE p = d
        <5>1. pc[d] # "collect"
          BY DEF TypeOK
        <5> QED
          BY <3>2, <4>2, <5>1 DEF SemWait, CatchSigint
      <4> QED
        BY <4>1, <4>2
    <3>3. ASSUME NEW c \in Chefs, TestFlag(c)
          PROVE  pc'[d] = pc[d] \/ pc'[d] \in {"wait", "exited"}
      BY <3>3 DEF TestFlag
    <3>4. ASSUME LookAtTable \/ Collect \/ UNCHANGED vars
          PROVE  pc'[d] = pc[d]
      BY <3>4 DEF LookAtTable, Collect, vars
    <3> QED
      BY <1>4, <3>1, <3>2, <3>3, <3>4
  <2> QED
    BY <1>0, <2>1, <2>2, SeenByOthers DEF SeenBy
<1> QED
  BY <1>1, <1>2, <1>3, <1>4 DEF Next, Seller, Chef, Writes

\* The wholesaler that goes on to read its file has found the table free.
LEMMA FreeStep ==
  ASSUME TypeOK, OneInside, Seen, [Next]_vars, ~interrupted,
         pc'[Wholesaler] = "read"
  PROVE  Free'
<1> USE DEF TypeOK, Goto
<1>1. CASE LookAtTable
  BY <1>1 DEF LookAtTable, table, Free
<1>2. CASE ~LookAtTable
  <2>1. pc[Wholesaler] = "read"
    <3>1. ASSUME NEW c \in Chefs, Chef(c) PROVE pc'[Wholesaler] = pc[Wholesaler]
      BY <3>1 DEF Chef, TestFlag, SemWait, SemPost, TakeFirst, TakeSecond,
           CompareByte, ReadSecond
    <3>2. ~Seller
      BY <1>2 DEF Seller, SemWait, SemPost, Deliver, EndOfInput, Collect
    <3>3. ASSUME NEW p \in Procs, CatchSigint(p)
          PROVE  pc[Wholesaler] = "read"
      BY <3>3 DEF CatchSigint
    <3> QED
      BY <3>1, <3>2, <3>3 DEF Next, vars
  <2>2. \A c \in Chefs : pc[c] \notin Inside
    BY <2>1 DEF OneInside
  <2>3. addr' = addr
    <3>1. ASSUME NEW c \in Chefs, Chef(c) PROVE addr' = addr
      BY <2>2, <3>1 DEF Chef, TestFlag, SemWait, SemPost, TakeFirst,
           TakeSecond, CompareByte, ReadSecond, table
    <3>2. ~Deliver /\ ~EndOfInput
      BY DEF Deliver, EndOfInput
    <3> QED
      BY <3>1, <3>2 DEF Next, Seller, SemWait, SemPost, LookAtTable, Collect,
           CatchSigint, vars, table
  <2> QED
    BY <2>1, <2>3 DEF Seen, Free
<1> QED
  BY <1>1, <1>2

LEMMA SeenStep ==
  ASSUME TypeOK, OneInside, Seen, [Next]_vars
  PROVE  Seen'
<1> SUFFICES ASSUME ~interrupted, ~interrupted'
             PROVE  /\ \A c \in Chefs : SeenBy(c)'
                    /\ pc'[Wholesaler] = "read" => Free'
  BY SignalsStay DEF Seen, Free, TypeOK
<1> QED
  BY SeenByStep, FreeStep

\* Nothing that was brought is lost or used twice until a sem_wait is
\* interrupted.
LEMMA NoneLostStep ==
  ASSUME TypeOK, Seen, NoneLost, [Next]_vars
  PROVE  NoneLost'
<1> SUFFICES ASSUME ~interrupted, ~interrupted', NEW d \in Chefs
             PROVE  DeliveredTo(d)' = Made(d)'
  BY SignalsStay DEF NoneLost, Made, TypeOK
<1>2. DeliveredTo(d) = Made(d) /\ Made(d) \in Nat
  BY MadeNat DEF NoneLost, Made
<1>3. ASSUME NEW c \in Chefs, TakeFirst(c)
      PROVE  DeliveredTo(d)' = Made(d)'
  <2>1. IsFor(addr, c)
    BY <1>3 DEF Seen, SeenBy, TakeFirst
  <2> QED
    BY <1>2, <1>3, <2>1, TakeFirstStep
<1>4. ASSUME NEW c \in Chefs, TakeSecond(c)
      PROVE  DeliveredTo(d)' = Made(d)'
  <2>1. addr[1] = "t"
    BY <1>4 DEF Seen, SeenBy, TakeSecond
  <2>2. OnTable(d) = 0
    BY <2>1, ForNobody DEF OnTable
  <2> QED
    BY <1>2, <1>4, <2>2, TakeSecondStep
<1>5. CASE Deliver \/ EndOfInput
  <2>1. Free
    BY <1>5 DEF Deliver, EndOfInput, Seen, Free
  <2>2. OnTable(d)' \in Nat
    BY DEF OnTable
  <2> QED
    BY <1>2, <1>5, <2>1, <2>2, DeliverStep, EndStep
<1>6. CASE \/ \E c \in Chefs : TestFlag(c) \/ CompareByte(c) \/ ReadSecond(c)
           \/ \E p \in Procs : SemWait(p) \/ SemPost(p) \/ CatchSigint(p)
           \/ LookAtTable \/ Collect \/ UNCHANGED vars
  BY <1>2, <1>6, QuietActions, QuietStep
<1> QED
  BY <1>3, <1>4, <1>5, <1>6 DEF Next, Seller, Chef

\* After the announcement the wholesaler neither reads nor delivers, and no
\* chef finds its pair.
LEMMA AnnouncedStep ==
  ASSUME TypeOK, Seen, Announced, [Next]_vars
  PROVE  Announced'
<1> DEFINE over == pc[Wholesaler] \in {"eof", "collect", "done"}
<1>1. CASE over
  <2>1. pos' = pos
    BY <1>1 DEF Next, Seller, Chef, TestFlag, SemWait, SemPost, TakeFirst,
         TakeSecond, CompareByte, ReadSecond, LookAtTable, Deliver, EndOfInput, Collect,
         CatchSigint, vars, table
  <2>2. ASSUME ~interrupted PROVE addr' = addr
    <3>1. addr = <<"n", "n">>
      BY <1>1, <2>2 DEF Announced
    <3>2. \A c \in Chefs : ~TakeFirst(c)
      BY <2>2, <3>1, ForNobody DEF TakeFirst, Seen, SeenBy
    <3>3. \A c \in Chefs : ~TakeSecond(c)
      BY <2>2, <3>1 DEF Seen, SeenBy, TakeSecond
    <3> QED
      BY <1>1, <3>2, <3>3 DEF Next, Seller, Chef, TestFlag, SemWait, SemPost,
           CompareByte, ReadSecond, LookAtTable, Deliver, EndOfInput, Collect,
           CatchSigint, vars, table
  <2> QED
    BY <1>1, <2>1, <2>2, SignalsStay DEF Announced, TypeOK
<1>2. CASE ~over /\ EndOfInput
  BY <1>2 DEF EndOfInput, Announced
<1>3. CASE ~over /\ ~EndOfInput
  <2>1. ~over'
    <3>1. ASSUME NEW c \in Chefs, Chef(c) PROVE pc'[Wholesaler] = pc[Wholesaler]
      BY <3>1 DEF Chef, TestFlag, SemWait, SemPost, TakeFirst, TakeSecond,
           CompareByte, ReadSecond, Goto, TypeOK
    <3>2. ASSUME Seller PROVE ~over'
      BY <1>3, <3>2 DEF Seller, SemWait, SemPost, LookAtTable, Deliver,
           Collect, Goto, TypeOK
    <3>3. ASSUME NEW p \in Procs, CatchSigint(p) PROVE ~over'
      BY <1>3, <3>3 DEF CatchSigint, Goto, TypeOK
    <3> QED
      BY <1>3, <3>1, <3>2, <3>3 DEF Next, vars
  <2> QED
    BY <2>1 DEF Announced
<1> QED
  BY <1>1, <1>2, <1>3

\* Every delivery is one more for exactly one of the six.
LEMMA PairsSharedStep ==
  ASSUME TypeOK, PairsShared, [Next]_vars
  PROVE  PairsShared'
<1>1. CASE Deliver
  <2>1. PICK d \in Chefs : IsFor(Input[pos + 1], d)
    BY <1>1, InputPair DEF Deliver
  <2>2. \A c \in Chefs :
          DeliveredTo(c)' = DeliveredTo(c) + (IF c = d THEN 1 ELSE 0)
    BY <1>1, <2>1, DeliveredNext, ForOneChef DEF Deliver
  <2>3. \A c \in Chefs :
          /\ delivered[c] \in Nat
          /\ delivered'[c] = delivered[c] + (IF c = d THEN 1 ELSE 0)
    BY <2>2, DeliveredNat DEF delivered
  <2>6. Sum6(delivered', Chefs) = Sum6(delivered, Chefs) + 1
    BY <2>3, SumOneMore
  <2> QED
    BY <1>1, <2>6 DEF PairsShared, Deliver
<1>2. CASE ~Deliver
  <2>1. pos' = pos
    BY <1>2 DEF Next, Seller, Chef, TestFlag, SemWait, SemPost, TakeFirst,
         TakeSecond, CompareByte, ReadSecond, LookAtTable, EndOfInput, Collect,
         CatchSigint, vars, table
  <2>2. delivered' = delivered
    BY <2>1, DeliveredSame DEF delivered
  <2> QED
    BY <2>1, <2>2 DEF PairsShared, Sum6, Share
<1> QED
  BY <1>1, <1>2

-----------------------------------------------------------------------------
Kept(d) == /\ pc'[d] = "exited"
           /\ totalDesNum'[d] = totalDesNum[d]
           /\ exitStatus'[d] = exitStatus[d]

\* A chef that has exited keeps its count and its status.
LEMMA ExitedStays ==
  ASSUME TypeOK, [Next]_vars, NEW d \in Chefs, pc[d] = "exited"
  PROVE  Kept(d)
<1>1. ASSUME NEW c \in Chefs, TestFlag(c) PROVE Kept(d)
  BY <1>1 DEF Kept, TypeOK, Goto, table, signals, counts, TestFlag
<1>2. ASSUME NEW p \in Procs, SemWait(p) PROVE Kept(d)
  BY <1>2 DEF Kept, TypeOK, Goto, table, signals, counts, SemWait
<1>3. ASSUME NEW p \in Procs, SemPost(p) PROVE Kept(d)
  BY <1>3 DEF Kept, TypeOK, Goto, table, signals, counts, SemPost
<1>4. ASSUME NEW c \in Chefs, TakeFirst(c) PROVE Kept(d)
  BY <1>4 DEF Kept, TypeOK, Goto, table, signals, counts, TakeFirst
<1>5. ASSUME NEW c \in Chefs, TakeSecond(c) PROVE Kept(d)
  BY <1>5 DEF Kept, TypeOK, Goto, table, signals, counts, TakeSecond
<1>6. ASSUME NEW c \in Chefs, CompareByte(c) PROVE Kept(d)
  BY <1>6 DEF Kept, TypeOK, Goto, table, signals, counts, CompareByte
<1>7. ASSUME LookAtTable PROVE Kept(d)
  BY <1>7 DEF Kept, TypeOK, Goto, table, signals, counts, LookAtTable
<1>13. ASSUME NEW c \in Chefs, ReadSecond(c) PROVE Kept(d)
  BY <1>13 DEF Kept, TypeOK, Goto, table, signals, counts, ReadSecond
<1>8. ASSUME Deliver PROVE Kept(d)
  BY <1>8 DEF Kept, TypeOK, Goto, table, signals, counts, Deliver
<1>9. ASSUME EndOfInput PROVE Kept(d)
  BY <1>9 DEF Kept, TypeOK, Goto, table, signals, counts, EndOfInput
<1>10. ASSUME Collect PROVE Kept(d)
  BY <1>10 DEF Kept, TypeOK, Goto, table, signals, counts, Collect
<1>11. ASSUME NEW p \in Procs, CatchSigint(p) PROVE Kept(d)
  BY <1>11 DEF Kept, TypeOK, Goto, table, signals, counts, CatchSigint
<1>12. CASE UNCHANGED vars
  BY <1>12 DEF Kept, TypeOK, Goto, table, signals, counts, vars
<1> QED
  BY <1>1, <1>2, <1>3, <1>4, <1>5, <1>6, <1>7, <1>8, <1>9, <1>10, <1>11, <1>12, <1>13
     DEF Next, Seller, Chef

\* It exits with its count, in the eight bits of an exit status.
LEMMA ExitsWithCount ==
  ASSUME TypeOK, [Next]_vars, NEW d \in Chefs, pc[d] # "exited",
         pc'[d] = "exited", sigintcaught = {}
  PROVE  exitStatus'[d] = totalDesNum'[d] % 256
<1> USE DEF TypeOK, Goto, signals, counts
<1>1. ASSUME NEW p \in Procs, SemPost(p)
      PROVE  exitStatus'[d] = totalDesNum'[d] % 256
  <2>1. p = d /\ pc[p] = "leave"
    BY <1>1 DEF SemPost
  <2>2. exitStatus' = [exitStatus EXCEPT ![d] = totalDesNum[d] % 256]
    BY <1>1, <2>1 DEF SemPost
  <2> QED
    BY <1>1, <2>2 DEF SemPost
<1>2. \A c \in Chefs : ~TestFlag(c)
  BY DEF TestFlag
<1>3. \A c \in Chefs :
        ~SemWait(c) /\ ~TakeFirst(c) /\ ~TakeSecond(c)
        /\ ~CompareByte(c) /\ ~ReadSecond(c)
  BY DEF SemWait, TakeFirst, TakeSecond, CompareByte, ReadSecond
<1>4. ~SemWait(Wholesaler) /\ ~LookAtTable /\ ~Deliver /\ ~EndOfInput
  BY DEF SemWait, LookAtTable, Deliver, EndOfInput
<1>5. ~Collect
  BY DEF Collect
<1>6. \A p \in Procs : ~CatchSigint(p)
  BY DEF CatchSigint
<1>7. ~UNCHANGED vars
  BY DEF vars
<1> QED
  BY <1>1, <1>2, <1>3, <1>4, <1>5, <1>6, <1>7 DEF Next, Seller, Chef

\* What the wholesaler collects.
LEMMA CollectedStep ==
  ASSUME TypeOK, Collected, [Next]_vars
  PROVE  Collected'
<1>1. ASSUME NEW d \in Chefs, pc'[d] = "exited", sigintcaught' = {}
      PROVE  exitStatus'[d] = totalDesNum'[d] % 256
  <2>1. sigintcaught = {}
    BY <1>1, SignalsStay
  <2>2. CASE pc[d] = "exited"
    BY <2>1, <2>2, ExitedStays DEF Collected, Kept
  <2>3. CASE pc[d] # "exited"
    BY <1>1, <2>1, <2>3, ExitsWithCount
  <2> QED
    BY <2>2, <2>3
<1>2. \A c \in reaped : Kept(c)
  BY ExitedStays DEF Collected, TypeOK
<1>3. CASE Collect /\ reaped # Chefs
  <2>1. PICK c \in Chefs \ reaped :
          /\ pc[c] = "exited" /\ reaped' = reaped \cup {c}
          /\ allDeserts' = allDeserts + exitStatus[c] /\ UNCHANGED pc
    BY <1>3 DEF Collect
  <2>2. exitStatus' = exitStatus /\ pc[Wholesaler] = "collect"
    BY <1>3 DEF Collect
  <2>3. Sum6(exitStatus, reaped \cup {c}) =
          Sum6(exitStatus, reaped) + exitStatus[c]
    <3>1. reaped \in SUBSET (0 .. 5) /\ c \in (0 .. 5) \ reaped
      BY DEF TypeOK
    <3>2. \A d \in reaped \cup {c} : exitStatus[d] \in Nat
      BY DEF TypeOK
    <3> QED
      BY <3>1, <3>2, SumWithOneMore
  <2>4. allDeserts' = Sum6(exitStatus', reaped')
    BY <2>1, <2>2, <2>3 DEF Collected
  <2>5. \A d \in reaped' : pc'[d] = "exited"
    BY <2>1 DEF Collected
  <2> QED
    BY <1>1, <2>1, <2>2, <2>4, <2>5 DEF Collected
<1>4. CASE ~(Collect /\ reaped # Chefs)
  <2>1. reaped' = reaped /\ allDeserts' = allDeserts
    BY <1>4 DEF Next, Seller, Chef, TestFlag, SemWait, SemPost, TakeFirst,
         TakeSecond, CompareByte, ReadSecond, LookAtTable, Deliver, EndOfInput, Collect,
         CatchSigint, vars, counts
  <2>2. Sum6(exitStatus', reaped) = Sum6(exitStatus, reaped)
    BY <1>2, SumSame DEF Kept
  <2>3. \A d \in reaped' : pc'[d] = "exited"
    BY <1>2, <2>1 DEF Kept
  <2>4. ASSUME pc'[Wholesaler] = "done" PROVE reaped = Chefs
    <3>1. ASSUME NEW c \in Chefs, Chef(c)
          PROVE  pc[Wholesaler] = "done"
      BY <2>4, <3>1 DEF Chef, TestFlag, SemWait, SemPost, TakeFirst,
           TakeSecond, CompareByte, ReadSecond, Goto, TypeOK
    <3>2. ASSUME Seller PROVE reaped = Chefs
      BY <1>4, <2>4, <3>2 DEF Seller, SemWait, SemPost, LookAtTable,
           Deliver, EndOfInput, Collect, Goto, TypeOK
    <3>3. ASSUME NEW p \in Procs, CatchSigint(p)
          PROVE  pc[Wholesaler] = "done"
      BY <2>4, <3>3 DEF CatchSigint, Goto, TypeOK
    <3> QED
      BY <2>4, <3>1, <3>2, <3>3 DEF Next, vars, Collected
  <2> QED
    BY <1>1, <2>1, <2>2, <2>3, <2>4 DEF Collected
<1> QED
  BY <1>3, <1>4

-----------------------------------------------------------------------------
\* The strengthened invariant holds in every reachable state.
THEOREM Invariance == Spec => []IInv
<1>1. IInv /\ [Next]_vars => IInv'
  BY TypeStep, InsideStep, SeenStep, NoneLostStep, AnnouncedStep,
     PairsSharedStep, CollectedStep DEF IInv
<1> QED
  BY Initially, <1>1, PTL DEF Spec

\* named.c 45-85 and 702: until a sem_wait is interrupted, every pair brought
\* is one dessert of its chef or on its way to become one.
THEOREM Desserts == Spec => []EachPairOneDessert
<1>1. IInv => EachPairOneDessert
  <2> SUFFICES ASSUME IInv, ~interrupted, NEW c \in Chefs
               PROVE  DeliveredTo(c) =
                        totalDesNum[c] + (IF InHand(c) THEN 1 ELSE 0)
    BY DEF EachPairOneDessert
  <2>1. Taken(c) + OnTable(c) = IF InHand(c) THEN 1 ELSE 0
    <3>1. pc[c] = "taken" => ~IsFor(addr, c)
      BY ForNobody DEF IInv, Seen, SeenBy
    <3> QED
      BY <3>1 DEF Taken, OnTable, InHand
  <2> QED
    BY <2>1, MadeNat DEF IInv, NoneLost
<1> QED
  BY Invariance, <1>1, PTL

\* named.c 767: the total that the wholesaler prints is the number of pairs
\* in the file, if no signal is caught and no chef has 256 desserts or more
\* to report in its exit status.
THEOREM Total ==
  ASSUME \A c \in Chefs :
           Cardinality({k \in 1 .. Len(Input) : IsFor(Input[k], c)}) < 256
  PROVE  Spec => []TotalIsExact
<1>1. IInv => TotalIsExact
  <2> SUFFICES ASSUME IInv, pc[Wholesaler] = "done", sigintcaught = {}
               PROVE  allDeserts = Len(Input)
    BY DEF TotalIsExact
  <2>0. ~interrupted
    BY DEF IInv, TypeOK
  <2>1. /\ reaped = Chefs /\ addr = <<"n", "n">> /\ pos = Len(Input)
        /\ \A c \in Chefs : pc[c] = "exited"
                             /\ exitStatus[c] = totalDesNum[c] % 256
    BY <2>0 DEF IInv, Announced, Collected
  <2>2. \A c \in Chefs : exitStatus[c] = delivered[c]
    <3> TAKE c \in Chefs
    <3>1. Taken(c) = 0 /\ OnTable(c) = 0
      BY <2>1, ForNobody DEF Taken, OnTable
    <3>2. DeliveredTo(c) = totalDesNum[c] /\ totalDesNum[c] \in Nat
      BY <2>0, <3>1, MadeNat DEF IInv, NoneLost
    <3>3. DeliveredTo(c) \in Nat /\ DeliveredTo(c) < 256
      BY <2>1, DeliveredNat DEF IInv, DeliveredTo
    <3>4. totalDesNum[c] \in Nat /\ totalDesNum[c] < 256
      BY <3>2, <3>3
    <3>5. \A n \in Nat : n < 256 => n % 256 = n
      OBVIOUS
    <3>6. delivered[c] = DeliveredTo(c)
      BY DEF delivered
    <3>7. exitStatus[c] = totalDesNum[c] % 256
      BY <2>1
    <3> QED
      BY <3>2, <3>4, <3>5, <3>6, <3>7
  <2>3. Sum6(exitStatus, Chefs) = Sum6(delivered, Chefs)
    BY <2>2, SumSame
  <2> QED
    BY <2>1, <2>3 DEF IInv, Collected, PairsShared
<1> QED
  BY Invariance, <1>1, PTL
=============================================================================
