---------------------- MODULE TransactionServer_proof ----------------------
(***************************************************************************)
(* Proofs about the server's table of servants and the answers made from   *)
(* it, for any sets of workers, clients and servants.  What the abstract   *)
(* queue gives comes first; then what holds however many servants register *)
(* at once; then the table under registrations one after the other.        *)
(***************************************************************************)
EXTENDS TransactionServer, FiniteSetTheorems, TLAPS

-----------------------------------------------------------------------------
\* What a worker gets from the queue: no connection comes to two workers.

HandoffInv ==
  /\ accepted \in Seq(Conns) /\ taken \in Seq(Conns)
  /\ Len(taken) <= Len(accepted)
  /\ \A k \in 1 .. Len(taken) : taken[k] = accepted[k]
  /\ \A j, k \in 1 .. Len(accepted) : accepted[j] = accepted[k] => j = k
  /\ serving \in [Workers -> Conns \cup {None}]
  /\ \A w \in Workers : serving[w] # None => serving[w] \in Elems(taken)
  /\ \A v, w \in Workers : serving[v] = serving[w] /\ serving[v] # None => v = w

\* A connection that is accepted or taken was not accepted or taken before.
Arrives(c) ==
  /\ c \in Conns /\ c \notin Elems(accepted)
  /\ Elems(accepted') = Elems(accepted) \cup {c}
  /\ UNCHANGED <<taken, serving>>

Starts(w, c) ==
  /\ c \in Conns /\ c \in Elems(accepted) /\ c \notin Elems(taken)
  /\ Elems(taken') = Elems(taken) \cup {c}
  /\ serving[w] = None
  /\ serving' = [serving EXCEPT ![w] = c]
  /\ accepted' = accepted

LEMMA AcceptIsFresh ==
  ASSUME HandoffInv, NEW c \in Conns, Accept(c)
  PROVE  HandoffInv' /\ Arrives(c)
<1>1. accepted' \in Seq(Conns) /\ Len(accepted') = Len(accepted) + 1
  BY DEF HandoffInv, Accept
<1>2. \A k \in 1 .. Len(accepted) : accepted'[k] = accepted[k]
  BY DEF HandoffInv, Accept
<1>3. accepted'[Len(accepted) + 1] = c
  BY DEF HandoffInv, Accept
<1>4. \A k \in 1 .. Len(accepted) : accepted[k] # c
  BY DEF Accept
<1>5. Len(accepted) \in Nat /\ Len(taken) \in Nat
  BY DEF HandoffInv
<1>6. \A j, k \in 1 .. Len(accepted') : accepted'[j] = accepted'[k] => j = k
  BY <1>1, <1>2, <1>3, <1>4, <1>5 DEF HandoffInv
<1>7. Elems(accepted') = Elems(accepted) \cup {c}
  BY <1>1, <1>2, <1>3, <1>5 DEF Elems
<1>8. taken' = taken /\ serving' = serving
  BY DEF Accept
<1>9. HandoffInv'
  BY <1>1, <1>2, <1>5, <1>6, <1>8 DEF HandoffInv, Elems
<1> QED
  BY <1>4, <1>7, <1>8, <1>9 DEF Arrives, Elems

LEMMA TakeIsFresh ==
  ASSUME HandoffInv, NEW w \in Workers, Take(w)
  PROVE  HandoffInv' /\ \E c : Starts(w, c)
<1> DEFINE n == Len(taken) + 1
           c == accepted[n]
<1>1. n \in 1 .. Len(accepted) /\ Len(taken) \in Nat /\ c \in Conns
  BY DEF HandoffInv, Take
<1>2. taken' = Append(taken, c) /\ serving' = [serving EXCEPT ![w] = c]
      /\ accepted' = accepted /\ serving[w] = None
  BY DEF Take
<1>3. taken' \in Seq(Conns) /\ Len(taken') = n /\ taken'[n] = c
      /\ \A k \in 1 .. Len(taken) : taken'[k] = taken[k]
  BY <1>1, <1>2 DEF HandoffInv
<1>4. c \notin Elems(taken)
  BY <1>1 DEF HandoffInv, Elems
<1>5. Elems(taken') = Elems(taken) \cup {c}
  BY <1>1, <1>3 DEF Elems
<1>6. c \in Elems(accepted)
  BY <1>1 DEF Elems
<1> HIDE DEF c
<1>7. HandoffInv'
  <2>1. \A k \in 1 .. Len(taken') : taken'[k] = accepted'[k]
    BY <1>1, <1>2, <1>3 DEF HandoffInv, c
  <2>2. serving' \in [Workers -> Conns \cup {None}]
    BY <1>1, <1>2 DEF HandoffInv
  <2>3. \A v \in Workers : serving'[v] # None => serving'[v] \in Elems(taken')
    BY <1>2, <1>5 DEF HandoffInv
  <2>4. \A u, v \in Workers :
          serving'[u] = serving'[v] /\ serving'[u] # None => u = v
    BY <1>2, <1>4 DEF HandoffInv
  <2> QED
    BY <1>1, <1>2, <1>3, <2>1, <2>2, <2>3, <2>4 DEF HandoffInv
<1> QED
  BY <1>1, <1>2, <1>4, <1>5, <1>6, <1>7 DEF Starts

LEMMA FinishLeaves ==
  ASSUME HandoffInv, NEW w \in Workers, Finish(w)
  PROVE  HandoffInv'
  BY DEF HandoffInv, Finish, Elems

LEMMA QueueStutters ==
  ASSUME HandoffInv, UNCHANGED vars
  PROVE  HandoffInv'
  BY DEF HandoffInv, vars, Elems

LEMMA TakenIsAccepted ==
  ASSUME HandoffInv
  PROVE  Elems(taken) \subseteq Elems(accepted)
<1>1. \A k \in 1 .. Len(taken) : k \in 1 .. Len(accepted)
  BY DEF HandoffInv
<1> QED
  BY <1>1 DEF HandoffInv, Elems

-----------------------------------------------------------------------------
\* What a worker does at each step, and how far the counter can be.

Registering(w) == step[w] \in {"port", "cities", "load", "store"}
Scanning(w) == step[w] \in {"total", "call", "await"} /\ wants[serving[w]] = Empty
Searching(w) == step[w] \in {"find", "call", "await"} /\ wants[serving[w]] # Empty

Roles ==
  \A w \in Workers :
    /\ serving[w] = None => step[w] = "read"
    /\ Registering(w) => serving[w] \in Servants
    /\ step[w] \in {"total", "find", "call", "await", "reply"}
         => serving[w] \in Clients
    /\ step[w] = "total" => wants[serving[w]] = Empty
    /\ step[w] = "find" => wants[serving[w]] # Empty
    /\ step[w] = "read" => i[w] = 0 /\ found[w] = None /\ total[w] = Nothing
    /\ step[w] \in {"call", "await"} /\ wants[serving[w]] = Empty => i[w] \in Slots

\* A registration that was processed is over, and is processed once.  So the
\* counter, whatever the workers lose of it, stays within the registrations.
Counts ==
  /\ \A s \in registered : s \in Elems(taken)
  /\ \A s \in registered : \A w \in Workers : serving[w] = s => step[w] = "done"
  /\ servantCount <= Cardinality(registered)
  /\ \A w \in Workers : loaded[w] <= Cardinality(registered)

Basic == HandoffInv /\ TSTypeOK /\ Roles /\ Counts

Size == Cardinality(Servants)

LEMMA Sizes ==
  /\ Size \in Nat
  /\ \A R \in SUBSET Servants : /\ IsFiniteSet(R)
                                /\ Cardinality(R) \in 0 .. Size
                                /\ R # Servants => Cardinality(R) < Size
  /\ \A R \in SUBSET Servants : \A s \in Servants \ R :
       Cardinality(R \cup {s}) = Cardinality(R) + 1
<1>1. IsFiniteSet(Servants)
  BY ServerAssumption
<1>2. Size \in Nat
  BY <1>1, FS_CardinalityType DEF Size
<1>3. ASSUME NEW R \in SUBSET Servants
      PROVE  /\ IsFiniteSet(R) /\ Cardinality(R) \in 0 .. Size
             /\ R # Servants => Cardinality(R) < Size
  <2>1. IsFiniteSet(R) /\ Cardinality(R) <= Size
        /\ (Cardinality(R) = Size => R = Servants)
    BY <1>1, FS_Subset DEF Size
  <2>2. Cardinality(R) \in Nat
    BY <2>1, FS_CardinalityType
  <2> QED
    BY <1>2, <2>1, <2>2
<1>4. ASSUME NEW R \in SUBSET Servants, NEW s \in Servants \ R
      PROVE  Cardinality(R \cup {s}) = Cardinality(R) + 1
  BY <1>3, FS_AddElement
<1> QED
  BY <1>2, <1>3, <1>4

LEMMA WithinSlots ==
  ASSUME Basic
  PROVE  /\ servantCount \in 0 .. Size
         /\ \A k \in Nat : k < servantCount => k \in Slots
         /\ Cardinality(registered) \in 0 .. Size
         /\ registered # Servants => Cardinality(registered) < Size
<1>1. registered \in SUBSET Servants /\ servantCount \in Nat
      /\ servantCount <= Cardinality(registered)
  BY DEF Basic, TSTypeOK, TableTypeOK, Counts, Size
<1> QED
  BY <1>1, Sizes DEF Slots, Size

\* The steps that change the table leave most else alone.
Table == [Slots -> [port : Servants \cup {NoPort}, cities : Servants \cup {None}]]

LEMMA StorePortFacts ==
  ASSUME TableTypeOK, NEW w \in Workers, serving[w] \in Servants, StorePort(w)
  PROVE  /\ servantInfoList' \in Table
         /\ \A k \in Slots :
              /\ servantInfoList'[k].port =
                   IF k = servantCount THEN serving[w] ELSE servantInfoList[k].port
              /\ servantInfoList'[k].cities = servantInfoList[k].cities
<1> DEFINE Slot == [port : Servants \cup {NoPort}, cities : Servants \cup {None}]
<1>1. servantInfoList' =
        [servantInfoList EXCEPT ![servantCount]["port"] = serving[w]]
  BY DEF StorePort, StoreField
<1>2. \A k \in Slots : servantInfoList'[k] =
        IF k = servantCount THEN [servantInfoList[k] EXCEPT !["port"] = serving[w]]
                            ELSE servantInfoList[k]
  BY <1>1 DEF TableTypeOK
<1>3. \A k \in Slots : servantInfoList[k] \in Slot
  BY DEF TableTypeOK
<1>4. \A r \in Slot : [r EXCEPT !["port"] = serving[w]] \in Slot
        /\ [r EXCEPT !["port"] = serving[w]].port = serving[w]
        /\ [r EXCEPT !["port"] = serving[w]].cities = r.cities
  OBVIOUS
<1>5. servantInfoList' = [k \in Slots |-> servantInfoList'[k]]
  BY <1>1 DEF TableTypeOK
<1>6. \A k \in Slots : servantInfoList'[k] \in Slot
  BY <1>2, <1>3, <1>4
<1>7. servantInfoList' \in Table
  BY <1>5, <1>6 DEF Table
<1> QED
  BY <1>2, <1>3, <1>4, <1>7

LEMMA StoreCitiesFacts ==
  ASSUME TableTypeOK, NEW w \in Workers, serving[w] \in Servants, StoreCities(w)
  PROVE  /\ servantInfoList' \in Table
         /\ \A k \in Slots :
              /\ servantInfoList'[k].cities =
                   IF k = servantCount THEN serving[w] ELSE servantInfoList[k].cities
              /\ servantInfoList'[k].port = servantInfoList[k].port
<1> DEFINE Slot == [port : Servants \cup {NoPort}, cities : Servants \cup {None}]
<1>1. servantInfoList' =
        [servantInfoList EXCEPT ![servantCount]["cities"] = serving[w]]
  BY DEF StoreCities, StoreField
<1>2. \A k \in Slots : servantInfoList'[k] =
        IF k = servantCount THEN [servantInfoList[k] EXCEPT !["cities"] = serving[w]]
                            ELSE servantInfoList[k]
  BY <1>1 DEF TableTypeOK
<1>3. \A k \in Slots : servantInfoList[k] \in Slot
  BY DEF TableTypeOK
<1>4. \A r \in Slot : [r EXCEPT !["cities"] = serving[w]] \in Slot
        /\ [r EXCEPT !["cities"] = serving[w]].cities = serving[w]
        /\ [r EXCEPT !["cities"] = serving[w]].port = r.port
  OBVIOUS
<1>5. servantInfoList' = [k \in Slots |-> servantInfoList'[k]]
  BY <1>1 DEF TableTypeOK
<1>6. \A k \in Slots : servantInfoList'[k] \in Slot
  BY <1>2, <1>3, <1>4
<1>7. servantInfoList' \in Table
  BY <1>5, <1>6 DEF Table
<1> QED
  BY <1>2, <1>3, <1>4, <1>7

-----------------------------------------------------------------------------
\* The steps keep these.

LEMMA HandoffStep ==
  ASSUME HandoffInv, [TSNext]_allVars
  PROVE  HandoffInv'
<1>1. ASSUME NEW w \in Workers, WorkerTake(w) PROVE HandoffInv'
  BY <1>1, TakeIsFresh DEF WorkerTake
<1>2. ASSUME NEW w \in Workers, WorkerFinish(w) PROVE HandoffInv'
  BY <1>2, FinishLeaves DEF WorkerFinish
<1>3. ASSUME NEW c \in Conns, PeerConnect(c) PROVE HandoffInv'
  BY <1>3, AcceptIsFresh DEF PeerConnect
<1>4. ASSUME UNCHANGED vars PROVE HandoffInv'
  BY <1>4 DEF HandoffInv, vars, Elems
<1> QED
  BY <1>1, <1>2, <1>3, <1>4
     DEF TSNext, WorkerStep, Body, allVars, ReadRequest, vars,
         tableVars, peerVars, NextServant, FindCity, Call, TakeAnswer,
         Reply, StorePort, StoreField, StoreCities, LoadCount, StoreCount,
         Listen, bodyVars, Answer, ReadEof, serverVars

LEMMA TableTypeStep ==
  ASSUME Basic, [TSNext]_allVars
  PROVE  TableTypeOK'
<1>1. ASSUME NEW w \in Workers, StorePort(w), UNCHANGED oneAtATime
      PROVE  TableTypeOK'
  <2>1. serving[w] \in Servants
    BY <1>1 DEF Basic, Roles, Registering, StorePort, StoreField, At
  <2>2. servantInfoList' \in Table
    BY <1>1, <2>1, StorePortFacts DEF Basic, TSTypeOK
  <2> QED
    BY <1>1, <2>2 DEF StorePort, StoreField, Basic, TSTypeOK, TableTypeOK, Table
<1>2. ASSUME NEW w \in Workers, StoreCities(w), UNCHANGED oneAtATime
      PROVE  TableTypeOK'
  <2>1. serving[w] \in Servants
    BY <1>2 DEF Basic, Roles, Registering, StoreCities, StoreField, At
  <2>2. servantInfoList' \in Table
    BY <1>2, <2>1, StoreCitiesFacts DEF Basic, TSTypeOK
  <2> QED
    BY <1>2, <2>2
       DEF StoreCities, StoreField, Basic, TSTypeOK, TableTypeOK, Table
<1>3. ASSUME NEW w \in Workers, StoreCount(w), UNCHANGED oneAtATime
      PROVE  TableTypeOK'
  <2>1. At(w, "store") /\ serving[w] \in Servants /\ serving[w] \notin registered
    BY <1>3 DEF Basic, Roles, Registering, Counts, StoreCount, At
  <2>2. loaded[w] \in Nat /\ loaded[w] <= Cardinality(registered)
        /\ registered \subseteq Servants
    BY DEF Basic, TSTypeOK, TableTypeOK, BodyTypeOK, Counts
  <2>3. Cardinality(registered) < Size /\ Size \in Nat
        /\ Cardinality(registered) \in 0 .. Size
    BY <2>1, WithinSlots, Sizes
  <2> QED
    BY <1>3, <2>1, <2>2, <2>3
       DEF StoreCount, Basic, TSTypeOK, TableTypeOK, Size
<1>4. ASSUME UNCHANGED tableVars PROVE TableTypeOK'
  BY <1>4 DEF TableTypeOK, tableVars, Basic, TSTypeOK
<1> QED
  BY <1>1, <1>2, <1>3, <1>4
     DEF TSNext, WorkerStep, Body, allVars, WorkerTake, serverVars,
         bodyVars, tableVars, peerVars, WorkerFinish, Finish, ReadRequest,
         vars, NextServant, FindCity, Call, TakeAnswer, Reply,
         LoadCount, PeerConnect, Listen, Answer, ReadEof

LEMMA BodyTypeStep ==
  ASSUME Basic, [TSNext]_allVars
  PROVE  BodyTypeOK'
<1>0. /\ BodyTypeOK /\ TableTypeOK
      /\ Cardinality(Servants) \in Nat /\ servantCount \in 0 .. Cardinality(Servants)
      /\ Nothing \in [Servants -> Nat]
      /\ \A k \in Nat : k < servantCount => k \in Slots
  BY Sizes, WithinSlots DEF Basic, TSTypeOK, Size, Nothing
<1>1. ASSUME NEW w \in Workers, WorkerFinish(w) PROVE BodyTypeOK'
  BY <1>1, <1>0
     DEF BodyTypeOK, Steps, WorkerFinish, Finish, Goto, tableVars, peerVars
<1>2. ASSUME NEW w \in Workers, ReadRequest(w), UNCHANGED oneAtATime
      PROVE  BodyTypeOK'
  BY <1>2, <1>0, <1>0
     DEF BodyTypeOK, Steps, TableTypeOK, ReadRequest, At, Goto, vars, tableVars,
         peerVars
<1>3. ASSUME NEW w \in Workers, NextServant(w), UNCHANGED oneAtATime
      PROVE  BodyTypeOK'
  <2>1. i[w] < servantCount => servantInfoList[i[w]].port \in Servants \cup {NoPort}
    BY <1>0 DEF BodyTypeOK, TableTypeOK
  <2> QED
    BY <1>3, <1>0, <2>1 DEF BodyTypeOK, Steps, NextServant, Goto
<1>4. ASSUME NEW w \in Workers, FindCity(w), UNCHANGED oneAtATime
      PROVE  BodyTypeOK'
  <2>1. i[w] < servantCount => servantInfoList[i[w]].port \in Servants \cup {NoPort}
    BY <1>0 DEF BodyTypeOK, TableTypeOK
  <2>2. i[w] < servantCount => i[w] + 1 \in 0 .. Cardinality(Servants)
    BY <1>0 DEF BodyTypeOK
  <2> QED
    BY <1>4, <1>0, <2>1, <2>2 DEF BodyTypeOK, Steps, FindCity, Goto
<1>5. ASSUME NEW w \in Workers, Call(w), UNCHANGED oneAtATime PROVE BodyTypeOK'
  BY <1>5, <1>0
     DEF BodyTypeOK, Steps, Call, At, Goto, vars, tableVars
<1>6. ASSUME NEW w \in Workers, TakeAnswer(w), UNCHANGED oneAtATime
      PROVE  BodyTypeOK'
  <2>1. wants[serving[w]] = Empty => i[w] + 1 \in 0 .. Cardinality(Servants)
    BY <1>6, <1>0 DEF Basic, Roles, Scanning, Slots, TakeAnswer, At, BodyTypeOK
  <2>2. ASSUME NEW f \in [Servants -> Nat], NEW s
        PROVE  [f EXCEPT ![s] = f[s] + 1] \in [Servants -> Nat]
    <3>1. \A r \in Servants : [f EXCEPT ![s] = f[s] + 1][r] = IF r = s THEN f[r] + 1 ELSE f[r]
      OBVIOUS
    <3>2. \A r \in Servants : [f EXCEPT ![s] = f[s] + 1][r] \in Nat
      BY <3>1
    <3> QED
      BY <3>2
  <2>3. total' = [total EXCEPT ![w] = [total[w] EXCEPT ![found[w]] = total[w][found[w]] + 1]]
    BY <1>6 DEF TakeAnswer
  <2>4. total[w] \in [Servants -> Nat]
    BY <1>0 DEF BodyTypeOK
  <2>5. [total[w] EXCEPT ![found[w]] = total[w][found[w]] + 1] \in [Servants -> Nat]
    BY <2>2, <2>4
  <2>6. total' \in [Workers -> [Servants -> Nat]]
    BY <1>0, <2>3, <2>5 DEF BodyTypeOK
  <2> QED
    BY <1>6, <1>0, <2>1, <2>6 DEF BodyTypeOK, Steps, TakeAnswer, Goto
<1>7. ASSUME NEW w \in Workers, Reply(w), UNCHANGED oneAtATime PROVE BodyTypeOK'
  BY <1>7, <1>0
     DEF BodyTypeOK, Steps, Reply, At, Goto, vars, tableVars
<1>8. ASSUME NEW w \in Workers, StorePort(w), UNCHANGED oneAtATime
      PROVE  BodyTypeOK'
  BY <1>8, <1>0
     DEF BodyTypeOK, Steps, StorePort, StoreField, At, Goto, vars, peerVars
<1>9. ASSUME NEW w \in Workers, StoreCities(w), UNCHANGED oneAtATime
      PROVE  BodyTypeOK'
  BY <1>9, <1>0
     DEF BodyTypeOK, Steps, StoreCities, StoreField, At, Goto, vars, peerVars
<1>10. ASSUME NEW w \in Workers, LoadCount(w), UNCHANGED oneAtATime
       PROVE  BodyTypeOK'
  BY <1>10, <1>0
     DEF BodyTypeOK, Steps, LoadCount, At, Goto, vars, tableVars, peerVars
<1>11. ASSUME NEW w \in Workers, StoreCount(w), UNCHANGED oneAtATime
       PROVE  BodyTypeOK'
  BY <1>11, <1>0
     DEF BodyTypeOK, Steps, StoreCount, At, Goto, vars, peerVars
<1>12. ASSUME UNCHANGED bodyVars PROVE BodyTypeOK'
  BY <1>12, <1>0 DEF BodyTypeOK, bodyVars
<1> QED
  BY <1>1, <1>2, <1>3, <1>4, <1>5, <1>6, <1>7, <1>8, <1>9, <1>10, <1>11, <1>12
     DEF TSNext, WorkerStep, Body, allVars, WorkerTake, serverVars,
         bodyVars, tableVars, peerVars, PeerConnect, Listen, vars,
         Answer, ReadEof

LEMMA PeerTypeStep ==
  ASSUME Basic, [TSNext]_allVars
  PROVE  PeerTypeOK'
<1>0. PeerTypeOK /\ BodyTypeOK
  BY DEF Basic, TSTypeOK
<1>1. ASSUME NEW w \in Workers, Call(w), UNCHANGED oneAtATime PROVE PeerTypeOK'
  <2>0. \A q \in Seq(Workers) : Append(q, w) \in Seq(Workers)
    OBVIOUS
  <2>1. calls' \in [Servants -> Seq(Workers)]
    <3>1. CASE found[w] \in listening
      <4> DEFINE q == Append(calls[found[w]], w)
      <4>1. q \in Seq(Workers)
        BY <1>0, <2>0, <3>1 DEF PeerTypeOK
      <4>2. calls' = [calls EXCEPT ![found[w]] = q]
        BY <1>1, <3>1 DEF Call
      <4> HIDE DEF q
      <4> QED
        BY <1>0, <4>1, <4>2 DEF PeerTypeOK
    <3>2. CASE found[w] \notin listening
      BY <1>1, <1>0, <3>2 DEF PeerTypeOK, Call
    <3> QED
      BY <3>1, <3>2
  <2>2. exited' \in BOOLEAN
    BY <1>1, <1>0 DEF PeerTypeOK, Call
  <2> QED
    BY <1>1, <1>0, <2>1, <2>2 DEF PeerTypeOK, Call
<1>2. ASSUME NEW w \in Workers, TakeAnswer(w), UNCHANGED oneAtATime
      PROVE  PeerTypeOK'
  BY <1>2, <1>0
     DEF PeerTypeOK, TakeAnswer, At, Goto, vars, tableVars
<1>3. ASSUME NEW w \in Workers, Reply(w), UNCHANGED oneAtATime PROVE PeerTypeOK'
  <2>1. total[w] \in [Servants -> Nat]
    BY <1>0 DEF BodyTypeOK
  <2> QED
    BY <1>3, <1>0, <2>1 DEF PeerTypeOK, Reply
<1>4. ASSUME NEW s \in Servants, Listen(s) PROVE PeerTypeOK'
  <2>1. listening' \subseteq Servants
    BY <1>4, <1>0 DEF PeerTypeOK, Listen
  <2> QED
    BY <1>4, <1>0, <2>1 DEF PeerTypeOK, Listen
<1>5. ASSUME NEW s \in Servants, Answer(s) PROVE PeerTypeOK'
  <2>1. Tail(calls[s]) \in Seq(Workers) /\ Head(calls[s]) \in Workers
    BY <1>5, <1>0 DEF PeerTypeOK, Answer
  <2> QED
    BY <1>5, <1>0, <2>1 DEF PeerTypeOK, Answer
<1>6. ASSUME NEW c \in Clients, ReadEof(c) PROVE PeerTypeOK'
  BY <1>6, <1>0
     DEF PeerTypeOK, ReadEof, vars, bodyVars, tableVars
<1>7. ASSUME UNCHANGED <<peerVars, exited, oneAtATime>> PROVE PeerTypeOK'
  BY <1>7, <1>0 DEF PeerTypeOK, peerVars
<1> QED
  BY <1>1, <1>2, <1>3, <1>4, <1>5, <1>6, <1>7
     DEF TSNext, WorkerStep, Body, allVars, WorkerTake, serverVars,
         bodyVars, tableVars, peerVars, WorkerFinish, Finish, ReadRequest,
         vars, NextServant, FindCity, StorePort, StoreField, StoreCities,
         LoadCount, StoreCount, PeerConnect


LEMMA RolesStep ==
  ASSUME Basic, [TSNext]_allVars
  PROVE  Roles'
<1>0. /\ Roles /\ BodyTypeOK
      /\ serving \in [Workers -> Conns \cup {None}]
      /\ Conns = Clients \cup Servants /\ Clients \cap Servants = {} /\ None \notin Conns
      /\ \A k \in Nat : k < servantCount => k \in Slots
  BY WithinSlots, ServerAssumption DEF Basic, TSTypeOK, HandoffInv
<1>1. ASSUME NEW w \in Workers, WorkerTake(w) PROVE Roles'
  <2>1. PICK c : Starts(w, c)
    BY <1>1, TakeIsFresh DEF Basic, WorkerTake
  <2> QED
    BY <1>1, <1>0, <2>1
       DEF Roles, Registering, Starts, WorkerTake, serverVars, bodyVars,
           BodyTypeOK
<1>2. ASSUME NEW w \in Workers, WorkerFinish(w) PROVE Roles'
  BY <1>2, <1>0
     DEF Roles, Registering, BodyTypeOK, WorkerFinish, Finish, Goto, tableVars,
         peerVars
<1>3. ASSUME NEW w \in Workers, ReadRequest(w), UNCHANGED oneAtATime
      PROVE  Roles'
  BY <1>3, <1>0
     DEF Roles, Registering, BodyTypeOK, ReadRequest, At, Goto, vars, tableVars,
         peerVars
<1>4. ASSUME NEW w \in Workers, NextServant(w), UNCHANGED oneAtATime
      PROVE  Roles'
  <2>1. i[w] \in Nat
    BY <1>0 DEF BodyTypeOK
  <2> QED
    BY <1>4, <1>0, <2>1
       DEF Roles, Registering, NextServant, At, Goto, vars, BodyTypeOK
<1>5. ASSUME NEW w \in Workers, FindCity(w), UNCHANGED oneAtATime PROVE Roles'
  BY <1>5, <1>0
     DEF Roles, Registering, BodyTypeOK, FindCity, At, Goto, vars, tableVars,
         peerVars
<1>6. ASSUME NEW w \in Workers, Call(w), UNCHANGED oneAtATime PROVE Roles'
  BY <1>6, <1>0
     DEF Roles, Registering, BodyTypeOK, Call, At, Goto, vars, tableVars
<1>7. ASSUME NEW w \in Workers, TakeAnswer(w), UNCHANGED oneAtATime PROVE Roles'
  BY <1>7, <1>0
     DEF Roles, Registering, BodyTypeOK, TakeAnswer, At, Goto, vars, tableVars
<1>8. ASSUME NEW w \in Workers, Reply(w), UNCHANGED oneAtATime PROVE Roles'
  BY <1>8, <1>0
     DEF Roles, Registering, BodyTypeOK, Reply, At, Goto, vars, tableVars
<1>9. ASSUME NEW w \in Workers, StorePort(w), UNCHANGED oneAtATime PROVE Roles'
  BY <1>9, <1>0
     DEF Roles, Registering, BodyTypeOK, StorePort, StoreField, At, Goto, vars,
         peerVars
<1>10. ASSUME NEW w \in Workers, StoreCities(w), UNCHANGED oneAtATime
       PROVE  Roles'
  BY <1>10, <1>0
     DEF Roles, Registering, BodyTypeOK, StoreCities, StoreField, At, Goto,
         vars, peerVars
<1>11. ASSUME NEW w \in Workers, LoadCount(w), UNCHANGED oneAtATime PROVE Roles'
  BY <1>11, <1>0
     DEF Roles, Registering, BodyTypeOK, LoadCount, At, Goto, vars, tableVars,
         peerVars
<1>12. ASSUME NEW w \in Workers, StoreCount(w), UNCHANGED oneAtATime
       PROVE  Roles'
  BY <1>12, <1>0
     DEF Roles, Registering, BodyTypeOK, StoreCount, At, Goto, vars, peerVars
<1>13. ASSUME UNCHANGED <<serving, step, i, found, total>> PROVE Roles'
  BY <1>13, <1>0 DEF Roles, Registering
<1> QED
  BY <1>1, <1>2, <1>3, <1>4, <1>5, <1>6, <1>7, <1>8, <1>9, <1>10, <1>11, <1>12,
     <1>13
     DEF Accept, TSNext, WorkerStep, Body, allVars, PeerConnect,
         serverVars, bodyVars, tableVars, peerVars, Listen, vars,
         Answer, ReadEof

LEMMA CountsStep ==
  ASSUME Basic, [TSNext]_allVars
  PROVE  Counts'
<1>0. /\ Counts /\ BodyTypeOK /\ HandoffInv /\ TableTypeOK
      /\ Cardinality(Servants) \in Nat /\ Cardinality(registered) \in Nat
  BY Sizes, WithinSlots DEF Basic, TSTypeOK, Size
<1>1. ASSUME NEW w \in Workers, WorkerTake(w) PROVE Counts'
  <2>1. PICK c : Starts(w, c)
    BY <1>1, TakeIsFresh DEF Basic, WorkerTake
  <2> QED
    BY <1>1, <1>0, <2>1
       DEF Counts, Starts, WorkerTake, serverVars, bodyVars, tableVars,
           HandoffInv
<1>2. ASSUME NEW w \in Workers, WorkerFinish(w) PROVE Counts'
  <2>1. taken' = taken /\ registered' = registered /\ servantCount' = servantCount
        /\ serving' = [serving EXCEPT ![w] = None]
        /\ step' = [step EXCEPT ![w] = "read"] /\ loaded' = [loaded EXCEPT ![w] = 0]
    BY <1>2 DEF WorkerFinish, Finish, Goto, tableVars
  <2>2. None \notin registered
    BY <1>0, ServerAssumption DEF TableTypeOK
  <2>3. /\ \A s \in registered' : s \in Elems(taken')
        /\ \A s \in registered' : \A v \in Workers : serving'[v] = s => step'[v] = "done"
    BY <1>0, <2>1, <2>2 DEF Counts, BodyTypeOK, HandoffInv, Elems
  <2>4. \A v \in Workers : loaded'[v] <= Cardinality(registered')
    BY <1>0, <2>1 DEF Counts, BodyTypeOK
  <2> QED
    BY <1>0, <2>1, <2>3, <2>4 DEF Counts
<1>3. ASSUME NEW w \in Workers, ReadRequest(w), UNCHANGED oneAtATime
      PROVE  Counts'
  BY <1>3, <1>0
     DEF Counts, BodyTypeOK, Elems, ReadRequest, At, Goto, vars, tableVars,
         peerVars
<1>4. ASSUME NEW w \in Workers, NextServant(w), UNCHANGED oneAtATime
      PROVE  Counts'
  BY <1>4, <1>0
     DEF Counts, BodyTypeOK, Elems, NextServant, At, Goto, vars, tableVars,
         peerVars
<1>5. ASSUME NEW w \in Workers, FindCity(w), UNCHANGED oneAtATime PROVE Counts'
  BY <1>5, <1>0
     DEF Counts, BodyTypeOK, Elems, FindCity, At, Goto, vars, tableVars,
         peerVars
<1>6. ASSUME NEW w \in Workers, Call(w), UNCHANGED oneAtATime PROVE Counts'
  BY <1>6, <1>0
     DEF Counts, BodyTypeOK, Elems, Call, At, Goto, vars, tableVars
<1>7. ASSUME NEW w \in Workers, TakeAnswer(w), UNCHANGED oneAtATime
      PROVE  Counts'
  BY <1>7, <1>0
     DEF Counts, BodyTypeOK, Elems, TakeAnswer, At, Goto, vars, tableVars
<1>8. ASSUME NEW w \in Workers, Reply(w), UNCHANGED oneAtATime PROVE Counts'
  BY <1>8, <1>0
     DEF Counts, BodyTypeOK, Elems, Reply, At, Goto, vars, tableVars
<1>9. ASSUME NEW w \in Workers, StorePort(w), UNCHANGED oneAtATime PROVE Counts'
  BY <1>9, <1>0
     DEF Counts, BodyTypeOK, Elems, StorePort, StoreField, At, Goto, vars,
         peerVars
<1>10. ASSUME NEW w \in Workers, StoreCities(w), UNCHANGED oneAtATime
       PROVE  Counts'
  BY <1>10, <1>0
     DEF Counts, BodyTypeOK, Elems, StoreCities, StoreField, At, Goto, vars,
         peerVars
<1>11. ASSUME NEW w \in Workers, LoadCount(w), UNCHANGED oneAtATime
       PROVE  Counts'
  BY <1>11, <1>0
     DEF Counts, BodyTypeOK, Elems, LoadCount, At, Goto, vars, tableVars,
         peerVars
<1>12. ASSUME NEW w \in Workers, StoreCount(w), UNCHANGED oneAtATime
       PROVE  Counts'
  <2>1. At(w, "store") /\ serving[w] \in Servants /\ serving[w] \notin registered
        /\ serving[w] \in Elems(taken)
    BY <1>12 DEF Basic, Roles, Registering, Counts, StoreCount, At, HandoffInv
  <2>2. Cardinality(registered') = Cardinality(registered) + 1
    BY <1>12, <1>0, <2>1, Sizes DEF StoreCount, TableTypeOK
  <2>3. \A v \in Workers : serving[v] = serving[w] => v = w
    BY <2>1 DEF Basic, HandoffInv, At
  <2>4. Elems(taken') = Elems(taken)
    BY <1>12 DEF StoreCount, vars, Elems
  <2>5. /\ \A s \in registered' : s \in Elems(taken')
        /\ \A s \in registered' : \A v \in Workers : serving'[v] = s => step'[v] = "done"
    BY <1>12, <1>0, <2>1, <2>3, <2>4
       DEF Counts, StoreCount, At, Goto, vars, BodyTypeOK
  <2>6. /\ servantCount' <= Cardinality(registered')
        /\ \A v \in Workers : loaded'[v] <= Cardinality(registered')
    <3>1. \A v \in Workers : loaded[v] \in Nat /\ loaded[v] <= Cardinality(registered)
      BY <1>0 DEF Counts, BodyTypeOK
    <3>2. servantCount' = loaded[w] + 1 /\ loaded' = loaded
      BY <1>12 DEF StoreCount
    <3> QED
      BY <1>0, <2>2, <3>1, <3>2
  <2> QED
    BY <2>5, <2>6 DEF Counts
<1>13. ASSUME NEW c \in Conns, PeerConnect(c) PROVE Counts'
  <2>1. Arrives(c)
    BY <1>13, <1>0, AcceptIsFresh DEF PeerConnect
  <2> QED
    BY <1>13, <1>0, <2>1
       DEF Counts, Arrives, PeerConnect, serverVars, bodyVars, tableVars, Elems
<1>14. ASSUME UNCHANGED <<taken, serving, step, loaded, servantCount, registered>>
       PROVE  Counts'
  BY <1>14, <1>0 DEF Counts, Elems
<1> QED
  BY <1>1, <1>2, <1>3, <1>4, <1>5, <1>6, <1>7, <1>8, <1>9, <1>10, <1>11, <1>12,
     <1>13, <1>14
     DEF TSNext, WorkerStep, Body, allVars, Listen, vars,
         bodyVars, tableVars, Answer, ReadEof, serverVars, peerVars

LEMMA BasicStep ==
  ASSUME Basic, [TSNext]_allVars
  PROVE  Basic'
<1>1. HandoffInv' /\ Roles' /\ Counts'
  BY HandoffStep, RolesStep, CountsStep DEF Basic
<1>2. TSTypeOK'
  BY TableTypeStep, BodyTypeStep, PeerTypeStep DEF TSTypeOK
<1> QED
  BY <1>1, <1>2 DEF Basic

LEMMA BasicInit == TSInit => Basic
<1> SUFFICES ASSUME TSInit PROVE Basic
  OBVIOUS
<1>1. Size \in Nat /\ Cardinality({}) = 0
  BY Sizes, FS_EmptySet
<1>2. HandoffInv
  BY DEF TSInit, Init, HandoffInv, Elems
<1>3. TableTypeOK
  BY <1>1 DEF TSInit, TableTypeOK, FreeSlot, Size
<1>4. BodyTypeOK
  BY <1>1 DEF TSInit, BodyTypeOK, Steps, Nothing, Size
<1>5. PeerTypeOK
  <2>1. <<>> \in Seq(Workers)
    OBVIOUS
  <2> QED
    BY <2>1 DEF TSInit, PeerTypeOK
<1>6. Roles
  BY DEF TSInit, Init, Roles, Registering
<1>7. Counts
  BY <1>1 DEF TSInit, Init, Counts
<1> QED
  BY <1>2, <1>3, <1>4, <1>5, <1>6, <1>7 DEF Basic, TSTypeOK

\* The type invariant, with the counter and the index of every loop within
\* the table, whatever the registrations do to each other.
THEOREM TSTyping == TSSpec => []TSTypeOK
<1>1. Basic => TSTypeOK
  BY DEF Basic
<1> QED
  BY <1>1, BasicInit, BasicStep, PTL DEF TSSpec

-----------------------------------------------------------------------------
\* What a step changes of a worker's locals: only the worker itself does, and
\* nobody changes the port in a slot but to that of a servant that was in no
\* slot before.

Local(v) == <<serving[v], step[v], i[v], found[v], total[v], seen[v], loaded[v]>>

\* The port of the servant has been stored.
Stored(s) == /\ s \in Elems(taken)
             /\ \A w \in Workers : serving[w] = s => step[w] \notin {"read", "port"}

Works(v) == \/ WorkerTake(v) \/ WorkerFinish(v)
            \/ Body(v)

LEMMA Focus ==
  ASSUME Basic, NEW v \in Workers, [TSNext]_allVars
  PROVE  UNCHANGED Local(v) \/ Works(v)
<1>0. BodyTypeOK /\ serving \in [Workers -> Conns \cup {None}]
  BY DEF Basic, TSTypeOK, HandoffInv
<1>1. ASSUME NEW w \in Workers, WorkerTake(w)
      PROVE  UNCHANGED Local(v) \/ Works(v)
  <2>1. CASE v = w
    BY <1>1, <2>1 DEF Works, Body
  <2>2. CASE v # w
    BY <1>1, <2>2, <1>0
       DEF Local, BodyTypeOK, WorkerTake, Take, serverVars, bodyVars, tableVars,
           peerVars
  <2> QED
    BY <2>1, <2>2
<1>2. ASSUME NEW w \in Workers, WorkerFinish(w)
      PROVE  UNCHANGED Local(v) \/ Works(v)
  <2>1. CASE v = w
    BY <1>2, <2>1 DEF Works, Body
  <2>2. CASE v # w
    BY <1>2, <2>2, <1>0
       DEF Local, BodyTypeOK, WorkerFinish, Finish, Goto, tableVars, peerVars
  <2> QED
    BY <2>1, <2>2
<1>3. ASSUME NEW w \in Workers, ReadRequest(w), UNCHANGED oneAtATime
      PROVE  UNCHANGED Local(v) \/ Works(v)
  <2>1. CASE v = w
    BY <1>3, <2>1 DEF Works, Body
  <2>2. CASE v # w
    BY <1>3, <2>2, <1>0
       DEF Local, BodyTypeOK, ReadRequest, At, Goto, vars, tableVars, peerVars
  <2> QED
    BY <2>1, <2>2
<1>4. ASSUME NEW w \in Workers, NextServant(w), UNCHANGED oneAtATime
      PROVE  UNCHANGED Local(v) \/ Works(v)
  <2>1. CASE v = w
    BY <1>4, <2>1 DEF Works, Body
  <2>2. CASE v # w
    BY <1>4, <2>2, <1>0
       DEF Local, BodyTypeOK, NextServant, At, Goto, vars, tableVars, peerVars
  <2> QED
    BY <2>1, <2>2
<1>5. ASSUME NEW w \in Workers, FindCity(w), UNCHANGED oneAtATime
      PROVE  UNCHANGED Local(v) \/ Works(v)
  <2>1. CASE v = w
    BY <1>5, <2>1 DEF Works, Body
  <2>2. CASE v # w
    BY <1>5, <2>2, <1>0
       DEF Local, BodyTypeOK, FindCity, At, Goto, vars, tableVars, peerVars
  <2> QED
    BY <2>1, <2>2
<1>6. ASSUME NEW w \in Workers, Call(w), UNCHANGED oneAtATime
      PROVE  UNCHANGED Local(v) \/ Works(v)
  <2>1. CASE v = w
    BY <1>6, <2>1 DEF Works, Body
  <2>2. CASE v # w
    BY <1>6, <2>2, <1>0
       DEF Local, BodyTypeOK, Call, At, Goto, vars, tableVars
  <2> QED
    BY <2>1, <2>2
<1>7. ASSUME NEW w \in Workers, TakeAnswer(w), UNCHANGED oneAtATime
      PROVE  UNCHANGED Local(v) \/ Works(v)
  <2>1. CASE v = w
    BY <1>7, <2>1 DEF Works, Body
  <2>2. CASE v # w
    BY <1>7, <2>2, <1>0
       DEF Local, BodyTypeOK, TakeAnswer, At, Goto, vars, tableVars
  <2> QED
    BY <2>1, <2>2
<1>8. ASSUME NEW w \in Workers, Reply(w), UNCHANGED oneAtATime
      PROVE  UNCHANGED Local(v) \/ Works(v)
  <2>1. CASE v = w
    BY <1>8, <2>1 DEF Works, Body
  <2>2. CASE v # w
    BY <1>8, <2>2, <1>0
       DEF Local, BodyTypeOK, Reply, At, Goto, vars, tableVars
  <2> QED
    BY <2>1, <2>2
<1>9. ASSUME NEW w \in Workers, StorePort(w), UNCHANGED oneAtATime
      PROVE  UNCHANGED Local(v) \/ Works(v)
  <2>1. CASE v = w
    BY <1>9, <2>1 DEF Works, Body
  <2>2. CASE v # w
    BY <1>9, <2>2, <1>0
       DEF Local, BodyTypeOK, StorePort, StoreField, At, Goto, vars, peerVars
  <2> QED
    BY <2>1, <2>2
<1>10. ASSUME NEW w \in Workers, StoreCities(w), UNCHANGED oneAtATime
       PROVE  UNCHANGED Local(v) \/ Works(v)
  <2>1. CASE v = w
    BY <1>10, <2>1 DEF Works, Body
  <2>2. CASE v # w
    BY <1>10, <2>2, <1>0
       DEF Local, BodyTypeOK, StoreCities, StoreField, At, Goto, vars, peerVars
  <2> QED
    BY <2>1, <2>2
<1>11. ASSUME NEW w \in Workers, LoadCount(w), UNCHANGED oneAtATime
       PROVE  UNCHANGED Local(v) \/ Works(v)
  <2>1. CASE v = w
    BY <1>11, <2>1 DEF Works, Body
  <2>2. CASE v # w
    BY <1>11, <2>2, <1>0
       DEF Local, BodyTypeOK, LoadCount, At, Goto, vars, tableVars, peerVars
  <2> QED
    BY <2>1, <2>2
<1>12. ASSUME NEW w \in Workers, StoreCount(w), UNCHANGED oneAtATime
       PROVE  UNCHANGED Local(v) \/ Works(v)
  <2>1. CASE v = w
    BY <1>12, <2>1 DEF Works, Body
  <2>2. CASE v # w
    BY <1>12, <2>2, <1>0
       DEF Local, BodyTypeOK, StoreCount, At, Goto, vars, peerVars
  <2> QED
    BY <2>1, <2>2
<1>13. ASSUME UNCHANGED <<serving, step, i, found, total, seen, loaded>>
       PROVE  UNCHANGED Local(v) \/ Works(v)
  BY <1>13, <1>0 DEF Local, Works
<1> QED
  BY <1>1, <1>2, <1>3, <1>4, <1>5, <1>6, <1>7, <1>8, <1>9, <1>10, <1>11, <1>12,
     <1>13
     DEF Accept, TSNext, WorkerStep, Body, allVars, PeerConnect,
         serverVars, bodyVars, tableVars, peerVars, Listen, vars,
         Answer, ReadEof

LEMMA StoredStays ==
  ASSUME Basic, NEW s \in Servants, Stored(s), [TSNext]_allVars
  PROVE  Stored(s)'
<1>0. BodyTypeOK /\ HandoffInv /\ Roles
  BY DEF Basic, TSTypeOK
<1>1. ASSUME NEW w \in Workers, WorkerTake(w) PROVE Stored(s)'
  <2>1. PICK c : Starts(w, c)
    BY <1>1, TakeIsFresh DEF Basic, WorkerTake
  <2> QED
    BY <1>1, <1>0, <2>1
       DEF Stored, Starts, WorkerTake, serverVars, bodyVars, HandoffInv
<1>2. ASSUME NEW w \in Workers, WorkerFinish(w) PROVE Stored(s)'
  <2>1. taken' = taken /\ serving' = [serving EXCEPT ![w] = None]
        /\ step' = [step EXCEPT ![w] = "read"]
    BY <1>2 DEF WorkerFinish, Finish, Goto
  <2>2. s # None
    BY ServerAssumption
  <2> QED
    BY <1>0, <2>1, <2>2 DEF Stored, BodyTypeOK, HandoffInv, Elems
<1>3. ASSUME NEW w \in Workers, ReadRequest(w), UNCHANGED oneAtATime
      PROVE  Stored(s)'
  BY <1>3, <1>0
     DEF Stored, BodyTypeOK, Elems, ReadRequest, At, Goto, vars, tableVars,
         peerVars
<1>4. ASSUME NEW w \in Workers, NextServant(w), UNCHANGED oneAtATime
      PROVE  Stored(s)'
  BY <1>4, <1>0
     DEF Stored, BodyTypeOK, Elems, NextServant, At, Goto, vars, tableVars,
         peerVars
<1>5. ASSUME NEW w \in Workers, FindCity(w), UNCHANGED oneAtATime
      PROVE  Stored(s)'
  BY <1>5, <1>0
     DEF Stored, BodyTypeOK, Elems, FindCity, At, Goto, vars, tableVars,
         peerVars
<1>6. ASSUME NEW w \in Workers, Call(w), UNCHANGED oneAtATime PROVE Stored(s)'
  BY <1>6, <1>0
     DEF Stored, BodyTypeOK, Elems, Call, At, Goto, vars, tableVars
<1>7. ASSUME NEW w \in Workers, TakeAnswer(w), UNCHANGED oneAtATime
      PROVE  Stored(s)'
  BY <1>7, <1>0
     DEF Stored, BodyTypeOK, Elems, TakeAnswer, At, Goto, vars, tableVars
<1>8. ASSUME NEW w \in Workers, Reply(w), UNCHANGED oneAtATime PROVE Stored(s)'
  BY <1>8, <1>0
     DEF Stored, BodyTypeOK, Elems, Reply, At, Goto, vars, tableVars
<1>9. ASSUME NEW w \in Workers, StorePort(w), UNCHANGED oneAtATime
      PROVE  Stored(s)'
  BY <1>9, <1>0
     DEF Stored, BodyTypeOK, Elems, StorePort, StoreField, At, Goto, vars,
         peerVars
<1>10. ASSUME NEW w \in Workers, StoreCities(w), UNCHANGED oneAtATime
       PROVE  Stored(s)'
  BY <1>10, <1>0
     DEF Stored, BodyTypeOK, Elems, StoreCities, StoreField, At, Goto, vars,
         peerVars
<1>11. ASSUME NEW w \in Workers, LoadCount(w), UNCHANGED oneAtATime
       PROVE  Stored(s)'
  BY <1>11, <1>0
     DEF Stored, BodyTypeOK, Elems, LoadCount, At, Goto, vars, tableVars,
         peerVars
<1>12. ASSUME NEW w \in Workers, StoreCount(w), UNCHANGED oneAtATime
       PROVE  Stored(s)'
  BY <1>12, <1>0
     DEF Stored, BodyTypeOK, Elems, StoreCount, At, Goto, vars, peerVars
<1>13. ASSUME UNCHANGED <<taken, serving, step>> PROVE Stored(s)'
  BY <1>13, <1>0 DEF Stored, Elems
<1> QED
  BY <1>1, <1>2, <1>3, <1>4, <1>5, <1>6, <1>7, <1>8, <1>9, <1>10, <1>11, <1>12,
     <1>13
     DEF Accept, TSNext, WorkerStep, Body, allVars, PeerConnect,
         serverVars, bodyVars, tableVars, peerVars, Listen, vars,
         Answer, ReadEof

\* A servant whose worker is about to store its port has stored nothing yet.
LEMMA StoringIsFresh ==
  ASSUME Basic, NEW w \in Workers, At(w, "port")
  PROVE  serving[w] \in Servants /\ ~Stored(serving[w])
  BY DEF Basic, Roles, Registering, At, Stored

LEMMA PortsKeep ==
  ASSUME Basic, [TSNext]_allVars, NEW k \in Slots
  PROVE  \/ servantInfoList'[k].port = servantInfoList[k].port
         \/ /\ servantInfoList'[k].port \in Servants
            /\ ~Stored(servantInfoList'[k].port)
<1>1. ASSUME NEW w \in Workers, StorePort(w)
      PROVE  \/ servantInfoList'[k].port = servantInfoList[k].port
             \/ /\ servantInfoList'[k].port \in Servants
                /\ ~Stored(servantInfoList'[k].port)
  <2>1. serving[w] \in Servants /\ ~Stored(serving[w])
    BY <1>1, StoringIsFresh DEF StorePort, StoreField
  <2> QED
    BY <1>1, <2>1, StorePortFacts DEF Basic, TSTypeOK
<1>2. ASSUME NEW w \in Workers, StoreCities(w)
      PROVE  servantInfoList'[k].port = servantInfoList[k].port
  <2>1. serving[w] \in Servants
    BY <1>2 DEF Basic, Roles, Registering, StoreCities, StoreField, At
  <2> QED
    BY <1>2, <2>1, StoreCitiesFacts DEF Basic, TSTypeOK
<1>3. CASE servantInfoList' = servantInfoList
  BY <1>3
<1> QED
  BY <1>1, <1>2, <1>3
     DEF TSNext, WorkerStep, Body, allVars, WorkerTake, WorkerFinish,
         ReadRequest,
         NextServant, FindCity, Call, TakeAnswer, Reply, LoadCount, StoreCount,
         PeerConnect, Listen, Answer, ReadEof, serverVars, tableVars

-----------------------------------------------------------------------------
\* No servant is counted twice, though registrations may overlap: a servant's
\* port is stored in one slot only, and the loop over the slots has passed the
\* slot of every servant that is in its total.

PortInv ==
  \A j \in Slots : servantInfoList[j].port # NoPort =>
    /\ Stored(servantInfoList[j].port)
    /\ \A k \in Slots : servantInfoList[k].port = servantInfoList[j].port => k = j

ScanInv(w) ==
  \A s \in Servants :
    /\ total[w][s] <= 1
    /\ Searching(w) => total[w][s] = 0
    /\ Scanning(w) /\ total[w][s] # 0 =>
         Stored(s) /\ \A k \in Slots : k >= i[w] => servantInfoList[k].port # s
    /\ Scanning(w) /\ step[w] \in {"call", "await"} /\ found[w] = s =>
         /\ total[w][s] = 0
         /\ Stored(s) /\ \A k \in Slots : k > i[w] => servantInfoList[k].port # s

LEMMA PortInvStep ==
  ASSUME Basic, PortInv, [TSNext]_allVars
  PROVE  PortInv'
<1>0. TableTypeOK /\ HandoffInv /\ BodyTypeOK /\ \A s \in Servants : Stored(s) => Stored(s)'
  BY StoredStays DEF Basic, TSTypeOK
<1>1. ASSUME NEW w \in Workers, StorePort(w), NEW j \in Slots,
             servantInfoList'[j].port # NoPort
      PROVE  /\ Stored(servantInfoList[j].port)'
             /\ \A k \in Slots :
                  servantInfoList'[k].port = servantInfoList'[j].port => k = j
  <2> DEFINE s == serving[w]
  <2>1. s \in Servants /\ ~Stored(s)
    BY <1>1, StoringIsFresh DEF StorePort, StoreField
  <2>2. \A k \in Slots : servantInfoList'[k].port =
          IF k = servantCount THEN s ELSE servantInfoList[k].port
    BY <1>0, <1>1, <2>1, StorePortFacts
  <2>3. \A k \in Slots : servantInfoList[k].port # s
    BY <2>1, ServerAssumption DEF PortInv
  <2>4. s \in Elems(taken') /\ \A v \in Workers : serving'[v] = s => step'[v] \notin {"read", "port"}
    <3>1. s \in Elems(taken)
      BY <1>0, <1>1 DEF HandoffInv, StorePort, StoreField, At
    <3>2. taken' = taken /\ serving' = serving
          /\ step' = [step EXCEPT ![w] = "cities"] /\ s # None
      BY <1>1 DEF StorePort, StoreField, Goto, At, vars
    <3>3. \A v \in Workers : serving[v] = s => v = w
      BY <1>0, <3>2 DEF HandoffInv
    <3> QED
      BY <1>0, <3>1, <3>2, <3>3 DEF BodyTypeOK, Elems
  <2>5. servantInfoList'[j].port = s \/
        (servantInfoList[j].port # NoPort /\ servantInfoList'[j].port = servantInfoList[j].port)
    BY <1>1, <2>2
  <2>6. Stored(servantInfoList[j].port)'
    <3>1. CASE servantInfoList'[j].port = s
      BY <2>4, <3>1 DEF Stored
    <3>2. CASE servantInfoList[j].port # NoPort /\ servantInfoList'[j].port = servantInfoList[j].port
      <4> DEFINE t == servantInfoList[j].port
      <4>1. t \in Servants /\ Stored(t)
        BY <1>0, <3>2 DEF PortInv, TableTypeOK
      <4>2. \A u \in Servants : Stored(u) => u \in Elems(taken')
              /\ \A v \in Workers : serving'[v] = u => step'[v] \notin {"read", "port"}
        BY <1>0 DEF Stored
      <4> QED
        BY <3>2, <4>1, <4>2 DEF Stored
    <3> QED
      BY <2>5, <3>1, <3>2
  <2> QED
    BY <2>2, <2>3, <2>5, <2>6 DEF PortInv
<1>2. ASSUME \A j \in Slots : servantInfoList'[j].port = servantInfoList[j].port
      PROVE  PortInv'
  <2>1. \A u \in Servants : Stored(u) => u \in Elems(taken')
          /\ \A v \in Workers : serving'[v] = u => step'[v] \notin {"read", "port"}
    BY <1>0 DEF Stored
  <2>2. \A j \in Slots : servantInfoList[j].port \in Servants \cup {NoPort}
    BY <1>0 DEF TableTypeOK
  <2>3. ASSUME NEW j \in Slots, servantInfoList'[j].port # NoPort
        PROVE  /\ Stored(servantInfoList[j].port)'
               /\ \A k \in Slots :
                    servantInfoList'[k].port = servantInfoList'[j].port => k = j
    BY <1>2, <2>1, <2>2, <2>3 DEF PortInv, Stored
  <2> QED
    BY <2>3 DEF PortInv, Slots
<1>3. ASSUME NEW w \in Workers, StorePort(w) PROVE PortInv'
  BY <1>1, <1>3 DEF PortInv, Slots
<1>4. ASSUME NEW w \in Workers, StoreCities(w) PROVE PortInv'
  <2>1. serving[w] \in Servants
    BY <1>4 DEF Basic, Roles, Registering, StoreCities, StoreField, At
  <2> QED
    BY <1>0, <1>2, <1>4, <2>1, StoreCitiesFacts
<1>5. CASE servantInfoList' = servantInfoList
  BY <1>2, <1>5
<1> QED
  BY <1>3, <1>4, <1>5
     DEF TSNext, WorkerStep, Body, allVars, WorkerTake, WorkerFinish,
         ReadRequest,
         NextServant, FindCity, Call, TakeAnswer, Reply, LoadCount, StoreCount,
         PeerConnect, Listen, Answer, ReadEof, serverVars, tableVars

LEMMA ScanInvStep ==
  ASSUME Basic, PortInv, NEW v \in Workers, ScanInv(v), [TSNext]_allVars
  PROVE  ScanInv(v)'
<1> SUFFICES ASSUME NEW s \in Servants
    PROVE  /\ total'[v][s] <= 1
           /\ Searching(v)' => total'[v][s] = 0
           /\ Scanning(v)' /\ total'[v][s] # 0 =>
                Stored(s)' /\ \A k \in Slots : k >= i'[v] => servantInfoList'[k].port # s
           /\ Scanning(v)' /\ step'[v] \in {"call", "await"} /\ found'[v] = s =>
                /\ total'[v][s] = 0
                /\ Stored(s)' /\ \A k \in Slots : k > i'[v] => servantInfoList'[k].port # s
  BY DEF ScanInv, Slots
<1>0. /\ BodyTypeOK /\ Roles /\ serving \in [Workers -> Conns \cup {None}]
      /\ i[v] \in Nat /\ total[v][s] \in Nat /\ Nothing[s] = 0
      /\ \A k \in Nat : k < servantCount => k \in Slots
      /\ \A k \in Slots : k \in Nat
      /\ Conns = Clients \cup Servants /\ Clients \cap Servants = {} /\ None \notin Conns
  BY WithinSlots, ServerAssumption
     DEF Basic, TSTypeOK, HandoffInv, BodyTypeOK, Nothing, Slots
<1>a. Stored(s) => Stored(s)'
  BY StoredStays
<1>b. ASSUME NEW k \in Slots, Stored(s), servantInfoList[k].port # s
      PROVE  servantInfoList'[k].port # s
  BY <1>b, PortsKeep
<1>c. /\ total[v][s] <= 1
      /\ Searching(v) => total[v][s] = 0
      /\ Scanning(v) /\ total[v][s] # 0 =>
           Stored(s) /\ \A k \in Slots : k >= i[v] => servantInfoList[k].port # s
      /\ Scanning(v) /\ step[v] \in {"call", "await"} /\ found[v] = s =>
           /\ total[v][s] = 0
           /\ Stored(s) /\ \A k \in Slots : k > i[v] => servantInfoList[k].port # s
  BY DEF ScanInv
<1>1. CASE UNCHANGED Local(v)
  BY <1>1, <1>a, <1>b, <1>c DEF Local, Scanning, Searching
<1>2. CASE WorkerTake(v)
  <2>1. serving[v] = None
    BY <1>2, TakeIsFresh DEF Basic, WorkerTake, Starts
  <2>2. step[v] = "read" /\ step' = step /\ total' = total
    BY <1>2, <1>0, <2>1 DEF Roles, WorkerTake, serverVars, bodyVars
  <2> QED
    BY <1>c, <2>2 DEF Scanning, Searching
<1>3. CASE WorkerFinish(v)
  BY <1>3, <1>0, <1>a, <1>b, <1>c
     DEF BodyTypeOK, Roles, Scanning, Searching, WorkerFinish, Finish, Goto,
         tableVars, peerVars
<1>4. CASE ReadRequest(v)
  BY <1>4, <1>0, <1>a, <1>b, <1>c
     DEF BodyTypeOK, Roles, Scanning, Searching, ReadRequest, At, Goto, vars,
         tableVars, peerVars
<1>5. CASE NextServant(v)
  <2>1. CASE i[v] < servantCount
    <3>1. found'[v] = servantInfoList[i[v]].port /\ i[v] \in Slots
      BY <1>5, <1>0, <2>1 DEF NextServant, BodyTypeOK
    <3>2. found'[v] = s => Stored(s) /\ \A k \in Slots : k # i[v] => servantInfoList[k].port # s
      <4>1. s # NoPort
        BY ServerAssumption
      <4> QED
        BY <3>1, <4>1 DEF PortInv
    <3> QED
      BY <1>5, <1>0, <1>a, <1>b, <1>c, <2>1, <3>1, <3>2
         DEF NextServant, At, Goto, BodyTypeOK, Roles, Scanning, Searching,
             vars, tableVars
  <2>2. CASE ~(i[v] < servantCount)
    BY <1>5, <1>0, <1>a, <1>b, <1>c, <2>2
       DEF NextServant, At, Goto, BodyTypeOK, Roles, Scanning, Searching, vars,
           tableVars
  <2> QED
    BY <2>1, <2>2
<1>6. CASE FindCity(v)
  BY <1>6, <1>0, <1>a, <1>b, <1>c
     DEF BodyTypeOK, Roles, Scanning, Searching, FindCity, At, Goto, vars,
         tableVars, peerVars
<1>7. CASE Call(v)
  BY <1>7, <1>0, <1>a, <1>b, <1>c
     DEF BodyTypeOK, Roles, Scanning, Searching, Call, At, Goto, vars, tableVars
<1>8. CASE TakeAnswer(v)
  <2>1. total'[v][s] = IF found[v] = s THEN total[v][s] + 1 ELSE total[v][s]
    BY <1>8, <1>0 DEF TakeAnswer, BodyTypeOK
  <2>2. CASE wants[serving[v]] = Empty
    BY <1>8, <1>0, <1>a, <1>b, <1>c, <2>1, <2>2
       DEF TakeAnswer, At, Goto, BodyTypeOK, Scanning, Searching, vars,
           tableVars
  <2>3. CASE wants[serving[v]] # Empty
    BY <1>8, <1>0, <1>c, <2>1, <2>3
       DEF TakeAnswer, At, Goto, BodyTypeOK, Scanning, Searching, vars,
           tableVars
  <2> QED
    BY <2>2, <2>3
<1>9. CASE Reply(v)
  BY <1>9, <1>0, <1>a, <1>b, <1>c
     DEF BodyTypeOK, Roles, Scanning, Searching, Reply, At, Goto, vars,
         tableVars
<1>10. CASE StorePort(v)
  BY <1>10, <1>0, <1>a, <1>b, <1>c
     DEF BodyTypeOK, Roles, Scanning, Searching, StorePort, StoreField, At,
         Goto, vars, peerVars
<1>11. CASE StoreCities(v)
  BY <1>11, <1>0, <1>a, <1>b, <1>c
     DEF BodyTypeOK, Roles, Scanning, Searching, StoreCities, StoreField, At,
         Goto, vars, peerVars
<1>12. CASE LoadCount(v)
  BY <1>12, <1>0, <1>a, <1>b, <1>c
     DEF BodyTypeOK, Roles, Scanning, Searching, LoadCount, At, Goto, vars,
         tableVars, peerVars
<1>13. CASE StoreCount(v)
  BY <1>13, <1>0, <1>a, <1>b, <1>c
     DEF BodyTypeOK, Roles, Scanning, Searching, StoreCount, At, Goto, vars,
         peerVars
<1> QED
  BY <1>1, <1>2, <1>3, <1>4, <1>5, <1>6, <1>7, <1>8, <1>9, <1>10, <1>11, <1>12,
     <1>13, Focus
     DEF Works, Body

LEMMA NoServantTwiceStep ==
  ASSUME Basic, \A w \in Workers : ScanInv(w), NoServantTwice, [TSNext]_allVars
  PROVE  NoServantTwice'
<1>1. ASSUME NEW w \in Workers, Reply(w) PROVE NoServantTwice'
  <2>1. \A s \in Servants : total[w][s] <= 1
    BY DEF ScanInv
  <2>2. reply' = [reply EXCEPT ![serving[w]] = total[w]]
        /\ reply \in [Clients -> {None, Eof} \cup [Servants -> Nat]]
    BY <1>1 DEF Reply, Basic, TSTypeOK, PeerTypeOK
  <2> QED
    BY <2>1, <2>2 DEF NoServantTwice
<1>2. ASSUME NEW c \in Clients, ReadEof(c) PROVE NoServantTwice'
  <2>1. reply' = [reply EXCEPT ![c] = Eof]
        /\ reply \in [Clients -> {None, Eof} \cup [Servants -> Nat]]
    BY <1>2 DEF ReadEof, Basic, TSTypeOK, PeerTypeOK
  <2> QED
    BY <2>1 DEF NoServantTwice
<1>3. CASE reply' = reply
  BY <1>3 DEF NoServantTwice
<1> QED
  BY <1>1, <1>2, <1>3
     DEF TSNext, WorkerStep, Body, allVars, WorkerTake, WorkerFinish,
         ReadRequest,
         NextServant, FindCity, Call, TakeAnswer, StorePort, StoreCities, StoreField,
         LoadCount, StoreCount, PeerConnect, Listen, Answer, serverVars, peerVars

TwiceInv == Basic /\ PortInv /\ (\A w \in Workers : ScanInv(w)) /\ NoServantTwice

LEMMA TwiceInvHolds == TSSpec => []TwiceInv
<1>1. TSInit => TwiceInv
  <2> SUFFICES ASSUME TSInit PROVE TwiceInv
    OBVIOUS
  <2>1. PortInv
    BY DEF TSInit, PortInv, FreeSlot
  <2>2. \A w \in Workers : ScanInv(w)
    BY DEF TSInit, ScanInv, Scanning, Searching, Nothing
  <2>3. NoServantTwice
    BY DEF TSInit, NoServantTwice
  <2> QED
    BY <2>1, <2>2, <2>3, BasicInit DEF TwiceInv
<1>2. TwiceInv /\ [TSNext]_allVars => TwiceInv'
  <2> SUFFICES ASSUME TwiceInv, [TSNext]_allVars PROVE TwiceInv'
    OBVIOUS
  <2>1. Basic /\ PortInv /\ (\A w \in Workers : ScanInv(w)) /\ NoServantTwice
    BY DEF TwiceInv
  <2>2. Basic' /\ PortInv' /\ NoServantTwice'
    BY <2>1, BasicStep, PortInvStep, NoServantTwiceStep
  <2>3. ASSUME NEW w \in Workers PROVE ScanInv(w)'
    BY <2>1, ScanInvStep
  <2> QED
    BY <2>2, <2>3 DEF TwiceInv
<1> QED
  BY <1>1, <1>2, PTL DEF TSSpec

\* No client is told a total in which a servant counts twice, however the
\* registrations, which hold no mutex, overlap with each other and with the
\* loop of the worker that adds up the answers.
THEOREM EachServantOnce == TSSpec => []NoServantTwice
<1>1. TwiceInv => NoServantTwice
  BY DEF TwiceInv
<1> QED
  BY <1>1, TwiceInvHolds, PTL

-----------------------------------------------------------------------------
\* Servants started one after the other: at most one registration is under
\* way, it owns the slot behind the counted ones, and the counted slots are
\* the processed registrations.

Kept(n) ==
  /\ n = Cardinality(registered)
  /\ \A k \in Slots : k < n =>
       /\ servantInfoList[k].port \in registered
       /\ servantInfoList[k].cities = servantInfoList[k].port
  /\ \A s \in registered : \E k \in Slots : k < n /\ servantInfoList[k].port = s

OneRegisters ==
  \A s, t \in Servants \ registered :
    s \in Elems(accepted) /\ t \in Elems(accepted) => s = t

HalfDone(w) ==
  /\ step[w] \in {"cities", "load", "store"} =>
       servantInfoList[servantCount].port = serving[w]
  /\ step[w] \in {"load", "store"} =>
       servantInfoList[servantCount].cities = serving[w]
  /\ step[w] = "store" => loaded[w] = servantCount

Serial == Kept(servantCount) /\ OneRegisters /\ \A w \in Workers : HalfDone(w)

\* At most one worker registers a servant, and there is a slot for it.
LEMMA RegistersAlone ==
  ASSUME Basic, OneRegisters, Kept(servantCount),
         NEW w \in Workers, Registering(w), serving[w] # None
  PROVE  /\ serving[w] \in Servants \ registered
         /\ servantCount \in Slots
         /\ \A v \in Workers : Registering(v) => v = w
<1>1. ASSUME NEW v \in Workers, Registering(v)
      PROVE  serving[v] \in Servants \ registered /\ serving[v] \in Elems(accepted)
  <2>1. serving[v] \in Servants /\ serving[v] \notin registered
    BY <1>1 DEF Basic, Roles, Counts, Registering
  <2>2. serving[v] \in Elems(taken)
    BY <2>1, ServerAssumption DEF Basic, HandoffInv
  <2> QED
    BY <2>1, <2>2, TakenIsAccepted DEF Basic
<1>2. \A v \in Workers : Registering(v) => v = w
  BY <1>1 DEF OneRegisters, Basic, HandoffInv
<1>3. serving[w] \in Servants \ registered
  BY <1>1
<1>4. servantCount \in Nat /\ servantCount < Size /\ Size \in Nat
  BY <1>3, WithinSlots, Sizes DEF Kept
<1>5. servantCount \in Slots
  BY <1>4 DEF Slots, Size
<1> QED
  BY <1>2, <1>3, <1>5

\* The counted slots never change, and the counter never falls.
LEMMA TableGrows ==
  ASSUME Basic, OneRegisters, Kept(servantCount), \A w \in Workers : HalfDone(w),
         [TSNext]_allVars
  PROVE  /\ servantCount <= servantCount' /\ registered \subseteq registered'
         /\ \A k \in Slots : k < servantCount =>
              /\ servantInfoList'[k].port = servantInfoList[k].port
              /\ servantInfoList'[k].cities = servantInfoList[k].cities
<1>0. TableTypeOK /\ servantCount \in Nat /\ \A k \in Slots : k \in Nat
  BY WithinSlots DEF Basic, TSTypeOK, Slots
<1>1. ASSUME NEW w \in Workers, StorePort(w) \/ StoreCities(w)
      PROVE  /\ servantCount' = servantCount /\ registered' = registered
             /\ \A k \in Slots : k < servantCount =>
                  /\ servantInfoList'[k].port = servantInfoList[k].port
                  /\ servantInfoList'[k].cities = servantInfoList[k].cities
  <2>1. serving[w] \in Servants
    BY <1>1
       DEF Basic, Roles, Registering, StorePort, StoreCities, StoreField, At
  <2>2. servantCount' = servantCount /\ registered' = registered
    BY <1>1 DEF StorePort, StoreCities, StoreField
  <2> QED
    BY <1>0, <1>1, <2>1, <2>2, StorePortFacts, StoreCitiesFacts
<1>2. ASSUME NEW w \in Workers, StoreCount(w)
      PROVE  /\ servantInfoList' = servantInfoList
             /\ servantCount' = servantCount + 1 /\ registered \subseteq registered'
  BY <1>0, <1>2 DEF StoreCount, At, HalfDone
<1>3. CASE UNCHANGED tableVars
  BY <1>0, <1>3 DEF tableVars
<1> QED
  BY <1>0, <1>1, <1>2, <1>3
     DEF TSNext, WorkerStep, Body, allVars, WorkerTake, WorkerFinish,
         ReadRequest,
         NextServant, FindCity, Call, TakeAnswer, Reply, LoadCount,
         PeerConnect, Listen, Answer, ReadEof, serverVars, tableVars

LEMMA KeptStep ==
  ASSUME Basic, Serial, [TSNext]_allVars
  PROVE  Kept(servantCount)'
<1>0. /\ TableTypeOK /\ servantCount \in Nat /\ \A k \in Slots : k \in Nat
      /\ Kept(servantCount) /\ OneRegisters /\ \A w \in Workers : HalfDone(w)
  BY WithinSlots DEF Basic, TSTypeOK, Slots, Serial
<1>1. ASSUME NEW w \in Workers, StoreCount(w) PROVE Kept(servantCount)'
  <2>0. At(w, "store")
    BY <1>1 DEF StoreCount
  <2>1. serving[w] \in Servants \ registered /\ servantCount \in Slots
    BY <1>0, <2>0, RegistersAlone DEF At, Registering
  <2>2. /\ servantInfoList[servantCount].port = serving[w]
        /\ servantInfoList[servantCount].cities = serving[w]
        /\ loaded[w] = servantCount
    BY <1>0, <2>0 DEF HalfDone, At
  <2>3. /\ servantInfoList' = servantInfoList /\ servantCount' = servantCount + 1
        /\ registered' = registered \cup {serving[w]}
    BY <1>1, <2>2 DEF StoreCount
  <2>4. servantCount' = Cardinality(registered')
    BY <1>0, <2>1, <2>3, Sizes DEF Kept, TableTypeOK
  <2>5. \A k \in Slots : k < servantCount' => k < servantCount \/ k = servantCount
    BY <1>0, <2>3
  <2>6. \A k \in Slots : k < servantCount' =>
          /\ servantInfoList'[k].port \in registered'
          /\ servantInfoList'[k].cities = servantInfoList'[k].port
    BY <1>0, <2>2, <2>3, <2>5 DEF Kept
  <2>7. \A s \in registered' :
          \E k \in Slots : k < servantCount' /\ servantInfoList'[k].port = s
    <3>1. \A s \in registered :
            \E k \in Slots : k < servantCount' /\ servantInfoList'[k].port = s
      BY <1>0, <2>3 DEF Kept
    <3>2. servantCount < servantCount' /\ servantInfoList'[servantCount].port = serving[w]
      BY <1>0, <2>2, <2>3
    <3> QED
      BY <2>1, <2>3, <3>1, <3>2
  <2> QED
    BY <2>4, <2>6, <2>7 DEF Kept, Slots
<1>2. ASSUME servantCount' = servantCount, registered' = registered
      PROVE  Kept(servantCount)'
  <2>1. \A k \in Slots : k < servantCount =>
          /\ servantInfoList'[k].port = servantInfoList[k].port
          /\ servantInfoList'[k].cities = servantInfoList[k].cities
    BY <1>0, TableGrows
  <2> QED
    BY <1>0, <1>2, <2>1 DEF Kept, Slots
<1> QED
  BY <1>1, <1>2
     DEF TSNext, WorkerStep, Body, allVars, WorkerTake, WorkerFinish,
         ReadRequest,
         NextServant, FindCity, Call, TakeAnswer, Reply, StorePort, StoreCities,
         StoreField, LoadCount, PeerConnect, Listen, Answer, ReadEof, serverVars,
         tableVars

LEMMA OneRegistersStep ==
  ASSUME Basic, Serial, oneAtATime, [TSNext]_allVars
  PROVE  OneRegisters'
<1>0. OneRegisters /\ HandoffInv /\ registered \subseteq registered'
  BY TableGrows DEF Serial, Basic
<1>1. ASSUME NEW c \in Conns, PeerConnect(c) PROVE OneRegisters'
  <2>1. Arrives(c) /\ registered' = registered
    BY <1>0, <1>1, AcceptIsFresh DEF PeerConnect, serverVars, tableVars
  <2>2. c \in Servants => \A s \in Servants : s \in Elems(accepted) => s \in registered
    BY <1>1 DEF PeerConnect
  <2> QED
    BY <1>0, <2>1, <2>2 DEF OneRegisters, Arrives
<1>2. ASSUME accepted' = accepted PROVE OneRegisters'
  BY <1>0, <1>2 DEF OneRegisters, Elems
<1> QED
  BY <1>1, <1>2
     DEF TSNext, WorkerStep, Body, allVars, WorkerTake, Take, WorkerFinish,
         Finish,
         ReadRequest, NextServant, FindCity, Call, TakeAnswer, Reply, StorePort,
         StoreCities, StoreField, LoadCount, StoreCount, Listen, Answer, ReadEof, vars

LEMMA HalfDoneStep ==
  ASSUME Basic, Serial, NEW v \in Workers, [TSNext]_allVars
  PROVE  HalfDone(v)'
<1>0. /\ TableTypeOK /\ BodyTypeOK /\ Roles
      /\ Kept(servantCount) /\ OneRegisters /\ HalfDone(v)
  BY DEF Basic, TSTypeOK, Serial
<1>1. CASE WorkerTake(v)
  <2>1. step'[v] = "read"
    BY <1>0, <1>1, TakeIsFresh
       DEF Basic, WorkerTake, Starts, Roles, serverVars, bodyVars
  <2> QED
    BY <2>1 DEF HalfDone
<1>2. CASE WorkerFinish(v) \/ ReadRequest(v) \/ NextServant(v) \/ FindCity(v)
           \/ Call(v) \/ TakeAnswer(v) \/ Reply(v) \/ StoreCount(v)
  <2>1. step'[v] \notin {"cities", "load", "store"}
    BY <1>0, <1>2
       DEF BodyTypeOK, WorkerFinish, ReadRequest, NextServant, FindCity, Call,
           TakeAnswer, Reply, StoreCount, Goto, At
  <2> QED
    BY <2>1 DEF HalfDone
<1>3. CASE StorePort(v)
  <2>1. serving[v] \in Servants /\ servantCount \in Slots
    BY <1>0, <1>3, RegistersAlone DEF StorePort, StoreField, At, Registering
  <2>2. step'[v] = "cities" /\ serving' = serving /\ servantCount' = servantCount
    BY <1>0, <1>3 DEF StorePort, StoreField, Goto, BodyTypeOK, vars
  <2>3. servantInfoList'[servantCount].port = serving[v]
    BY <1>0, <1>3, <2>1, StorePortFacts
  <2> QED
    BY <2>2, <2>3 DEF HalfDone
<1>4. CASE StoreCities(v)
  <2>1. serving[v] \in Servants /\ servantCount \in Slots
    BY <1>0, <1>4, RegistersAlone DEF StoreCities, StoreField, At, Registering
  <2>2. step'[v] = "load" /\ serving' = serving /\ servantCount' = servantCount
    BY <1>0, <1>4 DEF StoreCities, StoreField, Goto, BodyTypeOK, vars
  <2>3. servantInfoList[servantCount].port = serving[v]
    BY <1>0, <1>4 DEF HalfDone, StoreCities, StoreField, At
  <2>4. /\ servantInfoList'[servantCount].port = serving[v]
        /\ servantInfoList'[servantCount].cities = serving[v]
    BY <1>0, <1>4, <2>1, <2>3, StoreCitiesFacts
  <2> QED
    BY <2>2, <2>4 DEF HalfDone
<1>5. CASE LoadCount(v)
  BY <1>0, <1>5 DEF LoadCount, At, Goto, BodyTypeOK, HalfDone, vars, tableVars
<1>6. CASE UNCHANGED Local(v)
  <2>1. CASE ~Registering(v)
    BY <1>6, <2>1 DEF HalfDone, Local, Registering
  <2>2. CASE Registering(v)
    <3>1. serving[v] # None
      BY <1>0, <2>2 DEF Roles, Registering
    <3>2. \A w \in Workers : Registering(w) => w = v
      BY <1>0, <2>2, <3>1, RegistersAlone
    <3>3. ASSUME NEW w \in Workers, StorePort(w) \/ StoreCities(w) \/ StoreCount(w)
          PROVE  FALSE
      <4>1. w = v
        BY <3>2, <3>3
           DEF StorePort, StoreCities, StoreField, StoreCount, At, Registering
      <4>2. step'[v] # step[v]
        BY <1>0, <3>3, <4>1
           DEF StorePort, StoreCities, StoreField, StoreCount, At, Goto,
               BodyTypeOK
      <4> QED
        BY <1>6, <4>2 DEF Local
    <3>4. UNCHANGED tableVars
      BY <3>3
         DEF TSNext, WorkerStep, Body, allVars, WorkerTake, WorkerFinish,
             ReadRequest,
             NextServant, FindCity, Call, TakeAnswer, Reply, LoadCount,
             PeerConnect, Listen, Answer, ReadEof, serverVars, tableVars
    <3> QED
      BY <1>0, <1>6, <3>4 DEF HalfDone, Local, tableVars
  <2> QED
    BY <2>1, <2>2
<1> QED
  BY <1>1, <1>2, <1>3, <1>4, <1>5, <1>6, Focus
     DEF Works, Body

LEMMA ModeStays ==
  ASSUME [TSNext]_allVars
  PROVE  oneAtATime' = oneAtATime
  BY DEF TSNext, WorkerStep, Body, allVars, WorkerTake, WorkerFinish,
         PeerConnect, Listen, Answer, ReadEof, serverVars

SerialInv == Basic /\ (oneAtATime => Serial)

LEMMA SerialInvHolds == TSSpec => []SerialInv
<1>1. TSInit => SerialInv
  <2> SUFFICES ASSUME TSInit PROVE SerialInv
    OBVIOUS
  <2>1. Kept(servantCount)
    BY FS_EmptySet DEF TSInit, Kept, Slots
  <2>2. OneRegisters /\ \A w \in Workers : HalfDone(w)
    BY DEF TSInit, Init, OneRegisters, HalfDone, Elems
  <2> QED
    BY <2>1, <2>2, BasicInit DEF SerialInv, Serial
<1>2. SerialInv /\ [TSNext]_allVars => SerialInv'
  <2> SUFFICES ASSUME SerialInv, [TSNext]_allVars PROVE SerialInv'
    OBVIOUS
  <2>1. Basic /\ Basic' /\ oneAtATime' = oneAtATime
    BY BasicStep, ModeStays DEF SerialInv
  <2>2. ASSUME oneAtATime PROVE Serial'
    <3>1. Serial
      BY <2>2 DEF SerialInv
    <3>2. Kept(servantCount)' /\ OneRegisters'
      BY <2>1, <2>2, <3>1, KeptStep, OneRegistersStep
    <3>3. ASSUME NEW w \in Workers PROVE HalfDone(w)'
      BY <2>1, <3>1, HalfDoneStep
    <3> QED
      BY <3>2, <3>3 DEF Serial
  <2> QED
    BY <2>1, <2>2 DEF SerialInv
<1> QED
  BY <1>1, <1>2, PTL DEF TSSpec

\* The counted slots are exactly the processed registrations, each with the
\* cities of the servant whose port it holds, when the servants start one
\* after the other: no registration is lost or torn.
THEOREM RegistrationsKept == TSSpec => []RegistrationKept
<1>1. SerialInv => RegistrationKept
  <2> SUFFICES ASSUME SerialInv, oneAtATime
               PROVE  {servantInfoList[k] : k \in {n \in Slots : n < servantCount}}
                        = {[port |-> s, cities |-> s] : s \in registered}
    BY DEF RegistrationKept
  <2>1. Kept(servantCount) /\ TableTypeOK
    BY DEF SerialInv, Serial, Basic, TSTypeOK
  <2>2. ASSUME NEW k \in Slots, k < servantCount
        PROVE  servantInfoList[k] =
                 [port |-> servantInfoList[k].port, cities |-> servantInfoList[k].port]
    <3>1. servantInfoList[k] \in
            [port : Servants \cup {NoPort}, cities : Servants \cup {None}]
      BY <2>1 DEF TableTypeOK
    <3>2. servantInfoList[k].cities = servantInfoList[k].port
      BY <2>1, <2>2 DEF Kept
    <3> QED
      BY <3>1, <3>2
  <2>3. \A k \in Slots : k < servantCount => servantInfoList[k].port \in registered
    BY <2>1 DEF Kept
  <2>4. \A s \in registered :
          \E k \in Slots : k < servantCount /\ servantInfoList[k].port = s
    BY <2>1 DEF Kept
  <2> DEFINE Pair(s) == [port |-> s, cities |-> s]
  <2>5. ASSUME NEW k \in Slots, k < servantCount
        PROVE  \E s \in registered : servantInfoList[k] = Pair(s)
    BY <2>2, <2>3, <2>5
  <2>6. ASSUME NEW s \in registered
        PROVE  \E k \in Slots : k < servantCount /\ servantInfoList[k] = Pair(s)
    <3>1. PICK k \in Slots : k < servantCount /\ servantInfoList[k].port = s
      BY <2>4
    <3>2. servantInfoList[k] = Pair(s)
      BY <2>2, <3>1
    <3> QED
      BY <3>1, <3>2
  <2> HIDE DEF Pair
  <2>7. {servantInfoList[k] : k \in {n \in Slots : n < servantCount}}
          = {Pair(s) : s \in registered}
    BY <2>5, <2>6
  <2> QED
    BY <2>7 DEF Pair
<1> QED
  BY <1>1, SerialInvHolds, PTL

-----------------------------------------------------------------------------
\* What the answers say, when the servants start one after the other.

\* The servant asked is a registered one, and holds the city if one was named.
FoundInv(w) ==
  /\ step[w] \in {"call", "await"} => found[w] \in registered
  /\ Searching(w) /\ found[w] # None =>
       found[w] \in registered /\ wants[serving[w]] \in holds[found[w]]
  /\ step[w] = "reply" /\ wants[serving[w]] # Empty =>
       \E s \in Servants : /\ wants[serving[w]] \in holds[s]
                           /\ total[w] = [Nothing EXCEPT ![s] = 1]

\* The servants that had registered when the request was read are in the total
\* or in the slots still ahead.
CoverInv(w) ==
  /\ seen[w] \subseteq registered
  /\ Scanning(w) => \A s \in seen[w] :
       \/ total[w][s] = 1
       \/ \E k \in Slots : i[w] <= k /\ k < servantCount /\ servantInfoList[k].port = s
  /\ Scanning(w) /\ step[w] \in {"call", "await"} =>
       i[w] < servantCount /\ servantInfoList[i[w]].port = found[w]
  /\ step[w] = "reply" /\ wants[serving[w]] = Empty =>
       \A s \in seen[w] : total[w][s] = 1

LEMMA FoundInvStep ==
  ASSUME Basic, Serial, NEW v \in Workers, ScanInv(v), FoundInv(v), [TSNext]_allVars
  PROVE  FoundInv(v)'
<1>0. /\ BodyTypeOK /\ TableTypeOK /\ Roles
      /\ \A k \in Nat : k < servantCount =>
           /\ servantInfoList[k].port \in registered
           /\ servantInfoList[k].cities = servantInfoList[k].port
      /\ registered \subseteq registered' /\ i[v] \in Nat /\ None \notin Servants
      /\ found[v] \in Servants \cup {None, NoPort} /\ NoPort # None
      /\ NoPort \notin Servants
  <2>1. \A k \in Nat : k < servantCount => k \in Slots
    BY WithinSlots
  <2>2. None \notin Servants /\ NoPort # None /\ NoPort \notin Servants
    BY ServerAssumption
  <2>3. BodyTypeOK /\ TableTypeOK /\ Roles
    BY DEF Basic, TSTypeOK
  <2>4. i[v] \in Nat /\ found[v] \in Servants \cup {None, NoPort}
    BY <2>3 DEF BodyTypeOK
  <2>5. \A k \in Nat : k < servantCount =>
           /\ servantInfoList[k].port \in registered
           /\ servantInfoList[k].cities = servantInfoList[k].port
    BY <2>1 DEF Serial, Kept
  <2>6. registered \subseteq registered'
    BY TableGrows DEF Serial
  <2> QED
    BY <2>2, <2>3, <2>4, <2>5, <2>6
<1>1. CASE UNCHANGED Local(v)
  BY <1>0, <1>1 DEF FoundInv, Local, Searching
<1>2. CASE WorkerTake(v)
  <2>1. step'[v] = "read"
    BY <1>0, <1>2, TakeIsFresh
       DEF Basic, WorkerTake, Starts, Roles, serverVars, bodyVars
  <2> QED
    BY <2>1 DEF FoundInv, Searching
<1>3. CASE WorkerFinish(v)
  BY <1>3, <1>0
     DEF FoundInv, BodyTypeOK, Roles, Searching, WorkerFinish, Finish, Goto,
         tableVars, peerVars
<1>4. CASE ReadRequest(v)
  BY <1>4, <1>0
     DEF FoundInv, BodyTypeOK, Roles, Searching, ReadRequest, At, Goto, vars,
         tableVars, peerVars
<1>5. CASE NextServant(v)
  BY <1>5, <1>0
     DEF FoundInv, BodyTypeOK, Roles, Searching, NextServant, At, Goto, vars,
         tableVars, peerVars
<1>6. CASE FindCity(v)
  BY <1>6, <1>0
     DEF FoundInv, BodyTypeOK, Roles, Searching, FindCity, At, Goto, vars,
         tableVars, peerVars
<1>7. CASE Call(v)
  BY <1>7, <1>0
     DEF FoundInv, BodyTypeOK, Roles, Searching, Call, At, Goto, vars, tableVars
<1>8. CASE TakeAnswer(v)
  <2>1. serving' = serving /\ step[v] = "await"
    BY <1>8 DEF TakeAnswer, At, vars
  <2>2. CASE wants[serving[v]] = Empty
    BY <1>0, <1>8, <2>1, <2>2
       DEF FoundInv, Searching, TakeAnswer, Goto, BodyTypeOK
  <2>3. CASE wants[serving[v]] # Empty
    <3>1. found[v] \in Servants /\ wants[serving[v]] \in holds[found[v]]
      BY <1>0, <2>1, <2>3 DEF FoundInv, Searching, TableTypeOK
    <3>2. \A s \in Servants : total[v][s] = 0
      BY <2>1, <2>3 DEF ScanInv, Searching
    <3>3. total[v] = Nothing /\ total[v][found[v]] = 0
      BY <1>0, <3>1, <3>2 DEF BodyTypeOK, Nothing
    <3>4. total'[v] = [Nothing EXCEPT ![found[v]] = 1]
      BY <1>0, <1>8, <3>3 DEF TakeAnswer, BodyTypeOK
    <3>5. step'[v] = "reply"
      BY <1>0, <1>8, <2>3 DEF TakeAnswer, Goto, BodyTypeOK
    <3> QED
      BY <2>1, <3>1, <3>4, <3>5 DEF FoundInv, Searching
  <2> QED
    BY <2>2, <2>3
<1>9. CASE Reply(v)
  BY <1>9, <1>0
     DEF FoundInv, BodyTypeOK, Roles, Searching, Reply, At, Goto, vars,
         tableVars
<1>10. CASE StorePort(v)
  BY <1>10, <1>0
     DEF FoundInv, BodyTypeOK, Roles, Searching, StorePort, StoreField, At,
         Goto, vars, peerVars
<1>11. CASE StoreCities(v)
  BY <1>11, <1>0
     DEF FoundInv, BodyTypeOK, Roles, Searching, StoreCities, StoreField, At,
         Goto, vars, peerVars
<1>12. CASE LoadCount(v)
  BY <1>12, <1>0
     DEF FoundInv, BodyTypeOK, Roles, Searching, LoadCount, At, Goto, vars,
         tableVars, peerVars
<1>13. CASE StoreCount(v)
  BY <1>13, <1>0
     DEF FoundInv, BodyTypeOK, Roles, Searching, StoreCount, At, Goto, vars,
         peerVars
<1> QED
  BY <1>1, <1>2, <1>3, <1>4, <1>5, <1>6, <1>7, <1>8, <1>9, <1>10, <1>11, <1>12,
     <1>13, Focus
     DEF Works, Body

LEMMA CoverInvStep ==
  ASSUME Basic, Serial, NEW v \in Workers, ScanInv(v), CoverInv(v), [TSNext]_allVars
  PROVE  CoverInv(v)'
<1>0. /\ BodyTypeOK /\ TableTypeOK /\ Roles /\ Kept(servantCount)
      /\ \A k \in Slots : k < servantCount =>
           servantInfoList'[k].port = servantInfoList[k].port
      /\ servantCount <= servantCount' /\ servantCount \in Nat /\ servantCount' \in Nat
      /\ registered \subseteq registered' /\ registered \subseteq Servants
      /\ i[v] \in Nat /\ \A s \in Servants : total[v][s] \in Nat
      /\ \A k \in Slots : k \in Nat
      /\ seen[v] \subseteq registered
  <2>1. servantCount' \in Nat
    BY BasicStep DEF Basic, TSTypeOK, TableTypeOK
  <2> QED
    BY <2>1, TableGrows
       DEF Basic, TSTypeOK, BodyTypeOK, TableTypeOK, Serial, Slots, CoverInv
<1>a. ASSUME NEW s, NEW n \in Nat,
             \E k \in Slots : n <= k /\ k < servantCount /\ servantInfoList[k].port = s
      PROVE  \E k \in Slots : n <= k /\ k < servantCount' /\ servantInfoList'[k].port = s
  <2>1. PICK k \in Slots : n <= k /\ k < servantCount /\ servantInfoList[k].port = s
    BY <1>a
  <2> QED
    BY <1>0, <2>1
<1>1. CASE UNCHANGED Local(v)
  <2>1. Scanning(v)' = Scanning(v)
    BY <1>1 DEF Scanning, Local
  <2>2. Scanning(v) /\ step[v] \in {"call", "await"} => i[v] \in Slots /\ i[v] < servantCount
    BY <1>0 DEF Scanning, Roles, CoverInv
  <2>3. i'[v] = i[v] /\ total'[v] = total[v] /\ seen'[v] = seen[v] /\ found'[v] = found[v]
        /\ step'[v] = step[v] /\ serving'[v] = serving[v]
    BY <1>1 DEF Local
  <2>4. Scanning(v) => \A s \in seen[v] :
          \/ total'[v][s] = 1
          \/ \E k \in Slots : i[v] <= k /\ k < servantCount' /\ servantInfoList'[k].port = s
    BY <1>0, <1>a, <2>3 DEF CoverInv
  <2>5. CASE Scanning(v)
    BY <1>0, <2>1, <2>2, <2>3, <2>4, <2>5 DEF CoverInv, Slots
  <2>6. CASE ~Scanning(v)
    BY <1>0, <2>1, <2>3, <2>6 DEF CoverInv
  <2> QED
    BY <2>5, <2>6
<1>2. CASE WorkerTake(v)
  <2>1. step'[v] = "read" /\ seen' = seen
    BY <1>0, <1>2, TakeIsFresh
       DEF Basic, WorkerTake, Starts, Roles, serverVars, bodyVars
  <2> QED
    BY <1>0, <2>1 DEF CoverInv, Scanning
<1>3. CASE WorkerFinish(v)
  <2>1. step'[v] = "read" /\ seen'[v] = {}
    BY <1>0, <1>3 DEF WorkerFinish, Goto, BodyTypeOK
  <2> QED
    BY <2>1 DEF CoverInv, Scanning
<1>4. CASE ReadRequest(v)
  <2>1. /\ step[v] = "read" /\ step'[v] \in {"port", "total", "find"} /\ i'[v] = 0
        /\ seen'[v] = registered /\ registered' = registered
        /\ servantInfoList' = servantInfoList /\ servantCount' = servantCount
    BY <1>0, <1>4 DEF ReadRequest, At, Goto, BodyTypeOK, Roles, tableVars
  <2>2. \A s \in registered :
          \E k \in Slots : 0 <= k /\ k < servantCount /\ servantInfoList[k].port = s
    BY <1>0 DEF Kept
  <2> QED
    BY <2>1, <2>2 DEF CoverInv, Scanning, Slots
<1>5. CASE NextServant(v)
  <2>1. /\ step[v] = "total" /\ Scanning(v) /\ i' = i /\ total' = total /\ seen' = seen
        /\ serving' = serving
        /\ servantInfoList' = servantInfoList /\ servantCount' = servantCount
        /\ registered' = registered
    BY <1>0, <1>5 DEF NextServant, At, Roles, Scanning, vars, tableVars
  <2>2. CASE i[v] < servantCount
    <3>1. step'[v] = "call" /\ found'[v] = servantInfoList[i[v]].port
      BY <1>0, <1>5, <2>2 DEF NextServant, Goto, BodyTypeOK
    <3> QED
      BY <2>1, <2>2, <3>1 DEF CoverInv, Scanning, Slots
  <2>3. CASE ~(i[v] < servantCount)
    <3>1. step'[v] = "reply"
      BY <1>0, <1>5, <2>3 DEF NextServant, Goto, BodyTypeOK
    <3>2. \A s \in seen[v] : total[v][s] = 1
      BY <1>0, <2>1, <2>3 DEF CoverInv
    <3> QED
      BY <1>0, <2>1, <3>1, <3>2 DEF CoverInv, Scanning
  <2> QED
    BY <2>2, <2>3
<1>6. CASE FindCity(v)
  <2>1. /\ wants[serving[v]] # Empty /\ seen' = seen /\ serving' = serving
        /\ step[v] = "find" /\ step'[v] \in {"find", "done", "call"}
        /\ registered' = registered
    BY <1>0, <1>6 DEF FindCity, At, Goto, Roles, BodyTypeOK, vars, tableVars
  <2> QED
    BY <1>0, <2>1 DEF CoverInv, Scanning
<1>7. CASE Call(v)
  <2>1. /\ step[v] = "call" /\ step'[v] \in {"call", "await"} /\ i' = i /\ total' = total
        /\ seen' = seen /\ found' = found /\ serving' = serving
        /\ servantInfoList' = servantInfoList /\ servantCount' = servantCount
        /\ registered' = registered
    BY <1>0, <1>7 DEF Call, At, Goto, BodyTypeOK, vars, tableVars
  <2> QED
    BY <2>1 DEF CoverInv, Scanning, Slots
<1>8. CASE TakeAnswer(v)
  <2>1. /\ step[v] = "await" /\ seen' = seen /\ serving' = serving
        /\ servantInfoList' = servantInfoList /\ servantCount' = servantCount
        /\ registered' = registered
    BY <1>0, <1>8 DEF TakeAnswer, At, vars, tableVars
  <2>2. \A s \in Servants :
          total'[v][s] = IF found[v] = s THEN total[v][s] + 1 ELSE total[v][s]
    BY <1>0, <1>8 DEF TakeAnswer, BodyTypeOK
  <2>3. CASE wants[serving[v]] = Empty
    <3>1. Scanning(v) /\ step'[v] = "total" /\ i'[v] = i[v] + 1
      BY <1>0, <1>8, <2>1, <2>3 DEF TakeAnswer, Goto, BodyTypeOK, Scanning
    <3>2. ASSUME NEW s \in seen[v]
          PROVE  \/ total'[v][s] = 1
                 \/ \E k \in Slots : i[v] + 1 <= k /\ k < servantCount
                                    /\ servantInfoList[k].port = s
      <4>1. CASE found[v] = s
        BY <1>0, <2>1, <2>2, <3>1, <4>1 DEF ScanInv
      <4>2. CASE found[v] # s
        <5>1. servantInfoList[i[v]].port # s
          BY <2>1, <3>1, <4>2 DEF CoverInv
        <5>2. CASE total[v][s] = 1
          BY <1>0, <2>2, <4>2, <5>2
        <5>3. CASE \E k \in Slots : i[v] <= k /\ k < servantCount
                                    /\ servantInfoList[k].port = s
          BY <1>0, <5>1, <5>3
        <5> QED
          BY <3>1, <5>2, <5>3 DEF CoverInv
      <4> QED
        BY <4>1, <4>2
    <3> QED
      BY <1>0, <2>1, <3>1, <3>2 DEF CoverInv, Scanning, Slots
  <2>4. CASE wants[serving[v]] # Empty
    BY <1>0, <2>1, <2>4 DEF CoverInv, Scanning
  <2> QED
    BY <2>3, <2>4
<1>9. CASE Reply(v)
  <2>1. step'[v] = "done" /\ seen' = seen
    BY <1>0, <1>9 DEF Reply, Goto, BodyTypeOK
  <2> QED
    BY <1>0, <2>1 DEF CoverInv, Scanning
<1>10. CASE StorePort(v)
  <2>1. step'[v] = "cities" /\ seen' = seen
    BY <1>0, <1>10 DEF StorePort, StoreField, Goto, BodyTypeOK
  <2> QED
    BY <1>0, <2>1 DEF CoverInv, Scanning
<1>11. CASE StoreCities(v)
  <2>1. step'[v] = "load" /\ seen' = seen
    BY <1>0, <1>11 DEF StoreCities, StoreField, Goto, BodyTypeOK
  <2> QED
    BY <1>0, <2>1 DEF CoverInv, Scanning
<1>12. CASE LoadCount(v)
  <2>1. step'[v] = "store" /\ seen' = seen
    BY <1>0, <1>12 DEF LoadCount, Goto, BodyTypeOK
  <2> QED
    BY <1>0, <2>1 DEF CoverInv, Scanning
<1>13. CASE StoreCount(v)
  <2>1. step'[v] = "done" /\ seen' = seen
    BY <1>0, <1>13 DEF StoreCount, Goto, BodyTypeOK
  <2> QED
    BY <1>0, <2>1 DEF CoverInv, Scanning
<1> QED
  BY <1>1, <1>2, <1>3, <1>4, <1>5, <1>6, <1>7, <1>8, <1>9, <1>10, <1>11, <1>12,
     <1>13, Focus
     DEF Works, Body

LEMMA RightServantStep ==
  ASSUME Basic, \A w \in Workers : FoundInv(w), RightServant, oneAtATime,
         [TSNext]_allVars
  PROVE  RightServant'
<1>0. /\ reply \in [Clients -> {None, Eof} \cup [Servants -> Nat]]
      /\ \A c \in Clients : wants[c] # Empty /\ reply[c] \notin {None, Eof} =>
           \E s \in Servants : /\ wants[c] \in holds[s]
                               /\ reply[c] = [Nothing EXCEPT ![s] = 1]
  BY DEF Basic, TSTypeOK, PeerTypeOK, RightServant
<1>1. ASSUME NEW w \in Workers, Reply(w) PROVE RightServant'
  <2>1. reply' = [reply EXCEPT ![serving[w]] = total[w]] /\ step[w] = "reply"
    BY <1>1 DEF Reply, At
  <2>2. wants[serving[w]] # Empty =>
          \E s \in Servants : /\ wants[serving[w]] \in holds[s]
                              /\ total[w] = [Nothing EXCEPT ![s] = 1]
    BY <2>1 DEF FoundInv
  <2> QED
    BY <1>0, <2>1, <2>2 DEF RightServant
<1>2. ASSUME NEW c \in Clients, ReadEof(c) PROVE RightServant'
  <2>1. reply' = [reply EXCEPT ![c] = Eof]
    BY <1>2 DEF ReadEof
  <2> QED
    BY <1>0, <2>1 DEF RightServant
<1>3. CASE reply' = reply
  BY <1>0, <1>3 DEF RightServant
<1> QED
  BY <1>1, <1>2, <1>3
     DEF TSNext, WorkerStep, Body, allVars, WorkerTake, WorkerFinish,
         ReadRequest,
         NextServant, FindCity, Call, TakeAnswer, StorePort, StoreCities, StoreField,
         LoadCount, StoreCount, PeerConnect, Listen, Answer, serverVars, peerVars

AnswerInv ==
  /\ TwiceInv /\ SerialInv
  /\ oneAtATime => \A w \in Workers : FoundInv(w) /\ CoverInv(w)
  /\ RightServant

LEMMA AnswerInvHolds == TSSpec => []AnswerInv
<1>1. TSInit => (oneAtATime => \A w \in Workers : FoundInv(w) /\ CoverInv(w))
                /\ RightServant
  <2> SUFFICES ASSUME TSInit
               PROVE  (\A w \in Workers : FoundInv(w) /\ CoverInv(w)) /\ RightServant
    OBVIOUS
  <2>1. \A w \in Workers : FoundInv(w) /\ CoverInv(w)
    BY DEF TSInit, FoundInv, CoverInv, Searching, Scanning
  <2>2. RightServant
    BY DEF TSInit, RightServant
  <2> QED
    BY <2>1, <2>2
<1>2. AnswerInv /\ [TSNext]_allVars =>
        (oneAtATime => \A w \in Workers : FoundInv(w) /\ CoverInv(w))' /\ RightServant'
  <2> SUFFICES ASSUME AnswerInv, [TSNext]_allVars
               PROVE  /\ oneAtATime' => \A w \in Workers : FoundInv(w)' /\ CoverInv(w)'
                      /\ RightServant'
    OBVIOUS
  <2>1. oneAtATime' = oneAtATime
    BY ModeStays
  <2>2. Basic /\ \A w \in Workers : ScanInv(w)
    BY DEF AnswerInv, TwiceInv
  <2>3. ASSUME oneAtATime, NEW w \in Workers PROVE FoundInv(w)' /\ CoverInv(w)'
    <3>1. Serial /\ FoundInv(w) /\ CoverInv(w)
      BY <2>3 DEF AnswerInv, SerialInv
    <3> QED
      BY <2>2, <3>1, FoundInvStep, CoverInvStep
  <2>4. CASE oneAtATime
    <3>1. RightServant'
      BY <2>2, <2>4, RightServantStep DEF AnswerInv
    <3> QED
      BY <2>3, <2>4, <3>1
  <2>5. CASE ~oneAtATime
    BY <2>1, <2>5 DEF RightServant
  <2> QED
    BY <2>4, <2>5, <2>1
<1>3. TSSpec => []TwiceInv /\ []SerialInv
  BY TwiceInvHolds, SerialInvHolds
<1>4. TSSpec => []((oneAtATime => \A w \in Workers : FoundInv(w) /\ CoverInv(w))
                   /\ RightServant)
  BY <1>1, <1>2, <1>3, PTL DEF TSSpec, AnswerInv
<1> QED
  BY <1>3, <1>4, PTL DEF AnswerInv

\* A client that asks for one city is told the count of the one servant that
\* holds it, when the servants start one after the other.
THEOREM RightServantAnswers == TSSpec => []RightServant
<1>1. AnswerInv => RightServant
  BY DEF AnswerInv
<1> QED
  BY <1>1, AnswerInvHolds, PTL

\* The loop over the slots, which reads a counter that registrations move
\* meanwhile, asks every servant that had registered when the request was
\* read, when the servants start one after the other.
THEOREM TotalsCover == TSSpec => []TotalCovers
<1>1. AnswerInv => TotalCovers
  BY DEF AnswerInv, TotalCovers, CoverInv, At
<1> QED
  BY <1>1, AnswerInvHolds, PTL

\* The server exits only because the servant that a worker calls has
\* registered but does not listen yet: no empty or torn slot is ever called, when the servants start one after the
\* other.
THEOREM ExitsOnUnready == TSSpec => ExitOnlyOnUnready
<1>1. AnswerInv /\ [TSNext]_allVars =>
        [oneAtATime /\ exited' /\ ~exited =>
           \E w \in Workers : /\ At(w, "call")
                              /\ found[w] \in registered \ listening]_allVars
  <2> SUFFICES ASSUME AnswerInv, [TSNext]_allVars, oneAtATime, exited', ~exited
               PROVE  \E w \in Workers : /\ At(w, "call")
                                         /\ found[w] \in registered \ listening
    OBVIOUS
  <2>1. ASSUME NEW w \in Workers, Call(w)
        PROVE  At(w, "call") /\ found[w] \in registered \ listening
    <3>1. found[w] \in registered
      BY <2>1 DEF AnswerInv, FoundInv, Call, At
    <3>2. At(w, "call") /\ found[w] \notin listening
      BY <2>1 DEF Call
    <3> QED
      BY <3>1, <3>2
  <2>2. CASE exited' = exited
    BY <2>2
  <2> QED
    BY <2>1, <2>2
       DEF TSNext, WorkerStep, Body, allVars, WorkerTake, WorkerFinish,
           ReadRequest,
           NextServant, FindCity, TakeAnswer, Reply, StorePort, StoreCities, StoreField,
           LoadCount, StoreCount, PeerConnect, Listen, Answer, ReadEof, serverVars
<1> QED
  BY <1>1, AnswerInvHolds, PTL DEF TSSpec, ExitOnlyOnUnready
=============================================================================
