------------------------- MODULE MatrixService_proof -------------------------
(***************************************************************************)
(* Proofs about MatrixService for any number of clients, any length of a   *)
(* request in parts of the pipe, and SIGINT to any process at any time.    *)
(***************************************************************************)
EXTENDS MatrixService, FiniteSetTheorems, SequenceTheorems, TLAPS

PartsOfRequests == [of : Clients, part : 1 .. Parts]
ClientLabels == {"start", "submit", "openServer", "write", "openOwn",
                 "readResponse", "print", "done", "failed", "killed"}
WorkerLabels == {"none", "read", "open", "respond", "flag", "done", "killed"}
OtherLabels == {"none", "start", "mkfifo", "openServer", "openZ", "flag",
                "control", "fork", "read", "done", "failed"}

Responses == [isInvertable : BOOLEAN, from : Seq(PartsOfRequests)]

TypeOK ==
  /\ pc \in [Procs -> ClientLabels \cup WorkerLabels \cup OtherLabels]
  /\ \A c \in Clients : pc[c] \in ClientLabels
  /\ pc[W] \in WorkerLabels
  /\ sigintcaught \in SUBSET Procs
  /\ serverFifo \in BOOLEAN /\ clientFifo \in SUBSET Clients
  /\ pipe \in Seq(PartsOfRequests) /\ req \in Seq(PartsOfRequests)
  /\ sent \in [Clients -> 0 .. Parts]
  /\ response \in [Clients -> Responses \cup {None}]
  /\ told \in [Clients -> Responses \cup {None}]
  /\ clean \in BOOLEAN

\* Where the worker stands tells how much of a request it holds.
WorkerHolds ==
  /\ pc[W] = "read" => Len(req) < Parts
  /\ pc[W] \in {"open", "respond"} => Len(req) = Parts
  /\ pc[W] \notin {"read", "open", "respond"} => req = <<>>
  /\ pc[Y] \in {"start", "mkfifo", "openServer", "openZ", "flag"} =>
       pc[W] = "none"

\* Where a client stands tells how much of its request it has written.
ClientHasSent ==
  \A c \in Clients :
    /\ pc[c] \in {"start", "submit", "openServer"} => sent[c] = 0
    /\ pc[c] = "write" => sent[c] < Parts

\* The request that a client is still writing is the last of the stream.
OpenRequestIsLast ==
  clean => \A c \in Clients : sent[c] \in 1 .. Parts - 1 =>
             Stream # <<>> /\ Stream[Len(Stream)] = Part(c, sent[c])

\* What the worker has in its buffer is the beginning of one request.
BufferOfOne ==
  clean => \A k \in 1 .. Len(req) : req[k] = Part(req[1].of, k)

\* A response was computed from the client's own request.
OwnResponse == clean => \A c \in Clients : OfOwnRequest(c, response[c])

IInv == /\ TypeOK /\ WorkerHolds /\ ClientHasSent
        /\ StreamAligned /\ OpenRequestIsLast /\ BufferOfOne
        /\ OwnResponse /\ OwnVerdict

-----------------------------------------------------------------------------
\* The worker is none of the other processes.
LEMMA WorkerIsOnlyWorker ==
  /\ W \notin {Y, Z, V}
  /\ Y \notin Clients /\ W \notin Clients /\ Z \notin Clients /\ V \notin Clients
<1>1. Cardinality({Y, W, Z, V}) = 4 /\ Clients \cap {Y, W, Z, V} = {}
  BY MatrixAssumption DEF Servers
<1>2. ASSUME W \in {Y, Z, V} PROVE FALSE
  <2>1. {Y, W, Z, V} = {Y, Z} \cup {V}
    BY <1>2
  <2>2. {Y, Z} = {Y} \cup {Z}
    OBVIOUS
  <2>3. IsFiniteSet({Y}) /\ Cardinality({Y}) = 1
    BY FS_Singleton
  <2>4. IsFiniteSet({Y, Z}) /\ Cardinality({Y, Z}) \in {1, 2}
    BY <2>2, <2>3, FS_AddElement
  <2>5. Cardinality({Y, Z} \cup {V}) \in {1, 2, 3}
    BY <2>4, FS_AddElement
  <2> QED
    BY <1>1, <2>1, <2>5
<1> QED
  BY <1>1, <1>2

\* A part of a request.
LEMMA PartIsTyped ==
  ASSUME NEW c \in Clients, NEW k \in 1 .. Parts
  PROVE  /\ Part(c, k) \in PartsOfRequests
         /\ Part(c, k).of = c /\ Part(c, k).part = k
  BY DEF Part, PartsOfRequests

LEMMA EqualParts ==
  ASSUME NEW c, NEW k, NEW d, NEW j, Part(c, k) = Part(d, j)
  PROVE  c = d /\ k = j
<1>1. Part(c, k).of = c /\ Part(c, k).part = k
  BY DEF Part
<1>2. Part(d, j).of = d /\ Part(d, j).part = j
  BY DEF Part
<1> QED
  BY <1>1, <1>2

\* A buffer r and a pipe p seen as one stream.
LEMMA OneStream ==
  ASSUME NEW r \in Seq(PartsOfRequests), NEW p \in Seq(PartsOfRequests)
  PROVE  /\ Len(r) \in Nat /\ Len(p) \in Nat
         /\ r \o p \in Seq(PartsOfRequests)
         /\ Len(r \o p) = Len(r) + Len(p)
         /\ \A k \in 1 .. Len(r) : (r \o p)[k] = r[k]
         /\ \A k \in 1 .. Len(p) : (r \o p)[Len(r) + k] = p[k]
         /\ \A k \in 1 .. Len(r) + Len(p) :
              /\ (r \o p)[k] \in PartsOfRequests
              /\ (r \o p)[k].part \in 1 .. Parts /\ (r \o p)[k].of \in Clients
<1>1. /\ Len(r) \in Nat /\ Len(p) \in Nat /\ r \o p \in Seq(PartsOfRequests)
      /\ Len(r \o p) = Len(r) + Len(p)
  OBVIOUS
<1>2. \A k \in 1 .. Len(r) : (r \o p)[k] = r[k]
  OBVIOUS
<1>3. \A k \in 1 .. Len(p) : (r \o p)[Len(r) + k] = p[k]
  OBVIOUS
<1>4. \A k \in 1 .. Len(r) + Len(p) : (r \o p)[k] \in PartsOfRequests
  BY <1>1
<1> QED
  BY <1>1, <1>2, <1>3, <1>4 DEF PartsOfRequests

\* Reading moves the border between them.
LEMMA ReadKeepsStream ==
  ASSUME NEW r \in Seq(PartsOfRequests), NEW p \in Seq(PartsOfRequests),
         p # <<>>
  PROVE  Append(r, Head(p)) \o Tail(p) = r \o p
<1>1. Head(p) \in PartsOfRequests /\ Tail(p) \in Seq(PartsOfRequests)
  OBVIOUS
<1>2. p = <<Head(p)>> \o Tail(p)
  OBVIOUS
<1>3. Append(r, Head(p)) = r \o <<Head(p)>>
  BY <1>1
<1>4. <<Head(p)>> \in Seq(PartsOfRequests)
  BY <1>1
<1> QED
  BY <1>1, <1>2, <1>3, <1>4, ConcatAssociative

\* Writing puts a part at its end.
LEMMA WriteExtendsStream ==
  ASSUME NEW r \in Seq(PartsOfRequests), NEW p \in Seq(PartsOfRequests),
         NEW e \in PartsOfRequests
  PROVE  r \o Append(p, e) = Append(r \o p, e)
<1>1. Append(p, e) = p \o <<e>> /\ <<e>> \in Seq(PartsOfRequests)
  OBVIOUS
<1>2. Append(r \o p, e) = (r \o p) \o <<e>>
  OBVIOUS
<1> QED
  BY <1>1, <1>2, ConcatAssociative

-----------------------------------------------------------------------------
\* StreamAligned and OpenRequestIsLast of any stream s and any counters n.
Aligned(s, n) ==
  \A k \in 1 .. Len(s) :
    /\ \/ s[k].part = 1
       \/ k > 1 /\ s[k - 1] = Part(s[k].of, s[k].part - 1)
    /\ \/ s[k].part = Parts
       \/ k < Len(s) /\ s[k + 1] = Part(s[k].of, s[k].part + 1)
       \/ k = Len(s) /\ n[s[k].of] = s[k].part
OpenIsLast(s, n) ==
  \A c \in Clients : n[c] \in 1 .. Parts - 1 =>
    s # <<>> /\ s[Len(s)] = Part(c, n[c])

\* A buffer that holds a whole request can go: what remains begins with the
\* first part of another.
LEMMA DropWhole ==
  ASSUME NEW r \in Seq(PartsOfRequests), NEW p \in Seq(PartsOfRequests), NEW n,
         Len(r) = Parts, \A k \in 1 .. Len(r) : r[k] = Part(r[1].of, k),
         Aligned(r \o p, n), OpenIsLast(r \o p, n)
  PROVE  Aligned(p, n) /\ OpenIsLast(p, n)
<1> DEFINE s == r \o p
<1>1. Parts \in Nat /\ 1 < Parts
  BY MatrixAssumption
<1>2. /\ Len(p) \in Nat /\ Len(s) = Parts + Len(p)
      /\ \A k \in 1 .. Len(p) :
           /\ s[Parts + k] = p[k] /\ p[k].part \in 1 .. Parts
           /\ p[k].of \in Clients
  <2>1. \A k \in 1 .. Len(p) : p[k] \in PartsOfRequests
    OBVIOUS
  <2>2. \A k \in 1 .. Len(p) : s[Parts + k] = p[k]
    BY <1>1, OneStream
  <2>3. Len(p) \in Nat /\ Len(s) = Parts + Len(p)
    BY OneStream
  <2> QED
    BY <2>1, <2>2, <2>3 DEF PartsOfRequests
<1>3. s[Parts] = Part(r[1].of, Parts)
  BY <1>1, OneStream
<1> HIDE DEF s
<1>4. ASSUME NEW k \in 1 .. Len(p)
      PROVE  \/ p[k].part = 1
             \/ k > 1 /\ p[k - 1] = Part(p[k].of, p[k].part - 1)
  <2>1. Parts + k \in 1 .. Len(s) /\ s[Parts + k] = p[k]
    BY <1>1, <1>2
  <2>2. CASE p[k].part = 1
    BY <2>2
  <2>3. CASE p[k].part # 1
    <3>1. s[(Parts + k) - 1] = Part(p[k].of, p[k].part - 1)
      BY <2>1, <2>3 DEF Aligned, s
    <3>2. k # 1
      <4>1. SUFFICES ASSUME k = 1 PROVE FALSE
        OBVIOUS
      <4>2. (Parts + k) - 1 = Parts
        BY <1>1, <4>1
      <4>3. p[k].part - 1 = Parts
        BY <1>3, <3>1, <4>2, EqualParts
      <4> QED
        BY <1>1, <1>2, <4>3
    <3>3. k > 1 /\ k - 1 \in 1 .. Len(p) /\ (Parts + k) - 1 = Parts + (k - 1)
      BY <1>1, <1>2, <3>2
    <3> QED
      BY <1>2, <3>1, <3>3
  <2> QED
    BY <2>2, <2>3
<1>5. ASSUME NEW k \in 1 .. Len(p)
      PROVE  \/ p[k].part = Parts
             \/ k < Len(p) /\ p[k + 1] = Part(p[k].of, p[k].part + 1)
             \/ k = Len(p) /\ n[p[k].of] = p[k].part
  <2>1. Parts + k \in 1 .. Len(s) /\ s[Parts + k] = p[k]
    BY <1>1, <1>2
  <2>2. \/ p[k].part = Parts
        \/ Parts + k < Len(s)
           /\ s[(Parts + k) + 1] = Part(p[k].of, p[k].part + 1)
        \/ Parts + k = Len(s) /\ n[p[k].of] = p[k].part
    BY <2>1 DEF Aligned, s
  <2>3. /\ Parts + k < Len(s) => k < Len(p) /\ k + 1 \in 1 .. Len(p)
        /\ (Parts + k) + 1 = Parts + (k + 1)
        /\ Parts + k = Len(s) => k = Len(p)
    BY <1>1, <1>2
  <2> QED
    BY <1>2, <2>2, <2>3
<1>6. Aligned(p, n)
  BY <1>4, <1>5 DEF Aligned
<1>7. ASSUME NEW c \in Clients, n[c] \in 1 .. Parts - 1
      PROVE  p # <<>> /\ p[Len(p)] = Part(c, n[c])
  <2>1. s[Len(s)] = Part(c, n[c])
    BY <1>7 DEF OpenIsLast, s
  <2>2. Len(p) # 0
    <3>1. SUFFICES ASSUME Len(p) = 0 PROVE FALSE
      OBVIOUS
    <3>2. Len(s) = Parts
      BY <1>1, <1>2, <3>1
    <3>3. n[c] = Parts
      BY <1>3, <2>1, <3>2, EqualParts
    <3> QED
      BY <1>1, <1>7, <3>3
  <2>3. Len(p) \in 1 .. Len(p) /\ p # <<>>
    BY <1>2, <2>2
  <2> QED
    BY <1>2, <2>1, <2>3
<1> QED
  BY <1>6, <1>7 DEF OpenIsLast

\* A client that writes alone goes on with its own request, or begins it
\* after the end of another.
LEMMA WriteAlone ==
  ASSUME NEW s \in Seq(PartsOfRequests), NEW n \in [Clients -> 0 .. Parts],
         NEW c \in Clients, n[c] < Parts,
         \A d \in Clients \ {c} : n[d] \in {0, Parts},
         Aligned(s, n), OpenIsLast(s, n)
  PROVE  LET t == Append(s, Part(c, n[c] + 1))
             m == [n EXCEPT ![c] = @ + 1]
         IN  Aligned(t, m) /\ OpenIsLast(t, m)
<1> DEFINE e == Part(c, n[c] + 1)
           t == Append(s, e)
           m == [n EXCEPT ![c] = @ + 1]
<1>1. Parts \in Nat /\ 1 < Parts
  BY MatrixAssumption
<1>2. /\ n[c] \in 0 .. Parts - 1 /\ m[c] = n[c] + 1
      /\ \A d \in Clients \ {c} : m[d] = n[d]
  BY <1>1
<1>3. e \in PartsOfRequests /\ e.of = c /\ e.part = n[c] + 1
  BY <1>1, <1>2, PartIsTyped
<1>4. /\ Len(s) \in Nat /\ Len(t) = Len(s) + 1 /\ t[Len(s) + 1] = e
      /\ \A k \in 1 .. Len(s) : t[k] = s[k]
  BY <1>3
<1>5. \A k \in 1 .. Len(s) : s[k].part \in 1 .. Parts /\ s[k].of \in Clients
  <2>1. \A k \in 1 .. Len(s) : s[k] \in PartsOfRequests
    OBVIOUS
  <2> QED
    BY <2>1 DEF PartsOfRequests
<1>6. n[c] # 0 => Len(s) > 0 /\ s[Len(s)] = Part(c, n[c])
  BY <1>1, <1>2, <1>4 DEF OpenIsLast
<1> HIDE DEF t, m
<1>7. ASSUME NEW k \in 1 .. Len(t)
      PROVE  \/ t[k].part = 1
             \/ k > 1 /\ t[k - 1] = Part(t[k].of, t[k].part - 1)
  <2>1. CASE k = Len(s) + 1
    <3>1. t[k].part = n[c] + 1 /\ t[k].of = c
      BY <1>3, <1>4, <2>1
    <3>2. CASE n[c] = 0
      BY <3>1, <3>2
    <3>3. CASE n[c] # 0
      <4>1. Len(s) \in 1 .. Len(s) /\ k - 1 = Len(s) /\ k > 1
        BY <1>4, <1>6, <2>1, <3>3
      <4>2. t[k].part - 1 = n[c]
        BY <1>2, <3>1
      <4> QED
        BY <1>4, <1>6, <3>1, <3>3, <4>1, <4>2
    <3> QED
      BY <3>2, <3>3
  <2>2. CASE k # Len(s) + 1
    <3>1. k \in 1 .. Len(s) /\ t[k] = s[k]
      BY <1>4, <2>2
    <3>2. k > 1 => k - 1 \in 1 .. Len(s) /\ t[k - 1] = s[k - 1]
      BY <1>4, <3>1
    <3> QED
      BY <3>1, <3>2 DEF Aligned
  <2> QED
    BY <2>1, <2>2
<1>8. ASSUME NEW k \in 1 .. Len(t)
      PROVE  \/ t[k].part = Parts
             \/ k < Len(t) /\ t[k + 1] = Part(t[k].of, t[k].part + 1)
             \/ k = Len(t) /\ m[t[k].of] = t[k].part
  <2>1. CASE k = Len(s) + 1
    BY <1>2, <1>3, <1>4, <2>1
  <2>2. CASE k \in 1 .. Len(s) - 1
    <3>1. /\ k \in 1 .. Len(s) /\ k + 1 \in 1 .. Len(s) /\ k < Len(s)
          /\ k # Len(s) /\ k < Len(t) /\ t[k] = s[k] /\ t[k + 1] = s[k + 1]
      BY <1>4, <2>2
    <3> QED
      BY <3>1 DEF Aligned
  <2>3. CASE k = Len(s)
    <3>1. k \in 1 .. Len(s) /\ k < Len(t) /\ t[k] = s[k] /\ t[k + 1] = e
      BY <1>4, <2>3
    <3>2. CASE s[k].part = Parts
      BY <3>1, <3>2
    <3>3. CASE s[k].part # Parts
      <4>1. n[s[k].of] = s[k].part
        BY <2>3, <3>1, <3>3 DEF Aligned
      <4>2. s[k].of = c
        BY <1>1, <1>5, <3>1, <3>3, <4>1
      <4> QED
        BY <3>1, <4>1, <4>2
    <3> QED
      BY <3>2, <3>3
  <2> QED
    BY <1>4, <2>1, <2>2, <2>3
<1>9. Aligned(t, m)
  BY <1>7, <1>8 DEF Aligned
<1>10. ASSUME NEW d \in Clients, m[d] \in 1 .. Parts - 1
       PROVE  t # <<>> /\ t[Len(t)] = Part(d, m[d])
  <2>1. d = c
    BY <1>1, <1>2, <1>10
  <2>2. t # <<>>
    BY <1>3 DEF t
  <2> QED
    BY <1>2, <1>4, <2>1, <2>2
<1> QED
  BY <1>9, <1>10 DEF OpenIsLast, t, m

\* The next part that is read goes on with the request in the buffer.
LEMMA ReadOn ==
  ASSUME NEW r \in Seq(PartsOfRequests), NEW p \in Seq(PartsOfRequests), NEW n,
         p # <<>>, Len(r) < Parts,
         \A k \in 1 .. Len(r) : r[k] = Part(r[1].of, k), Aligned(r \o p, n)
  PROVE  LET q == Append(r, Head(p))
         IN  \A k \in 1 .. Len(q) : q[k] = Part(q[1].of, k)
<1> DEFINE e == Head(p)
           q == Append(r, e)
           s == r \o p
<1>1. Parts \in Nat /\ 1 < Parts
  BY MatrixAssumption
<1>2. e = p[1] /\ 1 \in 1 .. Len(p) /\ e \in PartsOfRequests
  OBVIOUS
<1>3. /\ Len(r) \in Nat /\ Len(s) = Len(r) + Len(p) /\ Len(p) \in Nat
      /\ s[Len(r) + 1] = e
      /\ \A k \in 1 .. Len(r) : s[k] = r[k]
  BY <1>2, OneStream
<1>4. /\ Len(q) = Len(r) + 1 /\ q[Len(r) + 1] = e
      /\ \A k \in 1 .. Len(r) : q[k] = r[k]
  BY <1>2
<1>5. e = Part(e.of, e.part)
  BY <1>2 DEF PartsOfRequests, Part
<1> HIDE DEF q, s, e
<1>6. CASE Len(r) = 0
  <2>1. 1 \in 1 .. Len(s) /\ s[1] = e
    BY <1>2, <1>3, <1>6
  <2>2. e.part = 1
    BY <2>1 DEF Aligned, s
  <2> QED
    BY <1>4, <1>5, <1>6, <2>2 DEF q, e
<1>7. CASE Len(r) # 0
  <2>1. /\ Len(r) \in 1 .. Len(r) /\ Len(r) \in 1 .. Len(s)
        /\ Len(r) < Len(s) /\ Len(r) # Len(s) /\ 1 \in 1 .. Len(r)
    BY <1>2, <1>3, <1>7
  <2>2. s[Len(r)] = Part(r[1].of, Len(r))
    BY <1>3, <2>1
  <2>3. s[Len(r)].of = r[1].of /\ s[Len(r)].part = Len(r)
    BY <2>2 DEF Part
  <2>4. e = Part(r[1].of, Len(r) + 1)
    BY <1>1, <1>3, <2>1, <2>3 DEF Aligned, s
  <2>5. q[1] = r[1]
    BY <1>4, <2>1
  <2>6. ASSUME NEW k \in 1 .. Len(q) PROVE q[k] = Part(q[1].of, k)
    <3>1. CASE k = Len(r) + 1
      BY <1>4, <2>4, <2>5, <3>1
    <3>2. CASE k \in 1 .. Len(r)
      BY <1>4, <2>5, <3>2
    <3> QED
      BY <1>3, <1>4, <3>1, <3>2
  <2> QED
    BY <2>6 DEF q, e
<1> QED
  BY <1>6, <1>7

-----------------------------------------------------------------------------
USE DEF Procs, Servers, ClientLabels, WorkerLabels, OtherLabels

Labelled == /\ pc \in [Procs -> ClientLabels \cup WorkerLabels \cup OtherLabels]
            /\ \A c \in Clients : pc[c] \in ClientLabels
            /\ pc[W] \in WorkerLabels

\* No step leaves the labels.
LEMMA LabelsStep ==
  ASSUME TypeOK, [Next]_vars
  PROVE  Labelled'
<1>1. ASSUME YStart PROVE Labelled'
  <2>1. PICK y \in OtherLabels, z \in OtherLabels :
          \/ pc' = [pc EXCEPT ![Y] = y]
          \/ pc' = [pc EXCEPT ![Y] = y, ![Z] = z]
    BY <1>1 DEF YStart, Goto
  <2>2. pc' \in [Procs -> ClientLabels \cup WorkerLabels \cup OtherLabels]
    BY <2>1 DEF TypeOK
  <2>3. \A p \in Procs : p \notin {Y, Z} => pc'[p] = pc[p]
    BY <2>1 DEF TypeOK
  <2> QED
    BY <2>2, <2>3, WorkerIsOnlyWorker DEF TypeOK, Labelled
<1>2. ASSUME YMakeFifo PROVE Labelled'
  BY <1>2, WorkerIsOnlyWorker
     DEF TypeOK, Labelled, Goto, At, files, stream, results, YMakeFifo
<1>3. ASSUME YOpenServer PROVE Labelled'
  BY <1>3, WorkerIsOnlyWorker
     DEF TypeOK, Labelled, Goto, At, files, stream, results, YOpenServer
<1>4. ASSUME OpenYToZ PROVE Labelled'
  BY <1>4, WorkerIsOnlyWorker
     DEF TypeOK, Labelled, Goto, At, files, stream, results, OpenYToZ
<1>5. ASSUME ZFork PROVE Labelled'
  BY <1>5, WorkerIsOnlyWorker
     DEF TypeOK, Labelled, Goto, At, files, stream, results, ZFork
<1>6. ASSUME YFork PROVE Labelled'
  BY <1>6, WorkerIsOnlyWorker
     DEF TypeOK, Labelled, Goto, At, files, stream, results, YFork
<1>7. ASSUME YEnd PROVE Labelled'
  BY <1>7, WorkerIsOnlyWorker
     DEF TypeOK, Labelled, Goto, At, files, stream, results, YEnd
<1>8. ASSUME NEW c \in Clients, ClientStart(c) PROVE Labelled'
  BY <1>8, WorkerIsOnlyWorker
     DEF TypeOK, Labelled, Goto, At, files, stream, results, ClientStart
<1>9. ASSUME NEW c \in Clients, ClientSubmit(c) PROVE Labelled'
  BY <1>9, WorkerIsOnlyWorker
     DEF TypeOK, Labelled, Goto, At, files, stream, results, ClientSubmit
<1>10. ASSUME NEW c \in Clients, ClientOpenServer(c) PROVE Labelled'
  BY <1>10, WorkerIsOnlyWorker
     DEF TypeOK, Labelled, Goto, At, files, stream, results, ClientOpenServer
<1>11. ASSUME NEW c \in Clients, ClientWrite(c) PROVE Labelled'
  BY <1>11, WorkerIsOnlyWorker
     DEF TypeOK, Labelled, Goto, At, files, stream, results, ClientWrite
<1>12. ASSUME NEW c \in Clients, ClientPipeBroken(c) PROVE Labelled'
  BY <1>12, WorkerIsOnlyWorker
     DEF TypeOK, Labelled, Goto, At, files, stream, results, ClientPipeBroken
<1>13. ASSUME NEW c \in Clients, ClientRead(c) PROVE Labelled'
  BY <1>13, WorkerIsOnlyWorker
     DEF TypeOK, Labelled, Goto, At, files, stream, results, ClientRead
<1>14. ASSUME NEW c \in Clients, ClientPrint(c) PROVE Labelled'
  BY <1>14, WorkerIsOnlyWorker
     DEF TypeOK, Labelled, Goto, At, files, stream, results, ClientPrint
<1>15. ASSUME WorkerRead PROVE Labelled'
  BY <1>15, WorkerIsOnlyWorker
     DEF TypeOK, Labelled, Goto, At, files, stream, results, WorkerRead
<1>16. ASSUME WorkerShort PROVE Labelled'
  BY <1>16, WorkerIsOnlyWorker
     DEF TypeOK, Labelled, Goto, At, files, stream, results, WorkerShort
<1>17. ASSUME WorkerNoFifo PROVE Labelled'
  BY <1>17, WorkerIsOnlyWorker
     DEF TypeOK, Labelled, Goto, At, files, stream, results, WorkerNoFifo
<1>18. ASSUME NEW c \in Clients, OpenResponse(c) PROVE Labelled'
  BY <1>18, WorkerIsOnlyWorker
     DEF TypeOK, Labelled, Goto, At, files, stream, results, OpenResponse
<1>19. ASSUME WorkerRespond PROVE Labelled'
  BY <1>19, WorkerIsOnlyWorker
     DEF TypeOK, Labelled, Goto, At, files, stream, results, WorkerRespond
<1>20. ASSUME WorkerFlag PROVE Labelled'
  BY <1>20, WorkerIsOnlyWorker
     DEF TypeOK, Labelled, Goto, At, files, stream, results, WorkerFlag
<1>21. ASSUME NEW p \in Procs, CatchSigint(p) PROVE Labelled'
  BY <1>21, WorkerIsOnlyWorker
     DEF TypeOK, Labelled, Goto, At, files, stream, results, CatchSigint
<1>22. CASE UNCHANGED vars
  BY <1>22 DEF TypeOK, Labelled, Goto, At, files, stream, results, vars
<1> QED
  BY <1>1, <1>2, <1>3, <1>4, <1>5, <1>6, <1>7, <1>8, <1>9, <1>10, <1>11, <1>12,
     <1>13, <1>14, <1>15, <1>16, <1>17, <1>18, <1>19, <1>20, <1>21, <1>22
     DEF Next, StartUp, Worker, Client

\* SIGINT makes a call that waits fail; if the worker waited for a client, it
\* forgets the request.
LEMMA InterruptStep ==
  ASSUME TypeOK, NEW p \in Procs, CatchSigint(p)
  PROVE  /\ serverFifo' = serverFifo /\ clientFifo' = clientFifo
         /\ pipe' = pipe /\ sent' = sent
         /\ response' = response /\ told' = told
         /\ clean' \in BOOLEAN /\ (clean' => clean)
         /\ \/ req' = req /\ pc'[W] = pc[W]
            \/ pc[W] = "open" /\ pc'[W] = "read" /\ req' = <<>>
         /\ \A q \in Clients \cup {Y} : pc'[q] \in {pc[q], "failed"}
<1> USE DEF TypeOK, Goto, At
<1>1. /\ serverFifo' = serverFifo /\ clientFifo' = clientFifo
      /\ pipe' = pipe /\ sent' = sent /\ response' = response /\ told' = told
  BY DEF CatchSigint, files, results
<1>2. CASE UNCHANGED <<pc, req, clean>>
  BY <1>1, <1>2
<1>3. CASE /\ Blocked(p)
           /\ Goto(p, IF p = W THEN "read" ELSE "failed")
           /\ req' = IF p = W THEN <<>> ELSE req
           /\ clean' = (clean /\ ~(At(p, {"write"}) /\ sent[p] > 0))
  <2>1. clean' \in BOOLEAN /\ (clean' => clean)
    BY <1>3
  <2>2. CASE p = W
    <3>1. pc[W] = "open"
      BY <1>3, <2>2, WorkerIsOnlyWorker DEF Blocked
    <3>2. pc'[W] = "read" /\ req' = <<>>
      BY <1>3, <2>2
    <3>3. \A q \in Clients \cup {Y} : pc'[q] = pc[q]
      BY <1>3, <2>2, WorkerIsOnlyWorker
    <3> QED
      BY <1>1, <2>1, <3>1, <3>2, <3>3
  <2>3. CASE p # W
    <3>1. req' = req /\ pc'[W] = pc[W]
      BY <1>3, <2>3
    <3>2. \A q \in Clients \cup {Y} : pc'[q] \in {pc[q], "failed"}
      BY <1>3, <2>3
    <3> QED
      BY <1>1, <2>1, <3>1, <3>2
  <2> QED
    BY <2>2, <2>3
<1> QED
  BY <1>2, <1>3 DEF CatchSigint

\* What the worker answers is a verdict.
LEMMA VerdictsAreTyped ==
  ASSUME TypeOK
  PROVE  Verdicts \subseteq BOOLEAN
  BY DEF Verdicts, isInvertable

DataOK == /\ sigintcaught \in SUBSET Procs
          /\ serverFifo \in BOOLEAN /\ clientFifo \in SUBSET Clients
          /\ pipe \in Seq(PartsOfRequests) /\ req \in Seq(PartsOfRequests)
          /\ sent \in [Clients -> 0 .. Parts]
          /\ response \in [Clients -> Responses \cup {None}]
          /\ told \in [Clients -> Responses \cup {None}]
          /\ clean \in BOOLEAN

\* Nor the types of the data.
LEMMA DataStep ==
  ASSUME TypeOK, ClientHasSent, [Next]_vars
  PROVE  DataOK'
<1>1. ASSUME YStart PROVE DataOK'
  BY <1>1 DEF TypeOK, DataOK, Goto, At, files, stream, results, YStart
<1>2. ASSUME YMakeFifo PROVE DataOK'
  BY <1>2 DEF TypeOK, DataOK, Goto, At, files, stream, results, YMakeFifo
<1>3. ASSUME YOpenServer PROVE DataOK'
  BY <1>3 DEF TypeOK, DataOK, Goto, At, files, stream, results, YOpenServer
<1>4. ASSUME OpenYToZ PROVE DataOK'
  BY <1>4 DEF TypeOK, DataOK, Goto, At, files, stream, results, OpenYToZ
<1>5. ASSUME ZFork PROVE DataOK'
  BY <1>5 DEF TypeOK, DataOK, Goto, At, files, stream, results, ZFork
<1>6. ASSUME YFork PROVE DataOK'
  BY <1>6 DEF TypeOK, DataOK, Goto, At, files, stream, results, YFork
<1>7. ASSUME YEnd PROVE DataOK'
  BY <1>7 DEF TypeOK, DataOK, Goto, At, files, stream, results, YEnd
<1>8. ASSUME NEW c \in Clients, ClientStart(c) PROVE DataOK'
  BY <1>8 DEF TypeOK, DataOK, Goto, At, files, stream, results, ClientStart
<1>9. ASSUME NEW c \in Clients, ClientSubmit(c) PROVE DataOK'
  BY <1>9 DEF TypeOK, DataOK, Goto, At, files, stream, results, ClientSubmit
<1>10. ASSUME NEW c \in Clients, ClientOpenServer(c) PROVE DataOK'
  BY <1>10
     DEF TypeOK, DataOK, Goto, At, files, stream, results, ClientOpenServer
<1>11. ASSUME NEW c \in Clients, ClientWrite(c) PROVE DataOK'
  <2>1. sent[c] \in 0 .. Parts /\ sent[c] < Parts
    BY <1>11 DEF ClientWrite, TypeOK, ClientHasSent, At
  <2>2. sent[c] + 1 \in 1 .. Parts
    BY <2>1, MatrixAssumption
  <2>3. Part(c, sent[c] + 1) \in PartsOfRequests
    BY <2>2, PartIsTyped
  <2>4. pipe' \in Seq(PartsOfRequests) /\ sent' \in [Clients -> 0 .. Parts]
    BY <1>11, <2>2, <2>3 DEF ClientWrite, TypeOK
  <2>5. clean' \in BOOLEAN
    BY <1>11 DEF ClientWrite
  <2> QED
    BY <1>11, <2>4, <2>5 DEF ClientWrite, DataOK, TypeOK, files, results
<1>12. ASSUME NEW c \in Clients, ClientPipeBroken(c) PROVE DataOK'
  BY <1>12
     DEF TypeOK, DataOK, Goto, At, files, stream, results, ClientPipeBroken
<1>13. ASSUME NEW c \in Clients, ClientRead(c) PROVE DataOK'
  BY <1>13 DEF TypeOK, DataOK, Goto, At, files, stream, results, ClientRead
<1>14. ASSUME NEW c \in Clients, ClientPrint(c) PROVE DataOK'
  BY <1>14 DEF TypeOK, DataOK, Goto, At, files, stream, results, ClientPrint
<1>15. ASSUME WorkerRead PROVE DataOK'
  BY <1>15 DEF TypeOK, DataOK, Goto, At, files, stream, results, WorkerRead
<1>16. ASSUME WorkerShort PROVE DataOK'
  BY <1>16 DEF TypeOK, DataOK, Goto, At, files, stream, results, WorkerShort
<1>17. ASSUME WorkerNoFifo PROVE DataOK'
  BY <1>17 DEF TypeOK, DataOK, Goto, At, files, stream, results, WorkerNoFifo
<1>18. ASSUME NEW c \in Clients, OpenResponse(c) PROVE DataOK'
  BY <1>18 DEF TypeOK, DataOK, Goto, At, files, stream, results, OpenResponse
<1>19. ASSUME WorkerRespond PROVE DataOK'
  <2>1. response' \in [Clients -> Responses \cup {None}]
    <3>1. CASE response' = response
      BY <3>1 DEF TypeOK
    <3>2. ASSUME NEW v \in Verdicts, NEW c,
                 response' = [response EXCEPT ![c] = [isInvertable |-> v, from |-> req]]
          PROVE  response' \in [Clients -> Responses \cup {None}]
      <4>1. [isInvertable |-> v, from |-> req] \in Responses
        BY VerdictsAreTyped DEF TypeOK, Responses
      <4> QED
        BY <3>2, <4>1 DEF TypeOK
    <3> QED
      BY <1>19, <3>1, <3>2 DEF WorkerRespond
  <2> QED
    BY <1>19, <2>1 DEF WorkerRespond, DataOK, TypeOK, files
<1>20. ASSUME WorkerFlag PROVE DataOK'
  BY <1>20 DEF TypeOK, DataOK, Goto, At, files, stream, results, WorkerFlag
<1>21. ASSUME NEW p \in Procs, CatchSigint(p) PROVE DataOK'
  <2>1. /\ serverFifo' = serverFifo /\ clientFifo' = clientFifo
        /\ pipe' = pipe /\ sent' = sent
        /\ response' = response /\ told' = told
        /\ clean' \in BOOLEAN /\ (req' = req \/ req' = <<>>)
    BY <1>21, InterruptStep
  <2>2. req' \in Seq(PartsOfRequests)
    <3>1. req \in Seq(PartsOfRequests) /\ <<>> \in Seq(PartsOfRequests)
      BY DEF TypeOK
    <3> QED
      BY <2>1, <3>1
  <2>3. sigintcaught' \in SUBSET Procs
    BY <1>21 DEF CatchSigint, TypeOK
  <2> QED
    BY <2>1, <2>2, <2>3 DEF DataOK, TypeOK
<1>22. CASE UNCHANGED vars
  BY <1>22 DEF TypeOK, DataOK, Goto, At, files, stream, results, vars
<1> QED
  BY <1>1, <1>2, <1>3, <1>4, <1>5, <1>6, <1>7, <1>8, <1>9, <1>10, <1>11, <1>12,
     <1>13, <1>14, <1>15, <1>16, <1>17, <1>18, <1>19, <1>20, <1>21, <1>22
     DEF Next, StartUp, Worker, Client

LEMMA TypeStep ==
  ASSUME TypeOK, ClientHasSent, [Next]_vars
  PROVE  TypeOK'
  BY LabelsStep, DataStep DEF TypeOK, Labelled, DataOK

\* The worker's buffer fits its label.
LEMMA WorkerHoldsStep ==
  ASSUME TypeOK, WorkerHolds, [Next]_vars
  PROVE  WorkerHolds'
<1>1. ASSUME YStart PROVE WorkerHolds'
  BY <1>1, WorkerIsOnlyWorker
     DEF TypeOK, WorkerHolds, Goto, At, files, stream, results, YStart
<1>2. ASSUME YMakeFifo PROVE WorkerHolds'
  BY <1>2, WorkerIsOnlyWorker
     DEF TypeOK, WorkerHolds, Goto, At, files, stream, results, YMakeFifo
<1>3. ASSUME YOpenServer PROVE WorkerHolds'
  BY <1>3, WorkerIsOnlyWorker
     DEF TypeOK, WorkerHolds, Goto, At, files, stream, results, YOpenServer
<1>4. ASSUME OpenYToZ PROVE WorkerHolds'
  BY <1>4, WorkerIsOnlyWorker
     DEF TypeOK, WorkerHolds, Goto, At, files, stream, results, OpenYToZ
<1>5. ASSUME ZFork PROVE WorkerHolds'
  BY <1>5, WorkerIsOnlyWorker
     DEF TypeOK, WorkerHolds, Goto, At, files, stream, results, ZFork
<1>6. ASSUME YFork PROVE WorkerHolds'
  BY <1>6, WorkerIsOnlyWorker, MatrixAssumption
     DEF TypeOK, WorkerHolds, Goto, At, files, stream, results, YFork
<1>7. ASSUME YEnd PROVE WorkerHolds'
  BY <1>7, WorkerIsOnlyWorker
     DEF TypeOK, WorkerHolds, Goto, At, files, stream, results, YEnd
<1>8. ASSUME NEW c \in Clients, ClientStart(c) PROVE WorkerHolds'
  BY <1>8, WorkerIsOnlyWorker
     DEF TypeOK, WorkerHolds, Goto, At, files, stream, results, ClientStart
<1>9. ASSUME NEW c \in Clients, ClientSubmit(c) PROVE WorkerHolds'
  BY <1>9, WorkerIsOnlyWorker
     DEF TypeOK, WorkerHolds, Goto, At, files, stream, results, ClientSubmit
<1>10. ASSUME NEW c \in Clients, ClientOpenServer(c) PROVE WorkerHolds'
  BY <1>10, WorkerIsOnlyWorker
     DEF TypeOK, WorkerHolds, Goto, At, files, stream, results, ClientOpenServer
<1>11. ASSUME NEW c \in Clients, ClientWrite(c) PROVE WorkerHolds'
  BY <1>11, WorkerIsOnlyWorker
     DEF TypeOK, WorkerHolds, Goto, At, files, stream, results, ClientWrite
<1>12. ASSUME NEW c \in Clients, ClientPipeBroken(c) PROVE WorkerHolds'
  BY <1>12, WorkerIsOnlyWorker
     DEF TypeOK, WorkerHolds, Goto, At, files, stream, results, ClientPipeBroken
<1>13. ASSUME NEW c \in Clients, ClientRead(c) PROVE WorkerHolds'
  BY <1>13, WorkerIsOnlyWorker
     DEF TypeOK, WorkerHolds, Goto, At, files, stream, results, ClientRead
<1>14. ASSUME NEW c \in Clients, ClientPrint(c) PROVE WorkerHolds'
  BY <1>14, WorkerIsOnlyWorker
     DEF TypeOK, WorkerHolds, Goto, At, files, stream, results, ClientPrint
<1>15. ASSUME WorkerRead PROVE WorkerHolds'
  BY <1>15, WorkerIsOnlyWorker, MatrixAssumption
     DEF TypeOK, WorkerHolds, Goto, At, files, stream, results, WorkerRead
<1>16. ASSUME WorkerShort PROVE WorkerHolds'
  BY <1>16, WorkerIsOnlyWorker, MatrixAssumption
     DEF TypeOK, WorkerHolds, Goto, At, files, stream, results, WorkerShort
<1>17. ASSUME WorkerNoFifo PROVE WorkerHolds'
  BY <1>17, WorkerIsOnlyWorker, MatrixAssumption
     DEF TypeOK, WorkerHolds, Goto, At, files, stream, results, WorkerNoFifo
<1>18. ASSUME NEW c \in Clients, OpenResponse(c) PROVE WorkerHolds'
  BY <1>18, WorkerIsOnlyWorker
     DEF TypeOK, WorkerHolds, Goto, At, files, stream, results, OpenResponse
<1>19. ASSUME WorkerRespond PROVE WorkerHolds'
  BY <1>19, WorkerIsOnlyWorker
     DEF TypeOK, WorkerHolds, Goto, At, files, stream, results, WorkerRespond
<1>20. ASSUME WorkerFlag PROVE WorkerHolds'
  BY <1>20, WorkerIsOnlyWorker, MatrixAssumption
     DEF TypeOK, WorkerHolds, Goto, At, files, stream, results, WorkerFlag
<1>21. ASSUME NEW p \in Procs, CatchSigint(p) PROVE WorkerHolds'
  <2>1. /\ pc'[Y] \in {pc[Y], "failed"}
        /\ \/ req' = req /\ pc'[W] = pc[W]
           \/ pc[W] = "open" /\ pc'[W] = "read" /\ req' = <<>>
    BY <1>21, InterruptStep
  <2> QED
    BY <2>1, MatrixAssumption DEF WorkerHolds
<1>22. CASE UNCHANGED vars
  BY <1>22 DEF TypeOK, WorkerHolds, Goto, At, files, stream, results, vars
<1> QED
  BY <1>1, <1>2, <1>3, <1>4, <1>5, <1>6, <1>7, <1>8, <1>9, <1>10, <1>11, <1>12,
     <1>13, <1>14, <1>15, <1>16, <1>17, <1>18, <1>19, <1>20, <1>21, <1>22
     DEF Next, StartUp, Worker, Client

\* A client's counter fits its label.
LEMMA ClientHasSentStep ==
  ASSUME TypeOK, ClientHasSent, [Next]_vars
  PROVE  ClientHasSent'
<1>1. ASSUME YStart PROVE ClientHasSent'
  BY <1>1, WorkerIsOnlyWorker
     DEF TypeOK, ClientHasSent, Goto, At, files, stream, results, YStart
<1>2. ASSUME YMakeFifo PROVE ClientHasSent'
  BY <1>2, WorkerIsOnlyWorker
     DEF TypeOK, ClientHasSent, Goto, At, files, stream, results, YMakeFifo
<1>3. ASSUME YOpenServer PROVE ClientHasSent'
  BY <1>3, WorkerIsOnlyWorker, MatrixAssumption
     DEF TypeOK, ClientHasSent, Goto, At, files, stream, results, YOpenServer
<1>4. ASSUME OpenYToZ PROVE ClientHasSent'
  BY <1>4, WorkerIsOnlyWorker
     DEF TypeOK, ClientHasSent, Goto, At, files, stream, results, OpenYToZ
<1>5. ASSUME ZFork PROVE ClientHasSent'
  BY <1>5, WorkerIsOnlyWorker
     DEF TypeOK, ClientHasSent, Goto, At, files, stream, results, ZFork
<1>6. ASSUME YFork PROVE ClientHasSent'
  BY <1>6, WorkerIsOnlyWorker
     DEF TypeOK, ClientHasSent, Goto, At, files, stream, results, YFork
<1>7. ASSUME YEnd PROVE ClientHasSent'
  BY <1>7, WorkerIsOnlyWorker
     DEF TypeOK, ClientHasSent, Goto, At, files, stream, results, YEnd
<1>8. ASSUME NEW c \in Clients, ClientStart(c) PROVE ClientHasSent'
  BY <1>8, WorkerIsOnlyWorker
     DEF TypeOK, ClientHasSent, Goto, At, files, stream, results, ClientStart
<1>9. ASSUME NEW c \in Clients, ClientSubmit(c) PROVE ClientHasSent'
  BY <1>9, WorkerIsOnlyWorker
     DEF TypeOK, ClientHasSent, Goto, At, files, stream, results, ClientSubmit
<1>10. ASSUME NEW c \in Clients, ClientOpenServer(c) PROVE ClientHasSent'
  BY <1>10, WorkerIsOnlyWorker, MatrixAssumption
     DEF TypeOK, ClientHasSent, Goto, At, files, stream, results,
         ClientOpenServer
<1>11. ASSUME NEW c \in Clients, ClientWrite(c) PROVE ClientHasSent'
  <2>1. \A d \in Clients \ {c} : pc'[d] = pc[d] /\ sent'[d] = sent[d]
    BY <1>11 DEF TypeOK, Goto, ClientWrite
  <2>2. sent'[c] = sent[c] + 1 /\ sent[c] \in 0 .. Parts - 1
    BY <1>11, MatrixAssumption DEF TypeOK, At, ClientHasSent, ClientWrite
  <2>3. pc'[c] = IF sent[c] + 1 = Parts THEN "openOwn" ELSE "write"
    BY <1>11 DEF TypeOK, Goto, ClientWrite
  <2> QED
    BY <2>1, <2>2, <2>3, MatrixAssumption DEF ClientHasSent
<1>12. ASSUME NEW c \in Clients, ClientPipeBroken(c) PROVE ClientHasSent'
  BY <1>12, WorkerIsOnlyWorker
     DEF TypeOK, ClientHasSent, Goto, At, files, stream, results,
         ClientPipeBroken
<1>13. ASSUME NEW c \in Clients, ClientRead(c) PROVE ClientHasSent'
  BY <1>13, WorkerIsOnlyWorker
     DEF TypeOK, ClientHasSent, Goto, At, files, stream, results, ClientRead
<1>14. ASSUME NEW c \in Clients, ClientPrint(c) PROVE ClientHasSent'
  BY <1>14, WorkerIsOnlyWorker
     DEF TypeOK, ClientHasSent, Goto, At, files, stream, results, ClientPrint
<1>15. ASSUME WorkerRead PROVE ClientHasSent'
  BY <1>15, WorkerIsOnlyWorker
     DEF TypeOK, ClientHasSent, Goto, At, files, stream, results, WorkerRead
<1>16. ASSUME WorkerShort PROVE ClientHasSent'
  BY <1>16, WorkerIsOnlyWorker
     DEF TypeOK, ClientHasSent, Goto, At, files, stream, results, WorkerShort
<1>17. ASSUME WorkerNoFifo PROVE ClientHasSent'
  BY <1>17, WorkerIsOnlyWorker
     DEF TypeOK, ClientHasSent, Goto, At, files, stream, results, WorkerNoFifo
<1>18. ASSUME NEW c \in Clients, OpenResponse(c) PROVE ClientHasSent'
  BY <1>18, WorkerIsOnlyWorker
     DEF TypeOK, ClientHasSent, Goto, At, files, stream, results, OpenResponse
<1>19. ASSUME WorkerRespond PROVE ClientHasSent'
  BY <1>19, WorkerIsOnlyWorker
     DEF TypeOK, ClientHasSent, Goto, At, files, stream, results, WorkerRespond
<1>20. ASSUME WorkerFlag PROVE ClientHasSent'
  BY <1>20, WorkerIsOnlyWorker
     DEF TypeOK, ClientHasSent, Goto, At, files, stream, results, WorkerFlag
<1>21. ASSUME NEW p \in Procs, CatchSigint(p) PROVE ClientHasSent'
  BY <1>21, InterruptStep DEF ClientHasSent
<1>22. CASE UNCHANGED vars
  BY <1>22 DEF TypeOK, ClientHasSent, Goto, At, files, stream, results, vars
<1> QED
  BY <1>1, <1>2, <1>3, <1>4, <1>5, <1>6, <1>7, <1>8, <1>9, <1>10, <1>11, <1>12,
     <1>13, <1>14, <1>15, <1>16, <1>17, <1>18, <1>19, <1>20, <1>21, <1>22
     DEF Next, StartUp, Worker, Client

-----------------------------------------------------------------------------
\* What a step does to the stream, as long as it is clean afterwards.
Unmoved == UNCHANGED <<req, pipe, sent>>
Dropped == /\ Len(req) = Parts /\ req' = <<>>
           /\ UNCHANGED <<pipe, sent>>
PartRead == /\ pipe # <<>> /\ Len(req) < Parts
            /\ req' = Append(req, Head(pipe)) /\ pipe' = Tail(pipe)
            /\ UNCHANGED sent
PartWritten(c) == /\ sent[c] < Parts
                  /\ pipe' = Append(pipe, Part(c, sent[c] + 1))
                  /\ sent' = [sent EXCEPT ![c] = @ + 1]
                  /\ \A d \in Clients \ {c} : sent[d] \in {0, Parts}
                  /\ UNCHANGED req
StreamMoves == Unmoved \/ Dropped \/ PartRead
               \/ \E c \in Clients : PartWritten(c)

\* Only these four.
LEMMA StreamStep ==
  ASSUME TypeOK, WorkerHolds, ClientHasSent, [Next]_vars
  PROVE  clean' => clean /\ StreamMoves
<1>1. ASSUME YStart PROVE clean' => clean /\ StreamMoves
  BY <1>1 DEF StreamMoves, Unmoved, files, stream, results, YStart
<1>2. ASSUME YMakeFifo PROVE clean' => clean /\ StreamMoves
  BY <1>2 DEF StreamMoves, Unmoved, files, stream, results, YMakeFifo
<1>3. ASSUME YOpenServer PROVE clean' => clean /\ StreamMoves
  BY <1>3 DEF StreamMoves, Unmoved, files, stream, results, YOpenServer
<1>4. ASSUME OpenYToZ PROVE clean' => clean /\ StreamMoves
  BY <1>4 DEF StreamMoves, Unmoved, files, stream, results, OpenYToZ
<1>5. ASSUME ZFork PROVE clean' => clean /\ StreamMoves
  BY <1>5 DEF StreamMoves, Unmoved, files, stream, results, ZFork
<1>6. ASSUME YFork PROVE clean' => clean /\ StreamMoves
  BY <1>6 DEF StreamMoves, Unmoved, files, stream, results, YFork
<1>7. ASSUME YEnd PROVE clean' => clean /\ StreamMoves
  BY <1>7 DEF StreamMoves, Unmoved, files, stream, results, YEnd
<1>8. ASSUME NEW c \in Clients, ClientStart(c) PROVE clean' => clean /\ StreamMoves
  BY <1>8 DEF StreamMoves, Unmoved, files, stream, results, ClientStart
<1>9. ASSUME NEW c \in Clients, ClientSubmit(c) PROVE clean' => clean /\ StreamMoves
  BY <1>9 DEF StreamMoves, Unmoved, files, stream, results, ClientSubmit
<1>10. ASSUME NEW c \in Clients, ClientOpenServer(c) PROVE clean' => clean /\ StreamMoves
  BY <1>10 DEF StreamMoves, Unmoved, files, stream, results, ClientOpenServer
<1>11. ASSUME NEW c \in Clients, ClientWrite(c) PROVE clean' => clean /\ StreamMoves
  BY <1>11 DEF TypeOK, At, WorkerHolds, ClientHasSent, StreamMoves,
     PartWritten, ClientWrite
<1>12. ASSUME NEW c \in Clients, ClientPipeBroken(c) PROVE clean' => clean /\ StreamMoves
  BY <1>12 DEF StreamMoves, Unmoved, files, stream, results, ClientPipeBroken
<1>13. ASSUME NEW c \in Clients, ClientRead(c) PROVE clean' => clean /\ StreamMoves
  BY <1>13 DEF StreamMoves, Unmoved, files, stream, results, ClientRead
<1>14. ASSUME NEW c \in Clients, ClientPrint(c) PROVE clean' => clean /\ StreamMoves
  BY <1>14 DEF StreamMoves, Unmoved, files, stream, results, ClientPrint
<1>15. ASSUME WorkerRead PROVE clean' => clean /\ StreamMoves
  BY <1>15 DEF TypeOK, At, WorkerHolds, ClientHasSent, StreamMoves,
     PartRead, WorkerRead
<1>16. ASSUME WorkerShort PROVE clean' => clean /\ StreamMoves
  BY <1>16 DEF StreamMoves, Unmoved, files, stream, results, WorkerShort
<1>17. ASSUME WorkerNoFifo PROVE clean' => clean /\ StreamMoves
  BY <1>17 DEF At, WorkerHolds, StreamMoves, Dropped, WorkerNoFifo
<1>18. ASSUME NEW c \in Clients, OpenResponse(c) PROVE clean' => clean /\ StreamMoves
  BY <1>18 DEF StreamMoves, Unmoved, files, stream, results, OpenResponse
<1>19. ASSUME WorkerRespond PROVE clean' => clean /\ StreamMoves
  BY <1>19 DEF At, WorkerHolds, StreamMoves, Dropped, WorkerRespond
<1>20. ASSUME WorkerFlag PROVE clean' => clean /\ StreamMoves
  BY <1>20 DEF StreamMoves, Unmoved, files, stream, results, WorkerFlag
<1>21. ASSUME NEW p \in Procs, CatchSigint(p) PROVE clean' => clean /\ StreamMoves
  BY <1>21, InterruptStep DEF StreamMoves, Unmoved, Dropped, WorkerHolds
<1>22. CASE UNCHANGED vars
  BY <1>22 DEF StreamMoves, Unmoved, files, stream, results, vars
<1> QED
  BY <1>1, <1>2, <1>3, <1>4, <1>5, <1>6, <1>7, <1>8, <1>9, <1>10, <1>11, <1>12,
     <1>13, <1>14, <1>15, <1>16, <1>17, <1>18, <1>19, <1>20, <1>21, <1>22
     DEF Next, StartUp, Worker, Client

\* The stream after each of them.
LEMMA StreamInvStep ==
  ASSUME TypeOK, StreamMoves, StreamAligned, OpenRequestIsLast, BufferOfOne,
         clean
  PROVE  /\ Aligned(Stream', sent') /\ OpenIsLast(Stream', sent')
         /\ \A k \in 1 .. Len(req') : req'[k] = Part(req'[1].of, k)
<1>1. /\ req \in Seq(PartsOfRequests) /\ pipe \in Seq(PartsOfRequests)
      /\ sent \in [Clients -> 0 .. Parts]
      /\ req \o pipe \in Seq(PartsOfRequests)
  BY OneStream DEF TypeOK
<1>2. Aligned(req \o pipe, sent)
  BY DEF StreamAligned, Aligned, Stream
<1>3. OpenIsLast(req \o pipe, sent)
  BY DEF OpenRequestIsLast, OpenIsLast, Stream
<1>4. \A k \in 1 .. Len(req) : req[k] = Part(req[1].of, k)
  BY DEF BufferOfOne
<1>5. Stream' = req' \o pipe'
  BY DEF Stream
<1>6. CASE Unmoved
  BY <1>2, <1>3, <1>4, <1>5, <1>6 DEF Unmoved
<1>7. CASE Dropped
  <2>1. Stream' = pipe
    BY <1>1, <1>5, <1>7, ConcatEmptySeq DEF Dropped
  <2>2. Aligned(pipe, sent) /\ OpenIsLast(pipe, sent)
    BY <1>1, <1>2, <1>3, <1>4, <1>7, DropWhole DEF Dropped
  <2>3. req' = <<>> /\ sent' = sent
    BY <1>7 DEF Dropped
  <2> QED
    BY <2>1, <2>2, <2>3
<1>8. CASE PartRead
  <2>1. Stream' = req \o pipe /\ sent' = sent
    BY <1>1, <1>5, <1>8, ReadKeepsStream DEF PartRead
  <2>2. \A k \in 1 .. Len(req') : req'[k] = Part(req'[1].of, k)
    BY <1>1, <1>2, <1>4, <1>8, ReadOn DEF PartRead
  <2> QED
    BY <1>2, <1>3, <2>1, <2>2
<1>9. ASSUME NEW c \in Clients, PartWritten(c)
      PROVE  /\ Aligned(Stream', sent') /\ OpenIsLast(Stream', sent')
             /\ \A k \in 1 .. Len(req') : req'[k] = Part(req'[1].of, k)
  <2>1. /\ sent[c] < Parts /\ req' = req
        /\ \A d \in Clients \ {c} : sent[d] \in {0, Parts}
        /\ sent' = [sent EXCEPT ![c] = @ + 1]
        /\ pipe' = Append(pipe, Part(c, sent[c] + 1))
    BY <1>9 DEF PartWritten
  <2>2. Part(c, sent[c] + 1) \in PartsOfRequests
    <3>1. sent[c] + 1 \in 1 .. Parts
      BY <1>1, <2>1, MatrixAssumption
    <3> QED
      BY <3>1, PartIsTyped
  <2>3. Stream' = Append(req \o pipe, Part(c, sent[c] + 1))
    BY <1>1, <1>5, <2>1, <2>2, WriteExtendsStream
  <2>4. Aligned(Stream', sent') /\ OpenIsLast(Stream', sent')
    BY <1>1, <1>2, <1>3, <2>1, <2>3, WriteAlone
  <2> QED
    BY <1>4, <2>1, <2>4
<1> QED
  BY <1>6, <1>7, <1>8, <1>9 DEF StreamMoves

LEMMA StreamInvariants ==
  ASSUME TypeOK, WorkerHolds, ClientHasSent, StreamAligned, OpenRequestIsLast,
         BufferOfOne, [Next]_vars
  PROVE  StreamAligned' /\ OpenRequestIsLast' /\ BufferOfOne'
<1> SUFFICES ASSUME clean'
             PROVE  /\ Aligned(Stream', sent') /\ OpenIsLast(Stream', sent')
                    /\ \A k \in 1 .. Len(req') : req'[k] = Part(req'[1].of, k)
  BY DEF StreamAligned, Aligned, OpenRequestIsLast, OpenIsLast, BufferOfOne
<1> QED
  BY StreamStep, StreamInvStep

-----------------------------------------------------------------------------
\* When the worker answers on a clean stream, it answers one client, from its
\* whole request.
LEMMA WholeRequest ==
  ASSUME TypeOK, WorkerHolds, BufferOfOne, clean, pc[W] = "respond"
  PROVE  /\ req[1].of \in Clients
         /\ req = Whole(req[1].of)
         /\ Verdicts = {isInvertable(matrix[req[1].of])}
<1>1. Len(req) = Parts /\ Parts \in Nat /\ 1 < Parts
  BY MatrixAssumption DEF WorkerHolds
<1>2. req[1] \in PartsOfRequests
  BY <1>1 DEF TypeOK
<1>3. req[1].of \in Clients
  BY <1>2 DEF PartsOfRequests
<1>4. req = Whole(req[1].of)
  <2>1. req = [k \in 1 .. Parts |-> req[k]]
    BY <1>1 DEF TypeOK
  <2>2. \A k \in 1 .. Parts : req[k] = Part(req[1].of, k)
    BY <1>1 DEF BufferOfOne
  <2> QED
    BY <2>1, <2>2 DEF Whole
<1> QED
  BY <1>3, <1>4 DEF Verdicts

\* Which steps change what the clients are told.
LEMMA ResultSteps ==
  ASSUME TypeOK, [Next]_vars
  PROVE  \/ UNCHANGED results
         \/ WorkerRespond
         \/ \E c \in Clients : ClientPrint(c)
<1>1. ASSUME StartUp \/ YEnd PROVE UNCHANGED results
  BY <1>1 DEF StartUp, YStart, YMakeFifo, YOpenServer, OpenYToZ, ZFork, YFork,
     YEnd
<1>2. ASSUME NEW c \in Clients, Client(c), ~ClientPrint(c)
      PROVE  UNCHANGED results
  BY <1>2 DEF Client, ClientStart, ClientSubmit, ClientOpenServer, ClientWrite,
     ClientPipeBroken, ClientRead
<1>3. ASSUME Worker, ~WorkerRespond PROVE UNCHANGED results
  BY <1>3 DEF Worker, WorkerRead, WorkerShort, WorkerNoFifo, WorkerFlag
<1>4. ASSUME NEW c \in Clients, OpenResponse(c) PROVE UNCHANGED results
  BY <1>4 DEF OpenResponse
<1>5. ASSUME NEW p \in Procs, CatchSigint(p) PROVE UNCHANGED results
  BY <1>5 DEF CatchSigint
<1>6. ASSUME UNCHANGED vars PROVE UNCHANGED results
  BY <1>6 DEF vars, results
<1> QED
  BY <1>1, <1>2, <1>3, <1>4, <1>5, <1>6 DEF Next

\* Responses and verdicts.
LEMMA VerdictStep ==
  ASSUME TypeOK, WorkerHolds, ClientHasSent, BufferOfOne, OwnResponse,
         OwnVerdict, [Next]_vars
  PROVE  OwnResponse' /\ OwnVerdict'
<1> SUFFICES ASSUME clean', NEW c \in Clients
             PROVE  OfOwnRequest(c, response'[c]) /\ OfOwnRequest(c, told'[c])
  BY DEF OwnResponse, OwnVerdict, OfOwnRequest
<1>1. clean
  BY StreamStep
<1>2. OfOwnRequest(c, response[c]) /\ OfOwnRequest(c, told[c])
  BY <1>1 DEF OwnResponse, OwnVerdict
<1>3. CASE UNCHANGED results
  BY <1>2, <1>3 DEF results
<1>4. CASE WorkerRespond
  <2>1. pc[W] = "respond" /\ told' = told
    BY <1>4 DEF WorkerRespond, At
  <2>2. \/ response' = response
        \/ response' = [response EXCEPT ![req[1].of] =
             [isInvertable |-> isInvertable(matrix[req[1].of]), from |-> req]]
    BY <1>1, <1>4, <2>1, WholeRequest DEF WorkerRespond
  <2>3. OfOwnRequest(c, [isInvertable |-> isInvertable(matrix[c]), from |-> Whole(c)])
    BY DEF OfOwnRequest, isInvertable, determinantOfMatrix
  <2>4. req = Whole(req[1].of)
    BY <1>1, <2>1, WholeRequest
  <2>5. response'[c] \in {response[c],
          [isInvertable |-> isInvertable(matrix[c]), from |-> Whole(c)]}
    <3>1. CASE response' = response
      BY <3>1
    <3>2. CASE response' = [response EXCEPT ![req[1].of] =
             [isInvertable |-> isInvertable(matrix[req[1].of]), from |-> req]]
      <4>1. CASE c = req[1].of
        BY <2>4, <3>2, <4>1 DEF TypeOK
      <4>2. CASE c # req[1].of
        BY <3>2, <4>2 DEF TypeOK
      <4> QED
        BY <4>1, <4>2
    <3> QED
      BY <2>2, <3>1, <3>2
  <2> QED
    BY <1>2, <2>1, <2>3, <2>5
<1>5. ASSUME NEW d \in Clients, ClientPrint(d)
      PROVE  OfOwnRequest(c, response'[c]) /\ OfOwnRequest(c, told'[c])
  <2>1. response' = response /\ told'[c] \in {told[c], response[c]}
    BY <1>5 DEF ClientPrint, TypeOK
  <2> QED
    BY <1>2, <2>1
<1> QED
  BY <1>3, <1>4, <1>5, ResultSteps

-----------------------------------------------------------------------------
\* The strengthened invariant holds at the start.
LEMMA Initially == Init => IInv
<1> SUFFICES ASSUME Init PROVE IInv
  OBVIOUS
<1> USE MatrixAssumption, WorkerIsOnlyWorker DEF Init
<1>1. TypeOK
  BY DEF TypeOK
<1>2. WorkerHolds /\ ClientHasSent
  BY DEF WorkerHolds, ClientHasSent
<1>3. Stream = <<>> /\ Len(Stream) = 0
  BY DEF Stream
<1>4. StreamAligned /\ OpenRequestIsLast /\ BufferOfOne
  BY <1>3 DEF StreamAligned, OpenRequestIsLast, BufferOfOne
<1>5. OwnResponse /\ OwnVerdict
  BY DEF OwnResponse, OwnVerdict, OfOwnRequest
<1> QED
  BY <1>1, <1>2, <1>4, <1>5 DEF IInv

\* The strengthened invariant holds in every reachable state.
THEOREM Invariance == Spec => []IInv
<1>1. IInv /\ [Next]_vars => IInv'
  BY TypeStep, WorkerHoldsStep, ClientHasSentStep, StreamInvariants,
     VerdictStep DEF IInv
<1> QED
  BY Initially, <1>1, PTL DEF Spec

\* serverY.c: while no request was cut or mixed with another, the
\* worker has a row of whole requests before it, however reads and writes cut
\* the requests into parts.
THEOREM Alignment == Spec => []StreamAligned
<1>1. IInv => StreamAligned
  BY DEF IInv
<1> QED
  BY Invariance, <1>1, PTL

\* And every client that prints a verdict prints one that was computed from its
\* own whole request, and with one row the right one, for any number of clients that write in turn.
THEOREM Verdict == Spec => []OwnVerdict
<1>1. IInv => OwnVerdict
  BY DEF IInv
<1> QED
  BY Invariance, <1>1, PTL
=============================================================================
