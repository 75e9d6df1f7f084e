---------------------------- MODULE Servant_proof ----------------------------
(***************************************************************************)
(* Proofs about the servants of Final/source_code: their processes, in     *)
(* ServantProcesses, for any number of servants, clients and interrupts;   *)
(* and what they hold, in TransactionData and DateRange, for any data set, *)
(* ranges and request.                                                     *)
(***************************************************************************)
EXTENDS ServantProcesses, TransactionData, SequenceTheorems, FiniteSetTheorems,
        WellFoundedInduction, TLAPS

-----------------------------------------------------------------------------
\* The port file.

Labels == {"start", "open", "wait", "read", "write", "post", "register",
           "create", "test", "join", "accept", "gone"}
ThreadLabels == {"none", "bind", "top", "accept", "read", "count", "returned"}

TypeOK ==
  /\ pc \in [Processes -> Labels]
  /\ thread \in [Servants -> ThreadLabels]
  /\ portFile \in Nat \ {0}
  /\ port \in [Servants -> Nat]
  /\ value \in Seq(Nat)
  /\ named \in 0 .. Len(value)
  /\ sp \in [Servants -> 0 .. Len(value)]
  /\ broken \in BOOLEAN

\* Only a servant that is past the port file has a thread.
ThreadsLate == \A s \in Servants : thread[s] # "none" => pc[s] \in {"test", "join"}

\* A servant that uses its semaphore has opened it.
Opened == \A s \in Servants :
            pc[s] \in {"wait", "read", "write", "post"} => sp[s] \in 1 .. Len(value)

Inside(s) == pc[s] \in {"read", "write", "post"}

\* While there is one semaphore, and nobody has passed it unasked, its value
\* and the servants in the section between wait and post are one together.
OneInside ==
  /\ \A s \in Servants : Inside(s) => value[1] = 0
  /\ \A s, t \in Servants : Inside(s) /\ Inside(t) => s = t
  /\ value # <<>> => value[1] \in {0, 1}

\* A servant that has drawn a port has drawn one below the number in the
\* file, or is about to write the next one to it.
PortsBelow ==
  \A s \in Servants :
    /\ pc[s] \in {"start", "open", "wait", "read"} => port[s] = 0
    /\ pc[s] = "write" => port[s] = portFile
    /\ port[s] # 0 => port[s] < portFile \/ pc[s] = "write"

Quiet == Len(value) <= 1 /\ ~broken

PInv == /\ TypeOK /\ ThreadsLate /\ Opened
        /\ Quiet => OneInside /\ PortsBelow /\ DistinctPorts

USE DEF Labels, ThreadLabels, Processes

-----------------------------------------------------------------------------
\* The steps that have nothing to do with the port file: they change no
\* variable of it, but for the name of the semaphore, and move no servant into
\* its section, or out of it.
NearFile == {"wait", "read", "write", "post"}
Behind == {"register", "create", "test", "join"}
Far ==
  /\ UNCHANGED <<portFile, value, sp, port, broken>>
  /\ named' \in {named, 0}
  /\ pc' \in [Processes -> Labels]
  /\ thread' \in [Servants -> ThreadLabels]
  /\ \A s \in Servants :
       \/ pc'[s] = pc[s]
       \/ pc[s] = "start" /\ pc'[s] = "open"
       \/ pc[s] \in Behind /\ pc'[s] \in Behind \ {"register"}
       \/ pc[s] \notin NearFile /\ pc'[s] = "gone"

\* The end of a servant that is not in the section is such a step.
LEMMA EndIsFar ==
  ASSUME TypeOK, ThreadsLate, NEW s \in Servants, Exit(s) \/ UnlinkAndExit(s),
         pc[s] \notin NearFile
  PROVE  Far /\ ThreadsLate'
<1>1. /\ pc' = [pc EXCEPT ![s] = "gone"]
      /\ thread' = [thread EXCEPT ![s] = "none"]
      /\ UNCHANGED <<portFile, value, sp, port, broken>>
      /\ named' \in {named, 0}
  BY DEF Exit, UnlinkAndExit, Die, Jump, Step
<1> QED
  BY <1>1 DEF TypeOK, ThreadsLate, Far, NearFile, Behind

\* main of a servant before and behind the section.
LEMMA MainIsFar ==
  ASSUME TypeOK, ThreadsLate, NEW s \in Servants,
         \/ Load(s) \/ Register(s) \/ CreateThread(s) \/ TestFlag(s) \/ Join(s)
  PROVE  Far /\ ThreadsLate'
<1> USE DEF NearFile, Behind
<1>1. CASE Exit(s) \/ UnlinkAndExit(s)
  BY <1>1, EndIsFar DEF Load, Register, CreateThread, TestFlag, Join
<1>2. CASE ~(Exit(s) \/ UnlinkAndExit(s))
  <2>1. /\ \/ pc[s] = "start" /\ pc' = [pc EXCEPT ![s] = "open"]
           \/ pc[s] = "register" /\ pc' = [pc EXCEPT ![s] = "create"]
           \/ pc[s] = "create" /\ pc' = [pc EXCEPT ![s] = "test"]
           \/ pc[s] = "test" /\ pc' = [pc EXCEPT ![s] = "join"]
        /\ UNCHANGED portVars
        /\ \/ UNCHANGED thread
           \/ pc' = [pc EXCEPT ![s] = "test"] /\ thread' = [thread EXCEPT ![s] = "bind"]
    BY <1>2 DEF Load, Register, CreateThread, TestFlag, Join, Jump, Step,
                servantVars
  <2> QED
    BY <2>1 DEF TypeOK, ThreadsLate, Far, Behind, portVars
<1> QED
  BY <1>1, <1>2

\* The thread of a servant.
LEMMA ThreadIsFar ==
  ASSUME TypeOK, ThreadsLate, NEW s \in Servants, ServantThread(s)
  PROVE  Far /\ ThreadsLate'
<1>1. CASE Exit(s)
  <2>1. pc[s] \notin NearFile
    BY <1>1 DEF ServantThread, Bind, Top, ServantAccept, ServantRead,
                CountAndWrite, ThreadsLate, NearFile
  <2> QED
    BY <1>1, <2>1, EndIsFar
<1>2. CASE ~Exit(s)
  <2>1. /\ UNCHANGED portVars /\ pc' = pc
        /\ thread[s] # "none"
        /\ \E label \in {"top", "returned", "accept", "read", "count"} :
             thread' = [thread EXCEPT ![s] = label]
    BY <1>2 DEF ServantThread, Bind, Top, ServantAccept, ServantRead,
                CountAndWrite, Step
  <2> QED
    BY <2>1 DEF TypeOK, ThreadsLate, Far, Behind, portVars
<1> QED
  BY <1>1, <1>2

\* The server, the clients and the user.
LEMMA OthersAreFar ==
  ASSUME TypeOK, ThreadsLate, Server \notin Servants,
         \/ ServerProcess
         \/ \E c \in Clients : ClientConnect(c)
         \/ \E p \in Processes : Interrupt(p)
         \/ UNCHANGED vars
  PROVE  Far /\ ThreadsLate'
<1>1. /\ UNCHANGED portVars /\ UNCHANGED thread
      /\ \/ pc' = pc
         \/ \E label \in {"gone", "test", "accept"} :
              pc' = [pc EXCEPT ![Server] = label]
  <2>1. CASE ServerMain \/ CatchServer \/ PassOn
    BY <2>1 DEF ServerMain, ServerStart, ServerTest, ServerAccept, ServerExit,
                CatchServer, PassOn, HandlerReturns, Jump, servantVars
  <2>2. ASSUME NEW x \in Conns, Worker(x)
        PROVE  /\ UNCHANGED portVars /\ UNCHANGED thread
               /\ pc' = pc \/ pc' = [pc EXCEPT ![Server] = "gone"]
    BY <2>2 DEF Worker, WorkersLeave, WorkerRead, WorkerCall, WorkerTest, WorkerAdd,
                WorkerReply, ServerExit, Jump, servantVars
  <2>3. CASE \/ \E c \in Clients : ClientConnect(c)
             \/ \E p \in Processes : Interrupt(p)
    BY <2>3 DEF ClientConnect, Interrupt, servantVars
  <2>4. CASE UNCHANGED vars
    BY <2>4 DEF vars, servantVars
  <2> QED
    BY <2>1, <2>2, <2>3, <2>4 DEF ServerProcess
<1> QED
  BY <1>1 DEF TypeOK, ThreadsLate, Far, Behind, portVars

\* Such a step keeps the invariant.
LEMMA FarKeeps == PInv /\ Far /\ ThreadsLate' => PInv'
<1> SUFFICES ASSUME PInv, Far, ThreadsLate' PROVE PInv'
  OBVIOUS
<1> USE DEF Far, NearFile, Behind
<1>1. TypeOK' /\ Opened'
  <2>1. TypeOK'
    BY DEF PInv, TypeOK
  <2>2. Opened'
    BY DEF PInv, Opened
  <2> QED
    BY <2>1, <2>2
<1>2. ASSUME Quiet' PROVE OneInside' /\ PortsBelow' /\ DistinctPorts'
  <2>1. Quiet /\ OneInside /\ PortsBelow /\ DistinctPorts
    BY <1>2 DEF PInv, Quiet
  <2>2. OneInside'
    BY <2>1 DEF OneInside, Inside
  <2>3. PortsBelow' /\ DistinctPorts'
    BY <2>1 DEF PortsBelow, DistinctPorts
  <2> QED
    BY <2>2, <2>3
<1> QED
  BY <1>1, <1>2 DEF PInv

-----------------------------------------------------------------------------
\* The steps at the semaphore and at the file.  The handler that makes
\* sem_wait fail breaks the section, and nothing is claimed from then on.
LEMMA SectionSteps ==
  ASSUME PInv, NEW s \in Servants,
         \/ SemOpen(s) \/ SemWait(s) \/ ReadPort(s) \/ WritePort(s) \/ SemPost(s)
  PROVE  PInv'
<1>0. TypeOK /\ ThreadsLate /\ Opened
  BY DEF PInv
<1>1. ThreadsLate'
  BY <1>0 DEF SemOpen, SemWait, ReadPort, WritePort, SemPost, Jump, TypeOK,
              ThreadsLate, servantVars
<1>2. CASE SemOpen(s)
  <2>1. CASE named = 0
    <3>1. /\ value' = Append(value, 1) /\ named' = Len(value) + 1
          /\ sp' = [sp EXCEPT ![s] = Len(value) + 1]
          /\ pc' = [pc EXCEPT ![s] = "wait"] /\ pc[s] = "open"
          /\ UNCHANGED <<portFile, port, broken, thread>>
      <4>1. value' = Append(value, 1) /\ value \in Seq(Nat)
        BY <1>0, <1>2, <2>1 DEF SemOpen, TypeOK
      <4>2. Len(value') = Len(value) + 1
        BY <4>1
      <4> QED
        BY <1>2, <2>1, <4>1, <4>2 DEF SemOpen, Jump, servantVars
    <3>2. TypeOK' /\ Opened'
      <4>1. /\ value' \in Seq(Nat) /\ Len(value') = Len(value) + 1
            /\ named' \in 0 .. Len(value')
            /\ sp' \in [Servants -> 0 .. Len(value')]
        BY <1>0, <3>1 DEF TypeOK
      <4>2. TypeOK'
        BY <1>0, <3>1, <4>1 DEF TypeOK
      <4>3. Opened'
        BY <1>0, <3>1, <4>1 DEF TypeOK, Opened
      <4> QED
        BY <4>2, <4>3
    <3>3. ASSUME Quiet' PROVE OneInside' /\ PortsBelow' /\ DistinctPorts'
      <4>1. Len(value) = 0 /\ Quiet
        BY <1>0, <3>1, <3>3 DEF Quiet, TypeOK
      <4>2. OneInside /\ PortsBelow /\ DistinctPorts
        BY <4>1 DEF PInv
      <4>3. \A t \in Servants : ~Inside(t)
        BY <1>0, <4>1 DEF Opened, Inside
      <4>4. OneInside'
        BY <1>0, <3>1, <4>1, <4>3 DEF OneInside, Inside, TypeOK
      <4>5. PortsBelow' /\ DistinctPorts'
        BY <1>0, <3>1, <4>2 DEF PortsBelow, DistinctPorts, TypeOK
      <4> QED
        BY <4>4, <4>5
    <3> QED
      BY <1>1, <3>2, <3>3 DEF PInv
  <2>2. CASE named # 0
    <3>1. /\ UNCHANGED <<value, named, portFile, port, broken, thread>>
          /\ sp' = [sp EXCEPT ![s] = named]
          /\ pc' = [pc EXCEPT ![s] = "wait"] /\ pc[s] = "open"
      BY <1>2, <2>2 DEF SemOpen, Jump, servantVars
    <3>2. TypeOK' /\ Opened'
      BY <1>0, <2>2, <3>1 DEF TypeOK, Opened
    <3>3. ASSUME Quiet' PROVE OneInside' /\ PortsBelow' /\ DistinctPorts'
      <4>1. OneInside /\ PortsBelow /\ DistinctPorts
        BY <3>1, <3>3 DEF PInv, Quiet
      <4> QED
        BY <1>0, <3>1, <4>1 DEF OneInside, Inside, PortsBelow, DistinctPorts,
                                TypeOK
    <3> QED
      BY <1>1, <3>2, <3>3 DEF PInv
  <2> QED
    BY <2>1, <2>2
<1>3. CASE SemWait(s)
  <2>1. /\ value' = [value EXCEPT ![sp[s]] = @ - 1] /\ value[sp[s]] > 0
        /\ pc' = [pc EXCEPT ![s] = "read"] /\ pc[s] = "wait"
        /\ UNCHANGED <<portFile, named, sp, port, broken, thread>>
    BY <1>3 DEF SemWait, Jump, servantVars
  <2>2. sp[s] \in 1 .. Len(value) /\ value' \in Seq(Nat) /\ Len(value') = Len(value)
    BY <1>0, <2>1 DEF TypeOK, Opened
  <2>3. TypeOK' /\ Opened'
    BY <1>0, <2>1, <2>2 DEF TypeOK, Opened
  <2>4. ASSUME Quiet' PROVE OneInside' /\ PortsBelow' /\ DistinctPorts'
    <3>1. OneInside /\ PortsBelow /\ DistinctPorts
      BY <2>1, <2>2, <2>4 DEF PInv, Quiet
    <3>2. sp[s] = 1 /\ value[1] = 1 /\ value'[1] = 0 /\ value' # <<>>
      BY <1>0, <2>1, <2>2, <2>4, <3>1 DEF OneInside, Quiet, TypeOK
    <3>3. OneInside'
      BY <1>0, <2>1, <3>1, <3>2 DEF OneInside, Inside, TypeOK
    <3>4. PortsBelow' /\ DistinctPorts'
      BY <1>0, <2>1, <3>1 DEF PortsBelow, DistinctPorts, TypeOK
    <3> QED
      BY <3>3, <3>4
  <2> QED
    BY <1>1, <2>3, <2>4 DEF PInv
<1>4. CASE ReadPort(s)
  <2>1. /\ port' = [port EXCEPT ![s] = portFile]
        /\ pc' = [pc EXCEPT ![s] = "write"] /\ pc[s] = "read"
        /\ UNCHANGED <<portFile, named, value, sp, broken, thread>>
    BY <1>4 DEF ReadPort, Jump, servantVars
  <2>2. TypeOK' /\ Opened'
    BY <1>0, <2>1 DEF TypeOK, Opened
  <2>3. ASSUME Quiet' PROVE OneInside' /\ PortsBelow' /\ DistinctPorts'
    <3>1. OneInside /\ PortsBelow /\ DistinctPorts
      BY <2>1, <2>3 DEF PInv, Quiet
    <3>2. \A t \in Servants \ {s} : port[t] # 0 => port[t] < portFile
      BY <2>1, <3>1 DEF OneInside, Inside, PortsBelow
    <3>3. OneInside' /\ PortsBelow'
      BY <1>0, <2>1, <3>1 DEF OneInside, Inside, PortsBelow, TypeOK
    <3>4. DistinctPorts'
      BY <1>0, <2>1, <3>1, <3>2, SMTT(30) DEF DistinctPorts, Quiet, TypeOK
    <3> QED
      BY <3>3, <3>4
  <2> QED
    BY <1>1, <2>2, <2>3 DEF PInv
<1>5. CASE WritePort(s)
  <2>1. /\ portFile' = port[s] + 1
        /\ pc' = [pc EXCEPT ![s] = "post"] /\ pc[s] = "write"
        /\ UNCHANGED <<named, value, sp, port, broken, thread>>
    BY <1>5 DEF WritePort, Jump, servantVars
  <2>2. TypeOK' /\ Opened'
    BY <1>0, <2>1 DEF TypeOK, Opened
  <2>3. ASSUME Quiet' PROVE OneInside' /\ PortsBelow' /\ DistinctPorts'
    <3>1. OneInside /\ PortsBelow /\ DistinctPorts
      BY <2>1, <2>3 DEF PInv, Quiet
    <3>2. portFile' = portFile + 1
      BY <2>1, <3>1 DEF PortsBelow
    <3>3. \A t \in Servants \ {s} : pc[t] # "write"
      BY <2>1, <3>1 DEF OneInside, Inside
    <3>4. OneInside' /\ DistinctPorts'
      BY <1>0, <2>1, <3>1 DEF OneInside, Inside, DistinctPorts, TypeOK
    <3>5. PortsBelow'
      BY <1>0, <2>1, <3>1, <3>2, <3>3 DEF PortsBelow, TypeOK
    <3> QED
      BY <3>4, <3>5
  <2> QED
    BY <1>1, <2>2, <2>3 DEF PInv
<1>6. CASE SemPost(s)
  <2>1. /\ value' = [value EXCEPT ![sp[s]] = @ + 1]
        /\ pc' = [pc EXCEPT ![s] = "register"] /\ pc[s] = "post"
        /\ UNCHANGED <<portFile, named, sp, port, broken, thread>>
    BY <1>6 DEF SemPost, Jump, servantVars
  <2>2. sp[s] \in 1 .. Len(value) /\ value' \in Seq(Nat) /\ Len(value') = Len(value)
    BY <1>0, <2>1 DEF TypeOK, Opened
  <2>3. TypeOK' /\ Opened'
    BY <1>0, <2>1, <2>2 DEF TypeOK, Opened
  <2>4. ASSUME Quiet' PROVE OneInside' /\ PortsBelow' /\ DistinctPorts'
    <3>1. OneInside /\ PortsBelow /\ DistinctPorts
      BY <2>1, <2>2, <2>4 DEF PInv, Quiet
    <3>2. sp[s] = 1 /\ value[1] = 0 /\ value'[1] = 1 /\ value' # <<>>
      BY <1>0, <2>1, <2>2, <2>4, <3>1 DEF OneInside, Inside, Quiet, TypeOK
    <3>3. \A t \in Servants : ~Inside(t)'
      BY <1>0, <2>1, <3>1 DEF OneInside, Inside, TypeOK
    <3>4. OneInside'
      BY <3>2, <3>3 DEF OneInside
    <3>5. PortsBelow' /\ DistinctPorts'
      BY <1>0, <2>1, <3>1 DEF PortsBelow, DistinctPorts, TypeOK
    <3> QED
      BY <3>4, <3>5
  <2> QED
    BY <1>1, <2>3, <2>4 DEF PInv
<1> QED
  BY <1>2, <1>3, <1>4, <1>5, <1>6

\* A servant that cannot open the port file leaves the section with the post.
LEMMA OpenFailsKeeps ==
  ASSUME PInv, NEW s \in Servants, OpenFails(s)
  PROVE  PInv'
<1>0. TypeOK /\ ThreadsLate /\ Opened
  BY DEF PInv
<1>1. /\ value' = [value EXCEPT ![sp[s]] = @ + 1] /\ named' = 0
      /\ pc' = [pc EXCEPT ![s] = "gone"] /\ pc[s] = "read"
      /\ thread' = [thread EXCEPT ![s] = "none"]
      /\ UNCHANGED <<portFile, sp, port, broken>>
  BY DEF OpenFails, Die, Jump, Step
<1>2. sp[s] \in 1 .. Len(value) /\ value' \in Seq(Nat) /\ Len(value') = Len(value)
  BY <1>0, <1>1 DEF TypeOK, Opened
<1>3. TypeOK' /\ Opened' /\ ThreadsLate'
  <2>1. TypeOK'
    BY <1>0, <1>1, <1>2 DEF TypeOK
  <2>2. Opened' /\ ThreadsLate'
    BY <1>0, <1>1, <1>2 DEF TypeOK, Opened, ThreadsLate
  <2> QED
    BY <2>1, <2>2
<1>4. ASSUME Quiet' PROVE OneInside' /\ PortsBelow' /\ DistinctPorts'
  <2>1. OneInside /\ PortsBelow /\ DistinctPorts
    BY <1>1, <1>2, <1>4 DEF PInv, Quiet
  <2>2. sp[s] = 1 /\ value[1] = 0 /\ value'[1] = 1 /\ value' # <<>>
    BY <1>0, <1>1, <1>2, <1>4, <2>1 DEF OneInside, Inside, Quiet, TypeOK
  <2>3. \A t \in Servants : ~Inside(t)'
    BY <1>0, <1>1, <2>1 DEF OneInside, Inside, TypeOK
  <2>4. OneInside'
    BY <2>2, <2>3 DEF OneInside
  <2>5. PortsBelow' /\ DistinctPorts'
    BY <1>0, <1>1, <2>1 DEF PortsBelow, DistinctPorts, TypeOK
  <2> QED
    BY <2>4, <2>5
<1> QED
  BY <1>3, <1>4 DEF PInv

LEMMA CatchSteps ==
  ASSUME PInv, NEW s \in Servants, CatchServant(s)
  PROVE  PInv'
<1>0. TypeOK /\ ThreadsLate /\ Opened
  BY DEF PInv
<1>1. CASE UNCHANGED <<portVars, servantVars, pc>>
  <2>1. Far /\ ThreadsLate'
    BY <1>0, <1>1 DEF Far, TypeOK, ThreadsLate, portVars, servantVars
  <2> QED
    BY <2>1, FarKeeps
<1>2. CASE pc[s] = "wait" /\ Jump(s, "read") /\ broken'
           /\ UNCHANGED <<portFile, named, value, sp, port, servantVars>>
  <2>1. TypeOK' /\ Opened' /\ ThreadsLate'
    BY <1>0, <1>2 DEF TypeOK, Opened, ThreadsLate, Jump, servantVars
  <2> QED
    BY <1>2, <2>1 DEF PInv, Quiet
<1>3. CASE thread[s] = "accept" /\ Jump(s, "gone") /\ Step(s, "none")
           /\ UNCHANGED portVars
  <2>1. Far /\ ThreadsLate'
    BY <1>0, <1>3 DEF Far, NearFile, Behind, TypeOK, ThreadsLate, Jump, Step, portVars
  <2> QED
    BY <2>1, FarKeeps
<1> QED
  BY <1>1, <1>2, <1>3 DEF CatchServant

\* The invariant holds in every reachable state.
THEOREM PortFile == Spec => []PInv
<1>1. Init => PInv
  <2> SUFFICES ASSUME Init PROVE PInv
    OBVIOUS
  <2>0. value = <<>> /\ value \in Seq(Nat) /\ Len(value) = 0
    BY DEF Init
  <2>1. ThreadsLate /\ Opened
    BY DEF Init, ThreadsLate, Opened
  <2>2. TypeOK
    <3>1. portFile \in Nat \ {0} /\ named = 0
      BY DEF Init
    <3>5. broken \in BOOLEAN
      BY DEF Init
    <3>2. /\ pc \in [Processes -> Labels]
          /\ thread \in [Servants -> ThreadLabels]
      BY DEF Init
    <3>3. port \in [Servants -> Nat]
      BY DEF Init
    <3>4. sp \in [Servants -> 0 .. 0]
      BY DEF Init
    <3> QED
      BY <2>0, <3>1, <3>2, <3>3, <3>4, <3>5 DEF TypeOK
  <2>3. OneInside /\ PortsBelow /\ DistinctPorts
    BY <2>0 DEF Init, OneInside, PortsBelow, DistinctPorts, Inside
  <2> QED
    BY <2>1, <2>2, <2>3 DEF PInv
<1>2. PInv /\ [Next]_vars => PInv'
  <2> SUFFICES ASSUME PInv, [Next]_vars PROVE PInv'
    OBVIOUS
  <2>0. TypeOK /\ ThreadsLate /\ Server \notin Servants
    BY ProcessAssumption DEF PInv
  <2>1. ASSUME NEW s \in Servants, ServantProcess(s) PROVE PInv'
    BY <2>0, <2>1, MainIsFar, ThreadIsFar, FarKeeps, SectionSteps, CatchSteps,
       OpenFailsKeeps DEF ServantProcess, ServantMain
  <2>2. CASE \/ ServerProcess
             \/ \E c \in Clients : ClientConnect(c)
             \/ \E p \in Processes : Interrupt(p)
             \/ UNCHANGED vars
    <3>1. Far /\ ThreadsLate'
      BY <2>0, <2>2, OthersAreFar
    <3> QED
      BY <3>1, FarKeeps
  <2> QED
    BY <2>1, <2>2 DEF Next
<1> QED
  BY <1>1, <1>2, PTL DEF Spec

\* No two servants draw the same port, as long as there was one semaphore and
\* no sem_wait was interrupted.
THEOREM PortsAreDistinct == Spec => []DistinctPorts
<1>1. PInv => DistinctPorts
  BY DEF PInv, Quiet, DistinctPorts
<1> QED
  BY <1>1, PortFile, PTL

-----------------------------------------------------------------------------
\* The calls of the workers to the servants.

Stages == {"new", "connected", "queued", "left", "next", "sent", "await", "done"}
Calling == {"sent", "await"}
Endings == {"none", "eof", "reset"}

CallTypes ==
  /\ table \in Seq(Servants)
  /\ got \in [Clients -> Seq(Servants \cup {Stale})]
  /\ answer \in [Clients -> Servants \cup Endings]
  /\ backlog \in [Servants -> Seq(Clients)]
  /\ serves \in [Servants -> Clients \cup {Idle}]
  /\ stage \in [Conns -> Stages]
  /\ signal \in [Processes -> {"none", "pending", "caught"}]

\* A servant has its port from the moment it reads the file.
Drawn ==
  \A s \in Servants :
    /\ pc[s] \in {"start", "open", "wait", "read"} => port[s] = 0
    /\ pc[s] \in {"write", "post", "register", "create", "test", "join"} => port[s] # 0

\* What is in the table has registered, and what has registered has a port.
Registered ==
  /\ \A s \in Servants :
       stage[s] # "new" => port[s] # 0 /\ pc[s] \in {"create", "test", "join", "gone"}
  /\ \A k \in DOMAIN table : stage[table[k]] # "new"

\* What a thread can hold, where it is.
ThreadHolds ==
  \A s \in Servants :
    /\ thread[s] = "returned" => Caught(s)
    /\ thread[s] \in {"none", "bind"} => backlog[s] = <<>>
    /\ thread[s] \in {"none", "bind", "top", "accept"} => serves[s] = Idle

Holds(s, c) == serves[s] = c \/ \E k \in DOMAIN backlog[s] : backlog[s][k] = c

\* A servant holds a call once.
HeldOnce ==
  \A s \in Servants :
    /\ \A k \in DOMAIN backlog[s] : backlog[s][k] # serves[s]
    /\ \A j, k \in DOMAIN backlog[s] : backlog[s][j] = backlog[s][k] => j = k

\* A call is with one servant until it is answered.
OneHolder ==
  \A c \in Clients :
    /\ answer[c] # "none" => stage[c] \in Calling
    /\ \A s \in Servants : Holds(s, c) => stage[c] \in Calling /\ answer[c] = "none"
    /\ \A s, t \in Servants : Holds(s, c) /\ Holds(t, c) => s = t

\* The slot of the table that is due, and whether another count than its
\* servant's can be excused.
Due(c) == table[Len(got[c]) + 1]
Excused(d) == Caught(d) \/ \E t \in Servants \ {d} : port[t] = port[d]

\* A call is with a servant at the port that was dialled, and so is its answer.
Dialled ==
  \A c \in Clients :
    /\ Len(got[c]) <= Len(table)
    /\ stage[c] \in Calling =>
         /\ Len(got[c]) < Len(table)
         /\ \A s \in Servants : Holds(s, c) => port[s] = port[Due(c)]
         /\ answer[c] # "none" => answer[c] = Due(c) \/ Excused(Due(c))

CInv == /\ CallTypes /\ Drawn /\ Registered /\ ThreadHolds /\ HeldOnce
        /\ OneHolder /\ Dialled /\ TotalOfTable

-----------------------------------------------------------------------------
\* What a step may do to the calls.  Most steps let them be; the others bring a
\* connection onward, or end a servant, or are one of the four steps of a call.
Lapse == UNCHANGED <<stage, table, got, backlog, serves, answer>>

Onward(x) ==
  /\ \E label \in Stages \ {"new"} :
       /\ stage' = [stage EXCEPT ![x] = label]
       /\ stage[x] \in Calling <=> label \in Calling
  /\ x \in Servants /\ stage[x] = "new" => pc[x] = "register" /\ pc'[x] = "create"
  /\ \/ UNCHANGED table
     \/ x \in Servants /\ stage[x] = "queued" /\ table' = Append(table, x)
  /\ UNCHANGED <<got, backlog, serves, answer>>

Ends(s) ==
  /\ Caught(s) \/ thread[s] \in {"none", "bind"}
  /\ Hangup(s)
  /\ backlog' = [backlog EXCEPT ![s] = <<>>]
  /\ serves' = [serves EXCEPT ![s] = Idle]
  /\ UNCHANGED <<stage, table, got>>

Calls(c) ==
  /\ stage[c] = "next" /\ Len(got[c]) < Len(table)
  /\ \E s \in Servants :
       /\ Listens(s) /\ port[s] = port[Due(c)]
       /\ backlog' = [backlog EXCEPT ![s] = Append(@, c)]
  /\ stage' = [stage EXCEPT ![c] = "sent"]
  /\ UNCHANGED <<table, got, serves, answer>>

Takes(s) ==
  /\ thread[s] = "accept" /\ backlog[s] # <<>>
  /\ serves' = [serves EXCEPT ![s] = Head(backlog[s])]
  /\ backlog' = [backlog EXCEPT ![s] = Tail(@)]
  /\ UNCHANGED <<stage, table, got, answer>>

Answers(s) ==
  /\ answer' = [answer EXCEPT ![serves[s]] = s]
  /\ serves' = [serves EXCEPT ![s] = Idle]
  /\ UNCHANGED <<stage, table, got, backlog>>

Adds(c) ==
  /\ stage[c] = "await" /\ answer[c] \notin {"none", "reset"}
  /\ got' = [got EXCEPT ![c] =
               Append(@, IF answer[c] = "eof" THEN Stale ELSE answer[c])]
  /\ answer' = [answer EXCEPT ![c] = "none"]
  /\ stage' = [stage EXCEPT ![c] = "next"]
  /\ UNCHANGED <<table, backlog, serves>>

Effect ==
  \/ Lapse
  \/ \E x \in Conns : Onward(x)
  \/ \E s \in Servants : Ends(s) \/ Takes(s) \/ Answers(s)
  \/ \E c \in Clients : Calls(c) \/ Adds(c)

LEMMA MainEffect ==
  ASSUME CallTypes, ThreadsLate, ThreadHolds, Registered, TypeOK,
         NEW s \in Servants, ServantMain(s)
  PROVE  Effect
<1> USE DEF callVars, servantVars
<1>1. s \in Conns
  BY DEF Conns
<1>2. CASE Load(s)
  <2>1. thread[s] = "none"
    BY <1>2 DEF Load, ThreadsLate
  <2>2. CASE Exit(s)
    BY <2>1, <2>2 DEF Exit, Die, Effect, Ends
  <2> QED
    BY <1>2, <2>2 DEF Load, Effect, Lapse
<1>3. CASE \/ SemOpen(s) \/ SemWait(s) \/ ReadPort(s) \/ WritePort(s) \/ SemPost(s)
           \/ CreateThread(s)
  BY <1>3 DEF SemOpen, SemWait, ReadPort, WritePort, SemPost, CreateThread,
              Effect, Lapse
<1>4. CASE Register(s)
  <2>1. thread[s] = "none"
    BY <1>4 DEF Register, ThreadsLate
  <2>2. CASE Reachable
    <3>1. /\ stage' = [stage EXCEPT ![s] = "connected"]
          /\ pc[s] = "register" /\ pc' = [pc EXCEPT ![s] = "create"]
          /\ UNCHANGED <<table, got, backlog, serves, answer>>
      BY <1>4, <2>2 DEF Register, Jump
    <3>2. pc'[s] = "create"
      BY <3>1 DEF TypeOK
    <3>3. stage[s] \notin Calling /\ "connected" \in Stages \ {"new"}
      BY <3>1 DEF Registered, Stages, Calling
    <3> QED
      <4>1. Onward(s)
        <5>1. stage[s] \in Calling <=> "connected" \in Calling
          BY <3>3 DEF Calling
        <5> QED
          BY <3>1, <3>2, <3>3, <5>1 DEF Onward
      <4> QED
        BY <1>1, <4>1 DEF Effect
  <2>3. CASE ~Reachable
    BY <1>4, <2>1, <2>3 DEF Register, Exit, Die, Effect, Ends
  <2> QED
    BY <2>2, <2>3
<1>5. CASE TestFlag(s)
  <2>1. CASE Caught(s)
    BY <1>5, <2>1 DEF TestFlag, UnlinkAndExit, Die, Effect, Ends
  <2>2. CASE ~Caught(s)
    BY <1>5, <2>2 DEF TestFlag, Effect, Lapse
  <2> QED
    BY <2>1, <2>2
<1>6. CASE Join(s)
  BY <1>6 DEF Join, UnlinkAndExit, Die, Effect, Ends, ThreadHolds
<1>7. CASE OpenFails(s)
  <2>1. thread[s] = "none"
    BY <1>7 DEF OpenFails, ThreadsLate
  <2> QED
    BY <1>7, <2>1 DEF OpenFails, Die, Effect, Ends
<1> QED
  BY <1>2, <1>3, <1>4, <1>5, <1>6, <1>7 DEF ServantMain

\* A change of stage alone, inside a call or outside.
LEMMA StageAlone ==
  ASSUME NEW x \in Conns, NEW label \in Stages \ {"new"},
         stage' = [stage EXCEPT ![x] = label],
         stage[x] \in Calling <=> label \in Calling,
         x \in Servants => stage[x] # "new",
         UNCHANGED <<table, got, backlog, serves, answer>>
  PROVE  Effect
<1>1. Onward(x)
  BY DEF Onward
<1> QED
  BY <1>1 DEF Effect

LEMMA ThreadEffect ==
  ASSUME TypeOK, ThreadHolds, NEW s \in Servants, ServantThread(s) \/ CatchServant(s)
  PROVE  Effect
<1> USE DEF callVars, servantVars
<1>1. CASE Bind(s)
  <2>1. CASE Exit(s)
    BY <1>1, <2>1 DEF Bind, Exit, Die, Effect, Ends
  <2> QED
    BY <1>1, <2>1 DEF Bind, Effect, Lapse
<1>2. CASE Top(s) \/ ServantRead(s)
  BY <1>2 DEF Top, ServantRead, Effect, Lapse
<1>3. CASE ServantAccept(s)
  BY <1>3 DEF ServantAccept, Effect, Takes
<1>4. CASE CountAndWrite(s)
  BY <1>4 DEF CountAndWrite, Effect, Answers, Lapse
<1>5. CASE CatchServant(s)
  BY <1>5 DEF CatchServant, Effect, Lapse
<1> QED
  BY <1>1, <1>2, <1>3, <1>4, <1>5 DEF ServantThread

LEMMA ServerEffect ==
  ASSUME CallTypes, NEW x \in Conns, ServerAccept(x) \/ Worker(x)
  PROVE  Effect
<1> USE DEF callVars, servantVars
<1>1. SUFFICES ASSUME ~Lapse PROVE Effect
  BY DEF Effect
<1>2. CASE ServerAccept(x)
  <2>1. /\ stage[x] = "connected" /\ stage' = [stage EXCEPT ![x] = "queued"]
        /\ UNCHANGED <<table, got, backlog, serves, answer>>
    BY <1>2 DEF ServerAccept
  <2> QED
    BY <2>1, StageAlone DEF Stages, Calling
<1>3. CASE WorkersLeave(x)
  <2>1. /\ stage[x] = "queued" /\ stage' = [stage EXCEPT ![x] = "left"]
        /\ UNCHANGED <<table, got, backlog, serves, answer>>
    BY <1>3 DEF WorkersLeave
  <2> QED
    BY <2>1, StageAlone DEF Stages, Calling
<1>4. CASE WorkerRead(x)
  <2> DEFINE label == IF x \in Servants THEN "done" ELSE "next"
  <2>1. /\ stage[x] = "queued" /\ stage' = [stage EXCEPT ![x] = label]
        /\ \/ UNCHANGED table
           \/ x \in Servants /\ table' = Append(table, x)
        /\ UNCHANGED <<got, backlog, serves, answer>>
    BY <1>1, <1>4 DEF WorkerRead, ServerExit, Lapse
  <2>2. label \in Stages \ {"new"} /\ label \notin Calling
    BY DEF Stages, Calling
  <2> HIDE DEF label
  <2>3. stage[x] \in Calling <=> label \in Calling
    BY <2>1, <2>2 DEF Calling
  <2>4. Onward(x)
    BY <2>1, <2>2, <2>3 DEF Onward
  <2> QED
    BY <2>4 DEF Effect
<1>5. CASE x \in Clients /\ WorkerCall(x)
  <2>1. Calls(x)
    BY <1>1, <1>5 DEF WorkerCall, Calls, ServerExit, Lapse, Due
  <2> QED
    BY <1>5, <2>1 DEF Effect
<1>6. CASE x \in Clients /\ WorkerTest(x)
  <2>1. /\ stage[x] = "sent" /\ stage' = [stage EXCEPT ![x] = "await"]
        /\ UNCHANGED <<table, got, backlog, serves, answer>>
    BY <1>1, <1>6 DEF WorkerTest, ServerExit, Lapse
  <2> QED
    BY <2>1, StageAlone DEF Stages, Calling
<1>7. CASE x \in Clients /\ WorkerAdd(x)
  <2>1. Adds(x)
    BY <1>1, <1>7 DEF WorkerAdd, Adds, ServerExit, Lapse
  <2> QED
    BY <1>7, <2>1 DEF Effect
<1>8. CASE WorkerReply(x)
  <2>1. /\ stage[x] = "next" /\ stage' = [stage EXCEPT ![x] = "done"]
        /\ UNCHANGED <<table, got, backlog, serves, answer>>
    BY <1>8 DEF WorkerReply
  <2> QED
    BY <2>1, StageAlone DEF Stages, Calling
<1> QED
  BY <1>2, <1>3, <1>4, <1>5, <1>6, <1>7, <1>8 DEF Worker

LEMMA StepsHaveEffects ==
  ASSUME TypeOK, ThreadsLate, CallTypes, Registered, ThreadHolds, [Next]_vars
  PROVE  Effect
<1> USE DEF callVars, servantVars
<1>1. ASSUME NEW s \in Servants, ServantProcess(s) PROVE Effect
  BY <1>1, MainEffect, ThreadEffect DEF ServantProcess
<1>2. CASE ServerProcess
  <2>1. CASE ServerStart \/ ServerTest \/ CatchServer \/ PassOn
    BY <2>1 DEF ServerStart, ServerTest, ServerExit, CatchServer, PassOn,
                Effect, Lapse
  <2> QED
    BY <1>2, <2>1, ServerEffect DEF ServerProcess, ServerMain
<1>3. ASSUME NEW c \in Clients, ClientConnect(c) PROVE Effect
  <2>1. /\ stage[c] = "new" /\ stage' = [stage EXCEPT ![c] = "connected"]
        /\ UNCHANGED <<table, got, backlog, serves, answer>>
    BY <1>3 DEF ClientConnect
  <2>2. c \in Conns /\ c \notin Servants
    BY ProcessAssumption DEF Conns
  <2> QED
    BY <2>1, <2>2, StageAlone DEF Stages, Calling
<1>4. ASSUME NEW p \in Processes, Interrupt(p) PROVE Effect
  BY <1>4 DEF Interrupt, Effect, Lapse
<1>5. CASE UNCHANGED vars
  BY <1>5 DEF vars, Effect, Lapse
<1> QED
  BY <1>1, <1>2, <1>3, <1>4, <1>5 DEF Next

-----------------------------------------------------------------------------
\* Flags stay set and drawn ports are kept, at every step.
LEMMA SignalSteps ==
  ASSUME TypeOK, signal \in [Processes -> {"none", "pending", "caught"}], [Next]_vars
  PROVE  /\ signal' \in [Processes -> {"none", "pending", "caught"}]
         /\ \A p \in Processes : Caught(p) => Caught(p)'
<1> USE DEF Caught, signals
<1>1. CASE UNCHANGED signal
  BY <1>1
<1>2. ASSUME NEW s \in Servants, CatchServant(s), ~UNCHANGED signal
      PROVE  signal' = [signal EXCEPT ![s] = "caught"]
  BY <1>2 DEF CatchServant
<1>3. /\ CatchServer => signal' = [signal EXCEPT ![Server] = "caught"]
      /\ PassOn => \E q : signal' = [signal EXCEPT ![q] =
                                      IF @ = "none" THEN "pending" ELSE @]
  BY DEF CatchServer, PassOn
<1>4. ASSUME NEW p \in Processes, Interrupt(p)
      PROVE  signal[p] = "none" /\ signal' = [signal EXCEPT ![p] = "pending"]
  BY <1>4 DEF Interrupt
<1>5. ASSUME ~UNCHANGED signal
      PROVE  \/ \E s \in Servants : CatchServant(s)
             \/ CatchServer \/ PassOn
             \/ \E p \in Processes : Interrupt(p)
  <2>1. ASSUME NEW s \in Servants, ServantMain(s) \/ ServantThread(s)
        PROVE  UNCHANGED signal
    BY <2>1 DEF ServantMain, ServantThread, Load, SemOpen, SemWait, ReadPort,
         OpenFails, WritePort, SemPost, Register, CreateThread, TestFlag, Join, Bind, Top,
         ServantAccept, ServantRead, CountAndWrite, Exit, UnlinkAndExit, Die
  <2>2. ASSUME NEW x \in Conns, Worker(x)
        PROVE  UNCHANGED signal
    BY <2>2 DEF Worker, WorkersLeave, WorkerRead, WorkerCall, WorkerTest,
                WorkerAdd, WorkerReply, ServerExit
  <2>3. ASSUME ServerMain \/ \E c \in Clients : ClientConnect(c)
        PROVE  UNCHANGED signal
    BY <2>3 DEF ServerMain, ServerStart, ServerTest, ServerAccept, ServerExit,
                ClientConnect
  <2> QED
    BY <1>5, <2>1, <2>2, <2>3 DEF Next, ServantProcess, ServerProcess, vars
<1> QED
  BY <1>1, <1>2, <1>3, <1>4, <1>5

\* What is kept of a servant that has its port, or has registered.
Past == {"create", "test", "join", "gone"}
Kept ==
  \A s \in Servants :
    /\ port[s] # 0 => port'[s] = port[s]
    /\ pc[s] \in Past => pc'[s] \in Past

LEMMA PortSteps ==
  ASSUME TypeOK, ThreadsLate, Drawn, [Next]_vars
  PROVE  Drawn' /\ Kept
<1> USE DEF Past, Kept
<1>1. ASSUME Far
      PROVE  Drawn' /\ Kept
  <2>1. UNCHANGED port
    BY <1>1 DEF Far
  <2>2. ASSUME NEW s \in Servants
        PROVE  /\ pc'[s] \in {"start", "open", "wait", "read"} =>
                    pc[s] \in {"start", "open", "wait", "read"}
               /\ pc'[s] \in {"write", "post", "register", "create", "test", "join"} =>
                    pc[s] \in {"write", "post", "register", "create", "test", "join"}
    BY <1>1 DEF Far, NearFile, Behind
  <2>3. \A s \in Servants : pc[s] \in Past => pc'[s] \in Past
    BY <1>1 DEF Far, Behind
  <2> QED
    BY <2>1, <2>2, <2>3 DEF Drawn
<1>2. ASSUME NEW s \in Servants, NEW label \in {"wait", "read"}, UNCHANGED port,
             pc[s] \in {"open", "wait"}, pc' = [pc EXCEPT ![s] = label]
      PROVE  Drawn' /\ Kept
  BY <1>2 DEF Drawn, TypeOK
<1>3. ASSUME NEW s \in Servants, SemOpen(s) \/ SemWait(s)
      PROVE  Drawn' /\ Kept
  BY <1>2, <1>3 DEF SemOpen, SemWait, Jump
<1>4. ASSUME NEW s \in Servants, ReadPort(s)
      PROVE  Drawn' /\ Kept
  <2>1. /\ pc[s] = "read" /\ port[s] = 0 /\ portFile # 0
        /\ port' = [port EXCEPT ![s] = portFile]
        /\ pc' = [pc EXCEPT ![s] = "write"]
    BY <1>4 DEF ReadPort, Jump, Drawn, TypeOK
  <2> QED
    BY <2>1 DEF Drawn, TypeOK
<1>5. ASSUME NEW s \in Servants, WritePort(s) \/ SemPost(s)
      PROVE  Drawn' /\ Kept
  <2>1. /\ UNCHANGED port
        /\ pc[s] \in {"write", "post"}
        /\ \E label \in {"post", "register"} : pc' = [pc EXCEPT ![s] = label]
    BY <1>5 DEF WritePort, SemPost, Jump
  <2> QED
    BY <2>1 DEF Drawn, TypeOK
<1>6. ASSUME NEW s \in Servants, CatchServant(s)
      PROVE  Drawn' /\ Kept
  <2>1. CASE UNCHANGED <<portVars, servantVars, pc>>
    BY <2>1 DEF Drawn, portVars
  <2>2. CASE pc[s] = "wait" /\ Jump(s, "read") /\ UNCHANGED port
    BY <1>2, <2>2 DEF Jump
  <2>3. CASE thread[s] = "accept" /\ Jump(s, "gone") /\ UNCHANGED portVars
    BY <2>3 DEF Drawn, Jump, TypeOK, portVars
  <2> QED
    BY <1>6, <2>1, <2>2, <2>3 DEF CatchServant
<1>7. ASSUME NEW s \in Servants, OpenFails(s)
      PROVE  Drawn' /\ Kept
  <2>1. /\ UNCHANGED port
        /\ pc[s] = "read" /\ pc' = [pc EXCEPT ![s] = "gone"]
    BY <1>7 DEF OpenFails, Die, Jump
  <2> QED
    BY <2>1 DEF Drawn, TypeOK
<1> QED
  BY <1>1, <1>3, <1>4, <1>5, <1>6, <1>7, MainIsFar, ThreadIsFar, OthersAreFar,
     ProcessAssumption DEF Next, ServantProcess, ServantMain

-----------------------------------------------------------------------------
\* The kernel answers the calls that a dead servant held, and no others.
LEMMA HangupMeans ==
  ASSUME CallTypes, NEW s \in Servants, Hangup(s)
  PROVE  /\ answer' \in [Clients -> Servants \cup Endings]
         /\ \A c \in Clients : IF Holds(s, c) THEN answer'[c] \in {"eof", "reset"}
                                              ELSE answer'[c] = answer[c]
<1> DEFINE dropped == {c \in Clients : \E k \in DOMAIN backlog[s] : backlog[s][k] = c}
                      \cup {c \in Clients : serves[s] = c}
<1>1. PICK end \in [dropped -> {"eof", "reset"}] :
        answer' = [c \in Clients |-> IF c \in dropped THEN end[c] ELSE answer[c]]
  BY DEF Hangup
<1>2. \A c \in Clients : c \in dropped <=> Holds(s, c)
  BY DEF Holds
<1> HIDE DEF dropped
<1>3. \A c \in dropped : end[c] \in {"eof", "reset"}
  BY <1>1
<1> QED
  BY <1>1, <1>2, <1>3 DEF CallTypes, Endings

LEMMA CallTypesStep ==
  ASSUME CallTypes, Effect, signal' \in [Processes -> {"none", "pending", "caught"}]
  PROVE  CallTypes'
<1> USE DEF CallTypes
<1>1. CASE Lapse
  BY <1>1 DEF Lapse
<1>2. ASSUME NEW x \in Conns, Onward(x) PROVE CallTypes'
  <2>1. stage' \in [Conns -> Stages]
    BY <1>2 DEF Onward
  <2>2. table' \in Seq(Servants)
    <3>1. CASE UNCHANGED table
      BY <3>1
    <3>2. CASE x \in Servants /\ table' = Append(table, x)
      BY <3>2
    <3> QED
      BY <1>2, <3>1, <3>2 DEF Onward
  <2> QED
    BY <1>2, <2>1, <2>2 DEF Onward
<1>3. ASSUME NEW s \in Servants, Ends(s) PROVE CallTypes'
  <2>1. /\ backlog' \in [Servants -> Seq(Clients)]
        /\ serves' \in [Servants -> Clients \cup {Idle}]
    BY <1>3 DEF Ends
  <2> QED
    BY <1>3, <2>1, HangupMeans DEF Ends
<1>4. ASSUME NEW s \in Servants, Takes(s) PROVE CallTypes'
  <2>1. backlog[s] \in Seq(Clients) /\ backlog[s] # <<>>
    BY <1>4 DEF Takes
  <2>2. Head(backlog[s]) \in Clients /\ Tail(backlog[s]) \in Seq(Clients)
    BY <2>1
  <2> QED
    BY <1>4, <2>2 DEF Takes
<1>5. ASSUME NEW s \in Servants, Answers(s) PROVE CallTypes'
  BY <1>5 DEF Answers
<1>6. ASSUME NEW c \in Clients, Calls(c) PROVE CallTypes'
  <2>1. c \in Conns
    BY DEF Conns
  <2>2. stage' \in [Conns -> Stages] /\ backlog' \in [Servants -> Seq(Clients)]
    BY <1>6, <2>1 DEF Calls, Stages
  <2> QED
    BY <1>6, <2>2 DEF Calls
<1>7. ASSUME NEW c \in Clients, Adds(c) PROVE CallTypes'
  <2>1. c \in Conns
    BY DEF Conns
  <2> DEFINE count == IF answer[c] = "eof" THEN Stale ELSE answer[c]
  <2>2. count \in Servants \cup {Stale}
    BY <1>7 DEF Adds, Endings
  <2>3. got' = [got EXCEPT ![c] = Append(@, count)]
    BY <1>7 DEF Adds
  <2> HIDE DEF count
  <2>4. got' \in [Clients -> Seq(Servants \cup {Stale})]
    BY <2>2, <2>3
  <2>5. stage' \in [Conns -> Stages] /\ answer' \in [Clients -> Servants \cup Endings]
    BY <1>7, <2>1 DEF Adds, Stages, Endings
  <2> QED
    BY <1>7, <2>4, <2>5 DEF Adds
<1> QED
  BY <1>1, <1>2, <1>3, <1>4, <1>5, <1>6, <1>7 DEF Effect

LEMMA RegisteredStep ==
  ASSUME TypeOK, CallTypes, Drawn, Registered, Kept, Effect
  PROVE  Registered'
<1> USE DEF CallTypes, Registered, Kept, Past
<1>1. ASSUME UNCHANGED table,
             \A s \in Servants : stage'[s] # "new" <=> stage[s] # "new"
      PROVE  Registered'
  <2>1. \A k \in DOMAIN table : table[k] \in Servants
    OBVIOUS
  <2>2. \A k \in DOMAIN table : stage'[table[k]] # "new"
    BY <1>1, <2>1
  <2> QED
    BY <1>1, <2>2
<1>2. ASSUME NEW c \in Clients, NEW label \in Stages, UNCHANGED table,
             stage' = [stage EXCEPT ![c] = label]
      PROVE  Registered'
  <2>1. \A s \in Servants : stage'[s] = stage[s]
    BY <1>2, ProcessAssumption DEF Conns
  <2> QED
    BY <1>1, <1>2, <2>1
<1>3. CASE Lapse
  BY <1>1, <1>3 DEF Lapse
<1>4. ASSUME NEW s \in Servants, Ends(s) \/ Takes(s) \/ Answers(s)
      PROVE  Registered'
  BY <1>1, <1>4 DEF Ends, Takes, Answers
<1>5. ASSUME NEW c \in Clients, Calls(c) \/ Adds(c) PROVE Registered'
  BY <1>2, <1>5 DEF Calls, Adds, Stages
<1>6. ASSUME NEW x \in Conns, Onward(x) PROVE Registered'
  <2>1. PICK label \in Stages \ {"new"} : stage' = [stage EXCEPT ![x] = label]
    BY <1>6 DEF Onward
  <2>2. \A y \in Conns : stage[y] # "new" => stage'[y] # "new"
    BY <2>1
  <2>3. ASSUME NEW s \in Servants, stage'[s] # "new"
        PROVE  (port[s] # 0 /\ pc[s] \in Past) \/ (port[s] # 0 /\ pc'[s] = "create")
    <3>1. CASE stage[s] # "new"
      BY <3>1
    <3>2. CASE stage[s] = "new"
      <4>1. s = x /\ s \in Conns
        BY <2>1, <2>3, <3>2 DEF Conns
      <4> QED
        BY <1>6, <3>2, <4>1 DEF Onward, Drawn
    <3> QED
      BY <3>1, <3>2
  <2>4. \A s \in Servants : stage'[s] # "new" => port'[s] # 0 /\ pc'[s] \in Past
    <3>1. ASSUME NEW s \in Servants, port[s] # 0, pc[s] \in Past \/ pc'[s] = "create"
          PROVE  port'[s] # 0 /\ pc'[s] \in Past
      BY <3>1
    <3> QED
      BY <2>3, <3>1
  <2>5. \A k \in DOMAIN table : table[k] \in Conns
    BY DEF Conns
  <2>6. \A k \in DOMAIN table' : stage'[table'[k]] # "new"
    <3>1. CASE UNCHANGED table
      BY <2>2, <2>5, <3>1
    <3>2. CASE stage[x] = "queued" /\ table' = Append(table, x) /\ x \in Servants
      <4>1. ASSUME NEW k \in DOMAIN table'
            PROVE  \/ k \in DOMAIN table /\ table'[k] = table[k]
                   \/ table'[k] = x
        BY <3>2
      <4> QED
        BY <2>2, <2>5, <3>2, <4>1
    <3> QED
      BY <1>6, <3>1, <3>2 DEF Onward
  <2> QED
    BY <2>4, <2>6
<1> QED
  BY <1>3, <1>4, <1>5, <1>6 DEF Effect

\* A thread holds at each of its places what it may, and has returned only
\* with the flag set.
LEMMA ThreadHoldsStep ==
  ASSUME TypeOK, CallTypes, ThreadsLate, ThreadHolds, [Next]_vars,
         \A p \in Processes : Caught(p) => Caught(p)'
  PROVE  ThreadHolds'
<1> USE DEF TypeOK, CallTypes
<1>1. \A s \in Servants : Caught(s) => Caught(s)'
  OBVIOUS
<1>2. CASE UNCHANGED <<thread, backlog, serves>>
  BY <1>1, <1>2 DEF ThreadHolds
<1>3. ASSUME NEW s \in Servants, Die(s) PROVE ThreadHolds'
  BY <1>1, <1>3 DEF Die, Step, ThreadHolds
<1>4. ASSUME NEW s \in Servants, CreateThread(s) PROVE ThreadHolds'
  <2>1. thread[s] = "none"
    BY <1>4 DEF CreateThread, ThreadsLate
  <2> QED
    BY <1>1, <1>4, <2>1 DEF CreateThread, Step, ThreadHolds
<1>5. ASSUME NEW s \in Servants, Bind(s) PROVE ThreadHolds'
  BY <1>1, <1>3, <1>5 DEF Bind, Exit, Step, ThreadHolds
<1>6. ASSUME NEW s \in Servants, Top(s) PROVE ThreadHolds'
  BY <1>1, <1>6 DEF Top, Step, ThreadHolds
<1>7. ASSUME NEW s \in Servants, ServantAccept(s) PROVE ThreadHolds'
  <2>1. /\ thread' = [thread EXCEPT ![s] = "read"]
        /\ \A t \in Servants \ {s} : backlog'[t] = backlog[t] /\ serves'[t] = serves[t]
    BY <1>7 DEF ServantAccept, Step
  <2> QED
    BY <1>1, <2>1 DEF ThreadHolds
<1>8. ASSUME NEW s \in Servants, ServantRead(s) PROVE ThreadHolds'
  BY <1>1, <1>8 DEF ServantRead, Step, ThreadHolds
<1>9. ASSUME NEW s \in Servants, CountAndWrite(s) PROVE ThreadHolds'
  <2>1. CASE Caught(s)
    BY <1>1, <1>9, <2>1 DEF CountAndWrite, Step, ThreadHolds
  <2>2. CASE ~Caught(s)
    BY <1>1, <1>9, <2>2 DEF CountAndWrite, Step, ThreadHolds
  <2> QED
    BY <2>1, <2>2
<1>10. ASSUME NEW s \in Servants, CatchServant(s) PROVE ThreadHolds'
  <2>1. CASE UNCHANGED servantVars
    BY <1>2, <2>1 DEF servantVars
  <2>2. CASE /\ thread[s] = "accept" /\ backlog[s] = <<>>
             /\ Step(s, "none") /\ UNCHANGED <<backlog, serves>>
    BY <1>1, <2>2 DEF Step, ThreadHolds
  <2> QED
    BY <1>2, <1>10, <2>1, <2>2 DEF CatchServant, servantVars
<1>11. ASSUME NEW c \in Clients, WorkerCall(c) PROVE ThreadHolds'
  <2>1. ASSUME NEW s \in Servants, Listens(s), UNCHANGED <<thread, serves>>,
               backlog' = [backlog EXCEPT ![s] = Append(@, c)]
        PROVE  ThreadHolds'
    <3>1. thread[s] \notin {"none", "bind"}
      BY <2>1 DEF Listens
    <3> QED
      BY <1>1, <2>1, <3>1 DEF ThreadHolds
  <2> QED
    BY <1>2, <1>11, <2>1 DEF WorkerCall, ServerExit, servantVars
<1>12. ASSUME NEW s \in Servants, ServantMain(s) PROVE ThreadHolds'
  BY <1>2, <1>3, <1>4, <1>12 DEF ServantMain, Load, SemOpen, SemWait, ReadPort,
     OpenFails, WritePort, SemPost, Register, TestFlag, Join, Exit, UnlinkAndExit, servantVars
<1>13. ASSUME NEW x \in Conns, Worker(x) PROVE ThreadHolds'
  BY <1>2, <1>11, <1>13 DEF Worker, WorkerRead, WorkersLeave, WorkerTest, WorkerAdd,
     WorkerReply, ServerExit, servantVars
<1>14. CASE ServerMain \/ CatchServer \/ PassOn
  BY <1>2, <1>14 DEF ServerMain, ServerStart, ServerTest, ServerAccept, ServerExit,
     CatchServer, PassOn, servantVars
<1>15. CASE \/ \E c \in Clients : ClientConnect(c)
            \/ \E p \in Processes : Interrupt(p)
            \/ UNCHANGED vars
  BY <1>2, <1>15 DEF ClientConnect, Interrupt, vars, servantVars
<1> QED
  BY <1>5, <1>6, <1>7, <1>8, <1>9, <1>10, <1>12, <1>13, <1>14, <1>15
     DEF Next, ServantProcess, ServantThread, ServerProcess

-----------------------------------------------------------------------------
\* Who holds which call behind each effect.
SameHolders == \A t \in Servants, d \in Clients : Holds(t, d)' <=> Holds(t, d)

LEMMA SameQueues ==
  ASSUME HeldOnce, UNCHANGED <<backlog, serves>>
  PROVE  HeldOnce' /\ SameHolders
BY DEF HeldOnce, SameHolders, Holds

LEMMA TakesMoves ==
  ASSUME CallTypes, ThreadHolds, HeldOnce, NEW s \in Servants, Takes(s)
  PROVE  HeldOnce' /\ SameHolders
<1> DEFINE q == backlog[s]
<1>1. q \in Seq(Clients) /\ q # <<>> /\ serves[s] = Idle /\ Idle \notin Clients
  BY ProcessAssumption DEF CallTypes, ThreadHolds, Takes, Idle
<1>2. /\ serves'[s] = q[1] /\ backlog'[s] = Tail(q)
      /\ \A t \in Servants \ {s} : serves'[t] = serves[t] /\ backlog'[t] = backlog[t]
  BY <1>1 DEF CallTypes, Takes
<1> HIDE DEF q
<1>3. /\ Len(q) \in Nat \ {0} /\ DOMAIN q = 1 .. Len(q)
      /\ DOMAIN Tail(q) = 1 .. Len(q) - 1
      /\ \A k \in 1 .. Len(q) - 1 : Tail(q)[k] = q[k + 1]
  BY <1>1
<1>4. \A j, k \in DOMAIN q : q[j] = q[k] => j = k
  BY DEF HeldOnce, q
<1>5. /\ \A k \in DOMAIN Tail(q) : Tail(q)[k] # q[1]
      /\ \A j, k \in DOMAIN Tail(q) : Tail(q)[j] = Tail(q)[k] => j = k
  BY <1>3, <1>4
<1>6. HeldOnce'
  BY <1>2, <1>5 DEF HeldOnce
<1>7. ASSUME NEW d \in Clients PROVE Holds(s, d)' <=> Holds(s, d)
  <2>1. Holds(s, d) <=> \E k \in DOMAIN q : q[k] = d
    BY <1>1 DEF Holds, q
  <2>2. (\E k \in DOMAIN q : q[k] = d)
          <=> q[1] = d \/ \E k \in DOMAIN Tail(q) : Tail(q)[k] = d
    <3>1. \A k \in DOMAIN q : k = 1 \/ (k - 1 \in DOMAIN Tail(q) /\ Tail(q)[k - 1] = q[k])
      BY <1>3
    <3>2. \A k \in DOMAIN Tail(q) : k + 1 \in DOMAIN q /\ Tail(q)[k] = q[k + 1]
      BY <1>3
    <3>3. 1 \in DOMAIN q
      BY <1>3
    <3> QED
      BY <3>1, <3>2, <3>3
  <2> QED
    BY <1>2, <2>1, <2>2 DEF Holds
<1>8. \A t \in Servants \ {s}, d \in Clients : Holds(t, d)' <=> Holds(t, d)
  BY <1>2 DEF Holds
<1> QED
  BY <1>6, <1>7, <1>8 DEF SameHolders

LEMMA EndsMoves ==
  ASSUME CallTypes, HeldOnce, NEW s \in Servants, Ends(s)
  PROVE  /\ HeldOnce'
         /\ \A t \in Servants, d \in Clients : Holds(t, d)' => Holds(t, d) /\ t # s
<1>1. /\ backlog'[s] = <<>> /\ serves'[s] = Idle /\ Idle \notin Clients
      /\ \A t \in Servants \ {s} : serves'[t] = serves[t] /\ backlog'[t] = backlog[t]
  BY ProcessAssumption DEF CallTypes, Ends, Idle
<1>2. DOMAIN backlog'[s] = {}
  BY <1>1
<1>3. HeldOnce'
  BY <1>1, <1>2 DEF HeldOnce
<1> QED
  BY <1>1, <1>2, <1>3 DEF Holds

LEMMA AnswersMoves ==
  ASSUME CallTypes, HeldOnce, NEW s \in Servants, Answers(s)
  PROVE  /\ HeldOnce'
         /\ \A t \in Servants, d \in Clients :
              Holds(t, d)' => Holds(t, d) /\ ~(t = s /\ d = serves[s])
<1>1. /\ backlog' = backlog /\ serves'[s] = Idle /\ Idle \notin Clients
      /\ \A t \in Servants \ {s} : serves'[t] = serves[t]
  BY ProcessAssumption DEF CallTypes, Answers, Idle
<1>2. \A k \in DOMAIN backlog[s] : backlog[s][k] \in Clients
  BY DEF CallTypes
<1>3. HeldOnce'
  BY <1>1, <1>2 DEF HeldOnce
<1> QED
  BY <1>1, <1>3 DEF Holds, HeldOnce

LEMMA CallsMoves ==
  ASSUME CallTypes, HeldOnce, NEW c \in Clients, NEW s \in Servants,
         \A t \in Servants : ~Holds(t, c), UNCHANGED serves,
         backlog' = [backlog EXCEPT ![s] = Append(@, c)]
  PROVE  /\ HeldOnce'
         /\ \A t \in Servants, d \in Clients :
              Holds(t, d)' <=> Holds(t, d) \/ (t = s /\ d = c)
<1> DEFINE q == backlog[s]
<1>1. /\ q \in Seq(Clients) /\ backlog'[s] = Append(q, c) /\ serves' = serves
      /\ \A t \in Servants \ {s} : backlog'[t] = backlog[t]
  BY DEF CallTypes
<1>2. /\ \A k \in DOMAIN q : q[k] # c /\ q[k] # serves[s]
      /\ \A j, k \in DOMAIN q : q[j] = q[k] => j = k
      /\ serves[s] # c
  BY DEF Holds, HeldOnce
<1> HIDE DEF q
<1>3. /\ DOMAIN Append(q, c) = DOMAIN q \cup {Len(q) + 1}
      /\ \A k \in DOMAIN q : Append(q, c)[k] = q[k]
      /\ Append(q, c)[Len(q) + 1] = c
  BY <1>1
<1>4. /\ \A k \in DOMAIN Append(q, c) : Append(q, c)[k] # serves[s]
      /\ \A j, k \in DOMAIN Append(q, c) : Append(q, c)[j] = Append(q, c)[k] => j = k
  BY <1>2, <1>3
<1>5. HeldOnce'
  BY <1>1, <1>4 DEF HeldOnce
<1>6. \A d \in Clients : Holds(s, d)' <=> Holds(s, d) \/ d = c
  BY <1>1, <1>3 DEF Holds, q
<1>7. \A t \in Servants \ {s}, d \in Clients : Holds(t, d)' <=> Holds(t, d)
  BY <1>1 DEF Holds
<1> QED
  BY <1>5, <1>6, <1>7

LEMMA OnwardKeeps ==
  ASSUME CallTypes, NEW x \in Conns, Onward(x)
  PROVE  \A c \in Clients : stage'[c] \in Calling <=> stage[c] \in Calling
<1>1. PICK label \in Stages : /\ stage' = [stage EXCEPT ![x] = label]
                              /\ stage[x] \in Calling <=> label \in Calling
  BY DEF Onward
<1> QED
  BY <1>1 DEF CallTypes, Conns

LEMMA HolderStep ==
  ASSUME CallTypes, ThreadHolds, HeldOnce, OneHolder, Effect
  PROVE  HeldOnce' /\ OneHolder'
<1>1. ASSUME HeldOnce', SameHolders, UNCHANGED answer,
             \A c \in Clients : stage'[c] \in Calling <=> stage[c] \in Calling
      PROVE  HeldOnce' /\ OneHolder'
  BY <1>1 DEF OneHolder, SameHolders
<1>2. CASE Lapse
  BY <1>1, <1>2, SameQueues DEF Lapse
<1>3. ASSUME NEW x \in Conns, Onward(x) PROVE HeldOnce' /\ OneHolder'
  BY <1>1, <1>3, SameQueues, OnwardKeeps DEF Onward
<1>4. ASSUME NEW s \in Servants, Ends(s) PROVE HeldOnce' /\ OneHolder'
  <2>1. \A t \in Servants, d \in Clients : Holds(t, d)' => Holds(t, d) /\ t # s
    BY <1>4, EndsMoves
  <2>2. \A d \in Clients : IF Holds(s, d) THEN answer'[d] \in {"eof", "reset"}
                                          ELSE answer'[d] = answer[d]
    BY <1>4, HangupMeans DEF Ends
  <2>3. stage' = stage
    BY <1>4 DEF Ends
  <2>4. OneHolder'
    BY <2>1, <2>2, <2>3 DEF OneHolder
  <2> QED
    BY <1>4, <2>4, EndsMoves
<1>5. ASSUME NEW s \in Servants, Takes(s) PROVE HeldOnce' /\ OneHolder'
  BY <1>1, <1>5, TakesMoves DEF Takes
<1>6. ASSUME NEW s \in Servants, Answers(s) PROVE HeldOnce' /\ OneHolder'
  <2>1. \A t \in Servants, d \in Clients :
          Holds(t, d)' => Holds(t, d) /\ ~(t = s /\ d = serves[s])
    BY <1>6, AnswersMoves
  <2>2. stage' = stage /\ \A d \in Clients : d # serves[s] => answer'[d] = answer[d]
    BY <1>6 DEF Answers, CallTypes
  <2>3. \A d \in Clients : d = serves[s] => Holds(s, d)
    BY DEF Holds
  <2>4. OneHolder'
    BY <2>1, <2>2, <2>3 DEF OneHolder
  <2> QED
    BY <1>6, <2>4, AnswersMoves
<1>7. ASSUME NEW c \in Clients, Calls(c) PROVE HeldOnce' /\ OneHolder'
  <2>1. stage[c] = "next" /\ c \in Conns /\ UNCHANGED <<answer, serves>>
    BY <1>7 DEF Calls, Conns
  <2>2. answer[c] = "none" /\ \A t \in Servants : ~Holds(t, c)
    BY <2>1 DEF OneHolder, Calling
  <2>3. PICK s \in Servants : backlog' = [backlog EXCEPT ![s] = Append(@, c)]
    BY <1>7 DEF Calls
  <2>4. /\ HeldOnce'
        /\ \A t \in Servants, d \in Clients :
             Holds(t, d)' <=> Holds(t, d) \/ (t = s /\ d = c)
    BY <2>1, <2>2, <2>3, CallsMoves
  <2>5. stage'[c] = "sent" /\ \A d \in Clients \ {c} : stage'[d] = stage[d]
    BY <1>7, <2>1 DEF Calls, CallTypes, Conns
  <2>6. stage'[c] \in Calling
    BY <2>5 DEF Calling
  <2>7. OneHolder'
    BY <2>1, <2>2, <2>4, <2>5, <2>6 DEF OneHolder
  <2> QED
    BY <2>4, <2>7
<1>8. ASSUME NEW c \in Clients, Adds(c) PROVE HeldOnce' /\ OneHolder'
  <2>1. HeldOnce' /\ SameHolders
    BY <1>8, SameQueues DEF Adds
  <2>2. \A t \in Servants : ~Holds(t, c)
    BY <1>8 DEF Adds, OneHolder
  <2>3. answer'[c] = "none" /\ \A d \in Clients \ {c} : answer'[d] = answer[d]
    BY <1>8 DEF Adds, CallTypes
  <2>4. \A d \in Clients \ {c} : stage'[d] = stage[d]
    BY <1>8 DEF Adds, CallTypes, Conns
  <2> QED
    BY <2>1, <2>2, <2>3, <2>4 DEF OneHolder, SameHolders
<1> QED
  BY <1>2, <1>3, <1>4, <1>5, <1>6, <1>7, <1>8 DEF Effect

-----------------------------------------------------------------------------
\* A slot of the table is settled: it stays where it is, its servant keeps its
\* port, and what excuses another count excuses it from then on.
LEMMA SlotsSettled ==
  ASSUME CallTypes, Registered, Kept, Effect,
         \A p \in Processes : Caught(p) => Caught(p)'
  PROVE  /\ \A d \in Servants : port[d] # 0 /\ Excused(d) => Excused(d)'
         /\ Len(table) <= Len(table')
         /\ \A k \in DOMAIN table :
              /\ k \in DOMAIN table' /\ table'[k] = table[k]
              /\ table[k] \in Servants /\ port[table[k]] # 0
              /\ \A t \in Servants : port[t] = port[table[k]] =>
                                     port'[t] = port'[table[k]]
<1>1. ASSUME NEW k \in DOMAIN table
      PROVE  /\ table[k] \in Servants /\ port[table[k]] # 0
             /\ port'[table[k]] = port[table[k]]
  BY <1>1 DEF CallTypes, Registered, Kept
<1>2. ASSUME NEW k \in DOMAIN table, NEW t \in Servants, port[t] = port[table[k]]
      PROVE  port'[t] = port'[table[k]]
  BY <1>1, <1>2 DEF Kept
<1>3. ASSUME NEW d \in Servants, port[d] # 0, Excused(d) PROVE Excused(d)'
  <2>1. d \in Processes /\ port'[d] = port[d]
    BY <1>3 DEF Kept
  <2>2. CASE Caught(d)
    BY <2>1, <2>2 DEF Excused
  <2>3. ASSUME NEW t \in Servants \ {d}, port[t] = port[d]
        PROVE  Excused(d)'
    BY <1>3, <2>1, <2>3 DEF Excused, Kept
  <2> QED
    BY <1>3, <2>2, <2>3 DEF Excused
<1>4. /\ Len(table) <= Len(table')
      /\ \A k \in DOMAIN table : k \in DOMAIN table' /\ table'[k] = table[k]
  <2>1. table \in Seq(Servants)
    BY DEF CallTypes
  <2>2. CASE UNCHANGED table
    BY <2>1, <2>2
  <2>3. ASSUME NEW x \in Servants, table' = Append(table, x)
        PROVE  /\ Len(table) <= Len(table')
               /\ \A k \in DOMAIN table : k \in DOMAIN table' /\ table'[k] = table[k]
    <3>1. /\ Len(table') = Len(table) + 1 /\ Len(table) \in Nat
          /\ DOMAIN table = 1 .. Len(table) /\ DOMAIN table' = 1 .. Len(table) + 1
          /\ \A k \in 1 .. Len(table) : table'[k] = table[k]
      BY <2>1, <2>3
    <3> QED
      BY <3>1
  <2> QED
    BY <2>2, <2>3 DEF Effect, Lapse, Onward, Ends, Takes, Answers, Calls, Adds
<1> QED
  BY <1>1, <1>2, <1>3, <1>4

\* A call that goes on, and one that has been answered.
Call(c) ==
  /\ Len(got[c]) < Len(table)
  /\ \A s \in Servants : Holds(s, c) => port[s] = port[Due(c)]
  /\ answer[c] # "none" => answer[c] = Due(c) \/ Excused(Due(c))

\* A call whose adding is the same and whose holders are no more keeps to it,
\* if its answer is as before or is right.
LEMMA CallKeeps ==
  ASSUME CallTypes, CallTypes', Registered, Kept, Effect,
         \A p \in Processes : Caught(p) => Caught(p)',
         NEW c \in Clients, Call(c), got'[c] = got[c],
         \A s \in Servants : Holds(s, c)' => Holds(s, c),
         answer'[c] # answer[c] => answer'[c] = Due(c) \/ Excused(Due(c))
  PROVE  Call(c)'
<1>1. Len(got[c]) \in Nat /\ Len(table) \in Nat /\ Len(table') \in Nat
  BY DEF CallTypes
<1>2. Len(got[c]) + 1 \in DOMAIN table
  BY <1>1 DEF Call, CallTypes
<1>3. PICK d \in Servants : d = Due(c)
  BY <1>2 DEF Due, CallTypes
<1>4. d = Due(c)' /\ Len(got'[c]) < Len(table')
  BY <1>1, <1>2, <1>3, SlotsSettled DEF Call, Due
<1>5. /\ port[d] # 0
      /\ \A s \in Servants : port[s] = port[d] => port'[s] = port'[d]
  BY <1>2, <1>3, SlotsSettled DEF Due
<1>6. Excused(d) => Excused(d)'
  BY <1>5, SlotsSettled
<1>7. \A s \in Servants : Holds(s, c)' => port'[s] = port'[d]
  BY <1>3, <1>5 DEF Call
<1>8. answer'[c] # "none" => answer'[c] = d \/ Excused(d)'
  BY <1>3, <1>6 DEF Call
<1> QED
  BY <1>4, <1>7, <1>8 DEF Call

LEMMA DialledStep ==
  ASSUME CallTypes, CallTypes', Registered, ThreadHolds, HeldOnce, OneHolder,
         Dialled, Kept, Effect, \A p \in Processes : Caught(p) => Caught(p)'
  PROVE  Dialled'
<1>1. \A c \in Clients : /\ Len(got[c]) <= Len(table)
                         /\ stage[c] \in Calling => Call(c)
  BY DEF Dialled, Call
<1>2. Len(table) <= Len(table') /\ Len(table) \in Nat /\ Len(table') \in Nat
  BY SlotsSettled DEF CallTypes
<1>3. SUFFICES ASSUME NEW c \in Clients
               PROVE  /\ Len(got'[c]) <= Len(table')
                      /\ stage'[c] \in Calling => Call(c)'
  BY DEF Dialled, Call
<1>4. Len(got[c]) \in Nat
  BY DEF CallTypes
<1>5. ASSUME got'[c] = got[c], stage'[c] \in Calling => stage[c] \in Calling,
             \A s \in Servants : Holds(s, c)' => Holds(s, c),
             stage[c] \in Calling /\ answer'[c] # answer[c] =>
               answer'[c] = Due(c) \/ Excused(Due(c))
      PROVE  Len(got'[c]) <= Len(table') /\ (stage'[c] \in Calling => Call(c)')
  <2>1. Len(got'[c]) <= Len(table')
    BY <1>1, <1>2, <1>4, <1>5
  <2>2. ASSUME stage'[c] \in Calling PROVE Call(c)'
    BY <1>1, <1>5, <2>2, CallKeeps
  <2> QED
    BY <2>1, <2>2
<1>6. CASE Lapse
  BY <1>5, <1>6, SameQueues DEF Lapse, SameHolders
<1>7. ASSUME NEW x \in Conns, Onward(x)
      PROVE  Len(got'[c]) <= Len(table') /\ (stage'[c] \in Calling => Call(c)')
  BY <1>5, <1>7, SameQueues, OnwardKeeps DEF Onward, SameHolders
<1>8. ASSUME NEW s \in Servants, Ends(s)
      PROVE  Len(got'[c]) <= Len(table') /\ (stage'[c] \in Calling => Call(c)')
  <2>1. ASSUME stage[c] \in Calling, answer'[c] # answer[c]
        PROVE  Excused(Due(c))
    <3>1. Holds(s, c)
      BY <1>8, <2>1, HangupMeans DEF Ends
    <3>2. Caught(s)
      <4>1. CASE thread[s] \in {"none", "bind"}
        <5>1. backlog[s] = <<>> /\ serves[s] = Idle /\ Idle \notin Clients
          BY <4>1, ProcessAssumption DEF ThreadHolds, Idle
        <5> QED
          BY <3>1, <5>1 DEF Holds
      <4> QED
        BY <1>8, <4>1 DEF Ends
    <3>3. port[s] = port[Due(c)]
      BY <1>1, <2>1, <3>1 DEF Call
    <3> QED
      BY <3>2, <3>3 DEF Excused
  <2> QED
    BY <1>5, <1>8, <2>1, EndsMoves DEF Ends
<1>9. ASSUME NEW s \in Servants, Takes(s)
      PROVE  Len(got'[c]) <= Len(table') /\ (stage'[c] \in Calling => Call(c)')
  BY <1>5, <1>9, TakesMoves DEF Takes, SameHolders
<1>10. ASSUME NEW s \in Servants, Answers(s)
       PROVE  Len(got'[c]) <= Len(table') /\ (stage'[c] \in Calling => Call(c)')
  <2>1. ASSUME stage[c] \in Calling, answer'[c] # answer[c]
        PROVE  answer'[c] = Due(c) \/ Excused(Due(c))
    <3>1. serves[s] = c /\ answer'[c] = s
      BY <1>10, <2>1 DEF Answers, CallTypes
    <3>2. port[s] = port[Due(c)]
      BY <1>1, <2>1, <3>1 DEF Call, Holds
    <3> QED
      BY <3>1, <3>2 DEF Excused
  <2> QED
    BY <1>5, <1>10, <2>1, AnswersMoves DEF Answers
<1>11. ASSUME NEW e \in Clients, Calls(e)
       PROVE  Len(got'[c]) <= Len(table') /\ (stage'[c] \in Calling => Call(c)')
  <2>1. /\ UNCHANGED <<table, got, answer, serves>>
        /\ \A x \in Conns \ {e} : stage'[x] = stage[x]
        /\ Len(got[e]) < Len(table)
    BY <1>11 DEF Calls, CallTypes
  <2>2. answer[e] = "none" /\ \A t \in Servants : ~Holds(t, e)
    BY <1>11 DEF Calls, OneHolder, Calling
  <2>3. PICK s \in Servants : /\ port[s] = port[Due(e)]
                              /\ backlog' = [backlog EXCEPT ![s] = Append(@, e)]
    BY <1>11 DEF Calls
  <2>4. \A t \in Servants, d \in Clients :
          Holds(t, d)' <=> Holds(t, d) \/ (t = s /\ d = e)
    BY <2>1, <2>2, <2>3, CallsMoves
  <2>5. CASE c # e
    <3>1. stage'[c] = stage[c]
      BY <2>1, <2>5 DEF Conns
    <3> QED
      BY <1>5, <2>1, <2>4, <2>5, <3>1
  <2>6. CASE c = e
    <3>1. Len(got[e]) + 1 \in DOMAIN table
      BY <1>4, <2>1, <2>6 DEF CallTypes
    <3>2. Due(e)' = Due(e) /\ port'[s] = port'[Due(e)]
      BY <2>1, <2>3, <3>1, SlotsSettled DEF Due
    <3>3. Call(e)'
      BY <2>1, <2>2, <2>4, <3>2 DEF Call
    <3> QED
      BY <1>1, <2>1, <2>6, <3>3
  <2> QED
    BY <2>5, <2>6
<1>12. ASSUME NEW e \in Clients, Adds(e)
       PROVE  Len(got'[c]) <= Len(table') /\ (stage'[c] \in Calling => Call(c)')
  <2>1. CASE c # e
    <3>1. stage'[c] = stage[c] /\ got'[c] = got[c] /\ answer'[c] = answer[c]
      BY <1>12, <2>1 DEF Adds, CallTypes, Conns
    <3> QED
      BY <1>5, <1>12, <3>1, SameQueues DEF Adds, SameHolders
  <2>2. CASE c = e
    <3>1. stage[c] = "await" /\ table' = table /\ stage'[c] = "next"
      BY <1>12, <2>2 DEF Adds, CallTypes, Conns
    <3>2. Len(got[c]) < Len(table)
      BY <1>1, <3>1 DEF Call, Calling
    <3>3. Len(got'[c]) = Len(got[c]) + 1
      <4>1. PICK count : got' = [got EXCEPT ![c] = Append(@, count)]
        BY <1>12, <2>2 DEF Adds
      <4> QED
        BY <4>1 DEF CallTypes
    <3> QED
      BY <1>2, <1>4, <3>1, <3>2, <3>3 DEF Calling
  <2> QED
    BY <2>1, <2>2
<1> QED
  BY <1>6, <1>7, <1>8, <1>9, <1>10, <1>11, <1>12 DEF Effect

LEMMA TotalStep ==
  ASSUME CallTypes, CallTypes', Registered, Dialled, TotalOfTable, Kept, Effect,
         \A p \in Processes : Caught(p) => Caught(p)'
  PROVE  TotalOfTable'
<1>1. ASSUME NEW c \in Clients, NEW k \in DOMAIN got[c]
      PROVE  /\ k \in DOMAIN table /\ table'[k] = table[k] /\ table[k] \in Servants
             /\ got[c][k] # table[k] => Excused(table[k])
             /\ port[table[k]] # 0
  <2>1. k \in DOMAIN table
    BY DEF Dialled, CallTypes
  <2> QED
    BY <2>1, SlotsSettled DEF TotalOfTable, Excused
<1>2. SUFFICES ASSUME NEW c \in Clients, NEW k \in DOMAIN got'[c],
                      got'[c][k] # table'[k]
               PROVE  \E d \in Servants : d = table'[k] /\ Excused(d)'
  BY DEF TotalOfTable, Excused
<1>3. CASE k \in DOMAIN got[c] /\ got'[c][k] = got[c][k]
  <2>1. PICK d \in Servants : d = table[k] /\ d = table'[k] /\ port[d] # 0
                             /\ Excused(d)
    BY <1>1, <1>2, <1>3
  <2> QED
    BY <2>1, SlotsSettled
<1>4. CASE UNCHANGED got
  BY <1>3, <1>4
<1>5. ASSUME NEW e \in Clients, Adds(e)
      PROVE  \E d \in Servants : d = table'[k] /\ Excused(d)'
  <2> DEFINE count == IF answer[e] = "eof" THEN Stale ELSE answer[e]
             q == got[e]
  <2>1. /\ got' = [got EXCEPT ![e] = Append(q, count)]
        /\ stage[e] \in Calling /\ answer[e] # "none" /\ table' = table
    BY <1>5 DEF Adds, Calling
  <2>2. count \in Servants \cup {Stale} /\ (count # answer[e] => answer[e] = "eof")
    BY <1>5 DEF CallTypes, Adds, Endings
  <2>3. q \in Seq(Servants \cup {Stale})
    BY DEF CallTypes
  <2> HIDE DEF count, q
  <2>4. CASE c # e
    BY <1>3, <2>1, <2>4 DEF CallTypes
  <2>5. CASE c = e
    <3>1. got'[c] = Append(q, count)
      BY <2>1, <2>5 DEF CallTypes
    <3>2. \/ k \in DOMAIN q /\ got'[c][k] = q[k]
          \/ k = Len(q) + 1 /\ got'[c][k] = count
      BY <2>2, <2>3, <3>1
    <3>3. CASE k = Len(q) + 1 /\ got'[c][k] = count
      <4>1. k \in DOMAIN table /\ table[k] = Due(c)
        BY <2>1, <2>3, <2>5, <3>3 DEF Dialled, Due, CallTypes, q
      <4>2. PICK d \in Servants : d = table[k] /\ d = table'[k] /\ port[d] # 0
        BY <4>1, SlotsSettled
      <4>3. answer[c] = d \/ Excused(d)
        BY <2>1, <2>5, <4>1, <4>2 DEF Dialled
      <4>4. answer[c] # d
        BY <1>2, <2>2, <2>5, <3>3, <4>2, ProcessAssumption
      <4> QED
        BY <4>2, <4>3, <4>4, SlotsSettled
    <3> QED
      BY <1>3, <2>5, <3>2, <3>3 DEF q
  <2> QED
    BY <2>4, <2>5
<1> QED
  BY <1>4, <1>5 DEF Effect, Lapse, Onward, Ends, Takes, Answers, Calls

\* The calls keep their invariant in every reachable state.
THEOREM CallsInOrder == Spec => []CInv
<1>1. Init => CInv
  <2> SUFFICES ASSUME Init PROVE CInv
    OBVIOUS
  <2>1. CallTypes
    <3>1. /\ table = <<>> /\ \A c \in Clients : got[c] = <<>> /\ answer[c] = "none"
          /\ \A s \in Servants : backlog[s] = <<>> /\ serves[s] = Idle
      BY DEF Init
    <3>2. table \in Seq(Servants) /\ got \in [Clients -> Seq(Servants \cup {Stale})]
      BY DEF Init
    <3>3. answer \in [Clients -> Servants \cup Endings]
      BY DEF Init, Endings
    <3>4. backlog \in [Servants -> Seq(Clients)]
      BY DEF Init
    <3>5. serves \in [Servants -> Clients \cup {Idle}]
      BY DEF Init
    <3>6. stage \in [Conns -> Stages]
      BY DEF Init, Stages
    <3>7. signal \in [Processes -> {"none", "pending", "caught"}]
      BY DEF Init
    <3> QED
      BY <3>2, <3>3, <3>4, <3>5, <3>6, <3>7 DEF CallTypes
  <2>2. Drawn /\ Registered
    <3>1. \A s \in Servants : stage[s] = "new" /\ pc[s] = "start" /\ port[s] = 0
      BY DEF Init, Conns
    <3>2. DOMAIN table = {}
      BY DEF Init
    <3> QED
      BY <3>1, <3>2 DEF Drawn, Registered
  <2>3. ThreadHolds /\ HeldOnce
    <3>1. \A s \in Servants : /\ thread[s] = "none" /\ backlog[s] = <<>>
                              /\ serves[s] = Idle /\ DOMAIN backlog[s] = {}
      BY DEF Init
    <3> QED
      BY <3>1 DEF ThreadHolds, HeldOnce
  <2>4. OneHolder /\ Dialled /\ TotalOfTable
    <3>1. \A s \in Servants, c \in Clients : ~Holds(s, c)
      <4>1. Idle \notin Clients
        BY ProcessAssumption DEF Idle
      <4>2. \A s \in Servants : serves[s] = Idle /\ DOMAIN backlog[s] = {}
        BY DEF Init
      <4> QED
        BY <4>1, <4>2 DEF Holds
    <3>2. \A c \in Clients : /\ answer[c] = "none" /\ stage[c] = "new"
                             /\ Len(got[c]) = 0 /\ DOMAIN got[c] = {}
      BY DEF Init, Conns
    <3>3. Len(table) = 0
      BY DEF Init
    <3> QED
      BY <3>1, <3>2, <3>3 DEF OneHolder, Dialled, TotalOfTable, Calling
  <2> QED
    BY <2>1, <2>2, <2>3, <2>4 DEF CInv
<1>2. PInv /\ CInv /\ [Next]_vars => CInv'
  <2> SUFFICES ASSUME PInv, CInv, [Next]_vars PROVE CInv'
    OBVIOUS
  <2>1. /\ TypeOK /\ ThreadsLate /\ CallTypes /\ Drawn /\ Registered
        /\ ThreadHolds /\ HeldOnce /\ OneHolder /\ Dialled /\ TotalOfTable
    BY DEF PInv, CInv
  <2>2. /\ signal' \in [Processes -> {"none", "pending", "caught"}]
        /\ \A p \in Processes : Caught(p) => Caught(p)'
    BY <2>1, SignalSteps DEF CallTypes
  <2>3. Effect
    BY <2>1, StepsHaveEffects
  <2>4. Drawn' /\ Kept
    BY <2>1, PortSteps
  <2>5. CallTypes'
    BY <2>1, <2>2, <2>3, CallTypesStep
  <2>6. Registered'
    BY <2>1, <2>3, <2>4, RegisteredStep
  <2>7. ThreadHolds'
    BY <2>1, <2>2, ThreadHoldsStep
  <2>8. HeldOnce' /\ OneHolder'
    BY <2>1, <2>3, HolderStep
  <2>9. Dialled'
    BY <2>1, <2>2, <2>3, <2>4, <2>5, DialledStep
  <2>10. TotalOfTable'
    BY <2>1, <2>2, <2>3, <2>4, <2>5, TotalStep
  <2> QED
    BY <2>4, <2>5, <2>6, <2>7, <2>8, <2>9, <2>10 DEF CInv
<1> QED
  BY <1>1, <1>2, PortFile, PTL DEF Spec

\* A total has in each slot the count of the servant of that slot, but for
\* servants that were interrupted or that share their port, for any number of
\* servants and clients and SIGINT to any processes.
THEOREM TotalsAreOfTheTable == Spec => []TotalOfTable
<1>1. CInv => TotalOfTable
  BY DEF CInv
<1> QED
  BY <1>1, CallsInOrder, PTL

-----------------------------------------------------------------------------
\* The test of a date.

\* AtMost orders the dates linearly, so a range is what lies between its ends.
LEMMA AtMostIsOrder ==
  /\ \A d \in Dates : AtMost(d, d)
  /\ \A d, e \in Dates : AtMost(d, e) \/ AtMost(e, d)
  /\ \A d, e \in Dates : AtMost(d, e) /\ AtMost(e, d) => d = e
  /\ \A d, e, f \in Dates : AtMost(d, e) /\ AtMost(e, f) => AtMost(d, f)
<1>1. \A d, e \in Dates : AtMost(d, d) /\ (AtMost(d, e) \/ AtMost(e, d))
  BY DEF Dates, AtMost
<1>2. ASSUME NEW d \in Dates, NEW e \in Dates, AtMost(d, e), AtMost(e, d)
      PROVE  d = e
  <2>1. d[1] = e[1] /\ d[2] = e[2] /\ d[3] = e[3]
    BY <1>2 DEF Dates, AtMost
  <2>2. d = <<d[1], d[2], d[3]>> /\ e = <<e[1], e[2], e[3]>>
    BY DEF Dates
  <2> QED
    BY <2>1, <2>2
<1>3. ASSUME NEW d \in Dates, NEW e \in Dates, NEW f \in Dates,
             AtMost(d, e), AtMost(e, f)
      PROVE  AtMost(d, f)
  BY <1>3 DEF Dates, AtMost
<1> QED
  BY <1>1, <1>2, <1>3

\* The cascade of the servant accepts a date exactly when it lies between the
\* two dates of the request, both of them included.
THEOREM RangeTest ==
  ASSUME NEW date \in Dates, NEW from \in Dates, NEW to \in Dates
  PROVE  checkCitTransactionExistance(date, from, to)
           <=> AtMost(from, date) /\ AtMost(date, to)
  BY DEF Dates, AtMost, checkCitTransactionExistance

\* A request with its dates the wrong way round counts nothing.
COROLLARY EmptyRange ==
  ASSUME NEW date \in Dates, NEW from \in Dates, NEW to \in Dates,
         ~AtMost(from, to)
  PROVE  ~checkCitTransactionExistance(date, from, to)
  BY AtMostIsOrder, RangeTest

-----------------------------------------------------------------------------
\* The cities of a range as a servant lists them: CitiesOf has no others than
\* those of its share, and has them all.
LEMMA CitiesAreTheShare ==
  ASSUME NEW range \in (Nat \ {0}) \X Nat
  PROVE  LET names == CitiesOf(range)
         IN  /\ \A k \in DOMAIN names : names[k] \in Share(range)
             /\ \A c \in Share(range) : \E k \in DOMAIN names : names[k] = c
<1> DEFINE first == range[1]
           last == IF range[2] < Len(Dataset) THEN range[2] ELSE Len(Dataset)
           n == IF last < first THEN 0 ELSE last - first + 1
           names == CitiesOf(range)
<1>1. /\ first \in Nat \ {0} /\ range[2] \in Nat
      /\ Len(Dataset) \in Nat /\ DOMAIN Dataset = 1 .. Len(Dataset)
  BY DataAssumption
<1>2. /\ last \in Nat /\ last <= range[2] /\ last <= Len(Dataset)
      /\ \A m \in Nat : m <= range[2] /\ m <= Len(Dataset) => m <= last
  BY <1>1
<1>3. names = [k \in 1 .. n |-> Dataset[last - k + 1]]
  BY DEF CitiesOf
<1> HIDE DEF last, names
<1>4. n \in Nat /\ DOMAIN names = 1 .. n
  BY <1>1, <1>2, <1>3
<1>5. ASSUME NEW k \in DOMAIN names PROVE names[k] \in Share(range)
  <2>1. k \in 1 .. n /\ last >= first /\ n = last - first + 1
    BY <1>1, <1>2, <1>4
  <2>2. last - k + 1 \in first .. last
    BY <1>1, <1>2, <2>1
  <2>3. last - k + 1 \in DOMAIN Dataset /\ range[1] <= last - k + 1 /\ last - k + 1 <= range[2]
    BY <1>1, <1>2, <2>2
  <2> QED
    BY <1>3, <2>1, <2>3 DEF Share
<1>6. ASSUME NEW c \in Share(range) PROVE \E k \in DOMAIN names : names[k] = c
  <2>1. PICK m \in DOMAIN Dataset : c = Dataset[m] /\ range[1] <= m /\ m <= range[2]
    BY DEF Share
  <2>2. m \in Nat /\ first <= m /\ m <= last
    BY <1>1, <1>2, <2>1
  <2>3. last - m + 1 \in 1 .. n /\ last - (last - m + 1) + 1 = m
    BY <1>1, <1>2, <2>2
  <2> QED
    BY <1>3, <1>4, <2>1, <2>3
<1> QED
  BY <1>5, <1>6 DEF names

\* The servants whose strings of names have the city of the request.
Matches == {k \in DOMAIN ranges : FitsIn(k) /\ Found(CitiesOf(ranges[k]), request)}
AllFit == \A k \in DOMAIN ranges : FitsIn(k)

\* The answer of the lookup stands once the search is done, if no servant had
\* to garble its names, and the servants do not change their ranges.
LookedUp ==
  /\ ranges \in Ranges
  /\ phase = "done" /\ AllFit =>
       asked = IF Matches = {} THEN 0
               ELSE CHOOSE k \in Matches : \A l \in Matches : l <= k

\* The lookup keeps to that in every reachable state.
THEOREM Lookup == DataSpec => []LookedUp
<1>1. DataInit => LookedUp
  BY DEF DataInit, LookedUp
<1>2. LookedUp /\ [DataNext]_dataVars => LookedUp'
  <2> SUFFICES ASSUME LookedUp, [DataNext]_dataVars PROVE LookedUp'
    OBVIOUS
  <2>1. ASSUME library' = library, ranges' = ranges, request' = request,
               asked' = asked, phase' = "done" => phase = "done"
        PROVE  LookedUp'
    <3>1. Matches' = Matches /\ AllFit' = AllFit
      BY <2>1 DEF Matches, AllFit, FitsIn
    <3> QED
      BY <2>1, <3>1 DEF LookedUp
  <2>2. CASE ListCities
    BY <2>1, <2>2 DEF ListCities
  <2>3. ASSUME NEW c \in CityNames, NextDirectory(c) PROVE LookedUp'
    BY <2>1, <2>3 DEF NextDirectory
  <2>4. ASSUME NEW f \in left, LoadFile(f) PROVE LookedUp'
    BY <2>1, <2>4 DEF LoadFile
  <2>5. CASE Count \/ Fault
    BY <2>1, <2>5 DEF Count, Fault
  <2>6. CASE Search
    <3>1. library' = library /\ ranges' = ranges /\ request' = request
      BY <2>6 DEF Search
    <3>2. Matches' = Matches /\ AllFit' = AllFit
      BY <3>1 DEF Matches, AllFit, FitsIn
    <3> DEFINE Last(S) == CHOOSE k \in S : \A l \in S : l <= k
    <3>3. ASSUME AllFit
          PROVE  asked' = IF Matches = {} THEN 0
                          ELSE Last(Matches)
      <4>1. PICK garbled \in SUBSET {k \in DOMAIN ranges : ~FitsIn(k)} :
              asked' = IF garbled \cup Matches = {} THEN 0
                       ELSE Last(garbled \cup Matches)
        BY <2>6 DEF Search, Matches
      <4>2. garbled \cup Matches = Matches
        BY <3>3, <4>1 DEF AllFit
      <4> HIDE DEF Last
      <4> QED
        BY <4>1, <4>2
    <3> QED
      BY <3>1, <3>2, <3>3 DEF LookedUp
  <2>7. CASE UNCHANGED dataVars
    BY <2>1, <2>7 DEF dataVars
  <2> QED
    BY <2>2, <2>3, <2>4, <2>5, <2>6, <2>7 DEF DataNext
<1> QED
  BY <1>1, <1>2, PTL DEF DataSpec

\* A city is looked up at the servant that holds it, under the conditions of
\* the property, whatever the data set, the ranges and the line.
THEOREM CityIsFound == DataSpec => []CityAtItsServant
<1>1. LookedUp => CityAtItsServant
  <2> SUFFICES ASSUME LookedUp, phase = "done", AllFit, NEW k \in DOMAIN ranges,
                      request.city \in Share(ranges[k]),
                      \A l \in DOMAIN ranges \ {k} :
                        PartOf[request.city] \cap Share(ranges[l]) = {},
                      \/ request.blanks = 0
                      \/ /\ request.blanks = 1
                         /\ request.city # CitiesOf(ranges[k])[1]
               PROVE  asked = k
    BY DEF CityAtItsServant, AllFit
  <2> DEFINE city == request.city
             names(l) == CitiesOf(ranges[l])
  <2>1. ranges \in Seq((Nat \ {0}) \X Nat)
    BY DataAssumption DEF LookedUp
  <2>2. \A l \in DOMAIN ranges : ranges[l] \in (Nat \ {0}) \X Nat /\ l \in Nat
    BY <2>1
  <2>3. city \in CityNames /\ city \in PartOf[city] /\ city # Blank
    <3>1. city \in CityNames
      BY DEF Share, CityNames
    <3> QED
      BY <3>1, DataAssumption
  <2>4. Found(names(k), request)
    <3>1. PICK j \in DOMAIN names(k) : names(k)[j] = city
      BY <2>2, CitiesAreTheShare
    <3>2. j \in Nat \ {0}
      BY DEF CitiesOf
    <3>3. CASE request.blanks = 0
      BY <2>3, <3>1, <3>3 DEF Found
    <3>4. CASE request.blanks = 1 /\ city # names(k)[1]
      <4>1. j > 1
        BY <3>1, <3>2, <3>4
      <4> QED
        BY <2>3, <3>1, <3>4, <4>1 DEF Found
    <3> QED
      BY <3>3, <3>4
  <2>5. ASSUME NEW l \in DOMAIN ranges, Found(names(l), request)
        PROVE  l = k
    <3>1. PICK j \in DOMAIN names(l) : names(l)[j] \in PartOf[city]
      BY <2>3, <2>5 DEF Found
    <3>2. names(l)[j] \in Share(ranges[l])
      BY <2>2, CitiesAreTheShare
    <3> QED
      BY <3>1, <3>2
  <2>6. Matches = {k}
    BY <2>4, <2>5 DEF Matches, AllFit
  <2>7. (CHOOSE i \in {k} : \A l \in {k} : l <= i) = k
    BY <2>2
  <2> QED
    BY <2>6, <2>7 DEF LookedUp
<1> QED
  BY <1>1, Lookup, PTL

-----------------------------------------------------------------------------
\* Sums over finite sets, by induction: every set of natural numbers has a
\* least member.
LEMMA Least ==
  ASSUME NEW T, T \subseteq Nat, T # {}
  PROVE  \E k \in T : \A l \in T : k <= l
<1>1. PICK k \in T : \A l \in T : <<l, k>> \notin OpToRel(<, Nat)
  BY NatLessThanWellFounded, WFMin
<1>2. ASSUME NEW l \in T PROVE k <= l
  <2>1. /\ k \in Nat /\ l \in Nat
        /\ <<l, k>> \in Nat \X Nat /\ <<l, k>>[1] = l /\ <<l, k>>[2] = k
    OBVIOUS
  <2>2. ~ (l < k)
    BY <1>1, <2>1 DEF OpToRel
  <2> QED
    BY <2>1, <2>2
<1> QED
  BY <1>2

-----------------------------------------------------------------------------
\* Induction over finite sets: a set of them has a member from which nothing
\* can be taken away.
LEMMA Smallest ==
  ASSUME NEW S, IsFiniteSet(S), NEW B \in SUBSET SUBSET S, B # {}
  PROVE  \E T \in B : \A x \in T : T \ {x} \notin B
<1> DEFINE sizes == {Cardinality(T) : T \in B}
<1>1. ASSUME NEW T \in B PROVE IsFiniteSet(T) /\ Cardinality(T) \in Nat
  BY FS_Subset, FS_CardinalityType
<1>2. sizes \subseteq Nat /\ sizes # {}
  BY <1>1
<1>3. PICK k \in sizes : \A l \in sizes : k <= l
  <2> HIDE DEF sizes
  <2> QED
    BY <1>2, Least
<1>4. PICK T \in B : k = Cardinality(T)
  OBVIOUS
<1>5. ASSUME NEW x \in T, T \ {x} \in B PROVE FALSE
  <2>1. Cardinality(T \ {x}) = Cardinality(T) - 1
    BY <1>1, FS_RemoveElement
  <2>2. Cardinality(T) <= Cardinality(T \ {x})
    BY <1>3, <1>4, <1>5
  <2> QED
    BY <1>1, <2>1, <2>2
<1> QED
  BY <1>5

Some(T) == CHOOSE x \in T : TRUE
LEMMA SomeIsIn == ASSUME NEW T, T # {} PROVE Some(T) \in T
  BY DEF Some

\* The recursive function of SumFunctionOnSet on some sets.
SumsUp(g, w, D) ==
  g = [T \in D |-> IF T = {} THEN 0 ELSE w[Some(T)] + g[T \ {Some(T)}]]
SumsOver(g, w, S) == SumsUp(g, w, SUBSET S)

\* Two such functions agree where both are defined.
LEMMA SumsAgree ==
  ASSUME NEW w, NEW g, NEW h, NEW R, NEW S, IsFiniteSet(S), R \in SUBSET S,
         SumsOver(g, w, R), SumsOver(h, w, S)
  PROVE  g[R] = h[R]
<1> DEFINE B == {T \in SUBSET R : g[T] # h[T]}
<1>1. SUFFICES ASSUME B # {} PROVE FALSE
  OBVIOUS
<1>2. PICK T \in B : \A x \in T : T \ {x} \notin B
  <2>1. B \in SUBSET SUBSET S
    OBVIOUS
  <2> HIDE DEF B
  <2> QED
    BY <1>1, <2>1, Smallest
<1>3. /\ g[T] = IF T = {} THEN 0 ELSE w[Some(T)] + g[T \ {Some(T)}]
      /\ h[T] = IF T = {} THEN 0 ELSE w[Some(T)] + h[T \ {Some(T)}]
  <2>1. T \in SUBSET R /\ T \in SUBSET S
    OBVIOUS
  <2> QED
    BY <2>1 DEF SumsUp, SumsOver
<1>4. CASE T = {}
  BY <1>3, <1>4
<1>5. CASE T # {}
  <2>1. T \ {Some(T)} \in SUBSET R
    OBVIOUS
  <2>2. g[T \ {Some(T)}] = h[T \ {Some(T)}]
    BY <1>2, <1>5, <2>1, SomeIsIn
  <2> QED
    BY <1>3, <1>5, <2>2
<1> QED
  BY <1>4, <1>5

\* There is such a function on the subsets of a finite set.
LEMMA SumsExist ==
  ASSUME NEW w, NEW S, IsFiniteSet(S)
  PROVE  \E g : SumsOver(g, w, S)
<1> DEFINE Upto(n) == {T \in SUBSET S : Cardinality(T) <= n}
           Bad == {n \in Nat : ~ \E g : SumsUp(g, w, Upto(n))}
<1>0. \A T \in SUBSET S : IsFiniteSet(T) /\ Cardinality(T) \in Nat
  BY FS_Subset, FS_CardinalityType
<1>1. Bad = {}
  <2>1. SUFFICES ASSUME Bad # {} PROVE FALSE
    OBVIOUS
  <2>2. PICK n \in Bad : \A m \in Bad : n <= m
    <3>1. Bad \subseteq Nat
      OBVIOUS
    <3> HIDE DEF Bad
    <3> QED
      BY <2>1, <3>1, Least
  <2>3. n # 0
    <3> DEFINE zero == [T \in Upto(0) |-> 0]
    <3>1. \A T \in Upto(0) : T = {}
      <4> TAKE T \in Upto(0)
      <4>1. IsFiniteSet(T) /\ Cardinality(T) = 0
        BY <1>0
      <4> QED
        BY <4>1, FS_EmptySet
    <3>2. SumsUp(zero, w, Upto(0))
      <4> HIDE DEF Upto
      <4> QED
        BY <3>1 DEF SumsUp
    <3> QED
      BY <3>2
  <2>4. n - 1 \in Nat /\ n - 1 \notin Bad
    <3>1. n - 1 \in Nat /\ ~(n <= n - 1)
      BY <2>3
    <3> HIDE DEF Bad
    <3> QED
      BY <2>2, <3>1
  <2>5. PICK g : SumsUp(g, w, Upto(n - 1))
    BY <2>4
  <2> DEFINE h == [T \in Upto(n) |->
                     IF T = {} THEN 0 ELSE w[Some(T)] + g[T \ {Some(T)}]]
  <2>6. ASSUME NEW T \in Upto(n - 1) PROVE T \in Upto(n) /\ h[T] = g[T]
    <3>1. T \in Upto(n)
      BY <1>0, <2>4
    <3>2. g[T] = IF T = {} THEN 0 ELSE w[Some(T)] + g[T \ {Some(T)}]
      <4> HIDE DEF Upto
      <4> QED
        BY <2>5 DEF SumsUp
    <3> HIDE DEF Upto
    <3> QED
      BY <3>1, <3>2
  <2>7. ASSUME NEW T \in Upto(n), T # {}
        PROVE  T \ {Some(T)} \in Upto(n - 1)
    <3>1. Some(T) \in T /\ IsFiniteSet(T) /\ Cardinality(T) \in Nat
      BY <1>0, <2>7, SomeIsIn
    <3>2. Cardinality(T \ {Some(T)}) = Cardinality(T) - 1
      BY <3>1, FS_RemoveElement
    <3> QED
      BY <3>1, <3>2
  <2>8. SumsUp(h, w, Upto(n))
    <3> SUFFICES ASSUME NEW T \in Upto(n)
                 PROVE  h[T] = IF T = {} THEN 0
                               ELSE w[Some(T)] + h[T \ {Some(T)}]
      BY DEF SumsUp
    <3> HIDE DEF Upto
    <3> QED
      BY <2>6, <2>7
  <2> QED
    BY <2>8
<1>2. Cardinality(S) \in Nat /\ Upto(Cardinality(S)) = SUBSET S
  <2>1. \A T \in SUBSET S : Cardinality(T) <= Cardinality(S)
    BY FS_Subset
  <2> QED
    BY <1>0, <2>1
<1> QED
  BY <1>1, <1>2 DEF SumsOver

\* SumFunctionOnSet takes the value of such a function.
LEMMA SumIs ==
  ASSUME NEW w, NEW S, IsFiniteSet(S)
  PROVE  \E g : SumsOver(g, w, S) /\ SumFunctionOnSet(w, S) = g[S]
<1> DEFINE f == CHOOSE g : SumsOver(g, w, S)
<1>1. SumsOver(f, w, S)
  BY SumsExist
<1>2. SumFunctionOnSet(w, S) = f[S]
  BY DEF SumFunctionOnSet, FoldFunctionOnSet, MapThenFoldSet, SumsUp,
         SumsOver, Some
<1> QED
  BY <1>1, <1>2

\* One step of the sum.
LEMMA SumStep ==
  ASSUME NEW w, NEW S, IsFiniteSet(S)
  PROVE  SumFunctionOnSet(w, S) =
           IF S = {} THEN 0
           ELSE w[Some(S)] + SumFunctionOnSet(w, S \ {Some(S)})
<1> DEFINE R == S \ {Some(S)}
<1>1. R \in SUBSET S /\ IsFiniteSet(R)
  BY FS_Subset
<1>2. PICK g : SumsOver(g, w, S) /\ SumFunctionOnSet(w, S) = g[S]
  BY SumIs
<1>3. PICK h : SumsOver(h, w, R) /\ SumFunctionOnSet(w, R) = h[R]
  BY <1>1, SumIs
<1>4. h[R] = g[R]
  <2> HIDE DEF R
  <2> QED
    BY <1>1, <1>2, <1>3, SumsAgree
<1>5. g[S] = IF S = {} THEN 0 ELSE w[Some(S)] + g[R]
  BY <1>2 DEF SumsUp, SumsOver
<1> QED
  BY <1>2, <1>3, <1>4, <1>5

\* The sum of natural numbers is one.
LEMMA SumType ==
  ASSUME NEW w, NEW S, IsFiniteSet(S), \A x \in S : w[x] \in Nat
  PROVE  SumFunctionOnSet(w, S) \in Nat
<1> DEFINE B == {T \in SUBSET S : SumFunctionOnSet(w, T) \notin Nat}
<1>1. SUFFICES ASSUME B # {} PROVE FALSE
  OBVIOUS
<1>2. PICK T \in B : \A x \in T : T \ {x} \notin B
  <2>1. B \in SUBSET SUBSET S
    OBVIOUS
  <2> HIDE DEF B
  <2> QED
    BY <1>1, <2>1, Smallest
<1>3. SumFunctionOnSet(w, T) = IF T = {} THEN 0
        ELSE w[Some(T)] + SumFunctionOnSet(w, T \ {Some(T)})
  BY FS_Subset, SumStep
<1>4. ASSUME T # {}
      PROVE  w[Some(T)] \in Nat /\ SumFunctionOnSet(w, T \ {Some(T)}) \in Nat
  <2>1. Some(T) \in T /\ T \ {Some(T)} \in SUBSET S
    BY <1>4, SomeIsIn
  <2> QED
    BY <1>2, <2>1
<1> QED
  BY <1>3, <1>4

\* The sum does not depend on the order.
LEMMA SumTake ==
  ASSUME NEW w, NEW S, IsFiniteSet(S), \A x \in S : w[x] \in Nat
  PROVE  \A x \in S :
           SumFunctionOnSet(w, S) = w[x] + SumFunctionOnSet(w, S \ {x})
<1> DEFINE Fine(T) == \A x \in T :
                 SumFunctionOnSet(w, T) = w[x] + SumFunctionOnSet(w, T \ {x})
           B == {T \in SUBSET S : ~Fine(T)}
<1>1. SUFFICES ASSUME B # {} PROVE FALSE
  <2>1. S \notin B => Fine(S)
    OBVIOUS
  <2> QED
    BY <2>1
<1>2. PICK T \in B : \A x \in T : T \ {x} \notin B
  <2>1. B \in SUBSET SUBSET S
    OBVIOUS
  <2> HIDE DEF B
  <2> QED
    BY <1>1, <2>1, Smallest
<1>0. ASSUME NEW R \in SUBSET S
      PROVE  IsFiniteSet(R) /\ SumFunctionOnSet(w, R) \in Nat
  <2>1. IsFiniteSet(R)
    BY FS_Subset
  <2> QED
    BY <2>1, SumType
<1>3. ASSUME NEW x \in T
      PROVE  SumFunctionOnSet(w, T) = w[x] + SumFunctionOnSet(w, T \ {x})
  <2> DEFINE y == Some(T)
             R == T \ {x, y}
  <2>1. y \in T /\ T \in SUBSET S /\ R \in SUBSET S
    BY SomeIsIn
  <2>2. SumFunctionOnSet(w, T) = w[y] + SumFunctionOnSet(w, T \ {y})
    BY <1>0, <2>1, SumStep
  <2>3. CASE x = y
    BY <2>2, <2>3
  <2>4. CASE x # y
    <3>1. Fine(T \ {x}) /\ Fine(T \ {y})
      <4>1. T \ {x} \in SUBSET S /\ T \ {y} \in SUBSET S
        OBVIOUS
      <4>2. T \ {x} \notin B /\ T \ {y} \notin B
        <5> HIDE DEF B
        <5> QED
          BY <1>2, <2>1
      <4> HIDE DEF Fine
      <4> QED
        BY <4>1, <4>2
    <3>2. /\ y \in T \ {x} /\ (T \ {x}) \ {y} = R
          /\ x \in T \ {y} /\ (T \ {y}) \ {x} = R
      BY <2>1, <2>4
    <3>3. /\ SumFunctionOnSet(w, T \ {x}) = w[y] + SumFunctionOnSet(w, R)
          /\ SumFunctionOnSet(w, T \ {y}) = w[x] + SumFunctionOnSet(w, R)
      <4> HIDE DEF y, R
      <4> QED
        BY <3>1, <3>2
    <3>4. w[x] \in Nat /\ w[y] \in Nat /\ SumFunctionOnSet(w, R) \in Nat
      BY <1>0, <2>1
    <3> HIDE DEF y, R
    <3> QED
      BY <2>2, <3>3, <3>4
  <2> QED
    BY <2>3, <2>4
<1> QED
  BY <1>3

\* Equal numbers have equal sums.
LEMMA SumSame ==
  ASSUME NEW v, NEW w, NEW S, IsFiniteSet(S), \A x \in S : v[x] = w[x]
  PROVE  SumFunctionOnSet(v, S) = SumFunctionOnSet(w, S)
<1> DEFINE B == {T \in SUBSET S : SumFunctionOnSet(v, T) # SumFunctionOnSet(w, T)}
<1>1. SUFFICES ASSUME B # {} PROVE FALSE
  OBVIOUS
<1>2. PICK T \in B : \A x \in T : T \ {x} \notin B
  <2>1. B \in SUBSET SUBSET S
    OBVIOUS
  <2> HIDE DEF B
  <2> QED
    BY <1>1, <2>1, Smallest
<1>3. /\ SumFunctionOnSet(v, T) = IF T = {} THEN 0
           ELSE v[Some(T)] + SumFunctionOnSet(v, T \ {Some(T)})
      /\ SumFunctionOnSet(w, T) = IF T = {} THEN 0
           ELSE w[Some(T)] + SumFunctionOnSet(w, T \ {Some(T)})
  BY FS_Subset, SumStep
<1>4. ASSUME T # {}
      PROVE  /\ v[Some(T)] = w[Some(T)]
             /\ SumFunctionOnSet(v, T \ {Some(T)}) = SumFunctionOnSet(w, T \ {Some(T)})
  <2>1. Some(T) \in T /\ T \ {Some(T)} \in SUBSET S
    BY <1>4, SomeIsIn
  <2> QED
    BY <1>2, <2>1
<1> QED
  BY <1>3, <1>4

\* One number more, so much more in all.
LEMMA SumMore ==
  ASSUME NEW v, NEW w, NEW S, IsFiniteSet(S), NEW x \in S, NEW d \in Nat,
         \A y \in S : w[y] \in Nat,
         \A y \in S \ {x} : v[y] = w[y], v[x] = w[x] + d
  PROVE  SumFunctionOnSet(v, S) = SumFunctionOnSet(w, S) + d
<1> DEFINE R == S \ {x}
<1>1. IsFiniteSet(R)
  BY FS_Subset
<1>2. /\ SumFunctionOnSet(v, S) = v[x] + SumFunctionOnSet(v, R)
      /\ SumFunctionOnSet(w, S) = w[x] + SumFunctionOnSet(w, R)
  <2>1. \A y \in S : v[y] \in Nat
    OBVIOUS
  <2> QED
    BY <2>1, SumTake
<1>3. SumFunctionOnSet(v, R) = SumFunctionOnSet(w, R)
  BY <1>1, SumSame
<1>4. SumFunctionOnSet(w, R) \in Nat
  BY <1>1, SumType
<1> QED
  BY <1>2, <1>3, <1>4

\* A sum of nothing.
LEMMA SumNull ==
  ASSUME NEW w, NEW S, IsFiniteSet(S), \A x \in S : w[x] = 0
  PROVE  SumFunctionOnSet(w, S) = 0
<1> DEFINE B == {T \in SUBSET S : SumFunctionOnSet(w, T) # 0}
<1>1. SUFFICES ASSUME B # {} PROVE FALSE
  OBVIOUS
<1>2. PICK T \in B : \A x \in T : T \ {x} \notin B
  <2>1. B \in SUBSET SUBSET S
    OBVIOUS
  <2> HIDE DEF B
  <2> QED
    BY <1>1, <2>1, Smallest
<1>3. SumFunctionOnSet(w, T) = IF T = {} THEN 0
        ELSE w[Some(T)] + SumFunctionOnSet(w, T \ {Some(T)})
  BY FS_Subset, SumStep
<1>4. ASSUME T # {}
      PROVE  w[Some(T)] = 0 /\ SumFunctionOnSet(w, T \ {Some(T)}) = 0
  <2>1. Some(T) \in T /\ T \ {Some(T)} \in SUBSET S
    BY <1>4, SomeIsIn
  <2> QED
    BY <1>2, <2>1
<1> QED
  BY <1>3, <1>4

-----------------------------------------------------------------------------
\* The numbers of a file, of the array and of a directory for the request.
Sound(f) == f.date \in Dates
Worth(f) == IF checkCitTransactionExistance(f.date, request.from, request.to)
              THEN Hits(f, request.type) ELSE 0
InArray == [a \in DOMAIN mem |-> Worth(mem[a])]

\* The files of a city that have been loaded.
Loaded(c) == IF c \in unread THEN {}
             ELSE IF cityArr[counter] = c THEN library[c] \ left ELSE library[c]
InCity(c) == [f \in library[c] |-> IF f \in Loaded(c) THEN Worth(f) ELSE 0]
MyShare == Share(ranges[me])
InCities == [c \in MyShare |-> SumFunction(InCity(c))]
InDirectory(c) == [f \in library[c] |-> Worth(f)]
InDirectories == [c \in MyShare |-> SumFunction(InDirectory(c))]

Given ==
  /\ library \in Libraries
  /\ request.from \in Dates /\ request.to \in Dates
  /\ ranges \in Ranges
  /\ me \in DOMAIN ranges
  /\ phase \in {"cities", "load", "search", "done", "killed"}

Untouched == phase = "cities" => unread = CityNames /\ left = {}

\* What the loading of the files keeps to.
Places ==
  phase # "cities" =>
    /\ cityArr = CitiesOf(ranges[me])
    /\ DOMAIN mem = (DOMAIN cityArr) \X (1 .. FILE_COUNT)
    /\ \A a \in DOMAIN mem : Sound(mem[a])
    /\ left # {} => /\ counter \in DOMAIN cityArr
                    /\ cityArr[counter] \notin unread
                    /\ left \subseteq library[cityArr[counter]]
                    /\ ind \in Nat

\* Cells that no file may be in.
Fresh ==
  phase = "load" /\ FitsIn(me) =>
    /\ left # {} => ind + Cardinality(left) <= FILE_COUNT
    /\ \A i \in DOMAIN cityArr, j \in 1 .. FILE_COUNT :
         cityArr[i] \in unread \/ (i = counter /\ left # {} /\ j > ind)
           => mem[<<i, j>>] = NoFile

\* No store leaves the arrays of a servant whose files fit.
Contained == FitsIn(me) => ~overrun

Tally ==
  FitsIn(me) =>
    /\ phase = "load" => SumFunction(InArray) = SumFunction(InCities)
    /\ phase \in {"search", "done"} => total = SumFunction(InDirectories)

DInv == Given /\ Untouched /\ Places /\ Fresh /\ Contained /\ Tally

-----------------------------------------------------------------------------
\* What a file counts is a number.
LEMMA WorthIsANumber == ASSUME NEW f, Sound(f) PROVE Worth(f) \in Nat
<1>1. Hits(f, request.type) \in Nat
  <2> DEFINE at == {k \in 1 .. TRANSACTION_COUNT :
                      k \in DOMAIN f.types /\ f.types[k] = request.type}
  <2>1. IsFiniteSet(1 .. TRANSACTION_COUNT) /\ at \in SUBSET (1 .. TRANSACTION_COUNT)
    BY DataAssumption, FS_Interval
  <2>2. IsFiniteSet(at)
    BY <2>1, FS_Subset
  <2> QED
    BY <2>2, FS_CardinalityType DEF Hits
<1> QED
  BY <1>1 DEF Worth

\* An empty cell counts nothing.
LEMMA NoFileIsWorthless == Sound(NoFile) /\ Worth(NoFile) = 0
<1>1. NoFile.date \in Dates /\ DOMAIN NoFile.types = {}
  BY DEF NoFile, Dates
<1>2. {k \in 1 .. TRANSACTION_COUNT :
         k \in DOMAIN NoFile.types /\ NoFile.types[k] = request.type} = {}
  BY <1>1
<1>3. Hits(NoFile, request.type) = 0
  BY <1>2, FS_EmptySet DEF Hits
<1> QED
  BY <1>1, <1>3 DEF Sound, Worth

\* The directories of a servant and their files.
LEMMA Directories ==
  ASSUME Given
  PROVE  /\ ranges[me] \in (Nat \ {0}) \X Nat
         /\ MyShare \subseteq CityNames /\ IsFiniteSet(MyShare)
         /\ \A c \in CityNames : /\ IsFiniteSet(library[c])
                                 /\ \A f \in library[c] : Sound(f)
<1>1. ranges \in Seq((Nat \ {0}) \X Nat) /\ me \in DOMAIN ranges
  BY DataAssumption DEF Given
<1>2. ranges[me] \in (Nat \ {0}) \X Nat
  BY <1>1
<1>3. MyShare \subseteq CityNames
  BY DEF MyShare, Share, CityNames
<1>4. IsFiniteSet(CityNames)
  <2>1. Len(Dataset) \in Nat /\ DOMAIN Dataset = 1 .. Len(Dataset)
    BY DataAssumption
  <2>2. IsFiniteSet(DOMAIN Dataset)
    BY <2>1, FS_Interval
  <2>3. Dataset \in Surjection(DOMAIN Dataset, CityNames)
    <3>1. Dataset \in [DOMAIN Dataset -> CityNames]
      BY <2>1, DataAssumption
    <3> QED
      BY <3>1 DEF Surjection, CityNames
  <2> QED
    BY <2>2, <2>3, FS_Surjection
<1>5. \A c \in CityNames : IsFiniteSet(library[c]) /\ \A f \in library[c] : Sound(f)
  BY DataAssumption DEF Given, Sound
<1> QED
  BY <1>2, <1>3, <1>4, <1>5, FS_Subset
\* What a city counts is a number.
LEMMA CitySum ==
  ASSUME Given, NEW c \in MyShare
  PROVE  /\ SumFunction(InCity(c)) = SumFunctionOnSet(InCity(c), library[c])
         /\ SumFunction(InCity(c)) \in Nat
<1>1. SumFunction(InCity(c)) = SumFunctionOnSet(InCity(c), library[c])
  BY DEF SumFunction, InCity
<1>2. IsFiniteSet(library[c]) /\ \A f \in library[c] : Worth(f) \in Nat
  BY Directories, WorthIsANumber
<1>3. \A f \in library[c] : InCity(c)[f] \in Nat
  BY <1>2 DEF InCity
<1>4. SumFunctionOnSet(InCity(c), library[c]) \in Nat
  BY <1>2, <1>3, SumType
<1> QED
  BY <1>1, <1>4

\* Steps that load nothing keep the sums of the cities.
LEMMA SameCities ==
  ASSUME UNCHANGED <<library, request, ranges, me>>,
         \A c \in MyShare : Loaded(c)' = Loaded(c)
  PROVE  InCities' = InCities
<1>1. MyShare' = MyShare /\ \A f : Worth(f)' = Worth(f)
  BY DEF MyShare, Worth
<1>2. \A c \in MyShare : InCity(c)' = InCity(c)
  BY <1>1 DEF InCity
<1>3. \A c \in MyShare : SumFunction(InCity(c))' = SumFunction(InCity(c))
  BY <1>2
<1> QED
  BY <1>1, <1>3 DEF InCities

\* Every step keeps the data set, the request and the servant.
LEMMA GivenStep ==
  ASSUME Given, UNCHANGED <<library, request, ranges, me>>,
         phase' \in {"cities", "load", "search", "done", "killed"}
  PROVE  /\ Given'
         /\ MyShare' = MyShare /\ (FitsIn(me)' <=> FitsIn(me))
         /\ \A f : Worth(f)' = Worth(f)
         /\ InDirectories' = InDirectories
<1>1. MyShare' = MyShare /\ \A f : Worth(f)' = Worth(f)
  BY DEF MyShare, Worth
<1>2. \A c \in MyShare : InDirectory(c)' = InDirectory(c)
  BY <1>1 DEF InDirectory
<1>3. \A c \in MyShare : SumFunction(InDirectory(c))' = SumFunction(InDirectory(c))
  BY <1>2
<1>4. FitsIn(me)' <=> FitsIn(me)
  BY DEF FitsIn
<1> QED
  BY <1>1, <1>3, <1>4 DEF InDirectories, Given

\* The list of the cities is a sequence.
LEMMA CitiesLength ==
  ASSUME Given
  PROVE  LET names == CitiesOf(ranges[me])
         IN  Len(names) \in Nat /\ DOMAIN names = 1 .. Len(names)
<1>1. ranges[me] \in (Nat \ {0}) \X Nat /\ Len(Dataset) \in Nat
  BY Directories, DataAssumption
<1> DEFINE last == IF ranges[me][2] < Len(Dataset) THEN ranges[me][2]
                   ELSE Len(Dataset)
           n == IF last < ranges[me][1] THEN 0 ELSE last - ranges[me][1] + 1
<1>2. n \in Nat /\ CitiesOf(ranges[me]) = [k \in 1 .. n |-> Dataset[last - k + 1]]
  BY <1>1 DEF CitiesOf
<1> HIDE DEF n, last
<1> QED
  BY <1>2

\* The cells of the array are finitely many.
LEMMA FiniteCells ==
  ASSUME Given
  PROVE  IsFiniteSet((DOMAIN CitiesOf(ranges[me])) \X (1 .. FILE_COUNT))
<1>1. /\ IsFiniteSet(DOMAIN CitiesOf(ranges[me]))
      /\ IsFiniteSet(1 .. FILE_COUNT)
  BY CitiesLength, DataAssumption, FS_Interval
<1> QED
  BY <1>1, FS_Product

\* The fresh array holds nothing, and no file has been read.
LEMMA ListCitiesKeeps == DInv /\ ListCities => DInv'
<1> SUFFICES ASSUME DInv, ListCities PROVE DInv'
  OBVIOUS
<1>1. /\ UNCHANGED <<library, request, ranges, me, unread, counter, left, ind>>
      /\ phase = "cities" /\ phase' = "load"
      /\ cityArr' = CitiesOf(ranges[me])
      /\ mem' = [cell \in (DOMAIN cityArr') \X (1 .. FILE_COUNT) |-> NoFile]
      /\ unread = CityNames /\ left = {} /\ Given
      /\ overrun' = overrun
  BY DEF DInv, ListCities, Untouched
<1>2. Given' /\ MyShare' = MyShare /\ (FitsIn(me)' <=> FitsIn(me))
  BY <1>1, GivenStep
<1>3. Untouched' /\ Places'
  BY <1>1, NoFileIsWorthless DEF Untouched, Places
<1>4. Contained'
  BY <1>1, <1>2 DEF DInv, Contained
<1>5. Fresh'
  BY <1>1 DEF Fresh
<1>6. SumFunction(InArray)' = 0
  <2>1. DOMAIN mem' = (DOMAIN cityArr') \X (1 .. FILE_COUNT) /\ IsFiniteSet(DOMAIN mem')
    BY <1>1, FiniteCells
  <2>2. \A a \in DOMAIN mem' : InArray'[a] = 0
    BY <1>1, <2>1, NoFileIsWorthless, GivenStep DEF InArray
  <2>3. SumFunction(InArray)' = SumFunctionOnSet(InArray', DOMAIN mem')
    BY <2>1 DEF SumFunction, InArray
  <2> QED
    BY <2>1, <2>2, <2>3, SumNull
<1>7. SumFunction(InCities)' = 0
  <2>1. ASSUME NEW c \in MyShare PROVE InCities'[c] = 0
    <3>1. c \in CityNames /\ Loaded(c)' = {}
      BY <1>1, Directories DEF Loaded
    <3>2. \A f \in library[c] : InCity(c)'[f] = 0
      BY <1>1, <3>1 DEF InCity
    <3>3. SumFunction(InCity(c))' = SumFunctionOnSet(InCity(c)', library[c])
      BY <1>1 DEF SumFunction, InCity
    <3>4. SumFunction(InCity(c))' = 0
      BY <1>1, <3>1, <3>2, <3>3, Directories, SumNull
    <3> QED
      BY <1>2, <3>4 DEF InCities
  <2>2. IsFiniteSet(MyShare)
    BY <1>1, Directories
  <2>3. SumFunction(InCities)' = SumFunctionOnSet(InCities', MyShare)
    BY <1>2 DEF SumFunction, InCities
  <2> QED
    BY <2>1, <2>2, <2>3, SumNull
<1>8. Tally'
  BY <1>1, <1>6, <1>7 DEF Tally
<1> QED
  BY <1>2, <1>3, <1>4, <1>5, <1>8 DEF DInv

\* The city of a directory that is opened has its cells still free; the others
\* keep what they hold.
LEMMA NextDirectoryKeeps ==
  ASSUME DInv, NEW e \in CityNames, NextDirectory(e)
  PROVE  DInv'
<1>1. /\ UNCHANGED <<library, request, ranges, me, cityArr, mem, overrun, total,
                     phase>>
      /\ phase = "load" /\ left = {}
      /\ e \in unread /\ unread' = unread \ {e}
      /\ \/ /\ counter' \in DOMAIN cityArr /\ cityArr[counter'] = e
            /\ left' = library[e] /\ ind' = 0
         \/ /\ overrun \/ \A i \in DOMAIN cityArr : cityArr[i] # e
            /\ UNCHANGED <<counter, left, ind>>
  BY DEF NextDirectory
<1>2. Given /\ Places /\ Fresh /\ Contained /\ Tally
  BY DEF DInv
<1>3. Given' /\ MyShare' = MyShare /\ (FitsIn(me)' <=> FitsIn(me))
  BY <1>1, <1>2, GivenStep
<1>4. Untouched'
  BY <1>1 DEF Untouched
<1>5. Places'
  <2>1. \A a \in DOMAIN mem : Sound(mem[a])' = Sound(mem[a])
    BY <1>1 DEF Sound
  <2> QED
    BY <1>1, <1>2, <2>1 DEF Places
<1>6. \A i \in DOMAIN cityArr : cityArr[i] \in MyShare
  BY <1>1, <1>2, Directories, CitiesAreTheShare DEF Places, MyShare
<1>7. Fresh'
  <2> SUFFICES ASSUME FitsIn(me) PROVE Fresh'
    BY <1>3 DEF Fresh
  <2>1. left' # {} => ind' + Cardinality(left') <= FILE_COUNT
    <3> SUFFICES ASSUME left' = library[e], ind' = 0, e \in MyShare
                 PROVE  ind' + Cardinality(left') <= FILE_COUNT
      BY <1>1, <1>6
    <3>1. Cardinality(library[e]) \in Nat /\ Cardinality(library[e]) <= FILE_COUNT
      BY <1>2, Directories, FS_CardinalityType DEF FitsIn, MyShare
    <3> QED
      BY <3>1, DataAssumption
  <2>2. ASSUME NEW i \in DOMAIN cityArr, NEW j \in 1 .. FILE_COUNT,
               cityArr[i] \in unread' \/ (i = counter' /\ left' # {} /\ j > ind')
        PROVE  mem[<<i, j>>] = NoFile
    <3>1. cityArr[i] \in unread
      BY <1>1, <2>2
    <3> QED
      BY <1>1, <1>2, <3>1 DEF Fresh
  <2> QED
    BY <1>1, <2>1, <2>2 DEF Fresh
<1>8. Tally'
  <2> SUFFICES ASSUME FitsIn(me) PROVE Tally'
    BY <1>3 DEF Tally
  <2>0. ~overrun
    BY <1>2 DEF Contained
  <2>1. \A c \in MyShare : Loaded(c)' = Loaded(c)
    <3> SUFFICES ASSUME NEW c \in MyShare PROVE Loaded(c)' = Loaded(c)
      OBVIOUS
    <3>1. Loaded(c) = IF c \in unread THEN {} ELSE library[c]
      BY <1>1 DEF Loaded
    <3>2. CASE counter' \in DOMAIN cityArr /\ cityArr[counter'] = e /\ left' = library[e]
      BY <1>1, <3>1, <3>2 DEF Loaded
    <3>3. CASE /\ \A i \in DOMAIN cityArr : cityArr[i] # e
               /\ UNCHANGED <<counter, left, ind>>
      <4>1. c # e
        BY <1>1, <1>2, <3>3, Directories, CitiesAreTheShare DEF Places, MyShare
      <4> QED
        BY <1>1, <3>1, <3>3, <4>1 DEF Loaded
    <3> QED
      BY <1>1, <2>0, <3>2, <3>3
  <2>2. InCities' = InCities
    BY <1>1, <2>1, SameCities
  <2>3. InArray' = InArray
    BY <1>1 DEF InArray, Worth
  <2> QED
    BY <1>1, <1>2, <1>3, <2>2, <2>3 DEF Tally
<1>9. Contained'
  BY <1>1, <1>2, <1>3 DEF Contained
<1> QED
  BY <1>3, <1>4, <1>5, <1>7, <1>8, <1>9 DEF DInv

\* A file of a directory that fits goes to a fresh cell.
LEMMA LoadFileKeeps ==
  ASSUME DInv, NEW f \in left, LoadFile(f)
  PROVE  DInv'
<1> DEFINE at == <<counter, ind + 1>>
           inside == ind < FILE_COUNT /\ Len(f.types) <= TRANSACTION_COUNT
<1>0. FILE_COUNT \in Nat \ {0}
  BY DataAssumption
<1>1. /\ UNCHANGED <<library, request, ranges, me, cityArr, unread, counter,
                     total, phase>>
      /\ phase = "load"
      /\ left' = left \ {f} /\ ind' = ind + 1
      /\ mem' = mem \/ mem' = [mem EXCEPT ![at] = f]
      /\ inside => mem' = [mem EXCEPT ![at] = f] /\ overrun' = overrun
  BY DEF LoadFile
<1>2. Given /\ Places /\ Fresh /\ Contained /\ Tally
  BY DEF DInv
<1>3. Given' /\ MyShare' = MyShare /\ (FitsIn(me)' <=> FitsIn(me))
      /\ \A g : Worth(g)' = Worth(g)
  BY <1>1, <1>2, GivenStep
<1>4. Untouched'
  BY <1>1 DEF Untouched
<1>5. /\ cityArr = CitiesOf(ranges[me])
      /\ DOMAIN mem = (DOMAIN cityArr) \X (1 .. FILE_COUNT)
      /\ \A a \in DOMAIN mem : Sound(mem[a])
      /\ counter \in DOMAIN cityArr /\ cityArr[counter] \notin unread
      /\ left \subseteq library[cityArr[counter]] /\ ind \in Nat
  BY <1>1, <1>2 DEF Places
<1>6. /\ Len(cityArr) \in Nat /\ DOMAIN cityArr = 1 .. Len(cityArr)
  BY <1>2, <1>5, CitiesLength
<1>7. PICK here \in MyShare : here = cityArr[counter] /\ here \in CityNames
  BY <1>2, <1>5, Directories, CitiesAreTheShare DEF MyShare
<1>8. /\ f \in library[here] /\ Sound(f) /\ Worth(f) \in Nat
      /\ IsFiniteSet(library[here]) /\ IsFiniteSet(left)
      /\ Cardinality(left) \in Nat
  BY <1>2, <1>5, <1>7, Directories, WorthIsANumber, FS_Subset, FS_CardinalityType
<1>9. Places'
  <2>1. ASSUME NEW a \in DOMAIN mem' PROVE Sound(mem'[a])
    BY <1>1, <1>5, <1>8, <2>1
  <2>2. DOMAIN mem' = DOMAIN mem
    BY <1>1
  <2> HIDE DEF at
  <2> QED
    BY <1>1, <1>5, <2>1, <2>2 DEF Places, Sound
<1>10. ASSUME FitsIn(me) PROVE Fresh' /\ Contained' /\ Tally'
  <2>1. /\ ind + Cardinality(left) <= FILE_COUNT
        /\ \A i \in DOMAIN cityArr, j \in 1 .. FILE_COUNT :
             cityArr[i] \in unread \/ (i = counter /\ j > ind)
               => mem[<<i, j>>] = NoFile
    BY <1>1, <1>2, <1>10 DEF Fresh
  <2>2. Cardinality(left') = Cardinality(left) - 1 /\ Cardinality(left) # 0
    BY <1>1, <1>8, FS_RemoveElement, FS_EmptySet
  <2>3. ind + 1 \in 1 .. FILE_COUNT
    BY <1>0, <1>5, <1>8, <2>1, <2>2
  <2>4. at \in DOMAIN mem /\ mem[at] = NoFile
    BY <1>5, <2>1, <2>3
  <2>5. mem' = [mem EXCEPT ![at] = f] /\ Contained'
    <3>1. Len(f.types) <= TRANSACTION_COUNT
      BY <1>7, <1>8, <1>10 DEF FitsIn, MyShare
    <3>2. ind < FILE_COUNT
      BY <1>0, <1>5, <2>3
    <3> QED
      BY <1>1, <1>2, <1>3, <3>1, <3>2 DEF Contained
  <2>6. Fresh'
    <3>1. ASSUME NEW i \in DOMAIN cityArr, NEW j \in 1 .. FILE_COUNT,
                 cityArr[i] \in unread \/ (i = counter /\ j > ind + 1)
          PROVE  mem'[<<i, j>>] = NoFile
      <4>1. i # counter \/ j # ind + 1
        BY <1>5, <3>1
      <4>2. <<i, j>> # at
        BY <4>1
      <4>3. mem[<<i, j>>] = NoFile
        <5>1. j > ind + 1 => j > ind
          BY <1>5
        <5> QED
          BY <2>1, <3>1, <5>1
      <4>4. <<i, j>> \in DOMAIN mem
        BY <1>5
      <4> QED
        BY <2>5, <4>2, <4>3, <4>4
    <3>2. ind' + Cardinality(left') <= FILE_COUNT
      BY <1>0, <1>1, <1>5, <1>8, <2>1, <2>2
    <3> HIDE DEF at
    <3> QED
      BY <1>1, <3>1, <3>2 DEF Fresh
  <2>7. SumFunction(InArray)' = SumFunction(InArray) + Worth(f)
    <3>1. /\ IsFiniteSet(DOMAIN mem)
          /\ \A a \in DOMAIN mem : InArray[a] = Worth(mem[a]) /\ InArray[a] \in Nat
      <4>1. IsFiniteSet(DOMAIN mem)
        BY <1>2, <1>5, FiniteCells
      <4>2. \A a \in DOMAIN mem : InArray[a] = Worth(mem[a])
        BY DEF InArray
      <4>3. \A a \in DOMAIN mem : Worth(mem[a]) \in Nat
        BY <1>5, WorthIsANumber
      <4> QED
        BY <4>1, <4>2, <4>3
    <3>2. InArray[at] = 0
      BY <2>4, <3>1, NoFileIsWorthless
    <3>3. /\ DOMAIN mem' = DOMAIN mem
          /\ \A a \in DOMAIN mem \ {at} : InArray'[a] = InArray[a]
          /\ InArray'[at] = InArray[at] + Worth(f)
      <4> HIDE DEF at
      <4> QED
        BY <1>3, <1>8, <2>4, <2>5, <3>1, <3>2 DEF InArray
    <3>4. SumFunctionOnSet(InArray', DOMAIN mem)
            = SumFunctionOnSet(InArray, DOMAIN mem) + Worth(f)
      <4> HIDE DEF at
      <4> QED
        BY <1>8, <2>4, <3>1, <3>3, SumMore
    <3> QED
      BY <3>3, <3>4 DEF SumFunction, InArray
  <2>8. SumFunction(InCities)' = SumFunction(InCities) + Worth(f)
    <3>1. \A c \in MyShare \ {here} : InCity(c)' = InCity(c)
      BY <1>1, <1>3, <1>7 DEF InCity, Loaded
    <3>2. /\ InCity(here)'[f] = InCity(here)[f] + Worth(f)
          /\ \A g \in library[here] \ {f} : InCity(here)'[g] = InCity(here)[g]
          /\ \A g \in library[here] : InCity(here)[g] \in Nat
      <4>1. /\ Loaded(here) = library[here] \ left
            /\ Loaded(here)' = library[here] \ (left \ {f})
        BY <1>1, <1>5, <1>7 DEF Loaded
      <4>2. \A g \in library[here] : Worth(g) \in Nat
        BY <1>2, <1>7, Directories, WorthIsANumber
      <4> QED
        BY <1>1, <1>3, <1>8, <4>1, <4>2 DEF InCity
    <3>3. SumFunction(InCity(here))' = SumFunction(InCity(here)) + Worth(f)
      <4>1. SumFunctionOnSet(InCity(here)', library[here])
              = SumFunctionOnSet(InCity(here), library[here]) + Worth(f)
        <5> QED
          BY <1>8, <3>2, SumMore
      <4>2. DOMAIN InCity(here) = library[here] /\ DOMAIN InCity(here)' = library[here]
        BY <1>1 DEF InCity
      <4> QED
        BY <4>1, <4>2 DEF SumFunction
    <3>4. /\ \A c \in MyShare : InCities[c] \in Nat
          /\ \A c \in MyShare \ {here} : InCities'[c] = InCities[c]
          /\ InCities'[here] = InCities[here] + Worth(f)
      <4>1. \A c \in MyShare : InCities[c] = SumFunction(InCity(c))
        BY DEF InCities
      <4>2. \A c \in MyShare : InCities'[c] = SumFunction(InCity(c))'
        BY <1>3 DEF InCities
      <4>3. \A c \in MyShare \ {here} : SumFunction(InCity(c))' = SumFunction(InCity(c))
        BY <3>1
      <4> QED
        BY <1>2, <1>7, <3>3, <4>1, <4>2, <4>3, CitySum
    <3>5. SumFunctionOnSet(InCities', MyShare)
            = SumFunctionOnSet(InCities, MyShare) + Worth(f)
      <4>1. IsFiniteSet(MyShare)
        BY <1>2, Directories
      <4> QED
        BY <1>7, <1>8, <3>4, <4>1, SumMore
    <3>6. DOMAIN InCities = MyShare /\ DOMAIN InCities' = MyShare
      BY <1>3 DEF InCities
    <3> QED
      BY <3>5, <3>6 DEF SumFunction
  <2>9. Tally'
    BY <1>1, <1>2, <1>10, <2>7, <2>8 DEF Tally
  <2> QED
    BY <2>5, <2>6, <2>9
<1>11. ~FitsIn(me) => Fresh' /\ Contained' /\ Tally'
  BY <1>3 DEF Fresh, Contained, Tally
<1> QED
  BY <1>3, <1>4, <1>9, <1>10, <1>11 DEF DInv

\* With all directories read, the cities have all their files.
LEMMA CountKeeps == DInv /\ Count => DInv'
<1> SUFFICES ASSUME DInv, Count PROVE DInv'
  OBVIOUS
<1>1. /\ UNCHANGED <<library, request, ranges, me, cityArr, mem, overrun, unread,
                     counter, left, ind>>
      /\ phase = "load" /\ phase' = "search" /\ unread = {} /\ left = {}
      /\ ~overrun => total' = SumFunction(InArray)
  BY DEF Count, InArray, Worth, loadVars
<1>2. Given /\ Places /\ Contained /\ Tally
  BY DEF DInv
<1>3. /\ Given' /\ MyShare' = MyShare /\ (FitsIn(me)' <=> FitsIn(me))
      /\ InDirectories' = InDirectories
  BY <1>1, <1>2, GivenStep
<1>4. Untouched' /\ Fresh' /\ Places' /\ Contained'
  BY <1>1, <1>2, <1>3 DEF Untouched, Fresh, Places, Sound, Contained
<1>5. InCities = InDirectories
  <2>1. \A c \in MyShare : Loaded(c) = library[c]
    BY <1>1 DEF Loaded
  <2>2. \A c \in MyShare : InCity(c) = InDirectory(c)
    BY <2>1 DEF InCity, InDirectory
  <2> QED
    BY <2>2 DEF InCities, InDirectories
<1>6. Tally'
  BY <1>1, <1>2, <1>3, <1>5 DEF Contained, Tally
<1> QED
  BY <1>3, <1>4, <1>6 DEF DInv

\* The server's search does not touch the servant, and a servant that is
\* killed counts nothing.
LEMMA SearchKeeps == DInv /\ (Search \/ Fault \/ UNCHANGED dataVars) => DInv'
<1> SUFFICES ASSUME DInv, Search \/ Fault \/ UNCHANGED dataVars PROVE DInv'
  OBVIOUS
<1>1. /\ UNCHANGED <<library, request, ranges, me, cityArr, mem, overrun, unread,
                     counter, left, ind, total>>
      /\ \/ phase' = phase
         \/ phase = "search" /\ phase' = "done"
         \/ phase = "load" /\ phase' = "killed"
  BY DEF Search, Fault, loadVars, dataVars
<1>2. Given /\ Untouched /\ Places /\ Fresh /\ Contained /\ Tally
  BY DEF DInv
<1>3. /\ Given' /\ MyShare' = MyShare /\ (FitsIn(me)' <=> FitsIn(me))
      /\ InDirectories' = InDirectories
  BY <1>1, <1>2, GivenStep DEF Given
<1>4. Untouched' /\ Fresh' /\ Places' /\ Contained'
  BY <1>1, <1>2, <1>3 DEF Untouched, Fresh, Places, Sound, Contained
<1>5. Tally'
  <2>1. InArray' = InArray
    BY <1>1 DEF InArray, Worth
  <2>2. \A c \in MyShare : Loaded(c)' = Loaded(c)
    BY <1>1 DEF Loaded
  <2>3. InCities' = InCities
    BY <1>1, <2>2, SameCities
  <2> QED
    BY <1>1, <1>2, <1>3, <2>1, <2>3 DEF Tally
<1> QED
  BY <1>3, <1>4, <1>5 DEF DInv

\* The loading of the files keeps its invariant in every reachable state: while
\* the cities fit, the array and the directories read so far count the same.
THEOREM Loading == DataSpec => []DInv
<1>1. DataInit => DInv
  <2> SUFFICES ASSUME DataInit PROVE DInv
    OBVIOUS
  <2>1. PICK line \in Lines : request = ParseRequest(line)
    BY DEF DataInit
  <2>2. request.from \in Dates /\ request.to \in Dates
    BY <2>1, DataAssumption DEF ParseRequest
  <2> QED
    BY <2>2
       DEF DataInit, DInv, Given, Untouched, Places, Fresh, Contained, Tally
<1>2. DInv /\ [DataNext]_dataVars => DInv'
  BY ListCitiesKeeps, NextDirectoryKeeps, LoadFileKeeps, CountKeeps, SearchKeeps
     DEF DataNext
<1> QED
  BY <1>1, <1>2, PTL DEF DataSpec

\* A file of at most TRANSACTION_COUNT lines: the loop counts all its lines.
LEMMA AllLinesCount ==
  ASSUME NEW f, NEW type, Len(f.types) \in Nat, DOMAIN f.types = 1 .. Len(f.types),
         Len(f.types) <= TRANSACTION_COUNT
  PROVE  Hits(f, type) = Transactions(f, type)
<1>1. {k \in 1 .. TRANSACTION_COUNT : k \in DOMAIN f.types /\ f.types[k] = type}
        = {k \in DOMAIN f.types : f.types[k] = type}
  BY DataAssumption
<1> QED
  BY <1>1 DEF Hits, Transactions

\* The answer of a servant is the number of transactions in its cities within
\* the dates, for any data set whose cities have at most FILE_COUNT files of
\* at most TRANSACTION_COUNT lines, any range and any order of the directories
\* and files.
THEOREM CountsAreExact == DataSpec => []CountIsExact
<1>1. DInv => CountIsExact
  <2> SUFFICES ASSUME DInv, phase \in {"search", "done"}, FitsIn(me)
               PROVE  total = SumFunction([c \in MyShare |->
                        SumFunction([f \in library[c] |->
                          IF Wanted(f) THEN Transactions(f, request.type) ELSE 0])])
    BY DEF CountIsExact, MyShare
  <2>1. total = SumFunction(InDirectories)
    BY DEF DInv, Tally
  <2>2. \A c \in MyShare : \A f \in library[c] :
          Worth(f) = IF Wanted(f) THEN Transactions(f, request.type) ELSE 0
    <3> SUFFICES ASSUME NEW c \in MyShare, NEW f \in library[c]
                 PROVE  Worth(f) = IF Wanted(f) THEN Transactions(f, request.type) ELSE 0
      OBVIOUS
    <3>1. c \in CityNames /\ library \in Libraries
      BY Directories DEF DInv, Given
    <3>2. /\ f.date \in Dates /\ Len(f.types) \in Nat
          /\ DOMAIN f.types = 1 .. Len(f.types)
      BY <3>1, DataAssumption
    <3>3. Len(f.types) <= TRANSACTION_COUNT
      BY DEF FitsIn, MyShare
    <3>4. Hits(f, request.type) = Transactions(f, request.type)
      BY <3>2, <3>3, AllLinesCount
    <3> QED
      BY <3>2, <3>4, RangeTest DEF DInv, Given, Worth, Wanted
  <2>3. \A c \in MyShare : InDirectory(c) = [f \in library[c] |->
                          IF Wanted(f) THEN Transactions(f, request.type) ELSE 0]
    BY <2>2 DEF InDirectory
  <2> QED
    BY <2>1, <2>3 DEF InDirectories
<1> QED
  BY <1>1, Loading, PTL
=============================================================================
