------------------------- MODULE ServantProcesses -------------------------
(***************************************************************************)
(* The processes of Final/source_code and their signals: main of the       *)
(* server, the servants with their two threads, the port file with its     *)
(* named semaphore, and a client's call for the total over all servants.   *)
(*                                                                         *)
(* TransactionServer has the workers and their races; here a registration  *)
(* is one step, and processes come late, are interrupted and go away.  A   *)
(* servant stands for the count it answers with.                           *)
(***************************************************************************)
EXTENDS Naturals, Sequences, FiniteSets

CONSTANTS Servants, Clients,
          Victims     \* processes a user may send SIGINT to

CONSTANTS Server, Stale   \* the server's process; data of an earlier read()

ASSUME ProcessAssumption ==
  /\ Victims \subseteq Servants \cup {Server}
  /\ Server \notin Servants /\ Stale \notin Servants
  /\ Clients \cap Servants = {} /\ "idle" \notin Clients
  /\ {"none", "eof", "reset"} \cap Servants = {}
  /\ IsFiniteSet(Servants)

VARIABLES
  portFile,   \* the number in lib/uniquePort.txt
  named,      \* the semaphore that has the name "mySemaphore", 0 for none
  value,      \* of every semaphore that was ever created
  sp,         \* the semaphore each servant has opened
  pc,         \* main of each servant, and of the server
  thread,     \* the thread of each servant that listens
  port,       \* servantListeningPort, 0 before it is read
  backlog,    \* calls to each servant that it has not accepted
  serves,     \* the call a servant has accepted
  signal,     \* SIGINT of each process: "none", "pending", "caught"
  told,       \* the slot the server's handler has come to, 0 when it is over
  stage,      \* how far each connection to the server has come
  table,      \* servantInfoList up to servantCount
  got,        \* what each call for the total has added up
  answer,     \* what the servant has sent to the call that waits
  broken      \* history: a sem_wait was interrupted

portVars == <<portFile, named, value, sp, port, broken>>
callVars == <<stage, table, got>>
servantVars == <<thread, backlog, serves, answer>>
signals == <<signal, told>>
vars == <<portVars, callVars, servantVars, pc, signals>>

Conns == Servants \cup Clients
Processes == Servants \cup {Server}
Semaphores == 1 .. Cardinality(Servants)
Idle == "idle"

Init ==
  /\ portFile = 1 /\ named = 0 /\ value = <<>>
  /\ sp = [s \in Servants |-> 0]
  /\ thread = [s \in Servants |-> "none"]
  /\ port = [s \in Servants |-> 0]
  /\ backlog = [s \in Servants |-> <<>>]
  /\ serves = [s \in Servants |-> Idle]
  /\ signal = [p \in Processes |-> "none"]
  /\ told = 0
  /\ pc = [p \in Processes |-> "start"]
  /\ stage = [x \in Conns |-> "new"]
  /\ table = <<>>
  /\ got = [c \in Clients |-> <<>>]
  /\ answer = [c \in Clients |-> "none"]
  /\ broken = FALSE

Caught(p) == signal[p] = "caught"
Alive(p) == pc[p] # "gone"
Jump(p, label) == pc' = [pc EXCEPT ![p] = label]
Step(s, label) == thread' = [thread EXCEPT ![s] = label]

\* The socket of a servant that listens stays open until the process ends,
\* also behind the return of its thread.
Listens(s) == thread[s] \in {"top", "accept", "read", "count", "returned"}

-----------------------------------------------------------------------------
\* Faulty variants of some steps, none of them the code.

FaultyReadPort(s) ==   \* the semaphore is posted before the file is written
  /\ pc[s] = "read"
  /\ port' = [port EXCEPT ![s] = portFile]
  /\ value' = [value EXCEPT ![sp[s]] = @ + 1]
  /\ Jump(s, "write")
  /\ UNCHANGED <<portFile, named, sp, broken, callVars, servantVars, signals>>

FaultyTop(s) ==   \* no test of the flag before accept()
  /\ thread[s] = "top"
  /\ Step(s, "accept")
  /\ UNCHANGED <<portVars, callVars, backlog, serves, answer, pc, signals>>

FaultyCountAndWrite(s) ==   \* the count is not written
  /\ thread[s] = "count"
  /\ Step(s, "top")
  /\ serves' = [serves EXCEPT ![s] = Idle]
  /\ UNCHANGED <<portVars, callVars, backlog, answer, pc, signals>>

FaultyServerTest ==   \* on SIGINT main leaves the loop, to join the workers
  /\ pc[Server] = "test" /\ ~Caught(Server)
  /\ Jump(Server, "accept")
  /\ UNCHANGED <<portVars, callVars, servantVars, signals>>

FaultyWorkerCall(c) ==   \* calls the first servant of the table each time
  /\ stage[c] = "next" /\ Len(got[c]) < Len(table)
  /\ \E s \in Servants :
       /\ Listens(s) /\ port[s] = port[table[1]]
       /\ backlog' = [backlog EXCEPT ![s] = Append(@, c)]
  /\ stage' = [stage EXCEPT ![c] = "sent"]
  /\ UNCHANGED <<portVars, table, got, thread, serves, answer, pc, signals>>

-----------------------------------------------------------------------------
\* The end of a process.

\* The kernel closes the sockets of a servant that exits: a call it has read
\* sees the end of the stream; one it has not read sees that or a reset.
Hangup(s) ==
  LET dropped == {c \in Clients : \E k \in DOMAIN backlog[s] : backlog[s][k] = c}
                 \cup {c \in Clients : serves[s] = c}
  IN  \E end \in [dropped -> {"eof", "reset"}] :
        /\ serves[s] \in dropped /\ thread[s] = "count" => end[serves[s]] = "eof"
        /\ answer' = [c \in Clients |-> IF c \in dropped THEN end[c] ELSE answer[c]]

Die(s) ==
  /\ Jump(s, "gone")
  /\ Step(s, "none")
  /\ Hangup(s)
  /\ backlog' = [backlog EXCEPT ![s] = <<>>]
  /\ serves' = [serves EXCEPT ![s] = Idle]
  /\ UNCHANGED <<callVars, signals, portFile, sp, port, broken>>

\* exit() as it stands, and behind sem_unlink(semName).
Exit(s) == Die(s) /\ UNCHANGED <<named, value>>
UnlinkAndExit(s) == Die(s) /\ named' = 0 /\ UNCHANGED value

-----------------------------------------------------------------------------
\* main of a servant.

\* Arguments and data set; the three tests of the flag end the process.
Load(s) ==
  /\ pc[s] = "start"
  /\ \/ Caught(s) /\ Exit(s)
     \/ /\ ~Caught(s)
        /\ Jump(s, "open")
        /\ UNCHANGED <<portVars, callVars, servantVars, signals>>

\* sem_open(semName, O_CREAT, 0644, 1) creates only what has no name.
SemOpen(s) ==
  /\ pc[s] = "open"
  /\ IF named = 0
       THEN /\ value' = Append(value, 1)
            /\ named' = Len(value')
       ELSE UNCHANGED <<value, named>>
  /\ sp' = [sp EXCEPT ![s] = named']
  /\ Jump(s, "wait")
  /\ UNCHANGED <<portFile, port, broken, callVars, servantVars, signals>>

SemWait(s) ==
  /\ pc[s] = "wait"
  /\ value[sp[s]] > 0
  /\ value' = [value EXCEPT ![sp[s]] = @ - 1]
  /\ Jump(s, "read")
  /\ UNCHANGED <<portFile, named, sp, port, broken, callVars, servantVars, signals>>

ReadPort(s) ==
  /\ pc[s] = "read"
  /\ port' = [port EXCEPT ![s] = portFile]
  /\ Jump(s, "write")
  /\ UNCHANGED <<portFile, named, value, sp, broken, callVars, servantVars, signals>>

\* The port file cannot be opened: post, unlink and exit.
OpenFails(s) ==
  /\ pc[s] = "read"
  /\ value' = [value EXCEPT ![sp[s]] = @ + 1]
  /\ named' = 0
  /\ Die(s)

WritePort(s) ==
  /\ pc[s] = "write"
  /\ portFile' = port[s] + 1
  /\ Jump(s, "post")
  /\ UNCHANGED <<named, value, sp, port, broken, callVars, servantVars, signals>>

SemPost(s) ==
  /\ pc[s] = "post"
  /\ value' = [value EXCEPT ![sp[s]] = @ + 1]
  /\ Jump(s, "register")
  /\ UNCHANGED <<portFile, named, sp, port, broken, callVars, servantVars, signals>>

Reachable == pc[Server] \in {"test", "accept"}

\* openSocket, send and close; a refused connection ends the servant.
Register(s) ==
  /\ pc[s] = "register"
  /\ IF Reachable
       THEN /\ stage' = [stage EXCEPT ![s] = "connected"]
            /\ Jump(s, "create")
            /\ UNCHANGED <<portVars, servantVars, table, got, signals>>
       ELSE Exit(s)

CreateThread(s) ==
  /\ pc[s] = "create"
  /\ Jump(s, "test")
  /\ Step(s, "bind")
  /\ UNCHANGED <<portVars, callVars, backlog, serves, answer, signals>>

TestFlag(s) ==
  /\ pc[s] = "test"
  /\ IF Caught(s) THEN UnlinkAndExit(s)
     ELSE /\ Jump(s, "join")
          /\ UNCHANGED <<portVars, callVars, servantVars, signals>>

\* pthread_join: the thread returns on SIGINT alone.
Join(s) ==
  /\ pc[s] = "join"
  /\ thread[s] = "returned"
  /\ UnlinkAndExit(s)

ServantMain(s) ==
  \/ Load(s) \/ SemOpen(s) \/ SemWait(s) \/ ReadPort(s) \/ OpenFails(s)
  \/ WritePort(s) \/ SemPost(s) \/ Register(s) \/ CreateThread(s) \/ TestFlag(s)
  \/ Join(s)

-----------------------------------------------------------------------------
\* The thread of a servant: bind and listen, then accept and answer.

Bind(s) ==
  /\ thread[s] = "bind"
  /\ IF \E t \in Servants : Listens(t) /\ port[t] = port[s]
       THEN Exit(s)
       ELSE /\ Step(s, "top")
            /\ UNCHANGED <<portVars, callVars, backlog, serves, answer, pc, signals>>

\* The three tests of the flag in the loop.
Top(s) ==
  /\ thread[s] = "top"
  /\ Step(s, IF Caught(s) THEN "returned" ELSE "accept")
  /\ UNCHANGED <<portVars, callVars, backlog, serves, answer, pc, signals>>

ServantAccept(s) ==
  /\ thread[s] = "accept"
  /\ backlog[s] # <<>>
  /\ serves' = [serves EXCEPT ![s] = Head(backlog[s])]
  /\ backlog' = [backlog EXCEPT ![s] = Tail(@)]
  /\ Step(s, "read")
  /\ UNCHANGED <<portVars, callVars, answer, pc, signals>>

ServantRead(s) ==
  /\ thread[s] = "read"
  /\ Step(s, IF Caught(s) THEN "returned" ELSE "count")
  /\ UNCHANGED <<portVars, callVars, backlog, serves, answer, pc, signals>>

\* The count is written to the call that was accepted.  A thread that returns
\* here leaves the call to the end of the process.
CountAndWrite(s) ==
  /\ thread[s] = "count"
  /\ IF Caught(s)
       THEN /\ Step(s, "returned")
            /\ UNCHANGED <<answer, serves>>
       ELSE /\ answer' = [answer EXCEPT ![serves[s]] = s]
            /\ serves' = [serves EXCEPT ![s] = Idle]
            /\ Step(s, "top")
  /\ UNCHANGED <<portVars, callVars, backlog, pc, signals>>

ServantThread(s) ==
  Bind(s) \/ Top(s) \/ ServantAccept(s) \/ ServantRead(s) \/ CountAndWrite(s)

-----------------------------------------------------------------------------
\* The server: main, and what a worker does with a connection.

ServerExit ==
  /\ Jump(Server, "gone")
  /\ UNCHANGED <<portVars, callVars, servantVars, signals>>

\* Threads, socket, bind, listen; the flag is tested after the threads.
ServerStart ==
  /\ pc[Server] = "start"
  /\ \/ Caught(Server) /\ ServerExit
     \/ /\ ~Caught(Server)
        /\ Jump(Server, "test")
        /\ UNCHANGED <<portVars, callVars, servantVars, signals>>

\* The flag is tested behind the queue and again at the head of the loop,
\* with nothing in between.
ServerTest ==
  /\ pc[Server] = "test"
  /\ Jump(Server, IF Caught(Server) THEN "gone" ELSE "accept")
  /\ UNCHANGED <<portVars, callVars, servantVars, signals>>

\* accept() and the queue, in the order of arrival or any other.
ServerAccept(x) ==
  /\ pc[Server] = "accept"
  /\ stage[x] = "connected"
  /\ stage' = [stage EXCEPT ![x] = "queued"]
  /\ Jump(Server, "test")
  /\ UNCHANGED <<portVars, table, got, servantVars, signals>>

ClientConnect(c) ==
  /\ stage[c] = "new"
  /\ Reachable
  /\ stage' = [stage EXCEPT ![c] = "connected"]
  /\ UNCHANGED <<portVars, table, got, servantVars, pc, signals>>

\* The workers return when they see the flag at the head of the loop.
WorkersLeave(x) ==
  /\ stage[x] = "queued"
  /\ Caught(Server)
  /\ stage' = [stage EXCEPT ![x] = "left"]
  /\ UNCHANGED <<portVars, table, got, servantVars, pc, signals>>

\* A worker reads the request and tests the flag.
WorkerRead(x) ==
  /\ stage[x] = "queued"
  /\ IF Caught(Server) THEN ServerExit
     ELSE /\ stage' = [stage EXCEPT ![x] = IF x \in Servants THEN "done" ELSE "next"]
          /\ table' = IF x \in Servants THEN Append(table, x) ELSE table
          /\ UNCHANGED <<portVars, got, servantVars, pc, signals>>

\* The listener at the port of the next slot, if there is one.
WorkerCall(c) ==
  /\ stage[c] = "next" /\ Len(got[c]) < Len(table)
  /\ LET dialled == port[table[Len(got[c]) + 1]]
         at == {s \in Servants : Listens(s) /\ port[s] = dialled}
     IN  IF at = {} THEN ServerExit
         ELSE \E s \in at :
                /\ backlog' = [backlog EXCEPT ![s] = Append(@, c)]
                /\ stage' = [stage EXCEPT ![c] = "sent"]
                /\ UNCHANGED <<portVars, table, got, thread, serves, answer,
                               pc, signals>>

\* The test of the flag between send() and read().
WorkerTest(c) ==
  /\ stage[c] = "sent"
  /\ IF Caught(Server) THEN ServerExit
     ELSE /\ stage' = [stage EXCEPT ![c] = "await"]
          /\ UNCHANGED <<portVars, table, got, servantVars, pc, signals>>

\* read() of the answer.  -1 ends the server; 0 is not told from an answer,
\* and data is added as it was left by the read() before.
WorkerAdd(c) ==
  /\ stage[c] = "await"
  /\ answer[c] # "none"
  /\ IF answer[c] = "reset" THEN ServerExit
     ELSE /\ got' = [got EXCEPT ![c] =
                       Append(@, IF answer[c] = "eof" THEN Stale ELSE answer[c])]
          /\ answer' = [answer EXCEPT ![c] = "none"]
          /\ stage' = [stage EXCEPT ![c] = "next"]
          /\ UNCHANGED <<portVars, table, thread, backlog, serves, pc, signals>>

WorkerReply(c) ==
  /\ stage[c] = "next" /\ Len(got[c]) = Len(table)
  /\ stage' = [stage EXCEPT ![c] = "done"]
  /\ UNCHANGED <<portVars, table, got, servantVars, pc, signals>>

ServerMain ==
  ServerStart \/ ServerTest \/ \E x \in Conns : ServerAccept(x)

Worker(x) ==
  /\ Reachable
  /\ \/ WorkerRead(x) \/ WorkersLeave(x)
     \/ x \in Clients /\ (WorkerCall(x) \/ WorkerTest(x) \/ WorkerAdd(x)
                          \/ WorkerReply(x))

-----------------------------------------------------------------------------
\* Signals.

\* A user sends SIGINT to one process (the bound of the model: once).
Interrupt(p) ==
  /\ p \in Victims /\ Alive(p)
  /\ \A q \in Processes : signal[q] = "none"
  /\ signal' = [signal EXCEPT ![p] = "pending"]
  /\ UNCHANGED <<portVars, callVars, servantVars, pc, told>>

\* The handler of a servant sets the flag.  Any thread of the process may run
\* it: the one in a blocking call, which then fails with EINTR, or another.
CatchServant(s) ==
  /\ Alive(s) /\ signal[s] = "pending"
  /\ signal' = [signal EXCEPT ![s] = "caught"]
  /\ UNCHANGED told
  /\ \/ UNCHANGED <<portVars, callVars, servantVars, pc>>
     \/ /\ pc[s] = "wait" /\ value[sp[s]] = 0    \* sem_wait is not checked
        /\ Jump(s, "read")
        /\ broken' = TRUE
        /\ UNCHANGED <<portFile, named, value, sp, port, callVars, servantVars>>
     \/ /\ thread[s] = "accept" /\ backlog[s] = <<>>   \* exit(EXIT_FAILURE)
        /\ Jump(s, "gone")
        /\ Step(s, "none")
        /\ UNCHANGED <<portVars, callVars, backlog, serves, answer>>

\* The call in which the thread of the server's handler was blocked fails with
\* EINTR: accept(), the read() of a request or the read() of an answer.  Each
\* ends the server; the wait for the queue does not.
HandlerReturns ==
  /\ told' = 0
  /\ \/ UNCHANGED pc
     \/ /\ \/ pc[Server] = "accept"
           \/ \E x \in Conns : stage[x] = "queued"
           \/ \E c \in Clients : stage[c] = "await" /\ answer[c] = "none"
        /\ Jump(Server, "gone")

\* The handler of the server sets the flag, ...
CatchServer ==
  /\ Alive(Server) /\ signal[Server] = "pending"
  /\ signal' = [signal EXCEPT ![Server] = "caught"]
  /\ IF table = <<>> THEN HandlerReturns ELSE told' = 1 /\ UNCHANGED pc
  /\ UNCHANGED <<portVars, callVars, servantVars>>

\* ... and passes the signal on to one servant of the table after the other,
\* unless another thread, which sees the flag, ends the process meanwhile.
PassOn ==
  /\ Alive(Server) /\ told # 0
  /\ signal' = [signal EXCEPT ![table[told]] = IF @ = "none" THEN "pending" ELSE @]
  /\ IF told = Len(table) THEN HandlerReturns ELSE told' = told + 1 /\ UNCHANGED pc
  /\ UNCHANGED <<portVars, callVars, servantVars>>

ServantProcess(s) == ServantMain(s) \/ ServantThread(s) \/ CatchServant(s)
ServerProcess ==
  \/ ServerMain \/ CatchServer \/ PassOn
  \/ \E x \in Conns : Worker(x)

Next ==
  \/ \E s \in Servants : ServantProcess(s)
  \/ ServerProcess
  \/ \E c \in Clients : ClientConnect(c)
  \/ \E p \in Processes : Interrupt(p)

\* A process that can take a step takes one.  No thread of a process runs for
\* ever here, so this is fair to its threads and its signals too.
Fairness == /\ \A s \in Servants : WF_vars(ServantProcess(s))
            /\ WF_vars(ServerProcess)

Spec == Init /\ [][Next]_vars /\ Fairness

-----------------------------------------------------------------------------
\* Properties.

\* Two servants that have drawn a port drew different ones, as long as there
\* was one semaphore only and nobody passed it on EINTR.  (A servant that
\* exits unlinks the name, and the next one creates a second semaphore.)
DistinctPorts ==
  Len(value) <= 1 /\ ~broken =>
    \A s, t \in Servants : s # t /\ port[s] # 0 => port[s] # port[t]

\* A total adds up, slot by slot, the counts of the servants in the table;
\* a left-over value or the count of another can only stand for a servant that
\* was interrupted or that shares its port.
TotalOfTable ==
  \A c \in Clients : \A k \in DOMAIN got[c] :
    got[c][k] # table[k] =>
      \/ Caught(table[k])
      \/ \E t \in Servants \ {table[k]} : port[t] = port[table[k]]

\* A servant that has caught SIGINT ends, unless its thread sits in accept():
\* then it takes one more call to end it.
SigintEndsServant ==
  \A s \in Servants :
    Caught(s) /\ (thread[s] = "accept" => backlog[s] # <<>>) ~> (~Alive(s))

\* The server that has caught SIGINT ends at the next connection.
SigintEndsServer ==
  (Caught(Server) /\ \E x \in Conns : stage[x] = "connected") ~> ~Alive(Server)

\* Every call of a worker to a servant returns, whoever is interrupted.
CallReturns ==
  \A c \in Clients :
    stage[c] = "sent" ~> (stage[c] \notin {"sent", "await"} \/ ~Alive(Server))
=============================================================================
