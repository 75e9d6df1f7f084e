---------------------------- MODULE MatrixService ----------------------------
(***************************************************************************)
(* The matrix service of Midterm/source_code.  Clients send a matrix       *)
(* through one FIFO to a worker forked by server Y, which answers each     *)
(* through a FIFO of the client; server Z and its worker wait at a second  *)
(* FIFO that nobody writes to.  A request is longer than what a pipe holds *)
(* (300008 bytes, 65536 in Linux): it travels in parts, a read may return  *)
(* some of them only, and the parts of two clients may alternate.          *)
(* A process at the label of an open() has called it: it counts as an end  *)
(* of the FIFO, and waits for the other end.                               *)
(***************************************************************************)
EXTENDS Integers, Sequences, FiniteSets

CONSTANTS Clients,        \* client processes, one request each
          Parts,          \* parts of a request
          Capacity,       \* parts the pipe behind a FIFO holds
          matrix,         \* what each client's file holds
          Y, W, Z, V,     \* server Y, its worker, server Z, its worker
          Interruptible,  \* processes that may be sent SIGINT
          None

Servers == {Y, W, Z, V}
Procs == Clients \cup Servers

ASSUME MatrixAssumption ==
  /\ Clients \cap Servers = {} /\ Cardinality(Servers) = 4
  /\ Parts \in Nat /\ Capacity \in Nat /\ 1 <= Capacity /\ Capacity < Parts
  /\ \A c \in Clients : matrix[c] \in [1 .. 1 -> Int] \cup [1 .. 4 -> Int]
  /\ Interruptible \subseteq Procs
  /\ None \notin [isInvertable : BOOLEAN,
                 from : Seq([of : Clients, part : 1 .. Parts])]

VARIABLES
  pc,
  sigintcaught,   \* processes whose handler has run
  serverFifo,     \* the FIFO of requests has been made
  pipe,           \* the parts in it, each with its client and number
  sent,           \* parts each client has written
  clientFifo,     \* clients whose FIFO is in the file system
  req,            \* the parts the worker has read of the current request
  response,       \* what each client's FIFO has carried: a verdict and, as
                  \* history, what it was computed from
  told,           \* what each client has printed
  clean           \* history: no request was cut or mixed with another

files == <<serverFifo, clientFifo>>
stream == <<pipe, sent, req, clean>>
results == <<response, told>>
vars == <<pc, sigintcaught, files, stream, results>>

Goto(p, label) == pc' = [pc EXCEPT ![p] = label]
At(p, labels) == pc[p] \in labels

Part(c, k) == [of |-> c, part |-> k]
Whole(c) == [k \in 1 .. Parts |-> Part(c, k)]

-----------------------------------------------------------------------------
\* What the worker computes, for matrices of one or two rows, by rows.  An
\* element of the cofactor is the first element of its row plus its column.
\* (From three rows on it reads parts of temp that were never written.)

getCofactor(mat, q) == mat[3] + (1 - q)

determinantOfMatrix(mat) ==
  IF DOMAIN mat = 1 .. 1
    THEN mat[1]
    ELSE mat[1] * getCofactor(mat, 0) - (mat[1] + 1) * getCofactor(mat, 1)

isInvertable(mat) == determinantOfMatrix(mat) # 0

\* The verdict on what the buffer holds; on a mixture it can be anything.
Verdicts == IF \E c \in Clients : req = Whole(c)
              THEN {isInvertable(matrix[req[1].of])}
              ELSE BOOLEAN

-----------------------------------------------------------------------------
\* The ends of the FIFOs, and the calls that wait; SIGINT makes them fail.

ServerReaders == \/ At(Y, {"openZ", "flag", "control"})
                 \/ At(W, {"read", "open", "respond", "flag"})
Header(c) == req # <<>> /\ req[1] = Part(c, 1)
Waiting(p) == \E c \in Clients : At(c, {p})

Blocked(p) ==
  \/ p = Y /\ At(Y, {"openServer"}) /\ ~Waiting("openServer")
  \/ p = Y /\ At(Y, {"openZ"}) /\ ~At(Z, {"openZ"})
  \/ p = Z /\ At(Z, {"openZ"}) /\ ~At(Y, {"openZ"})
  \/ p = W /\ At(W, {"open"})
           /\ \E c \in clientFifo : Header(c) /\ ~At(c, {"openOwn"})
  \/ /\ p \in Clients
     /\ \/ At(p, {"openServer"}) /\ ~ServerReaders /\ ~At(Y, {"openServer"})
        \/ At(p, {"write"}) /\ Len(pipe) = Capacity
        \/ At(p, {"openOwn"}) /\ ~(At(W, {"open"}) /\ Header(p))
        \/ At(p, {"readResponse"}) /\ response[p] = None

Ended(p) == At(p, {"none", "done", "failed", "killed"})

Init ==
  /\ pc = [p \in Procs |-> IF p \in {W, Z, V} THEN "none" ELSE "start"]
  /\ sigintcaught = {}
  /\ serverFifo \in BOOLEAN          \* left by an earlier run, or not
  /\ pipe = <<>>
  /\ sent = [c \in Clients |-> 0]
  /\ clientFifo = {}
  /\ req = <<>>
  /\ response = [c \in Clients |-> None]
  /\ told = [c \in Clients |-> None]
  /\ clean = TRUE

\* The flag is set; a call that waits returns with EINTR.  Y, Z and the
\* clients then exit, the worker goes on with its loop.  A client leaves what
\* it has written in the pipe, and its FIFO in the file system: _exit() does
\* not run what atexit() has registered.
CatchSigint(p) ==
  /\ p \in Interruptible \ sigintcaught /\ ~Ended(p)
  /\ sigintcaught' = sigintcaught \cup {p}
  /\ \/ UNCHANGED <<pc, req, clean>>
     \/ /\ Blocked(p)
        /\ Goto(p, IF p = W THEN "read" ELSE "failed")
        /\ req' = IF p = W THEN <<>> ELSE req
        /\ clean' = (clean /\ ~(At(p, {"write"}) /\ sent[p] > 0))
  /\ UNCHANGED <<files, pipe, sent, results>>

-----------------------------------------------------------------------------
\* Start-up of the servers.

\* The flag is tested, a FIFO is made, Z is forked; its execv may fail.  Y
\* itself leaves when a FIFO cannot be made, and, with Z on its way, when the
\* log cannot be written, which it never creates.
YStart ==
  /\ At(Y, {"start"})
  /\ \/ Goto(Y, "failed")
     \/ /\ Y \notin sigintcaught
        /\ \E y \in {"mkfifo", "failed"}, z \in {"openZ", "failed"} :
             pc' = [pc EXCEPT ![Y] = y, ![Z] = z]
  /\ UNCHANGED <<sigintcaught, files, stream, results>>

YMakeFifo ==
  /\ At(Y, {"mkfifo"})
  /\ serverFifo' = TRUE
  /\ Goto(Y, "openServer")
  /\ UNCHANGED <<sigintcaught, clientFifo, stream, results>>

\* open(serverFifoPath, O_RDONLY): it lets in every client that waits.
YOpenServer ==
  /\ At(Y, {"openServer"}) /\ Waiting("openServer")
  /\ pc' = [p \in Procs |-> CASE p = Y -> "openZ"
                              [] p \in Clients /\ pc[p] = "openServer" -> "write"
                              [] OTHER -> pc[p]]
  /\ UNCHANGED <<sigintcaught, files, stream, results>>

\* Y opens the second FIFO for writing, Z for reading.
OpenYToZ ==
  /\ At(Y, {"openZ"}) /\ At(Z, {"openZ"})
  /\ pc' = [pc EXCEPT ![Y] = "flag", ![Z] = "fork"]
  /\ UNCHANGED <<sigintcaught, files, stream, results>>

\* Z leaves its worker behind, which waits for a request from Y.
ZFork ==
  /\ At(Z, {"fork"})
  /\ pc' = [pc EXCEPT ![Z] = "done", ![V] = "read"]
  /\ UNCHANGED <<sigintcaught, files, stream, results>>

YFork ==
  /\ At(Y, {"flag"})
  /\ IF Y \in sigintcaught
       THEN Goto(Y, "failed")
       ELSE pc' = [pc EXCEPT ![Y] = "control", ![W] = "read"]
  /\ UNCHANGED <<sigintcaught, files, stream, results>>

\* Y writes its totals, calls kill(SIGINT, workerPID), which means another
\* process and signal, and ends.
YEnd ==
  /\ At(Y, {"control"}) /\ Y \in sigintcaught
  /\ Goto(Y, "done")
  /\ UNCHANGED <<sigintcaught, files, stream, results>>

-----------------------------------------------------------------------------
\* Faulty variants, none of them the code.

FaultyWorkerRead ==   \* the result of read() is not compared with the size
  /\ At(W, {"read"}) /\ pipe # <<>>
  /\ req' = Append(req, Head(pipe))
  /\ pipe' = Tail(pipe)
  /\ Goto(W, IF Len(req) + 1 = Parts \/ Len(pipe) = 1 THEN "open" ELSE "read")
  /\ UNCHANGED <<sigintcaught, files, sent, clean, results>>

FaultyWorkerRespond ==   \* the buffer keeps its last part
  /\ At(W, {"respond"})
  /\ \E v \in Verdicts :
       /\ response' = [response EXCEPT
                         ![req[1].of] = [isInvertable |-> v, from |-> req]]
       /\ Goto(W, "flag")
  /\ req' = <<req[Len(req)]>>
  /\ UNCHANGED <<sigintcaught, files, pipe, sent, clean, told>>

FaultyWorkerFlag ==   \* "return" after the first request
  /\ At(W, {"flag"})
  /\ Goto(W, "done")
  /\ UNCHANGED <<sigintcaught, files, stream, results>>

-----------------------------------------------------------------------------
\* The clients.

ClientStart(c) ==
  /\ At(c, {"start"})
  /\ IF c \in sigintcaught
       THEN Goto(c, "failed") /\ UNCHANGED clientFifo
       ELSE Goto(c, "submit") /\ clientFifo' = clientFifo \cup {c}
  /\ UNCHANGED <<sigintcaught, serverFifo, stream, results>>

ClientSubmit(c) ==
  /\ At(c, {"submit"})
  /\ Goto(c, IF serverFifo THEN "openServer" ELSE "failed")
  /\ UNCHANGED <<sigintcaught, files, stream, results>>

ClientOpenServer(c) ==
  /\ At(c, {"openServer"}) /\ ServerReaders
  /\ Goto(c, "write")
  /\ UNCHANGED <<sigintcaught, files, stream, results>>

\* A part of the request fits into the pipe.  Without a reader SIGPIPE ends
\* the client.
ClientWrite(c) ==
  /\ At(c, {"write"}) /\ Len(pipe) < Capacity /\ ServerReaders
  /\ pipe' = Append(pipe, Part(c, sent[c] + 1))
  /\ sent' = [sent EXCEPT ![c] = @ + 1]
  /\ Goto(c, IF sent[c] + 1 = Parts THEN "openOwn" ELSE "write")
  /\ clean' = (clean /\ \A d \in Clients \ {c} : sent[d] \in {0, Parts})
  /\ UNCHANGED <<sigintcaught, files, req, results>>

ClientPipeBroken(c) ==
  /\ At(c, {"write"}) /\ ~ServerReaders
  /\ Goto(c, "killed")
  /\ clean' = (clean /\ sent[c] = 0)
  /\ UNCHANGED <<sigintcaught, files, pipe, sent, req, results>>

ClientRead(c) ==
  /\ At(c, {"readResponse"}) /\ response[c] # None
  /\ Goto(c, "print")
  /\ UNCHANGED <<sigintcaught, files, stream, results>>

\* Only this end of a client removes its FIFO.
ClientPrint(c) ==
  /\ At(c, {"print"})
  /\ IF c \in sigintcaught
       THEN Goto(c, "failed") /\ UNCHANGED <<told, clientFifo>>
       ELSE /\ told' = [told EXCEPT ![c] = response[c]]
            /\ clientFifo' = clientFifo \ {c}
            /\ Goto(c, "done")
  /\ UNCHANGED <<sigintcaught, serverFifo, stream, response>>

Client(c) == \/ ClientStart(c) \/ ClientSubmit(c) \/ ClientOpenServer(c)
             \/ ClientWrite(c) \/ ClientPipeBroken(c)
             \/ ClientRead(c) \/ ClientPrint(c)

-----------------------------------------------------------------------------
\* The worker.  It holds the writing end of its own FIFO, so that its read
\* never returns 0.

WorkerRead ==
  /\ At(W, {"read"}) /\ pipe # <<>>
  /\ req' = Append(req, Head(pipe))
  /\ pipe' = Tail(pipe)
  /\ Goto(W, IF Len(req) + 1 = Parts THEN "open" ELSE "read")
  /\ UNCHANGED <<sigintcaught, files, sent, clean, results>>

\* read() returns what there was; "continue" forgets it.
WorkerShort ==
  /\ At(W, {"read"}) /\ req # <<>> /\ pipe = <<>>
  /\ req' = <<>>
  /\ clean' = FALSE
  /\ UNCHANGED <<pc, sigintcaught, files, pipe, sent, results>>

\* No FIFO has the name that the buffer's pid makes.
WorkerNoFifo ==
  /\ At(W, {"open"}) /\ ~\E c \in clientFifo : Header(c)
  /\ Goto(W, "read")
  /\ req' = <<>>
  /\ UNCHANGED <<sigintcaught, files, pipe, sent, clean, results>>

\* The worker opens the client's FIFO for writing, the client for reading.
OpenResponse(c) ==
  /\ At(W, {"open"}) /\ Header(c) /\ c \in clientFifo
  /\ At(c, {"openOwn"})
  /\ pc' = [pc EXCEPT ![W] = "respond", ![c] = "readResponse"]
  /\ UNCHANGED <<sigintcaught, files, stream, results>>

\* If the client has gone meanwhile, SIGPIPE ends the worker.
WorkerRespond ==
  /\ At(W, {"respond"})
  /\ LET c == req[1].of IN
       IF At(c, {"readResponse"})
         THEN \E v \in Verdicts :
                /\ response' = [response EXCEPT
                                  ![c] = [isInvertable |-> v, from |-> req]]
                /\ Goto(W, "flag")
         ELSE UNCHANGED response /\ Goto(W, "killed")
  /\ req' = <<>>
  /\ UNCHANGED <<sigintcaught, files, pipe, sent, clean, told>>

\* The only test of the flag in the loop.
WorkerFlag ==
  /\ At(W, {"flag"})
  /\ Goto(W, IF W \in sigintcaught THEN "done" ELSE "read")
  /\ UNCHANGED <<sigintcaught, files, stream, results>>

Worker == WorkerRead \/ WorkerShort \/ WorkerNoFifo \/ WorkerRespond \/ WorkerFlag

StartUp == YStart \/ YMakeFifo \/ YOpenServer \/ OpenYToZ \/ ZFork \/ YFork

Next == \/ StartUp \/ YEnd \/ Worker
        \/ \E c \in Clients : Client(c) \/ OpenResponse(c)
        \/ \E p \in Procs : CatchSigint(p)

\* Every process is scheduled.  A client that waits for room in the pipe
\* competes with the others each time the worker has made some.
Fairness ==
  /\ WF_vars(StartUp) /\ WF_vars(YEnd) /\ WF_vars(Worker)
  /\ \A c \in Clients : /\ WF_vars(Client(c)) /\ SF_vars(ClientWrite(c))
                        /\ WF_vars(OpenResponse(c))

Spec == Init /\ [][Next]_vars /\ Fairness

-----------------------------------------------------------------------------
\* As long as no read came back short, no request was cut off and no two were
\* written at the same time, the stream that the worker has before it is a
\* row of requests, whole up to the last one, which a client is still writing.
Stream == req \o pipe
StreamAligned ==
  clean => \A k \in 1 .. Len(Stream) :
    LET e == Stream[k] IN
    /\ \/ e.part = 1
       \/ k > 1 /\ Stream[k - 1] = Part(e.of, e.part - 1)
    /\ \/ e.part = Parts
       \/ k < Len(Stream) /\ Stream[k + 1] = Part(e.of, e.part + 1)
       \/ k = Len(Stream) /\ sent[e.of] = e.part

\* Then every client that prints a verdict prints one that was computed from its
\* own request, all of it.  With one row the matrix is called invertible when
\* it is; with more the cofactors of lines 54-68 are not those of the matrix.
OfOwnRequest(c, r) ==
  r # None =>
    /\ r.from = Whole(c)
    /\ DOMAIN matrix[c] = 1 .. 1 => (r.isInvertable <=> matrix[c][1] # 0)
OwnVerdict == clean => \A c \in Clients : OfOwnRequest(c, told[c])

\* And when no process is interrupted and Y and Z start, every client that has
\* opened the FIFO of the server prints a verdict.
AllAnswered ==
  [](clean /\ sigintcaught = {} /\ ~At(Y, {"failed"}) /\ ~At(Z, {"failed"}))
    => \A c \in Clients : At(c, {"openServer"}) ~> told[c] # None
=============================================================================
