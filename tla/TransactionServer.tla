------------------------- MODULE TransactionServer -------------------------
(***************************************************************************)
(* The city-transaction system of Final/source_code: the workers of the    *)
(* server, the servants that register with the server and answer its       *)
(* calls, and the client threads.  Connections reach the workers through   *)
(* the abstract queue ConnectionHandoff, which WorkQueue implements.       *)
(*                                                                         *)
(* A servant stands for its port, its pid and its string of cities.  An    *)
(* answer is the number of times each servant's count went into it, which  *)
(* is what tells a right total from a wrong one.                           *)
(***************************************************************************)
EXTENDS ConnectionHandoff, FiniteSets

CONSTANTS Clients,     \* client threads, one request each
          Servants,    \* servant processes
          Cities,
          wants,       \* the city each client asks for; Empty asks for all
          holds,       \* the cities each servant serves
          Empty,       \* the city name "empty"
          Eof          \* a client's read() returned 0: it reports its initial 1

NoPort == 0   \* the port of a slot that nobody has filled in

ASSUME ServerAssumption ==
  /\ Conns = Clients \cup Servants
  /\ Clients \cap Servants = {}
  /\ Empty \notin Cities
  /\ wants \in [Clients -> Cities \cup {Empty}]
  /\ holds \in [Servants -> SUBSET Cities]
  /\ \A s, t \in Servants : s # t => holds[s] \cap holds[t] = {}
  /\ None \notin Conns /\ IsFiniteSet(Servants)
  /\ NoPort \notin Servants \cup {None}
  /\ Eof \notin [Servants -> Nat] \cup {None}

VARIABLES
  listening,        \* servants whose socket listens
  calls,            \* per servant: workers it has not answered, in order
  answers,          \* workers with a servant's answer in their socket
  servantInfoList,  \* the server's table of servants
  servantCount,
  step,             \* where a worker is inside the loop body
  i,                \* each worker's loop index
  found,            \* CurrServantPort
  total,            \* totalTran, or data
  loaded,           \* servantCount as ++servantCount has read it
  reply,            \* what each client's read() returned
  exited,           \* the server process has called exit()
  oneAtATime,       \* the servants are started one after the other
  registered,       \* history: servants whose registration was processed
  seen              \* history: registered when the worker read its request

bodyVars == <<step, i, found, total, loaded, seen>>
tableVars == <<servantInfoList, servantCount, registered>>
peerVars == <<listening, calls, answers, reply>>
serverVars == <<bodyVars, tableVars, peerVars, exited, oneAtATime>>
allVars == <<vars, serverVars>>

Slots == 0 .. Cardinality(Servants) - 1
Nothing == [s \in Servants |-> 0]
FreeSlot == [port |-> NoPort, cities |-> None]
Steps == {"read", "total", "find", "call", "await", "reply",
          "port", "cities", "load", "store", "done"}

TSInit ==
  /\ Init
  /\ listening = {} /\ answers = {}
  /\ calls = [s \in Servants |-> <<>>]
  /\ servantInfoList = [k \in Slots |-> FreeSlot]
  /\ servantCount = 0
  /\ step = [w \in Workers |-> "read"]
  /\ i = [w \in Workers |-> 0]
  /\ found = [w \in Workers |-> None]
  /\ total = [w \in Workers |-> Nothing]
  /\ loaded = [w \in Workers |-> 0]
  /\ reply = [c \in Clients |-> None]
  /\ exited = FALSE
  /\ oneAtATime \in BOOLEAN
  /\ registered = {}
  /\ seen = [w \in Workers |-> {}]

Goto(w, label) == step' = [step EXCEPT ![w] = label]
At(w, label) == serving[w] # None /\ step[w] = label

Elems(s) == {s[k] : k \in 1 .. Len(s)}

-----------------------------------------------------------------------------
\* Faulty variants of the worker's steps, none of them the code.

ScanStep(w, more, port) ==   \* the loop over all servants, parameterised
  /\ At(w, "total")
  /\ IF more THEN found' = [found EXCEPT ![w] = port] /\ Goto(w, "call")
             ELSE UNCHANGED found /\ Goto(w, "reply")
  /\ UNCHANGED <<vars, i, total, loaded, seen, tableVars, peerVars, exited>>

FaultyPreviousServant(w) ==   \* asks slot i - 1 again
  ScanStep(w, i[w] < servantCount,
           servantInfoList[IF i[w] > 0 THEN i[w] - 1 ELSE 0].port)

FaultyScanEnd(w) ==   \* leaves out the last servant
  ScanStep(w, i[w] + 1 < servantCount, servantInfoList[i[w]].port)

FaultyScanBeyond(w) ==   \* "<=" for "<"
  ScanStep(w, i[w] <= servantCount, servantInfoList[i[w]].port)

FaultyFindAny(w) ==   \* the city is not compared
  /\ At(w, "find")
  /\ IF i[w] < servantCount
       THEN /\ i' = [i EXCEPT ![w] = @ + 1]
            /\ found' = [found EXCEPT ![w] = servantInfoList[i[w]].port]
            /\ UNCHANGED step
       ELSE /\ Goto(w, IF found[w] = None THEN "done" ELSE "call")
            /\ UNCHANGED <<i, found>>
  /\ UNCHANGED <<vars, total, loaded, seen, tableVars, peerVars, exited>>

FaultyFindNone(w) ==   \* the result of the search is dropped
  /\ At(w, "find")
  /\ Goto(w, "done")
  /\ UNCHANGED <<vars, i, found, total, loaded, seen, tableVars, peerVars,
                 exited>>

FaultyStorePort(w) ==   \* the cities are never stored
  /\ At(w, "port")
  /\ servantInfoList' = [servantInfoList EXCEPT ![servantCount].port = serving[w]]
  /\ Goto(w, "load")
  /\ UNCHANGED <<vars, i, found, total, loaded, seen, servantCount, registered,
                 peerVars, exited>>

-----------------------------------------------------------------------------
\* The peers.

\* The peer connects and sends its request, and main accepts the connection.
PeerConnect(c) ==
  /\ c \in Servants /\ oneAtATime
       => Elems(accepted) \cap Servants \subseteq registered
  /\ Accept(c)
  /\ UNCHANGED serverVars

\* A servant starts to listen only after it has registered.
Listen(s) ==
  /\ s \in (Elems(accepted) \cap Servants) \ listening
  /\ listening' = listening \cup {s}
  /\ UNCHANGED <<vars, bodyVars, tableVars, calls, answers, reply, exited,
                 oneAtATime>>

\* The servant accepts the oldest call and writes its count.
Answer(s) ==
  /\ calls[s] # <<>>
  /\ calls' = [calls EXCEPT ![s] = Tail(@)]
  /\ answers' = answers \cup {Head(calls[s])}
  /\ UNCHANGED <<vars, bodyVars, tableVars, listening, reply, exited,
                 oneAtATime>>

\* The server is gone.  What the client has read so far stays in "data",
\* whose initial value it reports; the connection may also be reset, and
\* then the client exits and reports nothing.
ReadEof(c) ==
  /\ exited
  /\ c \in Elems(accepted) /\ reply[c] = None
  /\ reply' = [reply EXCEPT ![c] = Eof]
  /\ UNCHANGED <<vars, bodyVars, tableVars, listening, calls, answers, exited,
                 oneAtATime>>

-----------------------------------------------------------------------------
\* The worker's loop body.

\* read(fd_server, &responseStruct) and the dispatch on its flag.
ReadRequest(w) ==
  /\ At(w, "read")
  /\ Goto(w, IF serving[w] \in Servants THEN "port"
             ELSE IF wants[serving[w]] = Empty THEN "total" ELSE "find")
  /\ seen' = [seen EXCEPT ![w] = registered]
  /\ UNCHANGED <<vars, i, found, total, loaded, tableVars, peerVars, exited>>

\* for (i = 0; i < servantCount; ++i): the next servant to ask, or the end.
NextServant(w) ==
  /\ At(w, "total")
  /\ IF i[w] < servantCount
       THEN /\ found' = [found EXCEPT ![w] = servantInfoList[i[w]].port]
            /\ Goto(w, "call")
       ELSE /\ Goto(w, "reply")
            /\ UNCHANGED found
  /\ UNCHANGED <<vars, i, total, loaded, seen, tableVars, peerVars, exited>>

\* The search through the whole list: the last match wins.  Without a match
\* data is -1, nothing is written and the descriptor stays open.
FindCity(w) ==
  /\ At(w, "find")
  /\ IF i[w] < servantCount
       THEN LET slot == servantInfoList[i[w]] IN
            /\ i' = [i EXCEPT ![w] = @ + 1]
            /\ found' = IF /\ slot.cities # None
                           /\ wants[serving[w]] \in holds[slot.cities]
                          THEN [found EXCEPT ![w] = slot.port]
                          ELSE found
            /\ UNCHANGED step
       ELSE /\ Goto(w, IF found[w] = None THEN "done" ELSE "call")
            /\ UNCHANGED <<i, found>>
  /\ UNCHANGED <<vars, total, loaded, seen, tableVars, peerVars, exited>>

\* openSocket() and send(): a refused connection ends the server.  So does a
\* call to the port 0 of a slot whose cities were stored before its port.
Call(w) ==
  /\ At(w, "call")
  /\ IF found[w] \in listening
       THEN /\ calls' = [calls EXCEPT ![found[w]] = Append(@, w)]
            /\ Goto(w, "await")
            /\ UNCHANGED exited
       ELSE /\ exited' = TRUE
            /\ UNCHANGED <<calls, step>>
  /\ UNCHANGED <<vars, i, found, total, loaded, seen, tableVars,
                 listening, answers, reply>>

\* read() of the answer; in the loop over all servants it is added up.
TakeAnswer(w) ==
  /\ At(w, "await")
  /\ w \in answers
  /\ answers' = answers \ {w}
  /\ total' = [total EXCEPT ![w][found[w]] = @ + 1]
  /\ IF wants[serving[w]] = Empty
       THEN i' = [i EXCEPT ![w] = @ + 1] /\ Goto(w, "total")
       ELSE UNCHANGED i /\ Goto(w, "reply")
  /\ UNCHANGED <<vars, found, loaded, seen, tableVars, listening, calls,
                 reply, exited>>

Reply(w) ==
  /\ At(w, "reply")
  /\ reply' = [reply EXCEPT ![serving[w]] = total[w]]
  /\ Goto(w, "done")
  /\ UNCHANGED <<vars, i, found, total, loaded, seen, tableVars,
                 listening, calls, answers, exited>>

\* Registration: port and pid, then the cities, go into slot servantCount;
\* then ++servantCount, which reads and writes.  No mutex is held.
StoreField(w, label, field, next) ==
  /\ At(w, label)
  /\ servantInfoList' =
       [servantInfoList EXCEPT ![servantCount][field] = serving[w]]
  /\ Goto(w, next)
  /\ UNCHANGED <<vars, i, found, total, loaded, seen, servantCount, registered,
                 peerVars, exited>>

StorePort(w) == StoreField(w, "port", "port", "cities")
StoreCities(w) == StoreField(w, "cities", "cities", "load")

LoadCount(w) ==
  /\ At(w, "load")
  /\ loaded' = [loaded EXCEPT ![w] = servantCount]
  /\ Goto(w, "store")
  /\ UNCHANGED <<vars, i, found, total, seen, tableVars, peerVars, exited>>

StoreCount(w) ==
  /\ At(w, "store")
  /\ servantCount' = loaded[w] + 1
  /\ registered' = registered \cup {serving[w]}
  /\ Goto(w, "done")
  /\ UNCHANGED <<vars, i, found, total, loaded, seen, servantInfoList,
                 peerVars, exited>>

Body(w) ==
  /\ \/ ReadRequest(w) \/ NextServant(w) \/ FindCity(w) \/ Call(w)
     \/ TakeAnswer(w) \/ Reply(w)
     \/ StorePort(w) \/ StoreCities(w) \/ LoadCount(w) \/ StoreCount(w)
  /\ UNCHANGED oneAtATime

\* The steps of the queue leave the loop body alone.
WorkerTake(w) == Take(w) /\ UNCHANGED serverVars
\* The end of the loop body: the locals of the block are gone.
WorkerFinish(w) ==
  /\ step[w] = "done"
  /\ Finish(w)
  /\ Goto(w, "read")
  /\ i' = [i EXCEPT ![w] = 0]
  /\ found' = [found EXCEPT ![w] = None]
  /\ total' = [total EXCEPT ![w] = Nothing]
  /\ loaded' = [loaded EXCEPT ![w] = 0]
  /\ seen' = [seen EXCEPT ![w] = {}]
  /\ UNCHANGED <<tableVars, peerVars, exited, oneAtATime>>

WorkerStep(w) == WorkerTake(w) \/ WorkerFinish(w) \/ Body(w)

TSNext ==
  \/ /\ ~exited
     /\ \/ \E w \in Workers : WorkerStep(w)
        \/ \E c \in Conns : PeerConnect(c)
        \/ \E s \in Servants : Listen(s) \/ Answer(s)
  \/ \E c \in Clients : ReadEof(c)

\* Every thread of the server and every servant runs; a servant
\* that has registered goes on to listen.
TSFairness ==
  /\ \A w \in Workers : WF_allVars(~exited /\ WorkerStep(w))
  /\ \A s \in Servants : /\ WF_allVars(~exited /\ Listen(s))
                         /\ WF_allVars(~exited /\ Answer(s))

TSSpec == TSInit /\ [][TSNext]_allVars /\ TSFairness

-----------------------------------------------------------------------------
\* Properties that hold in spite of the unsynchronised registration.

TableTypeOK ==
  /\ servantInfoList \in
       [Slots -> [port : Servants \cup {NoPort}, cities : Servants \cup {None}]]
  /\ servantCount \in 0 .. Cardinality(Servants)
  /\ registered \subseteq Servants

BodyTypeOK ==
  /\ step \in [Workers -> Steps]
  /\ i \in [Workers -> 0 .. Cardinality(Servants)]
  /\ found \in [Workers -> Servants \cup {None, NoPort}]
  /\ total \in [Workers -> [Servants -> Nat]]
  /\ loaded \in [Workers -> 0 .. Cardinality(Servants)]
  /\ seen \in [Workers -> SUBSET Servants]

PeerTypeOK ==
  /\ listening \subseteq Servants
  /\ calls \in [Servants -> Seq(Workers)] /\ answers \subseteq Workers
  /\ reply \in [Clients -> {None, Eof} \cup [Servants -> Nat]]
  /\ exited \in BOOLEAN /\ oneAtATime \in BOOLEAN

TSTypeOK == TableTypeOK /\ BodyTypeOK /\ PeerTypeOK

\* No client is told a total in which a servant counts twice.
NoServantTwice ==
  \A c \in Clients : reply[c] \notin {None, Eof} =>
    \A s \in Servants : reply[c][s] <= 1

-----------------------------------------------------------------------------
\* Properties of registrations that do not overlap.

\* The table is exactly the processed registrations, each in one piece: none
\* is lost, and no counted slot is empty (an empty one holds pid 0, and the
\* SIGINT handler of the server would signal its own process group).
RegistrationKept ==
  oneAtATime =>
    {servantInfoList[k] : k \in {n \in Slots : n < servantCount}}
      = {[port |-> s, cities |-> s] : s \in registered}

\* The answer to a request for one city is the count of the servant that
\* holds it, and of nobody else.
RightServant ==
  oneAtATime =>
    \A c \in Clients : wants[c] # Empty /\ reply[c] \notin {None, Eof} =>
      \E s \in Servants : /\ wants[c] \in holds[s]
                          /\ reply[c] = [Nothing EXCEPT ![s] = 1]

\* The total over all cities covers every servant whose registration was
\* processed before the server read the request.
TotalCovers ==
  oneAtATime =>
    \A w \in Workers : At(w, "reply") /\ wants[serving[w]] = Empty =>
      \A s \in seen[w] : total[w][s] = 1

\* The server exits only when the servant that a worker calls has registered
\* but does not listen yet; never over a slot that is free or half filled in.
ExitOnlyOnUnready ==
  [][oneAtATime /\ exited' /\ ~exited =>
       \E w \in Workers : /\ At(w, "call")
                          /\ found[w] \in registered \ listening]_allVars

Wanted(c) == {s \in registered : wants[c] \in holds[s]}

\* A client that asks for a city of a registered servant is answered, unless
\* the server exits.
KnownCityAnswered ==
  \A c \in Clients \ {d \in Clients : wants[d] = Empty} :
    (/\ oneAtATime /\ Wanted(c) # {}
     /\ \E w \in Workers : At(w, "read") /\ serving[w] = c)
      ~> (reply[c] # None \/ exited)

-----------------------------------------------------------------------------
\* What the client's code expects and does not get.

\* A client whose request the server has read gets an answer, be it -1 for
\* "no such city" (client.c 72), unless the server exits.
EveryRequestAnswered ==
  \A c \in Clients :
    c \in Elems(taken) ~> (reply[c] # None \/ exited)
=============================================================================
