------------------------- MODULE SupplierConsumers -------------------------
(***************************************************************************)
(* hw4/threads.c: a detached supplier thread reads the input file byte by  *)
(* byte and posts one of two System V semaphores for each '1' and '2'; C   *)
(* consumers take one of each in a single semop, N times.  main creates    *)
(* the threads, joins the consumers, and then closes the file and removes  *)
(* the semaphores, while the supplier may still be running.  SIGINT may    *)
(* arrive once, at any time.                                               *)
(***************************************************************************)
EXTENDS Integers, Sequences, FiniteSets

CONSTANTS C, N,      \* the options -C and -N
          Inputs,    \* the input files to consider
          SemMax     \* SEMVMX, the largest value of a semaphore

Kinds == {"1", "2"}
Consumers == 0 .. C - 1

\* The code refuses C < 4 only together with N < 1.
ASSUME SupplierAssumption ==
  /\ C \in Nat \ {0} /\ N \in Nat
  /\ Inputs \subseteq Seq(Kinds \cup {"other"})
  /\ SemMax \in Nat

VARIABLES
  input, pos,     \* the file, and how many of its bytes are dealt with
  sem,            \* the two semaphores
  removed,        \* the set has been removed, IPC_RMID
  closed,         \* inpfd has been closed
  mainPc, k,      \* where main is, and its loop index
  spc,            \* where the supplier is
  cpc, iter,      \* where each consumer is, and its loop index
  sigint,         \* sigintcaught
  pending,        \* consumers the handler has not yet signalled
  exited          \* how the process has ended, if it has

threads == <<input, pos, sem, spc, cpc, iter>>
mainVars == <<removed, closed, mainPc, k>>
signals == <<sigint, pending>>
vars == <<threads, mainVars, signals, exited>>

MainLabels == {"init", "args", "set", "supplier", "created", "create", "ready",
               "join", "close", "destroy", "done", "abort", "exit"}

Init ==
  /\ input \in Inputs /\ pos = 0
  /\ sem = [n \in Kinds |-> 0]
  /\ removed = FALSE /\ closed = FALSE
  /\ mainPc = "init" /\ k = 0
  /\ spc = "none"
  /\ cpc = [c \in Consumers |-> "none"]
  /\ iter = [c \in Consumers |-> 0]
  /\ sigint = FALSE /\ pending = {}
  /\ exited = "no"

-----------------------------------------------------------------------------
\* Faulty variants, none of them the code.

FaultyRead ==   \* any other byte ends the supplier
  /\ spc = "read"
  /\ IF pos = Len(input) \/ input[pos + 1] \notin Kinds
       THEN spc' = "left" ELSE spc' = "deliver"
  /\ UNCHANGED <<input, pos, sem, cpc, iter, mainVars, signals, exited>>

TakeWith(c, ready, left) ==
  /\ cpc[c] = "take" /\ iter[c] < N /\ ready
  /\ sem' = left
  /\ iter' = [iter EXCEPT ![c] = @ + 1]
  /\ UNCHANGED <<input, pos, spc, cpc, mainVars, signals, exited>>

FaultyTake(c) ==      \* takes the '1' only
  TakeWith(c, \A n \in Kinds : sem[n] >= 1, [sem EXCEPT !["1"] = @ - 1])

FaultyJoinConsumer ==   \* main does not wait for the consumers
  /\ mainPc = "join" /\ mainPc' = "close"
  /\ UNCHANGED <<threads, removed, closed, k, signals, exited>>

-----------------------------------------------------------------------------
\* The supplier

\* The next byte.  The file descriptor may have been closed by main: read()
\* then fails, and the supplier leaves as at the end of the file.
Read ==
  /\ spc = "read"
  /\ IF closed \/ pos = Len(input)
       THEN spc' = "left" /\ UNCHANGED pos
       ELSE IF input[pos + 1] \in Kinds
       THEN spc' = "deliver" /\ UNCHANGED pos
       ELSE pos' = pos + 1 /\ UNCHANGED spc
  /\ UNCHANGED <<input, sem, cpc, iter, mainVars, signals, exited>>

\* semop +1.  It fails when the set is gone, or the semaphore at its limit.
Deliver ==
  /\ spc = "deliver"
  /\ IF removed \/ sem[input[pos + 1]] = SemMax
       THEN exited' = "failure" /\ UNCHANGED <<pos, sem, spc>>
       ELSE /\ sem' = [sem EXCEPT ![input[pos + 1]] = @ + 1]
            /\ pos' = pos + 1
            /\ spc' = "read"
            /\ UNCHANGED exited
  /\ UNCHANGED <<input, cpc, iter, mainVars, signals>>

Supplier == Read \/ Deliver

-----------------------------------------------------------------------------
\* The consumers

Available == \A n \in Kinds : sem[n] >= 1

\* semop -1, -1: both or none, and the consumer sleeps until both are there.
Consume(c) ==
  /\ cpc[c] = "take" /\ iter[c] < N
  /\ IF removed
       THEN exited' = "failure" /\ UNCHANGED <<sem, iter>>
       ELSE /\ Available
            /\ sem' = [n \in Kinds |-> sem[n] - 1]
            /\ iter' = [iter EXCEPT ![c] = @ + 1]
            /\ UNCHANGED exited
  /\ UNCHANGED <<input, pos, spc, cpc, mainVars, signals>>

Leave(c) ==
  /\ cpc[c] = "take" /\ iter[c] = N
  /\ cpc' = [cpc EXCEPT ![c] = "left"]
  /\ UNCHANGED <<input, pos, sem, spc, iter, mainVars, signals, exited>>

Consumer(c) == Consume(c) \/ Leave(c)

-----------------------------------------------------------------------------
\* main

Goto(label) == mainPc' = label

ReadArguments ==
  /\ mainPc = "args" /\ Goto("set")
  /\ UNCHANGED <<threads, removed, closed, k, signals, exited>>

\* The tests of the flag at lines 158, 211, 250 and 277; from the second on
\* the set exists and is removed first.
TestFlag ==
  /\ \/ /\ mainPc = "init"
        /\ Goto(IF sigint THEN "exit" ELSE "args")
     \/ /\ mainPc \in {"set", "created", "ready"}
        /\ Goto(IF sigint THEN "abort"
                ELSE CASE mainPc = "set" -> "supplier"
                       [] mainPc = "created" -> "create"
                       [] mainPc = "ready" -> "join")
  /\ UNCHANGED <<threads, removed, closed, k, signals, exited>>

CreateSupplier ==
  /\ mainPc = "supplier" /\ Goto("created")
  /\ spc' = "read"
  /\ UNCHANGED <<input, pos, sem, cpc, iter, removed, closed, k, signals,
                 exited>>

CreateConsumer ==
  /\ mainPc = "create"
  /\ IF k < C
       THEN /\ cpc' = [cpc EXCEPT ![k] = "take"] /\ k' = k + 1
            /\ UNCHANGED mainPc
       ELSE Goto("ready") /\ k' = 0 /\ UNCHANGED cpc
  /\ UNCHANGED <<input, pos, sem, spc, iter, removed, closed, signals, exited>>

JoinConsumer ==
  /\ mainPc = "join"
  /\ IF k < C
       THEN cpc[k] = "left" /\ k' = k + 1 /\ UNCHANGED mainPc
       ELSE Goto("close") /\ UNCHANGED k
  /\ UNCHANGED <<threads, removed, closed, signals, exited>>

CloseInput ==
  /\ mainPc = "close" /\ Goto("destroy")
  /\ closed' = TRUE
  /\ UNCHANGED <<threads, removed, k, signals, exited>>

\* IPC_RMID, then pthread_exit; after a SIGINT, close and exit.
RemoveSet ==
  /\ \/ mainPc = "destroy" /\ Goto("done")
     \/ mainPc = "abort" /\ Goto("exit")
  /\ removed' = TRUE
  /\ UNCHANGED <<threads, closed, k, signals, exited>>

Exit ==
  /\ mainPc = "exit"
  /\ closed' = TRUE
  /\ exited' = "failure"
  /\ UNCHANGED <<threads, removed, mainPc, k, signals>>

Main == \/ ReadArguments \/ TestFlag \/ CreateSupplier \/ CreateConsumer
        \/ JoinConsumer \/ CloseInput \/ RemoveSet \/ Exit

-----------------------------------------------------------------------------
\* The signal

\* The handler reads C consumers from consumerThreadsArray, which is NULL
\* until main has created them all; C is still 0 before the arguments are
\* read.
NoArray == mainPc \in {"set", "supplier", "created", "create"}

Sigint ==
  /\ ~sigint
  /\ sigint' = TRUE
  /\ IF NoArray
       THEN exited' = "crashed" /\ UNCHANGED pending
       ELSE /\ pending' = {c \in Consumers : cpc[c] = "take"}
            /\ UNCHANGED exited
  /\ UNCHANGED <<threads, mainVars>>

\* The signal reaches a consumer.  A semop that sleeps fails, and the
\* consumer ends the process; a consumer on its way to semop goes on.
Interrupt(c) ==
  /\ c \in pending
  /\ pending' = pending \ {c}
  /\ \/ UNCHANGED exited
     \/ /\ cpc[c] = "take" /\ iter[c] < N /\ ~removed /\ ~Available
        /\ exited' = "failure"
  /\ UNCHANGED <<threads, mainVars, sigint>>

-----------------------------------------------------------------------------
Next ==
  /\ exited = "no"
  /\ \/ Main \/ Supplier \/ Sigint
     \/ \E c \in Consumers : Consumer(c) \/ Interrupt(c)

Fairness ==
  /\ WF_vars(exited = "no" /\ Main)
  /\ WF_vars(exited = "no" /\ Supplier)
  /\ \A c \in Consumers : WF_vars(exited = "no" /\ Consumer(c))

Spec == Init /\ [][Next]_vars /\ Fairness

-----------------------------------------------------------------------------
\* The type invariant.
TypeOK ==
  /\ input \in Inputs /\ pos \in 0 .. Len(input)
  /\ sem \in [Kinds -> 0 .. SemMax]
  /\ removed \in BOOLEAN /\ closed \in BOOLEAN
  /\ mainPc \in MainLabels /\ k \in 0 .. C
  /\ spc \in {"none", "read", "deliver", "left"}
  /\ spc = "deliver" => pos < Len(input) /\ input[pos + 1] \in Kinds
  /\ cpc \in [Consumers -> {"none", "take", "left"}]
  /\ iter \in [Consumers -> 0 .. N]
  /\ sigint \in BOOLEAN
  /\ pending \subseteq Consumers
  /\ exited \in {"no", "failure", "crashed"}

Served == \A c \in Consumers : cpc[c] = "left"
InFile(n) == {i \in 1 .. Len(input) : input[i] = n}
Delivered(n) == {i \in InFile(n) : i <= pos}

\* What the consumers have taken: consumer c at iteration i.
Taken == {p \in Consumers \X (0 .. N - 1) : p[2] < iter[p[1]]}

\* The file fits: no semaphore can reach its limit.
Fits == \A n \in Kinds : Cardinality(InFile(n)) <= SemMax
Enough == \A n \in Kinds : Cardinality(InFile(n)) >= C * N
Exact == \A n \in Kinds : Cardinality(InFile(n)) = C * N

\* "Current amounts" (line 118): the semaphores hold what was delivered and
\* not taken, and every taking is of one of each.
Conservation ==
  \A n \in Kinds : sem[n] = Cardinality(Delivered(n)) - Cardinality(Taken)

\* With exactly C * N of each kind the removal of the set at line 301 never
\* meets a supplier that still delivers: without SIGINT no semop fails.
NoFailure == Exact /\ Fits /\ ~sigint => exited = "no"

\* When there is more in the file the supplier may fail and end the process,
\* but not before every consumer has had its share and left.
NobodyCutOff == Fits /\ ~sigint /\ exited # "no" => Served

Over == exited # "no" \/ (mainPc = "done" /\ spc = "left" /\ Served)

\* With enough in the file the program ends, SIGINT or not.
Ends == Enough => <>Over
=============================================================================
