---------------------------- MODULE DessertTable ----------------------------
(***************************************************************************)
(* hw3: a wholesaler puts pairs of ingredients on a table in shared        *)
(* memory, six chefs poll the table and turn the pair that is theirs into  *)
(* a dessert.  named.c and unnamed.c differ only in where the semaphore    *)
(* lives.  SIGINT may be caught by every process, at any time; it makes a  *)
(* blocked sem_wait return without the semaphore, which nobody checks: the *)
(* process then works on the table beside the others, so every read of one *)
(* byte of the table is a step of its own.                                 *)
(***************************************************************************)
EXTENDS Integers, Sequences, FiniteSets

CONSTANTS Chefs,          \* the chefs that take part, 0 .. 5 in the code
          Input,          \* the pairs of the input file, in order
          Interruptible   \* the processes that may be sent SIGINT

\* What each chef function waits for, in the order that it tests first; the
\* functions are otherwise the same.
chef0 == <<"W", "S">>
chef1 == <<"F", "W">>
chef2 == <<"S", "F">>
chef3 == <<"M", "F">>
chef4 == <<"M", "W">>
chef5 == <<"S", "M">>

recipe == [c \in Chefs |-> CASE c = 0 -> chef0 [] c = 1 -> chef1
                             [] c = 2 -> chef2 [] c = 3 -> chef3
                             [] c = 4 -> chef4 [] c = 5 -> chef5]

Ingredients == {"W", "S", "F", "M"}
Pairs == {p \in Ingredients \X Ingredients : p[1] # p[2]}
IsFor(p, c) == p = recipe[c] \/ p = <<recipe[c][2], recipe[c][1]>>

Wholesaler == 6
Procs == Chefs \cup {Wholesaler}

ASSUME DessertAssumption ==
  /\ Chefs \subseteq 0 .. 5
  /\ Input \in Seq(Pairs)
  /\ \A k \in 1 .. Len(Input) : \E c \in Chefs : IsFor(Input[k], c)
  /\ Interruptible \subseteq Procs

VARIABLES
  addr,           \* the two bytes on the table
  tem1,           \* the second byte, as a chef has read it
  sp,             \* the value of the semaphore
  pos,            \* pairs read from the input file
  sigintcaught,   \* processes whose handler has run
  interrupted,    \* history: a sem_wait has returned without the semaphore
  pc,
  totalDesNum,    \* desserts of each chef
  exitStatus,     \* of each chef that has ended
  reaped,         \* chefs the wholesaler has waited for
  allDeserts

table == <<addr, tem1, pos>>
signals == <<sigintcaught, interrupted>>
counts == <<totalDesNum, exitStatus, reaped, allDeserts>>
vars == <<addr, tem1, sp, pos, sigintcaught, interrupted, pc, totalDesNum,
          exitStatus, reaped, allDeserts>>

Init ==
  /\ addr = <<"i", "i">>
  /\ tem1 = [c \in Chefs |-> "t"]
  /\ sp = 1
  /\ pos = 0
  /\ sigintcaught = {}
  /\ interrupted = FALSE
  /\ pc = [p \in Procs |-> IF p = Wholesaler THEN "wait" ELSE "loop"]
  /\ totalDesNum = [c \in Chefs |-> 0]
  /\ exitStatus = [c \in Chefs |-> 0]
  /\ reaped = {}
  /\ allDeserts = 0

Goto(p, label) == pc' = [pc EXCEPT ![p] = label]
Ended(p) == pc[p] \in {"exited", "done", "gone"}

-----------------------------------------------------------------------------
\* Faulty variants, none of them the code.

FaultySemWait(p) ==   \* the semaphore is not taken
  /\ pc[p] = "wait" /\ sp > 0
  /\ Goto(p, "initial")
  /\ UNCHANGED <<table, sp, signals, counts>>

FaultyEndOfInput ==   \* the wholesaler leaves without telling the chefs
  /\ pc[Wholesaler] = "read" /\ pos = Len(Input)
  /\ Goto(Wholesaler, "eof")
  /\ UNCHANGED <<table, sp, signals, counts>>

FaultyCollect ==   \* one child is not waited for
  /\ pc[Wholesaler] = "collect"
  /\ IF Cardinality(reaped) = Cardinality(Chefs) - 1
       THEN Goto(Wholesaler, "done") /\ UNCHANGED <<reaped, allDeserts>>
       ELSE \E c \in Chefs \ reaped :
              /\ pc[c] = "exited"
              /\ reaped' = reaped \cup {c}
              /\ allDeserts' = allDeserts + exitStatus[c]
              /\ UNCHANGED pc
  /\ UNCHANGED <<table, sp, signals, totalDesNum, exitStatus>>

-----------------------------------------------------------------------------
\* Semaphore and signal

SemWait(p) ==
  /\ pc[p] = "wait" /\ sp > 0
  /\ sp' = sp - 1
  /\ Goto(p, "initial")
  /\ UNCHANGED <<table, signals, counts>>

\* sem_post, and where the process goes after it.
SemPost(p) ==
  /\ \/ pc[p] = "post" /\ Goto(p, IF p = Wholesaler THEN "wait" ELSE "loop")
     \/ /\ pc[p] \in {"put", "eof"}   \* the wholesaler then tests the flag
        /\ Goto(p, IF p \in sigintcaught THEN "gone"
                   ELSE IF pc[p] = "put" THEN "wait" ELSE "collect")
     \/ pc[p] = "leave" /\ Goto(p, "exited")
  /\ exitStatus' = IF pc[p] = "leave"
                     THEN [exitStatus EXCEPT ![p] = totalDesNum[p] % 256]
                     ELSE exitStatus
  /\ sp' = sp + 1
  /\ UNCHANGED <<table, signals, totalDesNum, reaped, allDeserts>>

\* The handler sets the flag of its process.  A sem_wait or a waitpid that
\* is blocked at that moment returns -1: the first goes on to the table all
\* the same, the second ends the wholesaler.
CatchSigint(p) ==
  /\ p \in Interruptible \ sigintcaught /\ ~Ended(p)
  /\ sigintcaught' = sigintcaught \cup {p}
  /\ \/ UNCHANGED pc
     \/ pc[p] = "wait" /\ sp = 0 /\ Goto(p, "initial")
     \/ pc[p] = "collect" /\ Goto(p, "gone")
  /\ interrupted' = (interrupted \/ (pc[p] = "wait" /\ pc'[p] # "wait"))
  /\ UNCHANGED <<table, sp, counts>>

-----------------------------------------------------------------------------
\* The chefs

TestFlag(c) ==
  /\ pc[c] = "loop"
  /\ IF c \in sigintcaught
       THEN Goto(c, "exited") /\ exitStatus' = [exitStatus EXCEPT ![c] = 1]
       ELSE Goto(c, "wait") /\ UNCHANGED exitStatus
  /\ UNCHANGED <<table, sp, signals, totalDesNum, reaped, allDeserts>>

\* The comparisons of the chain of ifs, in its order; each reads one byte.
CompareByte(c) ==
  LET a == recipe[c][1]
      b == recipe[c][2]
      Next2(yes, hit, no) == Goto(c, IF hit THEN yes ELSE no)
  IN
  /\ \/ pc[c] = "initial"  /\ Next2("post",    addr[1] = "i", "finished")
     \/ pc[c] = "finished" /\ Next2("leave",   addr[1] = "n", "first")
     \/ pc[c] = "first"    /\ Next2("second",  addr[1] = a,   "swapped")
     \/ pc[c] = "second"   /\ Next2("take",    addr[2] = b,   "swapped")
     \/ pc[c] = "swapped"  /\ Next2("swapped2", addr[1] = b,  "post")
     \/ pc[c] = "swapped2" /\ Next2("take",    addr[2] = a,   "post")
  /\ UNCHANGED <<table, sp, signals, counts>>

\* The pair is the chef's: it copies the second byte, writes the table with
\* the first one taken, then with both taken.
ReadSecond(c) ==
  /\ pc[c] = "take"
  /\ tem1' = [tem1 EXCEPT ![c] = addr[2]]
  /\ Goto(c, "taking")
  /\ UNCHANGED <<addr, sp, pos, signals, counts>>

TakeFirst(c) ==
  /\ pc[c] = "taking"
  /\ addr' = <<"t", tem1[c]>>
  /\ Goto(c, "taken")
  /\ UNCHANGED <<tem1, sp, pos, signals, counts>>

TakeSecond(c) ==
  /\ pc[c] = "taken"
  /\ tem1' = [tem1 EXCEPT ![c] = "t"]
  /\ addr' = <<"t", "t">>
  /\ totalDesNum' = [totalDesNum EXCEPT ![c] = @ + 1]
  /\ Goto(c, "post")
  /\ UNCHANGED <<sp, pos, signals, exitStatus, reaped, allDeserts>>

Chef(c) == \/ TestFlag(c) \/ SemWait(c) \/ CompareByte(c) \/ ReadSecond(c)
           \/ TakeFirst(c) \/ TakeSecond(c) \/ SemPost(c)

-----------------------------------------------------------------------------
\* The wholesaler

\* Its test of the table, again one byte at a time: it goes round again while
\* no byte is "i" or "t".
LookAtTable ==
  LET Look(byte, free, else) ==
        Goto(Wholesaler, IF addr[byte] = free THEN "read" ELSE else)
  IN
  /\ \/ pc[Wholesaler] = "initial"  /\ Look(1, "i", "initial2")
     \/ pc[Wholesaler] = "initial2" /\ Look(2, "i", "empty")
     \/ pc[Wholesaler] = "empty"    /\ Look(1, "t", "empty2")
     \/ pc[Wholesaler] = "empty2"   /\ Look(2, "t", "post")
  /\ UNCHANGED <<table, sp, signals, counts>>

Deliver ==
  /\ pc[Wholesaler] = "read"
  /\ pos < Len(Input)
  /\ pos' = pos + 1
  /\ addr' = Input[pos + 1]
  /\ Goto(Wholesaler, "put")
  /\ UNCHANGED <<tem1, sp, signals, counts>>

EndOfInput ==
  /\ pc[Wholesaler] = "read"
  /\ pos = Len(Input)
  /\ addr' = <<"n", "n">>
  /\ Goto(Wholesaler, "eof")
  /\ UNCHANGED <<tem1, pos, sp, signals, counts>>

\* waitpid(0): childPidsArr was filled in the children only, so any child
\* that has ended is taken, each once.
Collect ==
  /\ pc[Wholesaler] = "collect"
  /\ IF reaped = Chefs
       THEN Goto(Wholesaler, "done") /\ UNCHANGED <<reaped, allDeserts>>
       ELSE \E c \in Chefs \ reaped :
              /\ pc[c] = "exited"
              /\ reaped' = reaped \cup {c}
              /\ allDeserts' = allDeserts + exitStatus[c]
              /\ UNCHANGED pc
  /\ UNCHANGED <<table, sp, signals, totalDesNum, exitStatus>>

Seller == \/ SemWait(Wholesaler) \/ LookAtTable \/ Deliver \/ EndOfInput
          \/ SemPost(Wholesaler) \/ Collect

Next == \/ Seller
        \/ \E c \in Chefs : Chef(c)
        \/ \E p \in Procs : CatchSigint(p)

\* Every process is scheduled, and a process that polls a semaphore that
\* becomes free again and again gets it some time.
Fairness ==
  /\ WF_vars(Seller) /\ SF_vars(SemWait(Wholesaler))
  /\ \A c \in Chefs : WF_vars(Chef(c)) /\ SF_vars(SemWait(c))

Spec == Init /\ [][Next]_vars /\ Fairness

-----------------------------------------------------------------------------
\* The pairs for chef c that the wholesaler has put on the table.
DeliveredTo(c) == Cardinality({k \in 1 .. pos : IsFor(Input[k], c)})

\* A pair for c that is whole on the table, or one c has begun to take.
InHand(c) == pc[c] = "taken" \/ IsFor(addr, c)

\* Every pair delivered becomes exactly one dessert of the right chef, or is
\* still on its way: none is overwritten before it is used, none used twice
\* (the tests of named.c 45-85 and 702).  It holds with signals too, as long
\* as none of them makes a sem_wait return without the semaphore; after that
\* the code keeps no count: a chef may compare the first byte of one pair
\* and the second of another.
EachPairOneDessert ==
  ~interrupted =>
    \A c \in Chefs :
      DeliveredTo(c) = totalDesNum[c] + (IF InHand(c) THEN 1 ELSE 0)

\* "the wholesaler is done (total desserts: %d)", named.c 767: without a
\* signal the total it prints is the number of pairs in the file.
TotalIsExact ==
  pc[Wholesaler] = "done" /\ sigintcaught = {} => allDeserts = Len(Input)

\* Without a signal the whole input is used up and the wholesaler ends; and
\* every chef that has caught SIGINT ends, whatever lies on the table.
AllServed ==
  /\ [](sigintcaught = {}) => <>(pc[Wholesaler] = "done" /\ pos = Len(Input))
  /\ \A c \in Chefs : c \in sigintcaught ~> Ended(c)
=============================================================================
