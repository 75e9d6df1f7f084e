------------------------ MODULE CovarianceProcesses ------------------------
(***************************************************************************)
(* hw2: the parent reads groups of 30 bytes, forks a child for each, and   *)
(* the children append a line of nine numbers to one output file.  When    *)
(* all have ended the parent reads the file back and prints the two        *)
(* matrices whose norms are closest.                                       *)
(*                                                                         *)
(* The descriptor of the output file is inherited, so parent and children  *)
(* share one offset.  A line stands for the group it was computed from.    *)
(***************************************************************************)
EXTENDS Integers, Sequences, FiniteSets

CONSTANTS N,             \* full groups in the input file
          Old,           \* lines and newlines that earlier runs have left
          Norm,          \* the Frobenius norm of each group's matrix
          MIN,           \* the distance the search starts with
          Interruptible, \* sets of processes that SIGINT goes to at once
          MayFail        \* fork() and execv() may fail

Children == 1 .. N
Parent == 0
Processes == Children \cup {Parent}
NoLock == -1
Newline == 0   \* a token of the file; every other one is a line

ASSUME GroupsAssumption == N \in Nat \ {0}

ASSUME CovarianceAssumption ==
  /\ MIN \in Nat /\ MayFail \in BOOLEAN
  /\ Old \in Seq(Nat \ Children)
  /\ Norm \in [Children \cup ({Old[k] : k \in DOMAIN Old} \ {Newline}) -> Int]
  /\ Interruptible \subseteq SUBSET Processes

VARIABLES
  pc,       \* of each process
  forked,   \* groups that have a process
  file,     \* the output file: lines and newlines
  offset,   \* where the next write() goes
  lock,     \* the process that holds the record lock
  caught,   \* processes that have caught SIGINT
  sent,     \* SIGINT was sent (bound: once)
  told,     \* children that the parent has passed SIGINT on to
  matrices, \* what the parent has read back
  closest   \* num_one, num_two and min

vars == <<pc, forked, file, offset, lock, caught, sent, told, matrices,
          closest>>

Init ==
  /\ pc = [p \in Processes |-> IF p = Parent THEN "read" ELSE "none"]
  /\ forked = 0
  /\ file = Old
  /\ offset = 0 /\ lock = NoLock
  /\ caught = {} /\ sent = FALSE /\ told = 0
  /\ matrices = <<>>
  /\ closest = <<0, 0, MIN>>

Jump(p, label) == pc' = [pc EXCEPT ![p] = label]

\* "success" is a return from main of the child or the parent; "notRun" has
\* the same status 0: the execv() has failed and no program has run.
Ended(p) == pc[p] \in {"success", "notRun", "failure"}
Exit(p, status) ==
  /\ Jump(p, status)
  /\ lock' = IF lock = p THEN NoLock ELSE lock   \* the kernel drops the lock

fileVars == <<file, offset>>
resultVars == <<matrices, closest>>

\* The group a process computes; after a failed fork that is the parent.
Group(p) == IF p = Parent THEN forked ELSE p

\* write() at the shared offset.
Write(token) ==
  /\ file' = IF offset < Len(file) THEN [file EXCEPT ![offset + 1] = token]
                                   ELSE Append(file, token)
  /\ offset' = offset + 1

-----------------------------------------------------------------------------
\* Faulty variants of some steps, none of them the code.

FaultySeek(p) ==   \* a child starts at the beginning of the file
  /\ pc[p] = "seek"
  /\ Jump(p, "compute")
  /\ offset' = 0
  /\ UNCHANGED <<forked, file, lock, caught, sent, told, resultVars>>

FaultyLock(p) ==   \* the lock is not waited for
  /\ pc[p] = "lock"
  /\ Jump(p, "line")
  /\ UNCHANGED <<forked, fileVars, lock, caught, sent, told, resultVars>>

FaultyUnlock(p) ==   \* main does not return
  /\ pc[p] = "unlock"
  /\ lock' = NoLock
  /\ UNCHANGED <<pc, forked, fileVars, caught, sent, told, resultVars>>

FaultyCloser(best, i, j) ==   \* the pair is not required to be two
  LET d == Norm[matrices[i]] - Norm[matrices[j]]
      abs == IF d < 0 THEN -d ELSE d
  IN  IF abs <= best[3] THEN <<i, j, abs>> ELSE best

-----------------------------------------------------------------------------
\* The child program: the flag is tested again and again until the lock.

\* Between fork() and sigaction() of the new program the signal is lost with
\* the old program's flag, or it ends the process; see Arrives.  When execv()
\* fails the process leaves with EXIT_SUCCESS all the same.
Exec(p) ==
  /\ pc[p] = "exec"
  /\ \/ Jump(p, "seek")
     \/ MayFail /\ Jump(p, "notRun")
  /\ UNCHANGED <<forked, fileVars, lock, caught, sent, told, resultVars>>

Seek(p) ==
  /\ pc[p] = "seek"
  /\ IF p \in caught
       THEN Exit(p, "failure") /\ UNCHANGED offset
       ELSE Jump(p, "compute") /\ offset' = Len(file) /\ UNCHANGED lock
  /\ UNCHANGED <<forked, file, caught, sent, told, resultVars>>

Compute(p) ==
  /\ pc[p] = "compute"
  /\ IF p \in caught THEN Exit(p, "failure")
                      ELSE Jump(p, "lock") /\ UNCHANGED lock
  /\ UNCHANGED <<forked, fileVars, caught, sent, told, resultVars>>

\* fcntl(F_SETLKW).
Lock(p) ==
  /\ pc[p] = "lock"
  /\ lock = NoLock
  /\ lock' = p
  /\ Jump(p, "line")
  /\ UNCHANGED <<forked, fileVars, caught, sent, told, resultVars>>

WriteLine(p) ==
  /\ pc[p] = "line"
  /\ Write(Group(p))
  /\ Jump(p, "newline")
  /\ UNCHANGED <<forked, lock, caught, sent, told, resultVars>>

WriteNewline(p) ==
  /\ pc[p] = "newline"
  /\ IF p \in caught
       THEN Exit(p, "failure") /\ UNCHANGED fileVars
       ELSE Write(Newline) /\ Jump(p, "unlock") /\ UNCHANGED lock
  /\ UNCHANGED <<forked, caught, sent, told, resultVars>>

Unlock(p) ==
  /\ pc[p] = "unlock"
  /\ Exit(p, "success")
  /\ UNCHANGED <<forked, fileVars, caught, sent, told, resultVars>>

Child(p) == \/ Exec(p) \/ Seek(p) \/ Compute(p) \/ Lock(p)
            \/ WriteLine(p) \/ WriteNewline(p) \/ Unlock(p)

-----------------------------------------------------------------------------
\* SIGINT arrives at the processes `to`: a handler sets the flag, one that has
\* no handler yet ends or loses the signal, and an fcntl() that waits fails
\* with EINTR, so that the child returns 1.
Arrives(to) ==
  LET alive == {p \in to : pc[p] # "none" /\ ~Ended(p)}
      between == {p \in alive : pc[p] = "exec"}
      waiting == {p \in alive : pc[p] = "lock" /\ lock # NoLock}
  IN  /\ caught' = caught \cup (alive \ between)
      /\ \E killed \in SUBSET (between \cup waiting) :
           pc' = [p \in Processes |-> IF p \in killed THEN "failure" ELSE pc[p]]

-----------------------------------------------------------------------------
\* The parent.

\* A full group: the flag, setenv() and fork().  The parent that is
\* interrupted here leaves its children alone.
Fork ==
  /\ pc[Parent] = "read" /\ forked < N
  /\ \/ /\ Parent \in caught
        /\ Exit(Parent, "failure")
        /\ UNCHANGED <<forked, caught>>
     \/ /\ Parent \notin caught
        /\ forked' = forked + 1
        /\ Jump(forked', "exec")
        /\ UNCHANGED <<lock, caught>>
     \/ /\ MayFail /\ Parent \notin caught   \* case -1 falls through to execv()
        /\ forked' = forked + 1
        /\ Jump(Parent, "exec")
        /\ UNCHANGED <<lock, caught>>
  /\ UNCHANGED <<fileVars, sent, told, resultVars>>

EndOfInput ==
  /\ pc[Parent] = "read" /\ forked = N
  /\ Jump(Parent, IF Parent \in caught THEN "kill" ELSE "wait")
  /\ UNCHANGED <<forked, fileVars, lock, caught, sent, told, resultVars>>

\* The interrupted parent passes SIGINT on to its children, one by one.
PassOn ==
  /\ pc[Parent] = "kill"
  /\ IF told < forked
       THEN told' = told + 1 /\ Arrives({told'}) /\ UNCHANGED lock
       ELSE Exit(Parent, "failure") /\ UNCHANGED <<told, caught>>
  /\ UNCHANGED <<forked, fileVars, sent, resultVars>>

\* strtok() over the text of the file: newlines and blanks only separate, what
\* is between them is taken in turn.
Tokens(text) ==
  LET upTo[k \in 0 .. Len(text)] ==
        IF k = 0 THEN <<>>
        ELSE IF text[k] = Newline THEN upTo[k - 1]
        ELSE Append(upTo[k - 1], text[k])
  IN  upTo[Len(text)]

\* wait() until ECHILD; -1 with EINTR goes round the loop.  Then the file is
\* read from its beginning.
Collect ==
  /\ pc[Parent] = "wait"
  /\ \A c \in Children : pc[c] = "none" \/ Ended(c)
  /\ matrices' = Tokens(file)
  /\ Jump(Parent, "search")
  /\ UNCHANGED <<forked, fileVars, lock, caught, sent, told, closest>>

\* One comparison: "<=", so the last of equal distances wins.
Closer(best, i, j) ==
  LET d == Norm[matrices[i]] - Norm[matrices[j]]
      abs == IF d < 0 THEN -d ELSE d
  IN  IF i # j /\ abs <= best[3] THEN <<i, j, abs>> ELSE best

\* The double loop, pair by pair in the order of the indices.
Search ==
  /\ pc[Parent] = "search"
  /\ closest' =
       LET n == Len(matrices)
           after[k \in 0 .. n * n] ==
             IF k = 0 THEN <<0, 0, MIN>>
             ELSE Closer(after[k - 1], ((k - 1) \div n) + 1, ((k - 1) % n) + 1)
       IN  after[n * n]
  /\ Exit(Parent, "success")
  /\ UNCHANGED <<forked, fileVars, caught, sent, told, matrices>>

\* SIGINT is sent to all processes of a terminal, or to one.
Interrupt ==
  /\ ~sent /\ sent' = TRUE
  /\ \E to \in Interruptible :
       /\ \E p \in to : pc[p] # "none" /\ ~Ended(p)
       /\ Arrives(to)
  /\ UNCHANGED <<forked, fileVars, lock, told, resultVars>>

Next == \/ \E p \in Processes : Child(p)
        \/ Fork \/ EndOfInput \/ PassOn \/ Collect \/ Search
        \/ Interrupt

\* Every process runs; the lock is asked for once by each.
Fairness == /\ \A p \in Processes : WF_vars(Child(p))
            /\ WF_vars(Fork \/ EndOfInput \/ PassOn \/ Collect \/ Search)

Spec == Init /\ [][Next]_vars /\ Fairness

-----------------------------------------------------------------------------
\* Properties.

Count(s, x) == Cardinality({i \in DOMAIN s : s[i] = x})

\* The process computes a group; the parent does after a failed fork.
Computes(p) == p = Parent => pc[forked] = "none"

\* A line of this run is followed by its newline, but for the child that is between its
\* two writes, at the end of the file, and the child that SIGINT has cut off
\* there: no other child gets in between, and none is cut off elsewhere.
LinesIntact ==
  \A i \in DOMAIN file : file[i] \in Children =>
    \/ i < Len(file) /\ file[i + 1] = Newline
    \/ \E p \in Processes :
         /\ Computes(p) /\ Group(p) = file[i]
         /\ \/ pc[p] = "newline" /\ i = Len(file)
            \/ pc[p] = "failure" /\ p \in caught

\* Once the parent has read the file, it has every line an earlier run left,
\* the line of every child that ran to its end exactly once, of no other
\* twice, whatever the order the children took and whoever was interrupted.
\* (Status 0 does not tell: a child whose execv() failed has it without a
\* line, parent.c 171-172, and the parent does not look at the status.)
CollectedOnce ==
  pc[Parent] = "search" =>
    /\ \A k \in DOMAIN Old :
         Old[k] # Newline => Count(matrices, Old[k]) = Count(Old, Old[k])
    /\ \A c \in Children :
         /\ Count(matrices, c) <= 1
         /\ pc[c] = "success" => Count(matrices, c) = 1

\* The two matrices that are printed are two, and no two others are closer.
ClosestIsClosest ==
  LET Distance(i, j) == LET d == Norm[matrices[i]] - Norm[matrices[j]]
                        IN  IF d < 0 THEN -d ELSE d
      pairs == {p \in (DOMAIN matrices) \X (DOMAIN matrices) :
                  p[1] # p[2] /\ Distance(p[1], p[2]) <= MIN}
  IN  pc[Parent] = "success" /\ pairs # {} =>
        /\ <<closest[1], closest[2]>> \in pairs
        /\ closest[3] = Distance(closest[1], closest[2])
        /\ \A p \in pairs : closest[3] <= Distance(p[1], p[2])

\* Every process that was started ends, SIGINT or not.
AllEnd == <>(/\ Ended(Parent)
             /\ \A c \in Children : pc[c] = "none" \/ Ended(c))
=============================================================================
