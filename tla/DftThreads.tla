----------------------------- MODULE DftThreads -----------------------------
(***************************************************************************)
(* hw5/threads_synchronization.c: M threads multiply two matrices, each    *)
(* its own rows, meet at the barrier, and then compute the 2D DFT of the   *)
(* product, again each its own rows but reading all of them.  main hands   *)
(* out the rows, creates and joins the threads and writes the result.      *)
(* SIGINT may arrive once, at any time.                                    *)
(*                                                                         *)
(* A row is tracked by how it was computed, not by its numbers.            *)
(***************************************************************************)
EXTENDS PosixBarrier

CONSTANT Size   \* power(2,N), the number of rows

\* What main has checked by line 219; at most 128 rows, because
\* matrixHalfSize is a uint8_t (line 167) and 256 becomes 0.
ASSUME DftAssumption ==
  /\ Size \in 4 .. 128
  /\ Threads # {} /\ Threads = 0 .. Cardinality(Threads) - 1
  /\ Size % Cardinality(Threads) = 0

VARIABLES
  mainPc, k,       \* where main is, and its loop index
  counter,         \* startingIndCounter
  indKeeper,       \* startingIndex of each thread, -1 while unset
  matrixC,         \* how far each row of the product is
  dft2dArr,        \* how each row of the result was computed
  freed,           \* main has freed the matrices
  sigint,          \* the flag set by the handler
  pc, row          \* where each thread is, and its current row

dvars == <<mainPc, k, counter, indKeeper, matrixC, dft2dArr, freed, sigint,
           pc, row>>
allVars == <<bvars, dvars>>

Rows == 0 .. Size - 1
gap == Size \div M
ThreadLabels == {"none", "start", "find", "product", "multiply", "ready",
                 "barrier", "dft", "last", "exited"}
MainLabels == {"fill", "create", "created", "join", "joined", "output", "free",
               "gone", "crashed", "done"}

DInit ==
  /\ BInit
  /\ mainPc = "fill" /\ k = 0 /\ counter = 0
  /\ indKeeper = [t \in Threads |-> -1]
  /\ matrixC = [r \in Rows |-> "zero"]
  /\ dft2dArr = [r \in Rows |-> "zero"]
  /\ freed = FALSE /\ sigint = FALSE
  /\ pc = [t \in Threads |-> "none"]
  /\ row = [t \in Threads |-> 0]

threadVars == <<matrixC, dft2dArr, pc, row>>
mainVars == <<mainPc, k, counter, indKeeper, freed>>
Goto(t, label) == pc' = [pc EXCEPT ![t] = label]

\* The handler sets the flag and signals every thread of threadsArray, which
\* is NULL until main has created them all: before that it crashes.
Sigint ==
  /\ ~sigint
  /\ sigint' = TRUE
  /\ mainPc' = IF mainPc \in {"fill", "create"} THEN "crashed" ELSE mainPc
  /\ UNCHANGED <<bvars, k, counter, indKeeper, matrixC, dft2dArr, freed, pc,
                 row>>

-----------------------------------------------------------------------------
\* main

\* Faulty variants, none of them the code.
FillWith(step) ==
  /\ mainPc = "fill"
  /\ IF k < M
       THEN /\ indKeeper' = [indKeeper EXCEPT ![k] = counter]
            /\ counter' = counter + step
            /\ k' = k + 1
            /\ UNCHANGED mainPc
       ELSE /\ mainPc' = "create" /\ k' = 0
            /\ UNCHANGED <<indKeeper, counter>>
  /\ UNCHANGED <<bvars, threadVars, freed, sigint>>
FaultyFillShort == FillWith(gap - 1)   \* shares overlap

FaultyJoinThread ==   \* main does not wait for the threads
  /\ mainPc = "join"
  /\ mainPc' = "joined"
  /\ UNCHANGED <<bvars, threadVars, k, counter, indKeeper, freed, sigint>>

FaultyCheckFlag ==   \* the flag is not tested after the joins
  /\ \/ mainPc = "created" /\ mainPc' = IF sigint THEN "free" ELSE "join"
     \/ mainPc = "joined" /\ mainPc' = "output"
  /\ UNCHANGED <<bvars, threadVars, k, counter, indKeeper, freed, sigint>>

MainGoto(from, to) == mainPc = from /\ mainPc' = to

FillIndex ==
  /\ mainPc = "fill"
  /\ IF k < M
       THEN /\ indKeeper' = [indKeeper EXCEPT ![k] = counter]
            /\ counter' = counter + gap
            /\ k' = k + 1
            /\ UNCHANGED mainPc
       ELSE /\ mainPc' = "create" /\ k' = 0
            /\ UNCHANGED <<indKeeper, counter>>
  /\ UNCHANGED <<bvars, threadVars, freed, sigint>>

CreateThread ==
  /\ mainPc = "create"
  /\ IF k < M
       THEN /\ Goto(k, "start") /\ k' = k + 1
            /\ UNCHANGED mainPc
       ELSE /\ mainPc' = "created" /\ k' = 0
            /\ UNCHANGED pc
  /\ UNCHANGED <<bvars, matrixC, dft2dArr, row, counter, indKeeper, freed,
                 sigint>>

\* The tests of the flag after the creation and after the joins, lines 386
\* and 428.
CheckFlag ==
  /\ \/ MainGoto("created", IF sigint THEN "free" ELSE "join")
     \/ MainGoto("joined", IF sigint THEN "free" ELSE "output")
  /\ UNCHANGED <<bvars, threadVars, k, counter, indKeeper, freed, sigint>>

JoinThread ==
  /\ mainPc = "join"
  /\ IF k < M
       THEN pc[k] = "exited" /\ k' = k + 1 /\ UNCHANGED mainPc
       ELSE mainPc' = "joined" /\ UNCHANGED k
  /\ UNCHANGED <<bvars, threadVars, counter, indKeeper, freed, sigint>>

\* The result is written; a late SIGINT still ends in the error path.
Output ==
  /\ MainGoto("output", IF sigint THEN "free" ELSE "done")
  /\ freed' = ~sigint
  /\ UNCHANGED <<bvars, threadVars, k, counter, indKeeper, sigint>>

\* freeMatrixes(), then exit(): in between the threads still run.
FreeMatrices ==
  /\ mainPc = "free"
  /\ IF freed THEN mainPc' = "gone" /\ UNCHANGED freed
              ELSE freed' = TRUE /\ UNCHANGED mainPc
  /\ UNCHANGED <<bvars, threadVars, k, counter, indKeeper, sigint>>

MainStep == \/ FillIndex \/ CreateThread \/ CheckFlag \/ JoinThread
            \/ Output \/ FreeMatrices

-----------------------------------------------------------------------------
\* The threads

\* Tests of the flag at lines 60, 71, 85 and 141.
TestFlag(t) ==
  /\ \/ pc[t] = "start" /\ Goto(t, IF sigint THEN "exited" ELSE "find")
     \/ pc[t] = "product" /\ Goto(t, IF sigint THEN "exited" ELSE "multiply")
     \/ pc[t] = "ready" /\ Goto(t, IF sigint THEN "exited" ELSE "barrier")
     \/ pc[t] = "last" /\ Goto(t, "exited")
  /\ UNCHANGED <<bvars, mainVars, sigint, matrixC, dft2dArr, row>>

FindRows(t) ==
  /\ pc[t] = "find"
  /\ row' = [row EXCEPT ![t] = indKeeper[t]]
  /\ Goto(t, "product")
  /\ UNCHANGED <<bvars, mainVars, sigint, matrixC, dft2dArr>>

\* matrixC[i] is cleared and then summed up: one step each.
Multiply(t) ==
  /\ pc[t] = "multiply"
  /\ IF row[t] = indKeeper[t] + gap
       THEN /\ Goto(t, "ready")
            /\ UNCHANGED <<matrixC, row>>
       ELSE IF matrixC[row[t]] # "partial"
       THEN /\ matrixC' = [matrixC EXCEPT ![row[t]] = "partial"]
            /\ UNCHANGED <<pc, row>>
       ELSE /\ matrixC' = [matrixC EXCEPT ![row[t]] = "product"]
            /\ row' = [row EXCEPT ![t] = @ + 1]
            /\ UNCHANGED pc
  /\ UNCHANGED <<bvars, mainVars, sigint, dft2dArr>>

EnterBarrier(t) ==
  /\ pc[t] = "barrier"
  /\ Arrive(t)
  /\ UNCHANGED dvars

InBarrier(t) ==
  /\ pc[t] = "barrier"
  /\ Inside(t)
  /\ UNCHANGED dvars

LeaveBarrier(t) ==
  /\ pc[t] = "barrier" /\ bpc[t] = "after"
  /\ Goto(t, "dft")
  /\ row' = [row EXCEPT ![t] = indKeeper[t]]
  /\ UNCHANGED <<bvars, mainVars, sigint, matrixC, dft2dArr>>

\* A row of the result is right when all of matrixC was there to be read.
Dft(t) ==
  /\ pc[t] = "dft"
  /\ IF row[t] = indKeeper[t] + gap
       THEN /\ Goto(t, "last")
            /\ UNCHANGED <<dft2dArr, row>>
       ELSE /\ dft2dArr' = [dft2dArr EXCEPT ![row[t]] =
                 IF \A r \in Rows : matrixC[r] = "product" THEN "right"
                                                           ELSE "wrong"]
            /\ row' = [row EXCEPT ![t] = @ + 1]
            /\ UNCHANGED pc
  /\ UNCHANGED <<bvars, mainVars, sigint, matrixC>>

ThreadStep(t) == \/ TestFlag(t) \/ FindRows(t) \/ Multiply(t)
                 \/ EnterBarrier(t) \/ InBarrier(t) \/ LeaveBarrier(t) \/ Dft(t)

Running == mainPc \notin {"gone", "crashed", "done"}

DNext ==
  /\ Running
  /\ Sigint \/ MainStep \/ \E t \in Threads : ThreadStep(t)

DFairness ==
  /\ WF_allVars(Running /\ MainStep)
  /\ \A t \in Threads : WF_allVars(Running /\ ThreadStep(t))

DSpec == DInit /\ [][DNext]_allVars /\ DFairness

-----------------------------------------------------------------------------
DTypeOK ==
  /\ BTypeOK
  /\ mainPc \in MainLabels /\ k \in 0 .. M /\ counter \in 0 .. Size
  /\ indKeeper \in [Threads -> Rows \cup {-1}]
  /\ matrixC \in [Rows -> {"zero", "partial", "product"}]
  /\ dft2dArr \in [Rows -> {"zero", "right", "wrong"}]
  /\ freed \in BOOLEAN /\ sigint \in BOOLEAN
  /\ pc \in [Threads -> ThreadLabels]
  /\ row \in [Threads -> 0 .. Size]

\* No row of the result is computed from an unfinished product.
DftReadsFinalProduct == \A r \in Rows : dft2dArr[r] # "wrong"

\* What main writes is complete and right, whenever SIGINT arrives.
OutputComplete ==
  mainPc \in {"output", "done"} => \A r \in Rows : dft2dArr[r] = "right"

\* A thread that is about to write its current row, of the product or of the
\* result.
Writing(t) == pc[t] \in {"multiply", "dft"} /\ row[t] < indKeeper[t] + gap

\* A thread writes rows that exist, and no two threads write the same one.
RowsApart ==
  \A t \in Threads : Writing(t) =>
    /\ row[t] \in Rows
    /\ \A u \in Threads \ {t} : Writing(u) => row[u] # row[t]

Computing(t) == pc[t] \in {"multiply", "dft"}

\* Without SIGINT the matrices are freed only when no thread computes any
\* more.  (With it line 391 frees them under the running threads.)
NoUseAfterFree == freed /\ ~sigint => \A t \in Threads : ~Computing(t)

\* A thread that left on the flag without having been at the barrier.
Deserted(t) == pc[t] = "exited" /\ bpc[t] = "before"

\* The program ends, with its output written unless SIGINT was caught.  The
\* one exception is a SIGINT that some threads notice before the barrier while
\* others are inside it: the counter never fills and main never joins them.
Finishes ==
  <>(\/ mainPc = "done"
     \/ sigint /\ ~Running
     \/ sigint /\ (\E t \in Threads : Deserted(t))
               /\ (\E u \in Threads : bpc[u] = "wait"))
=============================================================================
