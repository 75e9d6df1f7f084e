---------------------------- MODULE FileEditor ----------------------------
(***************************************************************************)
(* hw1: editors that replace strings in one file.  An editor holds the     *)
(* write lock of the file for all the edits of its command line; each edit *)
(* reads the file, writes the replaced text to a temporary file, and       *)
(* copies that back over the original, which is never truncated.           *)
(*                                                                         *)
(* A text is a sequence of characters, shorter than the buffer of the code *)
(* (5000 bytes and the pattern), so one read() takes it all.  A pattern    *)
(* has at most one of "^", "$" and "[...]", there with a character in it,  *)
(* and no "*": with that the code compares with the empty string and never *)
(* comes to an end.                                                        *)
(***************************************************************************)
EXTENDS Integers, Sequences, FiniteSets, SequencesExt

CONSTANTS Editors,
          Chars,      \* the characters
          Texts,      \* what the file may contain at first
          Jobs,       \* command lines: sequences of edits
          Lower(_),   \* to_lower of a character
          LineEnds,   \* the characters '\n' and '\r'
          None        \* nobody holds the lock

\* An edit has the patterns to look for in turn (one, or one for each character
\* between "[" and "]"), the replacement, and the flags.
Kinds == {"plain", "start", "end", "wrong format"}
Edits == [kind : Kinds, patterns : Seq(Seq(Chars) \ {<<>>}) \ {<<>>},
          with : Seq(Chars), lower : BOOLEAN]

ASSUME EditorAssumption ==
  /\ None \notin Editors
  /\ Texts \subseteq Seq(Chars)
  /\ Jobs \subseteq Seq(Edits)
  /\ \A c \in Chars : Lower(c) \in Chars

VARIABLES
  original, holder,   \* the file and who holds its lock
  stage, job,         \* of each editor: where it is, its command line,
  pair, alt,          \* the edit (str_pair_counter) and pattern it is at,
  pos, temp,          \* its offset in the file, and its temporary file
  before              \* history: the file when the edit began

editVars == <<original, holder, stage, job, pair, alt, pos, temp, before>>

EditInit ==
  /\ original \in Texts
  /\ holder = None
  /\ stage = [e \in Editors |-> "lock"]
  /\ job \in [Editors -> Jobs]
  /\ pair = [e \in Editors |-> 1]
  /\ alt = [e \in Editors |-> 1]
  /\ pos = [e \in Editors |-> 0]
  /\ temp = [e \in Editors |-> <<>>]
  /\ before = [e \in Editors |-> <<>>]

Edit(e) == job[e][pair[e]]
GoTo(e, label) == stage' = [stage EXCEPT ![e] = label]
Leave(e, label) ==   \* the kernel drops the lock with the descriptor
  /\ GoTo(e, label)
  /\ holder' = IF holder = e THEN None ELSE holder

Occurs(text, pattern, i) ==
  /\ i + Len(pattern) - 1 <= Len(text)
  /\ SubSeq(text, i, i + Len(pattern) - 1) = pattern

-----------------------------------------------------------------------------
\* Faulty variants, none of them the code.

FaultySetLock(e) ==   \* F_SETLK, and its failure is not noticed
  /\ stage[e] = "lock"
  /\ holder' = IF holder = None THEN e ELSE holder
  /\ GoTo(e, "edit")
  /\ UNCHANGED <<original, job, pair, alt, pos, temp, before>>

FaultyReplace(text, pattern, edit, first) ==   \* one character too few is skipped
  LET out[i \in 1 .. Len(text) + 1] ==
        IF i > Len(text) THEN <<>>
        ELSE IF Occurs(text, pattern, i) THEN edit.with \o out[i + 1]
        ELSE <<text[i]>> \o out[i + 1]
  IN  out[1]

-----------------------------------------------------------------------------
\* replace_strings.  "^" looks at the character before an occurrence and "$"
\* at the one behind it; for an occurrence at the head of the buffer the code
\* reads what lies before the buffer: "first" says whether that ends a line.
Replace(text, pattern, edit, first) ==
  LET Fits(i) == CASE edit.kind = "plain" -> TRUE
                   [] edit.kind = "start" ->
                        IF i = 1 THEN first ELSE text[i - 1] \in LineEnds
                   [] edit.kind = "end" ->
                        /\ i + Len(pattern) <= Len(text)
                        /\ text[i + Len(pattern)] \in LineEnds
      out[i \in 1 .. Len(text) + 1] ==
        IF i > Len(text) THEN <<>>
        ELSE IF Occurs(text, pattern, i)
          THEN (IF Fits(i) THEN edit.with ELSE pattern) \o out[i + Len(pattern)]
          ELSE <<text[i]>> \o out[i + 1]
  IN  out[1]

\* With "i" both the text and the pattern are lowered before.
Lowered(s, edit) == IF edit.lower THEN [k \in DOMAIN s |-> Lower(s[k])] ELSE s

SetLock(e) ==
  /\ stage[e] = "lock" /\ holder = None
  /\ holder' = e
  /\ GoTo(e, "edit")
  /\ UNCHANGED <<original, job, pair, alt, pos, temp, before>>

\* parse_strings sets the offset back and makes a new temporary file.
NewTemp(e) ==
  /\ alt' = [alt EXCEPT ![e] = 1]
  /\ pos' = [pos EXCEPT ![e] = 0]
  /\ temp' = [temp EXCEPT ![e] = <<>>]
  /\ before' = [before EXCEPT ![e] = original]
  /\ GoTo(e, "read")

\* The loop over the edits: a wrong format, or a temporary file that cannot be
\* made, ends the program, with the edits before it done.
StartEdit(e) ==
  /\ stage[e] = "edit" /\ pair[e] <= Len(job[e])
  /\ \/ Leave(e, "failed") /\ UNCHANGED <<alt, pos, temp, before>>
     \/ Edit(e).kind # "wrong format" /\ NewTemp(e) /\ UNCHANGED holder
  /\ UNCHANGED <<original, job, pair>>

EndEdits(e) ==
  /\ stage[e] = "edit" /\ pair[e] > Len(job[e])
  /\ Leave(e, "done")
  /\ UNCHANGED <<original, job, pair, alt, pos, temp, before>>

\* The first loop of do_read_write: from the offset to the end of the file.
\* The second pattern of "[...]" starts where the first has left the offset.
FillTemp(e) ==
  /\ stage[e] = "read"
  /\ LET chunk == Lowered(SubSeq(original, pos[e] + 1, Len(original)), Edit(e))
         pattern == Lowered(Edit(e).patterns[alt[e]], Edit(e))
     IN  \E first \in BOOLEAN :
           temp' = [temp EXCEPT ![e] =
                     IF chunk = <<>> THEN @
                     ELSE @ \o Replace(chunk, pattern, Edit(e), first)]
  /\ GoTo(e, "write")
  /\ UNCHANGED <<original, holder, job, pair, alt, pos, before>>

\* The second loop: the temporary file over the head of the original.
CopyBack(e) ==
  /\ stage[e] = "write"
  /\ original' = temp[e] \o SubSeq(original, Len(temp[e]) + 1, Len(original))
  /\ pos' = [pos EXCEPT ![e] = Len(temp[e])]
  /\ IF alt[e] < Len(Edit(e).patterns)
       THEN /\ alt' = [alt EXCEPT ![e] = @ + 1]
            /\ GoTo(e, "read")
            /\ UNCHANGED pair
       ELSE /\ pair' = [pair EXCEPT ![e] = @ + 1]
            /\ GoTo(e, "edit")
            /\ UNCHANGED alt
  /\ UNCHANGED <<holder, job, temp, before>>

\* A signal, for which the program has no handler.
Kill(e) ==
  /\ stage[e] \notin {"done", "failed"}
  /\ Leave(e, "failed")
  /\ UNCHANGED <<original, job, pair, alt, pos, temp, before>>

Editor(e) ==
  SetLock(e) \/ StartEdit(e) \/ EndEdits(e) \/ FillTemp(e) \/ CopyBack(e)

EditNext == \E e \in Editors : Editor(e) \/ Kill(e)

EditSpec == EditInit /\ [][EditNext]_editVars

-----------------------------------------------------------------------------
\* While an editor is at its edits nobody else changes the file, also when
\* another one has just ended half way.
EditsIsolated ==
  [][\A e \in Editors : stage[e] \in {"edit", "read", "write"} /\ original' # original
       => stage[e] = "write" /\ stage'[e] # "write"]_editVars

\* The places at which the usage text promises a replacement: all occurrences,
\* those at a line start ("^") or at a line end ("$").
Wanted(text, pattern, edit) ==
  {i \in DOMAIN text :
     /\ Occurs(text, pattern, i)
     /\ edit.kind = "start" => i = 1 \/ text[i - 1] \in LineEnds
     /\ edit.kind = "end" => LET next == i + Len(pattern)
                            IN  next > Len(text) \/ text[next] \in LineEnds}

\* Of places that overlap, the first.
FirstOf(places, length) ==
  CHOOSE M \in SUBSET places :
    \A i \in places : i \in M <=> ~ \E j \in M : j < i /\ i < j + length

\* The text with these replaced.
Expected(text, pattern, edit) ==
  LET M == FirstOf(Wanted(text, pattern, edit), Len(pattern))
      Inside(i) == \E j \in M : j < i /\ i < j + Len(pattern)
  IN  FlattenSeq([i \in DOMAIN text |->
        IF i \in M THEN edit.with ELSE IF Inside(i) THEN <<>> ELSE <<text[i]>>])

\* The edits for which the code keeps the promise: one pattern and no flag "i",
\* and with an anchor no occurrence at the edge of the file, where the code
\* looks outside the text, and none that reaches into another.
Kept(text, pattern, edit) ==
  /\ ~edit.lower
  /\ edit.kind = "start" => ~Occurs(text, pattern, 1)
  /\ edit.kind = "end" => \A i \in DOMAIN text :
       Occurs(text, pattern, i) => i + Len(pattern) <= Len(text)
  /\ edit.kind # "plain" =>
       \A i, j \in DOMAIN text :
         Occurs(text, pattern, i) /\ Occurs(text, pattern, j) /\ i < j =>
           i + Len(pattern) <= j

\* After such an edit the file is the text it was with what the usage text
\* (helperfunctions.c 315-320) promises replaced, if that is not shorter.
EditReplacesAll ==
  \A e \in Editors : stage[e] = "edit" /\ pair[e] > 1 =>
    LET edit == job[e][pair[e] - 1]
        new == Expected(before[e], edit.patterns[1], edit)
    IN  Len(edit.patterns) = 1 /\ Kept(before[e], edit.patterns[1], edit)
          /\ Len(new) >= Len(before[e]) => original = new
=============================================================================
