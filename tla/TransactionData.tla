-------------------------- MODULE TransactionData --------------------------
(***************************************************************************)
(* The data behind an answer in Final/source_code: the client takes a line *)
(* of its request file apart; a servant finds the cities of its range,     *)
(* loads their files into arrays of fixed size, and counts the             *)
(* transactions of a request; the server looks the requested city up in    *)
(* the strings of city names the servants sent.                            *)
(*                                                                         *)
(* Transactions are told apart by the first three letters of their type,   *)
(* and a file stands for its date and those types, one for each line.      *)
(* Neither the files of a city nor the lines of a file are compared with   *)
(* the sizes of the arrays when they are stored: what a servant counts and *)
(* which names it sends after a store outside its array is left open here. *)
(***************************************************************************)
EXTENDS Integers, Sequences, FiniteSets, Functions, DateRange

CONSTANTS FILE_COUNT,         \* files in struct city
          TRANSACTION_COUNT,  \* transactions in struct file
          Dataset,     \* the names of the cities, in alphabetical order
          PartOf,      \* the cities whose name contains a given name
          Libraries,   \* what may lie in the directories: city -> set of files
          Ranges,      \* the arguments -c of the servants, in the order in
                       \* which they may register: a set of sequences
          Lines,       \* of the request file: [type, from, to, blanks, city]
          Missing,     \* a line names no city
          Empty,       \* the city name "empty"
          Blank        \* a city name of blanks only

CityNames == {Dataset[n] : n \in DOMAIN Dataset}

ASSUME DataAssumption ==
  /\ FILE_COUNT \in Nat \ {0}
  /\ TRANSACTION_COUNT \in Nat
  /\ Dataset \in Seq(CityNames)
  /\ \A m, n \in DOMAIN Dataset : m # n => Dataset[m] # Dataset[n]
  /\ PartOf \in [CityNames -> SUBSET CityNames]
  /\ \A c \in CityNames : c \in PartOf[c]
  /\ {Empty, Blank, Missing} \cap CityNames = {}
  /\ \A line \in Lines : line.blanks \in Nat \ {0} /\ {line.from, line.to} \subseteq Dates
  /\ \A lib \in Libraries, c \in CityNames :
       /\ IsFiniteSet(lib[c])
       /\ \A f \in lib[c] : /\ f.date \in Dates /\ Len(f.types) \in Nat
                            /\ DOMAIN f.types = 1 .. Len(f.types)
  /\ Ranges \subseteq Seq((Nat \ {0}) \X Nat)   \* -c counts the cities from 1

VARIABLES
  library,   \* the data set of this run
  request,   \* [type, from, to, city, blanks]: blanks in front of the name
  ranges,    \* -c of the servants in the order of their registration
  me,        \* the servant that loads and counts, an index of ranges
  cityArr,   \* its city names, last name first
  mem,       \* <<i, j>> -> the file in cityArr[i].fileArr[j]
  overrun,   \* a file or a line was stored outside its array
  unread,    \* directories that readdir() has not returned yet
  counter, left, ind,   \* the directory that is read: its index in cityArr,
                        \* its unread files and the next index in fileArr
  total, asked, phase

dataVars == <<library, request, ranges, me, cityArr, mem, overrun, unread,
              counter, left, ind, total, asked, phase>>
loadVars == <<mem, overrun, unread, counter, left, ind>>

NoFile == [date |-> <<0, 0, 0>>, types |-> <<>>]   \* fresh pages are zero

-----------------------------------------------------------------------------
\* Faulty: the end of the range is left out.
FaultyCitiesOf(range) ==
  [k \in 1 .. range[2] - range[1] |-> Dataset[range[2] - k]]

\* countCity and cityTraverser: entries 0 and 1 of the sorted directory are
\* "." and "..", so the entries start + 1 .. end + 1 are the cities start ..
\* end; they are visited from the last one down.
CitiesOf(range) ==
  LET first == range[1]
      last == IF range[2] < Len(Dataset) THEN range[2] ELSE Len(Dataset)
  IN  [k \in 1 .. (IF last < first THEN 0 ELSE last - first + 1)
         |-> Dataset[last - k + 1]]

\* The loop over transactionArr: the transactions of the request's type among
\* the first TRANSACTION_COUNT of a file; unused entries have no type.
Hits(file, type) ==
  Cardinality({k \in 1 .. TRANSACTION_COUNT :
                 k \in DOMAIN file.types /\ file.types[k] = type})

\* strtok() on a line: a blank ends the last date, and the rest up to the
\* end of the line is the city, further blanks included.
ParseRequest(line) ==
  [type |-> line.type, from |-> line.from, to |-> line.to,
   city |-> IF line.city # Missing THEN line.city
            ELSE IF line.blanks = 1 THEN Empty ELSE Blank,
   blanks |-> line.blanks - 1]

\* strstr(cities, cityName): each name in the string is followed by a blank.
\* A name with a blank in front must be the beginning of a name that is not
\* the first of the string (no name of the data set begins with another).
Found(names, req) ==
  IF req.city = Blank THEN names # <<>> /\ req.blanks = 1
  ELSE \E k \in DOMAIN names :
         \/ req.blanks = 0 /\ names[k] \in PartOf[req.city]
         \/ req.blanks = 1 /\ k > 1 /\ names[k] = req.city

\* The cities start .. finish of the data set.
Share(range) == {Dataset[n] : n \in {m \in DOMAIN Dataset : range[1] <= m /\ m <= range[2]}}

\* The files of a servant's cities fit into its arrays.
FitsIn(k) ==
  \A c \in Share(ranges[k]) :
    /\ Cardinality(library[c]) <= FILE_COUNT
    /\ \A f \in library[c] : Len(f.types) <= TRANSACTION_COUNT

DataInit ==
  /\ library \in Libraries
  /\ request \in {ParseRequest(line) : line \in Lines}
  /\ ranges \in Ranges
  /\ me \in DOMAIN ranges
  /\ cityArr = <<>> /\ mem = <<>> /\ overrun = FALSE
  /\ unread = CityNames
  /\ counter = 0 /\ left = {} /\ ind = 0
  /\ total = 0 /\ asked = 0
  /\ phase = "cities"

ListCities ==
  /\ phase = "cities"
  /\ cityArr' = CitiesOf(ranges[me])
  /\ mem' = [cell \in (DOMAIN cityArr') \X (1 .. FILE_COUNT) |-> NoFile]
  /\ phase' = "load"
  /\ UNCHANGED <<library, request, ranges, me, overrun, unread, counter, left,
                 ind, total, asked>>

\* readdir() in any order; a directory of another servant is passed over, and
\* so is one whose name in cityArr was overwritten.
NextDirectory(c) ==
  /\ phase = "load" /\ left = {}
  /\ c \in unread
  /\ unread' = unread \ {c}
  /\ \/ /\ \E i \in DOMAIN cityArr : cityArr[i] = c /\ counter' = i
        /\ left' = library[c]
        /\ ind' = 0
     \/ /\ overrun \/ \A i \in DOMAIN cityArr : cityArr[i] # c
        /\ UNCHANGED <<counter, left, ind>>
  /\ UNCHANGED <<library, request, ranges, me, cityArr, mem, overrun, total,
                 asked, phase>>

\* fileArr[ind] and transactionArr[tranInd]: neither index is compared with
\* the size.  The eleventh line of a file falls on the date of the file, later
\* ones on the files behind it; the eleventh file falls on the next city.
LoadFile(f) ==
  /\ phase = "load"
  /\ f \in left
  /\ left' = left \ {f}
  /\ ind' = ind + 1
  /\ IF ind < FILE_COUNT /\ Len(f.types) <= TRANSACTION_COUNT
       THEN mem' = [mem EXCEPT ![<<counter, ind + 1>>] = f] /\ UNCHANGED overrun
       ELSE overrun' = TRUE /\ UNCHANGED mem
  /\ UNCHANGED <<library, request, ranges, me, cityArr, unread, counter, total,
                 asked, phase>>

\* The stores outside the arrays may reach pages the process does not have.
Fault ==
  /\ phase = "load" /\ overrun
  /\ phase' = "killed"
  /\ UNCHANGED <<library, request, ranges, me, cityArr, loadVars, total, asked>>

\* The triple loop of the servant's thread: all its cities, whichever city
\* the request names.
Count ==
  /\ phase = "load"
  /\ unread = {} /\ left = {}
  /\ \/ /\ ~overrun
        /\ total' = SumFunction([cell \in DOMAIN mem |->
             IF checkCitTransactionExistance(mem[cell].date, request.from, request.to)
               THEN Hits(mem[cell], request.type) ELSE 0])
     \/ /\ overrun
        /\ total' \in 0 .. Cardinality(DOMAIN mem) * TRANSACTION_COUNT
  /\ phase' = "search"
  /\ UNCHANGED <<library, request, ranges, me, cityArr, loadVars, asked>>

\* The search of the server's worker: the last match wins, 0 is no match.  The
\* names that servants with an overrun sent may match or not.
Search ==
  /\ phase = "search" /\ request.city # Empty
  /\ \E garbled \in SUBSET {k \in DOMAIN ranges : ~FitsIn(k)} :
       LET at == garbled \cup
             {k \in DOMAIN ranges :
                FitsIn(k) /\ Found(CitiesOf(ranges[k]), request)}
       IN  asked' = IF at = {} THEN 0 ELSE CHOOSE k \in at : \A l \in at : l <= k
  /\ phase' = "done"
  /\ UNCHANGED <<library, request, ranges, me, cityArr, loadVars, total>>

DataNext ==
  \/ ListCities \/ Fault \/ Count \/ Search
  \/ \E c \in CityNames : NextDirectory(c)
  \/ \E f \in left : LoadFile(f)

DataSpec == DataInit /\ [][DataNext]_dataVars

-----------------------------------------------------------------------------
Wanted(f) == /\ AtMost(request.from, f.date) /\ AtMost(f.date, request.to)

\* The transactions of a type in a file, all its lines counted.
Transactions(f, type) == Cardinality({k \in DOMAIN f.types : f.types[k] = type})

\* A servant whose cities have at most FILE_COUNT files each, of at most
\* TRANSACTION_COUNT lines each, answers with the number of transactions of
\* the type in its cities within the dates, whatever the order in which
\* readdir() returns directories and files.
CountIsExact ==
  phase \in {"search", "done"} /\ FitsIn(me) =>
    total = SumFunction([c \in Share(ranges[me]) |->
              SumFunction([f \in library[c] |->
                IF Wanted(f) THEN Transactions(f, request.type) ELSE 0])])

\* Among servants whose files fit into their arrays, a city is looked up at
\* the servant that holds it, unless its name is part of the name of a city of
\* another servant, or the line has more than one blank in front of it: with
\* two the last name of each range is not found, with more none.
CityAtItsServant ==
  phase = "done" /\ (\A l \in DOMAIN ranges : FitsIn(l)) =>
    \A k \in DOMAIN ranges :
      /\ request.city \in Share(ranges[k])
      /\ \A l \in DOMAIN ranges \ {k} : PartOf[request.city] \cap Share(ranges[l]) = {}
      /\ \/ request.blanks = 0
         \/ request.blanks = 1 /\ request.city # CitiesOf(ranges[k])[1]
      => asked = k
=============================================================================
