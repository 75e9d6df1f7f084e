--------------------------- MODULE FileLock_proof ---------------------------
(***************************************************************************)
(* Proofs about the two programs that write a file under a record lock:    *)
(* CovarianceProcesses for any number of groups, any old contents of the   *)
(* output file and any SIGINT, and FileEditor for any number of editors,   *)
(* texts and command lines.                                                *)
(***************************************************************************)
EXTENDS CovarianceProcesses, FileEditor, FiniteSetTheorems, SequenceTheorems,
        WellFoundedInduction, TLAPS

-----------------------------------------------------------------------------
\* Induction over the data: a set of numbers has a least member; below it is
\* the set of those for which a statement fails.
LEMMA Least ==
  ASSUME NEW T, T \subseteq Nat, T # {}
  PROVE  \E k \in T : \A l \in T : k <= l
<1>1. PICK k \in T : \A l \in T : <<l, k>> \notin OpToRel(<, Nat)
  BY NatLessThanWellFounded, WFMin
<1>2. ASSUME NEW l \in T PROVE k <= l
  <2>1. /\ k \in Nat /\ l \in Nat
        /\ <<l, k>> \in Nat \X Nat /\ <<l, k>>[1] = l /\ <<l, k>>[2] = k
    OBVIOUS
  <2>2. ~ (l < k)
    BY <1>1, <2>1 DEF OpToRel
  <2> QED
    BY <2>1, <2>2
<1> QED
  BY <1>2

\* The recursive function of Tokens up to some place.
UpTo(g, text, n) ==
  g = [k \in 0 .. n |-> IF k = 0 THEN <<>>
                        ELSE IF text[k] = Newline THEN g[k - 1]
                        ELSE Append(g[k - 1], text[k])]

\* There is such a function, and Tokens takes its last value.
LEMMA TokensExist ==
  ASSUME NEW text \in Seq(Nat)
  PROVE  \E g : UpTo(g, text, Len(text)) /\ Tokens(text) = g[Len(text)]
<1>1. \A n \in Nat : \E g : UpTo(g, text, n)
  <2> DEFINE Bad == {n \in Nat : ~ \E g : UpTo(g, text, n)}
  <2>1. SUFFICES ASSUME Bad # {} PROVE FALSE
    OBVIOUS
  <2>2. PICK n \in Bad : \A m \in Bad : n <= m
    <3>1. Bad \subseteq Nat
      OBVIOUS
    <3> HIDE DEF Bad
    <3> QED
      BY <2>1, <3>1, Least
  <2>3. n # 0
    <3> DEFINE start == [k \in 0 .. 0 |-> <<>>]
    <3>1. UpTo(start, text, 0)
      BY DEF UpTo
    <3> QED
      BY <3>1
  <2>4. n - 1 \in Nat /\ n - 1 \notin Bad
    BY <2>2, <2>3
  <2>5. PICK g : UpTo(g, text, n - 1)
    BY <2>4
  <2> DEFINE last == IF text[n] = Newline THEN g[n - 1] ELSE Append(g[n - 1], text[n])
             h == [k \in 0 .. n |-> IF k < n THEN g[k] ELSE last]
  <2>6. UpTo(h, text, n)
    <3> SUFFICES ASSUME NEW k \in 0 .. n
                 PROVE  h[k] = IF k = 0 THEN <<>>
                               ELSE IF text[k] = Newline THEN h[k - 1]
                               ELSE Append(h[k - 1], text[k])
      BY DEF UpTo
    <3>1. CASE k = n
      BY <2>3, <2>4, <3>1
    <3>2. CASE k < n
      <4>1. k \in 0 .. n - 1 /\ h[k] = g[k] /\ (k # 0 => h[k - 1] = g[k - 1])
        BY <2>4, <3>2
      <4>2. g[k] = IF k = 0 THEN <<>>
                   ELSE IF text[k] = Newline THEN g[k - 1]
                   ELSE Append(g[k - 1], text[k])
        BY <2>5, <4>1 DEF UpTo
      <4> QED
        BY <4>1, <4>2
    <3> QED
      BY <3>1, <3>2
  <2> QED
    BY <2>6
<1> DEFINE f == CHOOSE g : UpTo(g, text, Len(text))
<1>2. UpTo(f, text, Len(text))
  BY <1>1
<1>3. Tokens(text) = f[Len(text)]
  BY DEF Tokens, UpTo
<1> QED
  BY <1>2, <1>3

\* The places up to n that hold x.
Places(s, n, x) == {i \in 1 .. n : s[i] = x}

\* One more place counts at most one more.
LEMMA CountMore ==
  ASSUME NEW s, NEW t, NEW n \in Nat, NEW x,
         \A i \in 1 .. n : t[i] = s[i]
  PROVE  /\ Cardinality(Places(s, n, x)) \in Nat
         /\ Cardinality(Places(t, n + 1, x)) =
              Cardinality(Places(s, n, x)) + (IF t[n + 1] = x THEN 1 ELSE 0)
<1> DEFINE Upto == Places(s, n, x)
           More == Places(t, n + 1, x)
<1>1. IsFiniteSet(1 .. n) /\ Upto \subseteq 1 .. n
  BY FS_Interval DEF Places
<1>2. IsFiniteSet(Upto)
  BY <1>1, FS_Subset
<1>3. Cardinality(Upto) \in Nat
  BY <1>2, FS_CardinalityType
<1>4. CASE t[n + 1] = x
  <2>1. More = Upto \cup {n + 1} /\ n + 1 \notin Upto
    BY <1>4 DEF Places
  <2> QED
    BY <1>2, <1>3, <1>4, <2>1, FS_AddElement
<1>5. CASE t[n + 1] # x
  <2>1. More = Upto
    BY <1>5 DEF Places
  <2> QED
    BY <1>3, <1>5, <2>1
<1> QED
  BY <1>4, <1>5

\* The tokens of a text are its members but for the newlines, each as often
\* as it is in the text.
LEMMA TokensCount ==
  ASSUME NEW text \in Seq(Nat)
  PROVE  /\ Tokens(text) \in Seq(Nat \ {Newline})
         /\ \A k \in DOMAIN Tokens(text) :
              \E i \in DOMAIN text : Tokens(text)[k] = text[i]
         /\ \A x \in Nat \ {Newline} : Count(Tokens(text), x) = Count(text, x)
<1>1. PICK g : UpTo(g, text, Len(text)) /\ Tokens(text) = g[Len(text)]
  BY TokensExist
<1> DEFINE
  Fine(k) ==
    /\ g[k] \in Seq(Nat \ {Newline})
    /\ \A l \in DOMAIN g[k] : \E i \in 1 .. k : g[k][l] = text[i]
    /\ \A x \in Nat \ {Newline} :
         Count(g[k], x) = Cardinality(Places(text, k, x))
  Bad == {k \in 0 .. Len(text) : ~ Fine(k)}
<1>2. Bad = {}
  <2>1. SUFFICES ASSUME Bad # {} PROVE FALSE
    OBVIOUS
  <2>2. PICK k \in Bad : \A l \in Bad : k <= l
    <3>1. Bad \subseteq Nat
      OBVIOUS
    <3> HIDE DEF Bad
    <3> QED
      BY <2>1, <3>1, Least
  <2>3. k \in 0 .. Len(text) /\ Len(text) \in Nat
    OBVIOUS
  <2>4. g[k] = IF k = 0 THEN <<>>
               ELSE IF text[k] = Newline THEN g[k - 1]
               ELSE Append(g[k - 1], text[k])
    BY <1>1, <2>3 DEF UpTo
  <2>5. k # 0
    <3> SUFFICES ASSUME k = 0 PROVE Fine(0)
      OBVIOUS
    <3>1. g[0] = <<>> /\ 1 .. 0 = {}
      BY <2>4
    <3>2. \A x : {i \in DOMAIN g[0] : g[0][i] = x} = Places(text, 0, x)
      BY <3>1 DEF Places
    <3>3. \A x : Count(g[0], x) = Cardinality(Places(text, 0, x))
      BY <3>2 DEF Count
    <3> QED
      BY <3>1, <3>3
  <2>6. Fine(k - 1) /\ k - 1 \in Nat /\ k \in 1 .. Len(text)
    <3>1. k - 1 \in 0 .. Len(text) /\ ~(k <= k - 1)
      BY <2>3, <2>5
    <3>2. k - 1 \notin Bad
      <4> HIDE DEF Bad
      <4> QED
        BY <2>2, <3>1
    <3> HIDE DEF Fine
    <3> QED
      BY <2>3, <2>5, <3>1, <3>2
  <2>7. \A x : Cardinality(Places(text, k, x)) =
                 Cardinality(Places(text, k - 1, x))
                   + (IF text[k] = x THEN 1 ELSE 0)
    <3> HIDE DEF Fine, Bad
    <3> TAKE x
    <3>1. k - 1 + 1 = k /\ \A i \in 1 .. k - 1 : text[i] = text[i]
      BY <2>3
    <3>2. Cardinality(Places(text, k - 1 + 1, x)) =
            Cardinality(Places(text, k - 1, x)) + (IF text[k - 1 + 1] = x THEN 1 ELSE 0)
      BY <2>6, <3>1, CountMore
    <3> QED
      BY <3>1, <3>2
  <2>8. CASE text[k] = Newline
    <3>1. g[k] = g[k - 1]
      BY <2>4, <2>5, <2>8
    <3>2. \A x \in Nat \ {Newline} :
            Cardinality(Places(text, k, x)) =
              Cardinality(Places(text, k - 1, x))
      <4> HIDE DEF Fine, Bad
      <4> TAKE x \in Nat \ {Newline}
      <4>1. Cardinality(Places(text, k - 1, x)) \in Nat
        BY <2>6, CountMore
      <4> QED
        BY <2>7, <2>8, <4>1
    <3>3. Fine(k)
      <4>1. \A l \in DOMAIN g[k] : \E i \in 1 .. k : g[k][l] = text[i]
        BY <2>3, <2>6, <3>1
      <4> QED
        BY <2>6, <3>1, <3>2, <4>1
    <3> QED
      BY <3>3
  <2>9. CASE text[k] # Newline
    <3> DEFINE s == g[k - 1]
    <3>1. g[k] = Append(s, text[k]) /\ s \in Seq(Nat \ {Newline})
          /\ text[k] \in Nat \ {Newline}
      BY <2>4, <2>5, <2>6, <2>9
    <3>2. /\ g[k] \in Seq(Nat \ {Newline}) /\ Len(s) \in Nat
          /\ DOMAIN g[k] = 1 .. Len(s) + 1 /\ DOMAIN s = 1 .. Len(s)
          /\ g[k][Len(s) + 1] = text[k] /\ \A i \in 1 .. Len(s) : g[k][i] = s[i]
      <4> HIDE DEF s
      <4> QED
        BY <3>1
    <3>3. \A l \in DOMAIN g[k] : \E i \in 1 .. k : g[k][l] = text[i]
      <4> SUFFICES ASSUME NEW l \in 1 .. Len(s) + 1
                   PROVE  \E i \in 1 .. k : g[k][l] = text[i]
        BY <3>2
      <4>1. CASE l = Len(s) + 1
        BY <2>6, <3>2, <4>1
      <4>2. CASE l # Len(s) + 1
        <5>1. l \in 1 .. Len(s) /\ l \in DOMAIN s
          <6> HIDE DEF Fine, Bad, s
          <6>1. Len(s) \in Nat /\ DOMAIN s = 1 .. Len(s)
            BY <3>2
          <6>2. l \in Int /\ 1 <= l /\ l <= Len(s) + 1 /\ l # Len(s) + 1
            BY <4>2, <6>1
          <6>3. l \in 1 .. Len(s)
            BY <6>1, <6>2
          <6> QED
            BY <6>1, <6>3
        <5>2. PICK i \in 1 .. k - 1 : s[l] = text[i]
          BY <2>6, <5>1
        <5>3. i \in 1 .. k /\ g[k][l] = text[i]
          <6> HIDE DEF Fine, Bad, s
          <6>1. g[k][l] = s[l]
            BY <3>2, <5>1
          <6>2. i \in 1 .. k
            BY <2>3, <5>2
          <6> QED
            BY <5>2, <6>1, <6>2
        <5> QED
          BY <5>3
      <4> QED
        BY <4>1, <4>2
    <3>4. ASSUME NEW x \in Nat \ {Newline}
          PROVE  Count(g[k], x) = Cardinality(Places(text, k, x))
      <4>1. Count(g[k], x) = Count(s, x) + (IF text[k] = x THEN 1 ELSE 0)
        <5> HIDE DEF s, Fine, Bad
        <5> DEFINE t == g[k]
                   n == Len(s)
        <5>0. n \in Nat /\ \A i \in 1 .. n : t[i] = s[i]
          BY <3>2
        <5> HIDE DEF t, n
        <5>1. Cardinality(Places(t, n + 1, x))
                = Cardinality(Places(s, n, x)) + (IF t[n + 1] = x THEN 1 ELSE 0)
          BY <5>0, CountMore, SMTT(60)
        <5> QED
          BY <3>2, <5>1 DEF t, n, Count, Places
      <4> QED
        BY <2>6, <2>7, <4>1
    <3>5. Fine(k)
      BY <3>2, <3>3, <3>4
    <3> QED
      BY <3>5
  <2> QED
    BY <2>8, <2>9
<1>3. Fine(Len(text))
  BY <1>2
<1>4. DOMAIN text = 1 .. Len(text)
  OBVIOUS
<1> QED
  BY <1>1, <1>3, <1>4 DEF Count, Places

-----------------------------------------------------------------------------
\* The order of the double loop: the pair (i, j) has the number (i - 1) * n + j.
LEMMA TimesLess ==
  ASSUME NEW n \in Nat, NEW a \in Nat, NEW b \in Nat, a < b
  PROVE  a * n + n <= b * n
<1>1. PICK c \in Nat : b = a + 1 + c
  <2>1. b - a - 1 \in Nat /\ b = a + 1 + (b - a - 1)
    OBVIOUS
  <2> QED
    BY <2>1
<1>2. b * n = a * n + n + c * n
  BY <1>1
<1>3. c * n \in Nat /\ a * n \in Nat
  OBVIOUS
<1> QED
  BY <1>2, <1>3

LEMMA OneNumber ==
  ASSUME NEW n \in Nat \ {0}, NEW a \in Nat, NEW b \in Nat,
         NEW c \in 1 .. n, NEW d \in 1 .. n, a * n + c = b * n + d
  PROVE  a = b /\ c = d
<1>0. a * n \in Nat /\ b * n \in Nat
  OBVIOUS
<1>1. ~(a < b)
  BY <1>0, TimesLess
<1>2. ~(b < a)
  BY <1>0, TimesLess
<1> QED
  BY <1>0, <1>1, <1>2

LEMMA NumberOf ==
  ASSUME NEW n \in Nat \ {0}, NEW k \in Nat, k < n * n
  PROVE  /\ k \div n \in 0 .. n - 1
         /\ k % n \in 0 .. n - 1
         /\ (k \div n) * n + (k % n) = k
<1>1. /\ k \div n \in Int /\ k % n \in 0 .. n - 1
      /\ (k \div n) * n + (k % n) = k
  OBVIOUS
<1>2. k \div n >= 0
  BY <1>1
<1>3. k \div n < n
  <2> DEFINE q == k \div n
             r == k % n
  <2>1. q \in Nat /\ r \in Nat /\ q * n + r = k /\ q * n \in Nat /\ n * n \in Nat
    BY <1>1, <1>2
  <2> HIDE DEF q, r
  <2>2. CASE n < q
    BY <2>1, <2>2, TimesLess
  <2>3. CASE n = q
    BY <2>1, <2>3
  <2> QED
    BY <2>1, <2>2, <2>3
<1> QED
  BY <1>1, <1>2, <1>3

\* The recursive function of Search up to some comparison.
Compared(g, n, m) ==
  g = [k \in 0 .. m |->
         IF k = 0 THEN <<0, 0, MIN>>
         ELSE Closer(g[k - 1], ((k - 1) \div n) + 1, ((k - 1) % n) + 1)]

\* There is such a function, and Search takes its last value.
LEMMA SearchExists ==
  ASSUME Search, Len(matrices) \in Nat
  PROVE  LET n == Len(matrices)
         IN  \E g : Compared(g, n, n * n) /\ closest' = g[n * n]
<1> DEFINE n == Len(matrices)
<1>0. n * n \in Nat
  OBVIOUS
<1>1. \A m \in Nat : \E g : Compared(g, n, m)
  <2> DEFINE Bad == {m \in Nat : ~ \E g : Compared(g, n, m)}
  <2>1. SUFFICES ASSUME Bad # {} PROVE FALSE
    OBVIOUS
  <2>2. PICK m \in Bad : \A l \in Bad : m <= l
    <3>1. Bad \subseteq Nat
      OBVIOUS
    <3> HIDE DEF Bad
    <3> QED
      BY <2>1, <3>1, Least
  <2>3. m # 0
    <3> DEFINE start == [k \in 0 .. 0 |-> <<0, 0, MIN>>]
    <3>1. Compared(start, n, 0)
      BY DEF Compared
    <3> QED
      BY <3>1
  <2>4. m - 1 \in Nat /\ m - 1 \notin Bad
    BY <2>2, <2>3
  <2>5. PICK g : Compared(g, n, m - 1)
    BY <2>4
  <2> DEFINE Step(f, k) ==
               IF k = 0 THEN <<0, 0, MIN>>
               ELSE Closer(f[k - 1], ((k - 1) \div n) + 1, ((k - 1) % n) + 1)
             last == Step(g, m)
             h == [k \in 0 .. m |-> IF k < m THEN g[k] ELSE last]
  <2>6. Compared(h, n, m)
    <3> SUFFICES ASSUME NEW k \in 0 .. m PROVE h[k] = Step(h, k)
      BY DEF Compared
    <3>1. h[k] = Step(g, k)
      <4>1. CASE k < m
        <5>1. k \in 0 .. m - 1 /\ h[k] = g[k]
          BY <2>4, <4>1
        <5> QED
          BY <2>5, <5>1 DEF Compared
      <4>2. CASE k = m
        <5> HIDE DEF last
        <5>1. h[k] = last
          BY <4>2
        <5> QED
          BY <4>2, <5>1 DEF last
      <4> QED
        BY <2>4, <4>1, <4>2
    <3>2. k # 0 => h[k - 1] = g[k - 1]
      <4> HIDE DEF last
      <4> QED
        BY <2>4
    <3> HIDE DEF h
    <3> QED
      BY <3>1, <3>2
  <2> QED
    BY <2>6
<1> DEFINE f == CHOOSE g : Compared(g, n, n * n)
<1>2. Compared(f, n, n * n)
  BY <1>0, <1>1
<1>3. closest' = f[n * n]
  BY DEF Search, Compared
<1> QED
  BY <1>2, <1>3

\* The distance of two matrices, as in ClosestIsClosest.
Apart(i, j) == LET d == Norm[matrices[i]] - Norm[matrices[j]]
               IN  IF d < 0 THEN -d ELSE d
Near(i, j) == i # j /\ Apart(i, j) <= MIN

\* The pairs among the first k comparisons.
Seen(n, k) == {p \in (1 .. n) \X (1 .. n) : (p[1] - 1) * n + p[2] <= k}

\* What the search keeps is the closest of a set of pairs.
BestOf(best, n, S) ==
  \/ best[3] = MIN /\ \A a, b \in 1 .. n : <<a, b>> \in S => ~Near(a, b)
  \/ /\ best[1] \in 1 .. n /\ best[2] \in 1 .. n
     /\ <<best[1], best[2]>> \in S /\ Near(best[1], best[2])
     /\ best[3] = Apart(best[1], best[2])
     /\ \A a, b \in 1 .. n :
          <<a, b>> \in S /\ Near(a, b) => best[3] <= Apart(a, b)

\* One more comparison keeps it.
LEMMA CloserKeeps ==
  ASSUME MIN \in Nat, NEW n \in Nat, n = Len(matrices),
         \A i \in 1 .. n : Norm[matrices[i]] \in Int,
         NEW best, NEW S, BestOf(best, n, S),
         NEW i \in 1 .. n, NEW j \in 1 .. n
  PROVE  BestOf(Closer(best, i, j), n, S \cup {<<i, j>>})
<1> DEFINE new == Closer(best, i, j)
           T == S \cup {<<i, j>>}
<1> SUFFICES BestOf(new, n, T)
  OBVIOUS
<1>1. \A a, b \in 1 .. n : Apart(a, b) \in Nat
  BY DEF Apart
<1>2. best[3] \in Int /\ best[3] <= MIN
  <2>1. CASE best[3] = MIN
    BY <2>1
  <2>2. CASE /\ best[1] \in 1 .. n /\ best[2] \in 1 .. n
             /\ Near(best[1], best[2]) /\ best[3] = Apart(best[1], best[2])
    <3>1. Apart(best[1], best[2]) \in Nat
      <4> HIDE DEF new, T
      <4> QED
        BY <1>1, <2>2, Zenon
    <3> QED
      BY <2>2, <3>1 DEF Near
  <2> QED
    BY <2>1, <2>2 DEF BestOf
<1>3. \A a, b \in 1 .. n : <<a, b>> \in T <=> <<a, b>> \in S \/ (a = i /\ b = j)
  OBVIOUS
<1>4. new = IF i # j /\ Apart(i, j) <= best[3] THEN <<i, j, Apart(i, j)>> ELSE best
  BY DEF Closer, Apart
<1>5. CASE i # j /\ Apart(i, j) <= best[3]
  <2>1. new[1] = i /\ new[2] = j /\ new[3] = Apart(i, j)
    BY <1>4, <1>5
  <2>2. Near(i, j) /\ <<i, j>> \in T /\ Apart(i, j) <= Apart(i, j)
    BY <1>1, <1>2, <1>5 DEF Near
  <2>3. ASSUME NEW a \in 1 .. n, NEW b \in 1 .. n, <<a, b>> \in S, Near(a, b)
        PROVE  Apart(i, j) <= Apart(a, b)
    <3>1. best[3] <= Apart(a, b)
      BY <2>3 DEF BestOf
    <3>2. Apart(a, b) \in Int /\ Apart(i, j) \in Int
      BY <1>1
    <3> QED
      BY <1>2, <1>5, <3>1, <3>2
  <2> HIDE DEF new, T
  <2>4. \A a, b \in 1 .. n : <<a, b>> \in T /\ Near(a, b) => new[3] <= Apart(a, b)
    BY <1>3, <2>1, <2>2, <2>3
  <2> QED
    BY <2>1, <2>2, <2>4 DEF BestOf
<1>6. CASE ~(i # j /\ Apart(i, j) <= best[3])
  <2>1. new = best
    BY <1>4, <1>6
  <2>2. Near(i, j) => best[3] # MIN /\ best[3] <= Apart(i, j)
    <3>1. Apart(i, j) \in Int
      BY <1>1
    <3> QED
      BY <1>2, <1>6, <3>1 DEF Near
  <2>3. \A a, b : <<a, b>> \in S => <<a, b>> \in T
    OBVIOUS
  <2> HIDE DEF new, T
  <2> QED
    BY <1>3, <2>1, <2>2, <2>3 DEF BestOf
<1> QED
  BY <1>5, <1>6

\* A comparison is one more pair.
LEMMA SeenNext ==
  ASSUME NEW n \in Nat \ {0}, NEW k \in Int,
         NEW i \in 1 .. n, NEW j \in 1 .. n, (i - 1) * n + j = k
  PROVE  Seen(n, k) = Seen(n, k - 1) \cup {<<i, j>>}
<1>1. ASSUME NEW a \in 1 .. n, NEW b \in 1 .. n
      PROVE  (a - 1) * n + b <= k
               <=> (a - 1) * n + b <= k - 1 \/ (a = i /\ b = j)
  <2> DEFINE row == a - 1
             above == i - 1
  <2>1. row \in Nat /\ above \in Nat /\ (row = above => a = i)
    OBVIOUS
  <2>2. above * n + j = k
    OBVIOUS
  <2> HIDE DEF row, above
  <2>3. PICK prior \in Int : prior = row * n
    BY <2>1
  <2>4. ASSUME prior + b = k PROVE row = above /\ b = j
    <3>1. row * n + b = above * n + j
      BY <2>2, <2>3, <2>4
    <3> QED
      BY <2>1, <3>1, OneNumber
  <2>5. prior + b <= k <=> prior + b <= k - 1 \/ prior + b = k
    OBVIOUS
  <2>6. a = i /\ b = j => prior + b = k
    BY <2>3 DEF row
  <2>7. prior + b <= k <=> prior + b <= k - 1 \/ (a = i /\ b = j)
    BY <2>1, <2>4, <2>5, <2>6
  <2> QED
    BY <2>3, <2>7 DEF row
<1> DEFINE D == (1 .. n) \X (1 .. n)
           Few(p) == (p[1] - 1) * n + p[2] <= k - 1
           More(p) == (p[1] - 1) * n + p[2] <= k
<1>2. ASSUME NEW p \in D PROVE More(p) <=> Few(p) \/ p = <<i, j>>
  <2>1. p[1] \in 1 .. n /\ p[2] \in 1 .. n /\ p = <<p[1], p[2]>>
    OBVIOUS
  <2>2. More(p) <=> Few(p) \/ (p[1] = i /\ p[2] = j)
    BY <1>1, <2>1
  <2> HIDE DEF More, Few
  <2> QED
    BY <2>1, <2>2
<1>3. <<i, j>> \in D
  OBVIOUS
<1> HIDE DEF D, Few, More
<1>4. {p \in D : More(p)} = {p \in D : Few(p)} \cup {<<i, j>>}
  BY <1>2, <1>3
<1> QED
  BY <1>4 DEF Seen, D, Few, More

\* The double loop meets every pair, so the last value is the closest of all.
LEMMA SearchFinds ==
  ASSUME MIN \in Nat, Search, NEW n \in Nat, n = Len(matrices),
         \A i \in 1 .. n : Norm[matrices[i]] \in Int
  PROVE  BestOf(closest', n, (1 .. n) \X (1 .. n))
<1>1. PICK g : Compared(g, n, n * n) /\ closest' = g[n * n]
  BY SearchExists
<1>2. n * n \in Nat
  OBVIOUS
<1> DEFINE Fine(k) == BestOf(g[k], n, Seen(n, k))
           Bad == {k \in 0 .. n * n : ~ Fine(k)}
<1>3. Bad = {}
  <2>1. SUFFICES ASSUME Bad # {} PROVE FALSE
    OBVIOUS
  <2>2. PICK k \in Bad : \A l \in Bad : k <= l
    <3>1. Bad \subseteq Nat
      BY <1>2
    <3> HIDE DEF Bad
    <3> QED
      BY <2>1, <3>1, Least
  <2>3. k \in 0 .. n * n
    OBVIOUS
  <2>4. g[k] = IF k = 0 THEN <<0, 0, MIN>>
               ELSE Closer(g[k - 1], ((k - 1) \div n) + 1, ((k - 1) % n) + 1)
    BY <1>1, <2>3 DEF Compared
  <2>5. k # 0
    <3> SUFFICES ASSUME k = 0 PROVE BestOf(g[0], n, Seen(n, 0))
      OBVIOUS
    <3>1. ASSUME NEW a \in 1 .. n, NEW b \in 1 .. n
          PROVE  ~((a - 1) * n + b <= 0)
      <4>1. a - 1 \in Nat /\ b > 0
        OBVIOUS
      <4>2. (a - 1) * n \in Nat
        BY <4>1
      <4> QED
        BY <4>1, <4>2
    <3>2. Seen(n, 0) = {}
      BY <3>1 DEF Seen
    <3> QED
      BY <2>4, <3>2 DEF BestOf
  <2>6. k - 1 \in 0 .. n * n /\ ~(k <= k - 1) /\ k - 1 < n * n /\ k - 1 \in Nat
    BY <1>2, <2>3, <2>5
  <2>7. Fine(k - 1)
    <3>1. k - 1 \notin Bad
      <4> HIDE DEF Bad
      <4> QED
        BY <2>2, <2>6
    <3> HIDE DEF Fine
    <3> QED
      BY <2>6, <3>1
  <2>8. n # 0
    BY <2>6
  <2> DEFINE i == ((k - 1) \div n) + 1
             j == ((k - 1) % n) + 1
  <2>9. i \in 1 .. n /\ j \in 1 .. n /\ (i - 1) * n + j = k
    <3>1. n \in Nat \ {0}
      BY <2>8
    <3>2. /\ (k - 1) \div n \in 0 .. n - 1 /\ (k - 1) % n \in 0 .. n - 1
          /\ ((k - 1) \div n) * n + ((k - 1) % n) = k - 1
      BY <2>6, <3>1, NumberOf
    <3> QED
      BY <2>3, <3>2
  <2> HIDE DEF i, j
  <2>10. Seen(n, k) = Seen(n, k - 1) \cup {<<i, j>>}
    BY <2>3, <2>8, <2>9, SeenNext
  <2>11. Fine(k)
    <3>1. g[k] = Closer(g[k - 1], i, j)
      BY <2>4, <2>5 DEF i, j
    <3> QED
      BY <2>7, <2>9, <2>10, <3>1, CloserKeeps
  <2> HIDE DEF Fine
  <2> QED
    BY <2>11
<1>4. Fine(n * n)
  <2> HIDE DEF Fine
  <2> QED
    BY <1>2, <1>3
<1>5. Seen(n, n * n) = (1 .. n) \X (1 .. n)
  <2>1. ASSUME NEW a \in 1 .. n, NEW b \in 1 .. n
        PROVE  (a - 1) * n + b <= n * n
    <3>1. a - 1 \in Nat /\ a - 1 < n /\ b <= n
      OBVIOUS
    <3>2. (a - 1) * n + n <= n * n /\ (a - 1) * n \in Nat
      BY <3>1, TimesLess
    <3> QED
      BY <1>2, <3>1, <3>2
  <2> QED
    BY <2>1 DEF Seen
<1> QED
  BY <1>1, <1>4, <1>5

-----------------------------------------------------------------------------
\* The inductive invariant.
Writing == {"line", "newline", "unlock"}
Started == {"compute", "lock"} \cup Writing
AsChild == {"exec", "seek"} \cup Started
OfParent == {"read", "kill", "wait", "search"}
Labels == {"none", "read", "kill", "wait", "search", "exec", "seek", "compute",
           "lock", "line", "newline", "unlock", "success", "notRun", "failure"}

TypeOK ==
  /\ pc \in [Processes -> Labels]
  /\ \A c \in Children : pc[c] \notin OfParent
  /\ pc[Parent] # "none"
  /\ forked \in 0 .. N
  /\ file \in Seq(Nat) /\ offset \in Nat
  /\ lock \in Processes \cup {NoLock}
  /\ caught \in SUBSET Processes
  /\ told \in Nat

\* Who writes has the lock.
Exclusive == \A p \in Processes : pc[p] \in Writing <=> lock = p

\* Groups are forked in turn; one that has no process of its own is the last,
\* and the parent computes it.
GroupsInTurn ==
  /\ \A c \in Children : forked < c => pc[c] = "none"
  /\ \A c \in Children : pc[c] = "none" /\ c <= forked =>
       c = forked /\ pc[Parent] \notin OfParent
  /\ pc[Parent] \in AsChild => forked > 0 /\ pc[forked] = "none"

\* From its seek to its end a process finds the shared offset at the end of
\* the file, because whoever moves it puts it there.
AtEnd == \A p \in Processes : pc[p] \in Started => offset = Len(file)

\* The last token of the file is the line of the process between its writes.
LastIsOpen ==
  \A p \in Processes : pc[p] = "newline" =>
    file # <<>> /\ file[Len(file)] = Group(p)

IInv == /\ TypeOK /\ Exclusive /\ GroupsInTurn /\ AtEnd /\ LastIsOpen
        /\ LinesIntact

USE GroupsAssumption
    DEF Writing, Started, AsChild, OfParent, Labels, Parent, Children,
        Processes, NoLock, Newline, fileVars, resultVars

\* The strengthened invariant holds at the start.
LEMMA Initially == Init => IInv
<1> SUFFICES ASSUME Init PROVE IInv
  OBVIOUS
<1> USE CovarianceAssumption DEF Init
<1>1. TypeOK
  BY DEF TypeOK
<1>2. Exclusive /\ GroupsInTurn /\ AtEnd /\ LastIsOpen
  BY DEF Exclusive, GroupsInTurn, AtEnd, LastIsOpen
<1>3. LinesIntact
  BY DEF LinesIntact
<1> QED
  BY <1>1, <1>2, <1>3 DEF IInv

\* write() at the end of the file appends.
LEMMA WriteAppends ==
  ASSUME TypeOK, AtEnd, NEW p \in Processes, pc[p] \in Started,
         NEW token \in Nat, Write(token)
  PROVE  file' = Append(file, token) /\ offset' = offset + 1
  BY DEF TypeOK, AtEnd, Write

\* The steps with which SIGINT arrives, and the last step of passing it on.
Signal == Interrupt \/ (PassOn /\ told < forked)
PassedOn == PassOn /\ ~(told < forked)

LEMMA NextSteps ==
  ASSUME [Next]_vars
  PROVE  \/ \E p \in Processes : Child(p)
         \/ Fork \/ EndOfInput \/ PassedOn \/ Collect \/ Search \/ Signal
         \/ UNCHANGED vars
  BY DEF Next, Signal, PassedOn

\* SIGINT ends only processes that have not got the lock yet.
LEMMA SignalSteps ==
  ASSUME TypeOK, Signal
  PROVE  /\ UNCHANGED <<forked, file, offset, lock, matrices, closest>>
         /\ told' \in Nat
         /\ caught' \in SUBSET Processes /\ caught \subseteq caught'
         /\ pc' \in [Processes -> Labels]
         /\ \A p \in Processes :
              \/ pc'[p] = pc[p]
              \/ pc[p] \in {"exec", "lock"} /\ pc'[p] = "failure"
<1> USE DEF TypeOK
<1> DEFINE alive(to) == {p \in to : pc[p] # "none" /\ ~Ended(p)}
           between(to) == {p \in alive(to) : pc[p] = "exec"}
           waiting(to) == {p \in alive(to) : pc[p] = "lock" /\ lock # NoLock}
<1>0. PICK to \in SUBSET Processes : Arrives(to)
  <2>1. CASE Interrupt
    BY <2>1, CovarianceAssumption DEF Interrupt
  <2>2. CASE PassOn /\ told < forked
    <3>1. Arrives({told + 1}) /\ {told + 1} \in SUBSET Processes
      BY <2>2 DEF PassOn
    <3> QED
      BY <3>1
  <2> QED
    BY <2>1, <2>2 DEF Signal
<1>1. /\ caught' = caught \cup (alive(to) \ between(to))
      /\ \E killed \in SUBSET (between(to) \cup waiting(to)) :
           pc' = [p \in Processes |-> IF p \in killed THEN "failure" ELSE pc[p]]
  BY <1>0 DEF Arrives
<1>8. UNCHANGED <<forked, file, offset, lock, matrices, closest>> /\ told' \in Nat
  BY DEF Signal, Interrupt, PassOn
<1>2. to \subseteq Processes
  BY <1>0
<1>3. PICK killed \in SUBSET (between(to) \cup waiting(to)) :
        pc' = [p \in Processes |-> IF p \in killed THEN "failure" ELSE pc[p]]
  BY <1>1
<1>4. \A p \in Processes : pc'[p] = IF p \in killed THEN "failure" ELSE pc[p]
  BY <1>3
<1>5. \A p \in killed : pc[p] \in {"exec", "lock"}
  OBVIOUS
<1>6. \A p \in Processes : pc'[p] \in Labels
  BY <1>4
<1>7. pc' \in [Processes -> Labels]
  BY <1>3, <1>6
<1> QED
  BY <1>1, <1>2, <1>4, <1>5, <1>7, <1>8

\* The parent that has told all its children leaves.
LEMMA PassedOnSteps ==
  ASSUME TypeOK, PassedOn
  PROVE  /\ UNCHANGED <<forked, file, offset, caught, told, matrices, closest>>
         /\ pc[Parent] = "kill" /\ pc' = [pc EXCEPT ![Parent] = "failure"]
         /\ lock' = IF lock = Parent THEN NoLock ELSE lock
  BY DEF PassedOn, PassOn, Exit, Jump

\* A process that computes a group goes its way to the end.
LEMMA ChildSteps ==
  ASSUME TypeOK, NEW p \in Processes, Child(p)
  PROVE  /\ forked' = forked /\ caught' = caught /\ told' = told
         /\ lock' \in Processes \cup {NoLock}
         /\ pc[p] \in AsChild
         /\ \E label \in AsChild \cup {"success", "notRun", "failure"} :
              pc' = [pc EXCEPT ![p] = label]
<1> USE DEF TypeOK, Jump, Exit
<1>1. CASE Exec(p)
  BY <1>1 DEF Exec
<1>2. CASE Seek(p)
  BY <1>2 DEF Seek
<1>3. CASE Compute(p)
  BY <1>3 DEF Compute
<1>4. CASE Lock(p)
  BY <1>4 DEF Lock
<1>5. CASE WriteLine(p)
  BY <1>5 DEF WriteLine
<1>6. CASE WriteNewline(p)
  BY <1>6 DEF WriteNewline
<1>7. CASE Unlock(p)
  BY <1>7 DEF Unlock
<1> QED
  BY <1>1, <1>2, <1>3, <1>4, <1>5, <1>6, <1>7 DEF Child

\* What happens to the file: nothing, or a process appends a token to it.
LEMMA FileSteps ==
  ASSUME TypeOK, AtEnd, NEW p \in Processes, Child(p)
  PROVE  \/ file' = file /\ offset' \in {offset, Len(file)}
         \/ \E token \in {Group(p), Newline} :
              file' = Append(file, token) /\ offset' = offset + 1
<1>1. CASE Exec(p) \/ Seek(p) \/ Compute(p) \/ Lock(p) \/ Unlock(p)
  BY <1>1 DEF Exec, Seek, Compute, Lock, Unlock
<1>2. CASE WriteLine(p)
  <2>1. Group(p) \in Nat
    BY DEF Group, TypeOK
  <2> QED
    BY <1>2, <2>1, WriteAppends DEF WriteLine
<1>3. CASE WriteNewline(p)
  BY <1>3, WriteAppends DEF WriteNewline
<1> QED
  BY <1>1, <1>2, <1>3 DEF Child

\* Every step keeps the types.
LEMMA TypeStep == TypeOK /\ AtEnd /\ [Next]_vars => TypeOK'
<1> SUFFICES ASSUME TypeOK, AtEnd, [Next]_vars PROVE TypeOK'
  OBVIOUS
<1> USE DEF TypeOK, Jump, Exit
<1>1. ASSUME NEW p \in Processes, Child(p) PROVE TypeOK'
  <2>1. CASE file' = file /\ offset' \in {offset, Len(file)}
    <3>1. file' \in Seq(Nat) /\ offset' \in Nat
      BY <2>1
    <3> QED
      BY <1>1, <3>1, ChildSteps
  <2>2. CASE \E token \in {Group(p), Newline} :
               file' = Append(file, token) /\ offset' = offset + 1
    <3>1. file' \in Seq(Nat) /\ offset' \in Nat
      BY <2>2 DEF Group
    <3> QED
      BY <1>1, <3>1, ChildSteps
  <2> QED
    BY <1>1, <2>1, <2>2, FileSteps
<1>2. CASE Fork
  <2>1. forked < N
    BY <1>2 DEF Fork
  <2>2. pc[Parent] = "read" /\ forked + 1 # Parent
    BY <1>2 DEF Fork
  <2>3. \/ pc' = [pc EXCEPT ![Parent] = "failure"] /\ forked' = forked
        \/ pc' = [pc EXCEPT ![forked + 1] = "exec"] /\ forked' = forked + 1
        \/ pc' = [pc EXCEPT ![Parent] = "exec"] /\ forked' = forked + 1
    BY <1>2 DEF Fork
  <2>4. /\ lock' \in Processes \cup {NoLock} /\ caught' = caught
        /\ UNCHANGED <<file, offset, told>>
    BY <1>2 DEF Fork
  <2>5. CASE pc' = [pc EXCEPT ![forked + 1] = "exec"] /\ forked' = forked + 1
    BY <2>1, <2>2, <2>4, <2>5
  <2> QED
    BY <2>1, <2>2, <2>3, <2>4, <2>5, SMTT(30)
<1>3. CASE EndOfInput
  BY <1>3 DEF EndOfInput
<1>4. CASE Collect \/ Search
  <2>1. /\ UNCHANGED <<forked, file, offset, caught, told>>
        /\ lock' \in {lock, NoLock}
        /\ pc' \in {[pc EXCEPT ![Parent] = "search"], [pc EXCEPT ![Parent] = "success"]}
    BY <1>4 DEF Collect, Search
  <2> QED
    BY <2>1
<1>5. CASE Signal
  <2>1. /\ UNCHANGED <<forked, file, offset, lock>>
        /\ told' \in Nat /\ caught' \in SUBSET Processes
        /\ pc' \in [Processes -> Labels]
        /\ \A p \in Processes :
              pc'[p] = pc[p] \/ (pc[p] \in {"exec", "lock"} /\ pc'[p] = "failure")
    BY <1>5, SignalSteps
  <2> QED
    BY <2>1, SMTT(30)
<1>6. CASE UNCHANGED vars
  BY <1>6 DEF vars
<1>7. CASE PassedOn
  <2>1. /\ UNCHANGED <<forked, file, offset, caught, told>>
        /\ lock' \in {lock, NoLock}
        /\ pc' = [pc EXCEPT ![Parent] = "failure"]
    BY <1>7, PassedOnSteps
  <2> QED
    BY <2>1
<1> HIDE DEF TypeOK
<1> QED
  BY <1>1, <1>2, <1>3, <1>4, <1>5, <1>6, <1>7, NextSteps

\* ... the lock to one process that writes,
LEMMA ExclusiveStep == TypeOK /\ GroupsInTurn /\ Exclusive /\ [Next]_vars => Exclusive'
<1> SUFFICES ASSUME TypeOK, GroupsInTurn, Exclusive, [Next]_vars
             PROVE  Exclusive'
  OBVIOUS
<1> USE DEF TypeOK, Jump, Exit, Exclusive
<1>1. ASSUME NEW p \in Processes, Exec(p) \/ Seek(p) \/ Compute(p) \/ Lock(p)
      PROVE  Exclusive'
  BY <1>1, SMTT(30) DEF Exec, Seek, Compute, Lock
<1>2. ASSUME NEW p \in Processes, WriteLine(p) \/ WriteNewline(p) \/ Unlock(p)
      PROVE  Exclusive'
  BY <1>2, SMTT(30) DEF WriteLine, WriteNewline, Unlock
<1>3. CASE Fork
  <2>1. pc[Parent] = "read"
    BY <1>3 DEF Fork
  <2> QED
    BY <1>3, <2>1, SMTT(30) DEF Fork, GroupsInTurn
<1>4. CASE EndOfInput \/ Collect \/ Search
  BY <1>4 DEF EndOfInput, Collect, Search
<1>5. CASE Signal
  BY <1>5, SignalSteps
<1>6. CASE UNCHANGED vars
  BY <1>6 DEF vars
<1>7. CASE PassedOn
  BY <1>7, PassedOnSteps
<1> QED
  BY <1>1, <1>2, <1>3, <1>4, <1>5, <1>6, <1>7, NextSteps DEF Child

\* ... the order of the groups,
LEMMA GroupsStep == TypeOK /\ GroupsInTurn /\ [Next]_vars => GroupsInTurn'
<1> SUFFICES ASSUME TypeOK, GroupsInTurn, [Next]_vars
             PROVE  GroupsInTurn'
  OBVIOUS
<1> USE DEF TypeOK, Jump, Exit, GroupsInTurn
<1>1. ASSUME NEW p \in Processes, Child(p) PROVE GroupsInTurn'
  <2>1. PICK label \in AsChild \cup {"success", "notRun", "failure"} :
          pc' = [pc EXCEPT ![p] = label]
    BY <1>1, ChildSteps
  <2>2. forked' = forked /\ pc[p] \in AsChild
    BY <1>1, ChildSteps
  <2>3. pc[p] \notin {"none", "read", "kill", "wait", "search"}
    BY <2>2
  <2>4. \A q \in Processes : pc'[q] = IF q = p THEN label ELSE pc[q]
    BY <2>1
  <2>5. label \notin {"none", "read", "kill", "wait", "search"}
    BY <2>1
  <2>6. \A c \in Children : forked' < c => pc'[c] = "none"
    BY <2>2, <2>3, <2>4
  <2>7. \A c \in Children : pc'[c] = "none" /\ c <= forked' =>
          c = forked' /\ pc'[Parent] \notin OfParent
    BY <2>2, <2>3, <2>4, <2>5
  <2>8. pc'[Parent] \in AsChild => forked' > 0 /\ pc'[forked'] = "none"
    BY <2>2, <2>3, <2>4
  <2> QED
    BY <2>6, <2>7, <2>8
<1>2. CASE Fork
  <2>1. pc[Parent] = "read" /\ forked < N
    BY <1>2 DEF Fork
  <2>2. \A c \in Children : c <= forked => pc[c] # "none"
    BY <2>1
  <2>3. CASE pc' = [pc EXCEPT ![Parent] = "failure"] /\ forked' = forked
    BY <2>1, <2>2, <2>3
  <2>4. CASE pc' = [pc EXCEPT ![forked + 1] = "exec"] /\ forked' = forked + 1
    BY <2>1, <2>2, <2>4
  <2>5. CASE pc' = [pc EXCEPT ![Parent] = "exec"] /\ forked' = forked + 1
    BY <2>1, <2>2, <2>5
  <2> QED
    BY <1>2, <2>1, <2>3, <2>4, <2>5 DEF Fork
<1>3. CASE EndOfInput \/ Collect \/ Search
  <2>1. CASE EndOfInput
    BY <2>1 DEF EndOfInput
  <2>2. CASE Collect
    BY <2>2 DEF Collect
  <2>3. CASE Search
    BY <2>3 DEF Search
  <2> QED
    BY <1>3, <2>1, <2>2, <2>3
<1>4. CASE Signal
  BY <1>4, SignalSteps, SMTT(30)
<1>5. CASE UNCHANGED vars
  BY <1>5 DEF vars
<1>6. CASE PassedOn
  BY <1>6, PassedOnSteps
<1> QED
  BY <1>1, <1>2, <1>3, <1>4, <1>5, <1>6 DEF Next, Signal, PassedOn

\* ... the offset at the end of the file,
LEMMA AtEndStep == TypeOK /\ Exclusive /\ AtEnd /\ [Next]_vars => AtEnd'
<1> SUFFICES ASSUME TypeOK, Exclusive, AtEnd, [Next]_vars PROVE AtEnd'
  OBVIOUS
<1> USE DEF TypeOK, Jump, Exit, AtEnd
<1>1. ASSUME NEW p \in Processes, Exec(p) \/ Seek(p) \/ Compute(p) \/ Lock(p)
      PROVE  AtEnd'
  BY <1>1 DEF Exec, Seek, Compute, Lock
<1>2. ASSUME NEW p \in Processes, WriteLine(p) \/ WriteNewline(p)
      PROVE  AtEnd'
  <2>1. Child(p) /\ offset = Len(file)
    BY <1>2 DEF WriteLine, WriteNewline, Child
  <2>2. offset' = Len(file)'
    BY <2>1, FileSteps DEF Group
  <2> QED
    BY <2>2
<1>3. ASSUME NEW p \in Processes, Unlock(p) PROVE AtEnd'
  BY <1>3 DEF Unlock
<1>4. CASE Fork \/ EndOfInput \/ Collect \/ Search
  BY <1>4 DEF Fork, EndOfInput, Collect, Search
<1>5. CASE Signal
  BY <1>5, SignalSteps
<1>6. CASE UNCHANGED vars
  BY <1>6 DEF vars
<1>7. CASE PassedOn
  BY <1>7, PassedOnSteps
<1> QED
  BY <1>1, <1>2, <1>3, <1>4, <1>5, <1>6, <1>7, NextSteps DEF Child

\* ... the open line the last,
LEMMA OpenStep == IInv /\ [Next]_vars => LastIsOpen'
<1> SUFFICES ASSUME TypeOK, Exclusive, GroupsInTurn, AtEnd, LastIsOpen, [Next]_vars
             PROVE  LastIsOpen'
  BY DEF IInv
<1> USE DEF LastIsOpen, Group
<1>1. ASSUME NEW p \in Processes, Exec(p) \/ Seek(p) \/ Compute(p) \/ Lock(p)
      PROVE  LastIsOpen'
  BY <1>1 DEF Exec, Seek, Compute, Lock, TypeOK, Jump, Exit
<1>2. ASSUME NEW p \in Processes, WriteLine(p) PROVE LastIsOpen'
  <2>1. file' = Append(file, Group(p))
    <3>1. Group(p) \in Nat /\ pc[p] \in Started /\ Write(Group(p))
      BY <1>2 DEF WriteLine, TypeOK
    <3> QED
      BY <3>1, WriteAppends
  <2>2. \A q \in Processes : pc'[q] = "newline" => q = p
    BY <1>2 DEF WriteLine, TypeOK, Exclusive, Jump
  <2> QED
    BY <1>2, <2>1, <2>2 DEF WriteLine, TypeOK
<1>3. ASSUME NEW p \in Processes, WriteNewline(p) \/ Unlock(p)
      PROVE  LastIsOpen'
  <2>1. \A q \in Processes : pc'[q] # "newline"
    BY <1>3 DEF WriteNewline, Unlock, TypeOK, Exclusive, Jump, Exit
  <2> QED
    BY <2>1
<1>4. CASE Fork
  BY <1>4 DEF Fork, TypeOK, GroupsInTurn, Jump, Exit
<1>5. CASE EndOfInput \/ Collect \/ Search
  BY <1>5 DEF EndOfInput, Collect, Search, TypeOK, Jump, Exit
<1>6. CASE Signal
  BY <1>6, SignalSteps
<1>7. CASE UNCHANGED vars
  BY <1>7 DEF vars
<1>8. CASE PassedOn
  BY <1>8, PassedOnSteps DEF TypeOK
<1> QED
  BY <1>1, <1>2, <1>3, <1>4, <1>5, <1>6, <1>7, <1>8 DEF Next, Child, Signal, PassedOn

\* A step that leaves the file alone, and the processes that are between their
\* writes, have failed or were never started.
LEMMA LinesStay ==
  ASSUME TypeOK, LinesIntact, file' = file, forked' = forked,
         caught \subseteq caught',
         \A p \in Processes : pc[p] \in {"none", "newline", "failure"} =>
                                pc'[p] = pc[p]
  PROVE  LinesIntact'
<1> SUFFICES ASSUME NEW i \in DOMAIN file, file[i] \in Children,
                    ~(i < Len(file) /\ file[i + 1] = Newline)
             PROVE  (\E p \in Processes :
                       /\ Computes(p) /\ Group(p) = file[i]
                       /\ \/ pc[p] = "newline" /\ i = Len(file)
                          \/ pc[p] = "failure" /\ p \in caught)'
  BY DEF LinesIntact
<1>1. PICK p \in Processes :
        /\ Computes(p) /\ Group(p) = file[i]
        /\ \/ pc[p] = "newline" /\ i = Len(file)
           \/ pc[p] = "failure" /\ p \in caught
  BY DEF LinesIntact
<1>2. Computes(p)' /\ Group(p)' = file'[i]
  BY <1>1 DEF Computes, Group, TypeOK
<1> QED
  BY <1>1, <1>2

\* ... and the lines in one piece.
LEMMA LinesStep == IInv /\ [Next]_vars => LinesIntact'
<1> SUFFICES ASSUME TypeOK, Exclusive, GroupsInTurn, AtEnd, LastIsOpen,
                    LinesIntact, [Next]_vars
             PROVE  LinesIntact'
  BY DEF IInv
<1> DEFINE Excused(p, i) ==
             /\ Computes(p) /\ Group(p) = file[i]
             /\ \/ pc[p] = "newline" /\ i = Len(file)
                \/ pc[p] = "failure" /\ p \in caught
           Closed(i) == i < Len(file) /\ file[i + 1] = Newline
<1>0. /\ LinesIntact <=> \A i \in DOMAIN file : file[i] \in Children =>
                           Closed(i) \/ \E p \in Processes : Excused(p, i)
      /\ LinesIntact' <=> \A i \in DOMAIN file' : file'[i] \in Children =>
                            Closed(i)' \/ \E p \in Processes : Excused(p, i)'
  BY DEF LinesIntact
<1>1. ASSUME NEW p \in Processes,
             Exec(p) \/ Seek(p) \/ Compute(p) \/ Lock(p) \/ Unlock(p)
      PROVE  LinesIntact'
  <2>1. /\ file' = file /\ forked' = forked /\ caught' = caught
        /\ \A q \in Processes : pc[q] \in {"none", "newline", "failure"} =>
                                  pc'[q] = pc[q]
    BY <1>1 DEF Exec, Seek, Compute, Lock, Unlock, TypeOK, Jump, Exit
  <2> QED
    BY <2>1, LinesStay
<1>2. ASSUME NEW p \in Processes, WriteLine(p) PROVE LinesIntact'
  <2>1. file' = Append(file, Group(p)) /\ Group(p) \in Nat
    <3>1. Group(p) \in Nat /\ pc[p] \in Started /\ Write(Group(p))
      BY <1>2 DEF WriteLine, TypeOK, Group
    <3> QED
      BY <3>1, WriteAppends
  <2>2. /\ pc' = [pc EXCEPT ![p] = "newline"] /\ pc[p] = "line"
        /\ forked' = forked /\ caught' = caught
    BY <1>2 DEF WriteLine, Jump
  <2>3. \A q \in Processes : pc[q] # "newline"
    BY <2>2 DEF Exclusive
  <2>4. \A q \in Processes : Group(q)' = Group(q) /\ (Computes(q) => Computes(q)')
    BY <2>2 DEF Group, Computes, TypeOK
  <2>5. Computes(p)
    BY <2>2 DEF Computes, GroupsInTurn
  <2> SUFFICES ASSUME NEW i \in DOMAIN file', file'[i] \in Children
               PROVE  Closed(i)' \/ \E q \in Processes : Excused(q, i)'
    BY <1>0
  <2>6. CASE i = Len(file')
    <3>1. Excused(p, i)'
      BY <2>1, <2>2, <2>4, <2>5, <2>6 DEF TypeOK
    <3> QED
      BY <3>1
  <2>7. CASE i # Len(file')
    <3>1. i \in DOMAIN file /\ file'[i] = file[i] /\ (Closed(i) => Closed(i)')
      BY <2>1, <2>7 DEF TypeOK
    <3>2. ASSUME NEW q \in Processes, Excused(q, i) PROVE Excused(q, i)'
      BY <2>2, <2>3, <2>4, <3>1, <3>2 DEF TypeOK
    <3> QED
      BY <1>0, <3>1, <3>2
  <2> QED
    BY <2>6, <2>7
<1>3. ASSUME NEW p \in Processes, WriteNewline(p), p \in caught
      PROVE  LinesIntact'
  <2>1. /\ pc' = [pc EXCEPT ![p] = "failure"] /\ pc[p] = "newline"
        /\ UNCHANGED <<forked, caught, file>>
    BY <1>3 DEF WriteNewline, Jump, Exit
  <2>2. \A q \in Processes : Group(q)' = Group(q) /\ (Computes(q) => Computes(q)')
    BY <2>1 DEF Group, Computes, TypeOK
  <2>3. ASSUME NEW i \in DOMAIN file, NEW q \in Processes, Excused(q, i)
        PROVE  Excused(q, i)'
    BY <1>3, <2>1, <2>2, <2>3 DEF TypeOK
  <2> QED
    BY <1>0, <2>1, <2>3
<1>4. ASSUME NEW p \in Processes, WriteNewline(p), p \notin caught
      PROVE  LinesIntact'
  <2>1. file' = Append(file, Newline)
    BY <1>4, WriteAppends DEF WriteNewline
  <2>2. /\ pc' = [pc EXCEPT ![p] = "unlock"] /\ pc[p] = "newline"
        /\ forked' = forked /\ caught' = caught
    BY <1>4 DEF WriteNewline, Jump
  <2>3. \A q \in Processes : Group(q)' = Group(q) /\ (Computes(q) => Computes(q)')
    BY <2>2 DEF Group, Computes, TypeOK
  <2> SUFFICES ASSUME NEW i \in DOMAIN file', file'[i] \in Children
               PROVE  Closed(i)' \/ \E q \in Processes : Excused(q, i)'
    BY <1>0
  <2>4. i \in DOMAIN file /\ file'[i] = file[i]
    BY <2>1 DEF TypeOK
  <2>5. CASE i = Len(file)
    BY <2>1, <2>4, <2>5 DEF TypeOK
  <2>6. CASE i # Len(file)
    <3>1. Closed(i) => Closed(i)'
      BY <2>1, <2>4, <2>6 DEF TypeOK
    <3>2. ASSUME NEW q \in Processes, Excused(q, i) PROVE Excused(q, i)'
      BY <2>2, <2>3, <2>4, <2>6, <3>2 DEF TypeOK
    <3> QED
      BY <1>0, <2>4, <3>1, <3>2
  <2> QED
    BY <2>5, <2>6
<1>5. CASE Fork
  <2>1. CASE Parent \in caught
    <3>1. /\ file' = file /\ forked' = forked /\ caught' = caught
          /\ \A q \in Processes : pc[q] \in {"none", "newline", "failure"} =>
                                    pc'[q] = pc[q]
      BY <1>5, <2>1 DEF Fork, TypeOK, Jump, Exit
    <3> QED
      BY <3>1, LinesStay
  <2>2. CASE Parent \notin caught
    <3>1. /\ file' = file /\ forked' = forked + 1 /\ caught' = caught
          /\ pc[Parent] = "read" /\ forked + 1 \in Children
      BY <1>5, <2>2 DEF Fork, TypeOK
    <3>2. \A q \in Children \ {forked + 1} : pc'[q] = pc[q]
      BY <1>5, <2>2, <3>1 DEF Fork, TypeOK, Jump
    <3>3. pc[forked + 1] = "none"
      BY <3>1 DEF GroupsInTurn, TypeOK
    <3>4. ASSUME NEW i \in DOMAIN file, NEW q \in Processes, Excused(q, i)
          PROVE  Excused(q, i)'
      <4>1. q \in Children \ {forked + 1}
        BY <3>1, <3>3, <3>4
      <4> QED
        BY <3>1, <3>2, <3>4, <4>1 DEF Computes, Group
    <3> QED
      BY <1>0, <3>1, <3>4
  <2> QED
    BY <2>1, <2>2
<1>6. CASE EndOfInput
  <2>1. /\ file' = file /\ forked' = forked /\ caught \subseteq caught'
        /\ \A q \in Processes : pc[q] \in {"none", "newline", "failure"} =>
                                  pc'[q] = pc[q]
    BY <1>6 DEF EndOfInput, TypeOK, Jump, Exit
  <2> QED
    BY <2>1, LinesStay
<1>7. CASE Collect \/ Search
  <2>1. /\ file' = file /\ forked' = forked /\ caught \subseteq caught'
        /\ \A q \in Processes : pc[q] \in {"none", "newline", "failure"} =>
                                  pc'[q] = pc[q]
    BY <1>7 DEF Collect, Search, TypeOK, Jump, Exit
  <2> QED
    BY <2>1, LinesStay
<1>8. CASE Signal
  BY <1>8, SignalSteps, LinesStay
<1>9. CASE UNCHANGED vars
  BY <1>9, LinesStay DEF vars
<1>10. CASE PassedOn
  BY <1>10, PassedOnSteps, LinesStay DEF TypeOK
<1> QED
  BY <1>1, <1>2, <1>3, <1>4, <1>5, <1>6, <1>7, <1>8, <1>9, <1>10
     DEF Next, Child, Signal, PassedOn

\* The strengthened invariant holds in every reachable state.
THEOREM Invariance == Spec => []IInv
<1>1. IInv /\ [Next]_vars => IInv'
  BY TypeStep, ExclusiveStep, GroupsStep, AtEndStep, OpenStep, LinesStep DEF IInv
<1> QED
  BY <1>1, Initially, PTL DEF Spec

\* A line of this run is followed by its newline, unless SIGINT has cut its
\* process off in between: no two processes mix their lines.
THEOREM LinesAreIntact == Spec => []LinesIntact
<1>1. IInv => LinesIntact
  BY DEF IInv
<1> QED
  BY <1>1, Invariance, PTL

-----------------------------------------------------------------------------
\* The file holds what earlier runs have left, the line of no group twice, and
\* the line of every group whose child has run to its end.
AppendedOnce ==
  /\ Len(Old) <= Len(file)
  /\ \A k \in 1 .. Len(Old) : file[k] = Old[k]
  /\ \A k \in DOMAIN file : Len(Old) < k => file[k] \in Children \cup {Newline}
  /\ \A i, j \in DOMAIN file : file[i] \in Children /\ file[i] = file[j] => i = j
  /\ \A c \in Children : pc[c] \in {"newline", "unlock", "success"} =>
       \E i \in DOMAIN file : file[i] = c

\* A group whose line is in the file has a process that got past its write.
Behind(p) == pc[p] \in {"newline", "unlock", "success", "failure"}
WrittenBehind ==
  \A i \in DOMAIN file : file[i] \in Children =>
    \/ Behind(file[i])
    \/ file[i] = forked /\ pc[forked] = "none" /\ Behind(Parent)

\* The steps that write no line, and in which nobody gets past its write.
NoLineStep ==
  /\ file' = file \/ file' = Append(file, Newline)
  /\ forked' = forked
  /\ \A p \in Processes : /\ pc[p] = "none" => pc'[p] = "none"
                          /\ Behind(p) => Behind(p)'
  /\ \A c \in Children : pc'[c] \in {"newline", "unlock", "success"} =>
                           pc[c] \in {"newline", "unlock", "success"}

\* Such a step keeps both.
LEMMA OnceStays ==
  ASSUME TypeOK, AppendedOnce, WrittenBehind, NoLineStep
  PROVE  AppendedOnce' /\ WrittenBehind'
<1> USE DEF NoLineStep
<1>1. CASE file' = file
  <2>1. AppendedOnce'
    BY <1>1 DEF AppendedOnce
  <2>2. WrittenBehind'
    BY <1>1 DEF WrittenBehind, TypeOK
  <2> QED
    BY <2>1, <2>2
<1>2. CASE file' = Append(file, Newline)
  <2>1. /\ Len(file') = Len(file) + 1 /\ file'[Len(file) + 1] = Newline
        /\ \A i \in DOMAIN file : i \in DOMAIN file' /\ file'[i] = file[i]
    BY <1>2 DEF TypeOK
  <2>2. \A i \in DOMAIN file' : file'[i] \in Children =>
          i \in DOMAIN file /\ file'[i] = file[i]
    BY <1>2, <2>1 DEF TypeOK
  <2>3. AppendedOnce'
    <3>1. \A k \in DOMAIN file' : Len(Old) < k => file'[k] \in Children \cup {Newline}
      BY <1>2, <2>1 DEF AppendedOnce, TypeOK
    <3>2. \A c \in Children : pc'[c] \in {"newline", "unlock", "success"} =>
            \E i \in DOMAIN file' : file'[i] = c
      BY <2>1 DEF AppendedOnce
    <3> QED
      BY <2>1, <2>2, <3>1, <3>2 DEF AppendedOnce, TypeOK
  <2>4. WrittenBehind'
    BY <2>2 DEF WrittenBehind, TypeOK
  <2> QED
    BY <2>3, <2>4
<1> QED
  BY <1>1, <1>2

\* Every step keeps both.
LEMMA OnceStep ==
  IInv /\ AppendedOnce /\ WrittenBehind /\ [Next]_vars
    => AppendedOnce' /\ WrittenBehind'
<1> SUFFICES ASSUME TypeOK, Exclusive, GroupsInTurn, AtEnd,
                    AppendedOnce, WrittenBehind, [Next]_vars
             PROVE  AppendedOnce' /\ WrittenBehind'
  BY DEF IInv
<1>1. ASSUME NEW p \in Processes,
             Exec(p) \/ Seek(p) \/ Compute(p) \/ Lock(p) \/ Unlock(p)
      PROVE  NoLineStep
  BY <1>1 DEF Exec, Seek, Compute, Lock, Unlock, TypeOK, Jump, Exit, NoLineStep,
              Behind
<1>2. ASSUME NEW p \in Processes, WriteNewline(p) PROVE NoLineStep
  <2>1. file' = file \/ file' = Append(file, Newline)
    BY <1>2, WriteAppends DEF WriteNewline
  <2> QED
    BY <1>2, <2>1 DEF WriteNewline, TypeOK, Jump, Exit, NoLineStep, Behind
<1>3. ASSUME NEW p \in Processes, WriteLine(p)
      PROVE  AppendedOnce' /\ WrittenBehind'
  <2>1. file' = Append(file, Group(p)) /\ Group(p) \in Nat
    <3>1. Group(p) \in Nat /\ pc[p] \in Started /\ Write(Group(p))
      BY <1>3 DEF WriteLine, TypeOK, Group
    <3> QED
      BY <3>1, WriteAppends
  <2>2. /\ pc' = [pc EXCEPT ![p] = "newline"] /\ pc[p] = "line"
        /\ forked' = forked
    BY <1>3 DEF WriteLine, Jump
  <2>3. \A i \in DOMAIN file : file[i] # Group(p)
    BY <2>2 DEF WrittenBehind, Behind, Group, GroupsInTurn, TypeOK
  <2>4. /\ Len(file') = Len(file) + 1 /\ file'[Len(file) + 1] = Group(p)
        /\ \A i \in DOMAIN file : i \in DOMAIN file' /\ file'[i] = file[i]
        /\ \A i \in DOMAIN file' : i \in DOMAIN file \/ i = Len(file')
    BY <2>1 DEF TypeOK
  <2>5. \A c \in Children \ {p} : pc'[c] = pc[c]
    BY <2>2 DEF TypeOK
  <2>6. AppendedOnce'
    <3>1. /\ Len(Old) <= Len(file')
          /\ \A k \in 1 .. Len(Old) : file'[k] = Old[k]
      BY <2>4, CovarianceAssumption DEF AppendedOnce, TypeOK
    <3>2. \A i, j \in DOMAIN file' :
            file'[i] \in Children /\ file'[i] = file'[j] => i = j
      BY <2>3, <2>4 DEF AppendedOnce
    <3>3. ASSUME NEW c \in Children, pc'[c] \in {"newline", "unlock", "success"}
          PROVE  \E i \in DOMAIN file' : file'[i] = c
      <4>1. CASE c = p
        <5>1. Len(file') \in DOMAIN file' /\ file'[Len(file')] = c
          BY <2>1, <2>4, <4>1 DEF Group, TypeOK
        <5> QED
          BY <5>1
      <4>2. CASE c # p
        BY <2>4, <2>5, <3>3, <4>2 DEF AppendedOnce
      <4> QED
        BY <4>1, <4>2
    <3>4. Group(p) \in Children
      BY <2>2 DEF Group, TypeOK, GroupsInTurn
    <3>5. \A k \in DOMAIN file' :
            Len(Old) < k => file'[k] \in Children \cup {Newline}
      BY <2>4, <3>4 DEF AppendedOnce
    <3> QED
      BY <3>1, <3>2, <3>3, <3>5 DEF AppendedOnce
  <2>7. WrittenBehind'
    <3> SUFFICES ASSUME NEW i \in DOMAIN file', file'[i] \in Children
                 PROVE  (\/ Behind(file[i])
                         \/ /\ file[i] = forked /\ pc[forked] = "none"
                            /\ Behind(Parent))'
      BY DEF WrittenBehind
    <3>1. CASE i \in DOMAIN file
      BY <2>2, <2>4, <3>1 DEF WrittenBehind, Behind, TypeOK
    <3>2. CASE i = Len(file')
      <4>1. file'[i] = Group(p)
        BY <2>4, <3>2
      <4>2. pc' = [pc EXCEPT ![p] = "newline"] /\ forked' = forked
        BY <2>2
      <4>3. Behind(p)'
        BY <4>2 DEF Behind, TypeOK
      <4>4. CASE p = Parent
        <5>1. Group(p) = forked /\ pc[forked] = "none" /\ forked # Parent
          BY <2>2, <4>4 DEF Group, TypeOK, GroupsInTurn
        <5> QED
          BY <4>1, <4>2, <4>3, <4>4, <5>1
      <4>5. CASE p # Parent
        BY <4>1, <4>3, <4>5 DEF Group
      <4> QED
        BY <4>4, <4>5
    <3> QED
      BY <2>4, <3>1, <3>2
  <2> QED
    BY <2>6, <2>7
<1>4. CASE Fork
  <2>1. CASE Parent \in caught
    <3>1. NoLineStep
      BY <1>4, <2>1 DEF Fork, NoLineStep, TypeOK, Jump, Exit, Behind
    <3> QED
      BY <3>1, OnceStays
  <2>2. CASE Parent \notin caught
    <3>1. /\ file' = file /\ forked' = forked + 1
          /\ pc[Parent] = "read" /\ forked + 1 \in Children
      BY <1>4, <2>2 DEF Fork, TypeOK
    <3>2. /\ \A q \in Children \ {forked + 1} : pc'[q] = pc[q]
          /\ pc'[forked + 1] \in {"none", "exec"}
      <4>1. pc[forked + 1] = "none"
        BY <3>1 DEF GroupsInTurn, TypeOK
      <4>2. \E q \in {Parent, forked + 1} : pc' = [pc EXCEPT ![q] = "exec"]
        BY <1>4, <2>2, <3>1 DEF Fork, Jump
      <4>3. pc \in [Processes -> Labels]
        BY DEF TypeOK
      <4> QED
        BY <3>1, <4>1, <4>2, <4>3
    <3>3. pc[forked + 1] = "none"
      BY <3>1 DEF GroupsInTurn, TypeOK
    <3>4. \A i \in DOMAIN file : file[i] \in Children => Behind(file[i])
      BY <3>1 DEF WrittenBehind, Behind
    <3>5. WrittenBehind'
      BY <3>1, <3>2, <3>3, <3>4 DEF WrittenBehind, Behind
    <3>6. AppendedOnce'
      BY <3>1, <3>2 DEF AppendedOnce
    <3> QED
      BY <3>5, <3>6
  <2> QED
    BY <2>1, <2>2
<1>5. CASE EndOfInput \/ Collect \/ Search
  <2>1. NoLineStep
    BY <1>5 DEF EndOfInput, Collect, Search, NoLineStep, TypeOK, Jump, Exit, Behind
  <2> QED
    BY <2>1, OnceStays
<1>6. CASE Signal
  <2>1. NoLineStep
    BY <1>6, SignalSteps DEF NoLineStep, Behind
  <2> QED
    BY <2>1, OnceStays
<1>7. CASE UNCHANGED vars
  <2>1. NoLineStep
    BY <1>7 DEF vars, NoLineStep, Behind
  <2> QED
    BY <2>1, OnceStays
<1>8. CASE PassedOn
  <2>1. NoLineStep
    BY <1>8, PassedOnSteps DEF NoLineStep, Behind, TypeOK
  <2> QED
    BY <2>1, OnceStays
<1> QED
  BY <1>1, <1>2, <1>3, <1>4, <1>5, <1>6, <1>7, <1>8, OnceStays
     DEF Next, Child, Signal, PassedOn

\* Whatever the order the processes take, and whoever is interrupted, the file
\* keeps what it held, gets no line twice, and every line whose child says so.
THEOREM LinesAreAppendedOnce == Spec => []AppendedOnce
<1>1. Init => AppendedOnce /\ WrittenBehind
  BY CovarianceAssumption DEF Init, AppendedOnce, WrittenBehind
<1> QED
  BY <1>1, OnceStep, Invariance, PTL DEF Spec

-----------------------------------------------------------------------------
\* While the parent searches no child is left, and what it has read is what
\* the file holds; before, it has read nothing.
AllCollected ==
  /\ pc[Parent] = "search" =>
       /\ matrices = Tokens(file)
       /\ \A c \in Children : pc[c] = "none" \/ Ended(c)
  /\ pc[Parent] \notin {"search", "success"} => matrices = <<>>

\* A step with which nobody writes who was not there before keeps this.
LEMMA CollectedStep ==
  TypeOK /\ Exclusive /\ AllCollected /\ [Next]_vars => AllCollected'
<1> SUFFICES ASSUME TypeOK, AllCollected, [Next]_vars PROVE AllCollected'
  OBVIOUS
<1> USE DEF Ended
<1>1. ASSUME NEW p \in Processes, Child(p) PROVE AllCollected'
  <2>1. pc[p] \in AsChild /\ matrices' = matrices
    BY <1>1 DEF Child, Exec, Seek, Compute, Lock, WriteLine, WriteNewline, Unlock
  <2>2. /\ pc' = [pc EXCEPT ![p] = pc'[p]]
        /\ pc'[p] \in AsChild \cup {"success", "notRun", "failure"}
    BY <1>1 DEF Child, Exec, Seek, Compute, Lock, WriteLine, WriteNewline, Unlock,
                Jump, Exit, TypeOK
  <2>3. pc[Parent] # "search"
    BY <2>1 DEF AllCollected
  <2>4. (pc[Parent] # "success" /\ matrices = <<>>) \/ p # Parent
    BY <2>1 DEF AllCollected
  <2> QED
    BY <2>1, <2>2, <2>3, <2>4 DEF AllCollected, TypeOK
<1>2. CASE Fork
  BY <1>2 DEF Fork, Jump, Exit, AllCollected, TypeOK
<1>3. CASE EndOfInput
  BY <1>3 DEF EndOfInput, Jump, Exit, AllCollected, TypeOK
<1>4. CASE Collect
  BY <1>4 DEF Collect, Jump, AllCollected, TypeOK
<1>5. CASE Search
  BY <1>5 DEF Search, Jump, Exit, AllCollected, TypeOK
<1>6. CASE Signal
  BY <1>6, SignalSteps DEF AllCollected, TypeOK
<1>7. CASE UNCHANGED vars
  BY <1>7 DEF vars, AllCollected
<1>8. CASE PassedOn
  BY <1>8, PassedOnSteps DEF AllCollected, TypeOK
<1> QED
  BY <1>1, <1>2, <1>3, <1>4, <1>5, <1>6, <1>7, <1>8 DEF Next, Signal, PassedOn

LEMMA Collecting == Spec => []AllCollected
<1>1. Init => AllCollected
  BY DEF Init, AllCollected
<1> QED
  BY <1>1, CollectedStep, Invariance, PTL DEF Spec, IInv

\* What the parent has read has every line of an earlier run as often as it
\* was there, the line of every child that ran to its end once, of no other
\* twice.
THEOREM LinesAreCollectedOnce == Spec => []CollectedOnce
<1>1. TypeOK /\ AppendedOnce /\ AllCollected => CollectedOnce
  <2> SUFFICES ASSUME TypeOK, AppendedOnce, AllCollected, pc[Parent] = "search"
               PROVE  /\ \A k \in DOMAIN Old :
                           Old[k] # Newline => Count(matrices, Old[k]) = Count(Old, Old[k])
                      /\ \A c \in Children :
                           /\ Count(matrices, c) <= 1
                           /\ pc[c] = "success" => Count(matrices, c) = 1
    BY DEF CollectedOnce
  <2>1. \A x \in Nat \ {Newline} : Count(matrices, x) = Count(file, x)
    BY TokensCount DEF TypeOK, AllCollected
  <2>2. ASSUME NEW k \in DOMAIN Old, Old[k] # Newline
        PROVE  Count(matrices, Old[k]) = Count(Old, Old[k])
    <3>1. Old[k] \in Nat \ {Newline} /\ Old[k] \notin Children
      BY <2>2, CovarianceAssumption
    <3> DEFINE x == Old[k]
    <3>2. ASSUME NEW i PROVE i \in DOMAIN file /\ file[i] = x
                               <=> i \in DOMAIN Old /\ Old[i] = x
      <4>1. /\ DOMAIN file = 1 .. Len(file) /\ DOMAIN Old = 1 .. Len(Old)
            /\ Len(file) \in Nat /\ Len(Old) \in Nat /\ Len(Old) <= Len(file)
        BY CovarianceAssumption DEF AppendedOnce, TypeOK
      <4>2. \A j \in 1 .. Len(Old) : file[j] = Old[j]
        BY DEF AppendedOnce
      <4>3. \A j \in DOMAIN file : Len(Old) < j => file[j] # x
        BY <2>2, <3>1 DEF AppendedOnce
      <4> HIDE DEF x
      <4> QED
        BY <4>1, <4>2, <4>3
    <3>3. {i \in DOMAIN file : file[i] = x} = {i \in DOMAIN Old : Old[i] = x}
      <4> HIDE DEF x
      <4> QED
        BY <3>2
    <3> QED
      BY <2>1, <3>1, <3>3 DEF Count
  <2>3. ASSUME NEW c \in Children
        PROVE  /\ Count(matrices, c) <= 1
               /\ pc[c] = "success" => Count(matrices, c) = 1
    <3> DEFINE At == {i \in DOMAIN file : file[i] = c}
    <3>1. Count(matrices, c) = Cardinality(At)
      BY <2>1 DEF Count
    <3>2. CASE At = {}
      <4>1. pc[c] # "success"
        BY <3>2 DEF AppendedOnce
      <4> QED
        BY <3>1, <3>2, <4>1, FS_EmptySet
    <3>3. CASE At # {}
      <4>1. PICK i \in At : TRUE
        BY <3>3
      <4>2. At = {i}
        BY <4>1 DEF AppendedOnce
      <4> QED
        BY <3>1, <4>2, FS_Singleton
    <3> QED
      BY <3>2, <3>3
  <2> QED
    BY <2>2, <2>3
<1>2. Init => AppendedOnce
  BY CovarianceAssumption DEF Init, AppendedOnce
<1> QED
  BY <1>1, Collecting, LinesAreAppendedOnce, Invariance, PTL DEF IInv

\* The search has norms to compare.
LEMMA NormsThere ==
  ASSUME TypeOK, AppendedOnce, AllCollected, pc[Parent] = "search"
  PROVE  /\ Len(matrices) \in Nat
         /\ \A k \in 1 .. Len(matrices) : Norm[matrices[k]] \in Int
<1>1. /\ matrices \in Seq(Nat \ {Newline})
      /\ \A k \in DOMAIN matrices : \E i \in DOMAIN file : matrices[k] = file[i]
  BY TokensCount DEF TypeOK, AllCollected
<1>2. Len(matrices) \in Nat /\ DOMAIN matrices = 1 .. Len(matrices)
  BY <1>1
<1>3. ASSUME NEW i \in DOMAIN file, file[i] # Newline
      PROVE  Norm[file[i]] \in Int
  <2>1. CASE i \in 1 .. Len(Old)
    BY <1>3, <2>1, CovarianceAssumption DEF AppendedOnce
  <2>2. CASE i \notin 1 .. Len(Old)
    BY <1>3, <2>2, CovarianceAssumption DEF AppendedOnce, TypeOK
  <2> QED
    BY <2>1, <2>2
<1>4. \A k \in DOMAIN matrices : matrices[k] # Newline
  BY <1>1
<1> QED
  BY <1>1, <1>2, <1>3, <1>4

\* After the search its result is the closest of all pairs; a parent that ends
\* without it has read nothing.
ClosestKept ==
  pc[Parent] = "success" /\ matrices # <<>> =>
    /\ Len(matrices) \in Nat
    /\ DOMAIN matrices = 1 .. Len(matrices)
    /\ BestOf(closest, Len(matrices),
              (1 .. Len(matrices)) \X (1 .. Len(matrices)))

LEMMA ClosestStep ==
  TypeOK /\ AppendedOnce /\ AllCollected /\ ClosestKept /\ [Next]_vars
    => ClosestKept'
<1> SUFFICES ASSUME TypeOK, AppendedOnce, AllCollected, ClosestKept, [Next]_vars,
                    pc'[Parent] = "success", matrices' # <<>>
             PROVE  ClosestKept'
  BY DEF ClosestKept
<1>1. CASE Search
  <2>1. pc[Parent] = "search" /\ matrices' = matrices
    BY <1>1 DEF Search
  <2>2. /\ Len(matrices) \in Nat
        /\ \A k \in 1 .. Len(matrices) : Norm[matrices[k]] \in Int
    BY <2>1, NormsThere
  <2>3. DOMAIN matrices = 1 .. Len(matrices)
    BY <2>1, TokensCount DEF TypeOK, AllCollected
  <2> DEFINE n == Len(matrices)
  <2>4. BestOf(closest', n, (1 .. n) \X (1 .. n))
    <3>1. MIN \in Nat
      BY CovarianceAssumption
    <3> QED
      BY <1>1, <2>2, <3>1, SearchFinds
  <2>5. BestOf(closest, n, (1 .. n) \X (1 .. n))'
    BY <2>1, <2>4 DEF BestOf, Near, Apart
  <2> QED
    BY <2>1, <2>2, <2>3, <2>5 DEF ClosestKept
<1>2. CASE pc[Parent] = "success" /\ matrices' = matrices /\ closest' = closest
  BY <1>2 DEF ClosestKept, BestOf, Near, Apart
<1>3. pc[Parent] = "success" \/ matrices = <<>> \/ Search
  <2>1. CASE Search
    BY <2>1
  <2>2. CASE ~Search
    <3>1. pc[Parent] # "search"
      <4>1. ASSUME pc[Parent] = "search" PROVE pc'[Parent] = "search"
        <5>1. ASSUME NEW p \in Processes, Child(p) PROVE pc'[Parent] = pc[Parent]
          BY <4>1, <5>1 DEF TypeOK, Child, Exec, Seek, Compute, Lock, WriteLine,
                            WriteNewline, Unlock, Jump, Exit
        <5>2. CASE Signal
          BY <4>1, <5>2, SignalSteps DEF TypeOK
        <5>3. ~PassedOn
          BY <4>1, PassedOnSteps
        <5> QED
          BY <2>2, <4>1, <5>1, <5>2, <5>3
             DEF Next, Signal, PassedOn, Fork, EndOfInput, Collect, vars
      <4> QED
        BY <4>1
    <3> QED
      BY <3>1 DEF AllCollected
  <2> QED
    BY <2>1, <2>2
<1>4. CASE ~Search
  <2>1. \/ matrices' = matrices /\ closest' = closest
        \/ Collect
    BY <1>4 DEF Next, Child, Exec, Seek, Compute, Lock, WriteLine, WriteNewline,
                Unlock, Fork, EndOfInput, PassOn, Interrupt, vars
  <2>2. ~Collect
    BY DEF Collect, Jump, TypeOK
  <2> QED
    BY <1>2, <1>3, <1>4, <2>1, <2>2
<1> QED
  BY <1>1, <1>4

\* The two matrices printed are two, and no two others are closer.
THEOREM TheClosestIsPrinted == Spec => []ClosestIsClosest
<1>1. Init => AppendedOnce /\ ClosestKept
  BY CovarianceAssumption DEF Init, AppendedOnce, ClosestKept
<1>2. ClosestKept => ClosestIsClosest
  <2> SUFFICES ASSUME ClosestKept, pc[Parent] = "success" PROVE ClosestIsClosest
    BY DEF ClosestIsClosest
  <2> DEFINE pairs == {p \in (DOMAIN matrices) \X (DOMAIN matrices) :
                         p[1] # p[2] /\ Apart(p[1], p[2]) <= MIN}
             n == Len(matrices)
  <2>1. CASE matrices = <<>>
    <3>1. pairs = {}
      BY <2>1
    <3> QED
      BY <3>1 DEF ClosestIsClosest, Apart
  <2>2. CASE matrices # <<>>
    <3>1. /\ DOMAIN matrices = 1 .. n
          /\ BestOf(closest, n, (1 .. n) \X (1 .. n))
      BY <2>2 DEF ClosestKept
    <3> HIDE DEF n
    <3>2. \A p \in pairs : /\ p[1] \in 1 .. n /\ p[2] \in 1 .. n
                           /\ Near(p[1], p[2])
      BY <3>1 DEF Near
    <3>3. ASSUME pairs # {}
          PROVE  /\ closest[1] \in 1 .. n /\ closest[2] \in 1 .. n
                 /\ Near(closest[1], closest[2])
                 /\ closest[3] = Apart(closest[1], closest[2])
                 /\ \A a, b \in 1 .. n : Near(a, b) => closest[3] <= Apart(a, b)
      BY <3>1, <3>2, <3>3 DEF BestOf
    <3>4. ASSUME pairs # {}
          PROVE  /\ <<closest[1], closest[2]>> \in pairs
                 /\ \A p \in pairs : closest[3] <= Apart(p[1], p[2])
      BY <3>1, <3>2, <3>3, <3>4 DEF Near
    <3> QED
      BY <3>3, <3>4 DEF ClosestIsClosest, Apart
  <2> QED
    BY <2>1, <2>2
<1> QED
  BY <1>1, <1>2, ClosestStep, Collecting, LinesAreAppendedOnce, Invariance, PTL
     DEF Spec, IInv

-----------------------------------------------------------------------------
\* Induction up to a bound.
LEMMA Climb ==
  ASSUME NEW n \in Nat, NEW S, 0 \in S,
         \A i \in 0 .. n - 1 : i \in S => i + 1 \in S
  PROVE  \A i \in 0 .. n : i \in S
<1> DEFINE Bad == {i \in 0 .. n : i \notin S}
<1>1. SUFFICES ASSUME Bad # {} PROVE FALSE
  OBVIOUS
<1>2. PICK k \in Bad : \A l \in Bad : k <= l
  <2>1. Bad \subseteq Nat
    OBVIOUS
  <2> HIDE DEF Bad
  <2> QED
    BY <1>1, <2>1, Least
<1>3. k \in 0 .. n /\ k # 0 /\ k \notin S
  OBVIOUS
<1>4. k - 1 \in 0 .. n - 1 /\ k - 1 \in 0 .. n /\ ~(k <= k - 1) /\ (k - 1) + 1 = k
  BY <1>3
<1>5. k - 1 \in S
  BY <1>2, <1>4
<1> QED
  BY <1>3, <1>4, <1>5

\* A set of numbers up to a bound has a greatest.
LEMMA Greatest ==
  ASSUME NEW n \in Nat, NEW S \in SUBSET (0 .. n), S # {}
  PROVE  \E k \in S : \A l \in S : l <= k
<1> DEFINE T == {n - k : k \in S}
<1>0. \A k \in S : k \in Int /\ 0 <= k /\ k <= n /\ n - k \in Nat
  OBVIOUS
<1>1. T \subseteq Nat /\ T # {}
  BY <1>0
<1>2. PICK m \in T : \A l \in T : m <= l
  <2> HIDE DEF T
  <2> QED
    BY <1>1, Least
<1>3. PICK k \in S : m = n - k
  OBVIOUS
<1>4. \A l \in S : l <= k
  <2> TAKE l \in S
  <2>1. n - l \in T /\ l \in Int /\ k \in Int
    BY <1>0
  <2>2. m <= n - l
    BY <1>2, <2>1
  <2> QED
    BY <1>3, <2>1, <2>2
<1> QED
  BY <1>4

-----------------------------------------------------------------------------
\* The text from each place on, with the occurrences O replaced by w.
FromOn(g, D, L, P, O, w, text) ==
  g = [i \in D |-> IF i > L THEN <<>>
                   ELSE IF i \in O THEN w[i] \o g[i + P] ELSE <<text[i]>> \o g[i + 1]]

\* There is such a function, built from the end of the text.
LEMMA FromOnExists ==
  ASSUME NEW C, NEW L \in Nat, NEW P \in Nat, P # 0, NEW O \in SUBSET (1 .. L),
         \A i \in O : i + P <= L + 1, NEW w \in [O -> Seq(C)],
         NEW text \in [1 .. L -> C]
  PROVE  \E g \in [1 .. L + 1 -> Seq(C)] : FromOn(g, 1 .. L + 1, L, P, O, w, text)
<1> DEFINE D(m) == (L + 1 - m) .. (L + 1)
           S == {m \in 0 .. L : \E g \in [D(m) -> Seq(C)] :
                                  FromOn(g, D(m), L, P, O, w, text)}
<1>1. 0 \in S
  <2> DEFINE g == [i \in D(0) |-> <<>>]
  <2>1. g \in [D(0) -> Seq(C)] /\ D(0) = {L + 1}
    BY EmptySeq
  <2>2. \A i \in D(0) : i > L
    OBVIOUS
  <2>3. FromOn(g, D(0), L, P, O, w, text)
    <3> HIDE DEF D
    <3> QED
      BY <2>2 DEF FromOn
  <2>4. 0 \in 0 .. L
    OBVIOUS
  <2> HIDE DEF g, D
  <2> QED
    BY <2>1, <2>3, <2>4
<1>2. ASSUME NEW m \in 0 .. L - 1, m \in S PROVE m + 1 \in S
  <2> DEFINE a == L - m
  <2>1. PICK g \in [D(m) -> Seq(C)] : FromOn(g, D(m), L, P, O, w, text)
    BY <1>2
  <2>2. /\ a \in 1 .. L /\ a \notin D(m) /\ D(m + 1) = D(m) \cup {a}
        /\ \A i \in D(m) : i \in Int /\ i > a /\ i <= L + 1
        /\ \A i \in Int : i > a /\ i <= L + 1 => i \in D(m)
    OBVIOUS
  <2> DEFINE new == IF a \in O THEN w[a] \o g[a + P] ELSE <<text[a]>> \o g[a + 1]
             h == [i \in D(m + 1) |-> IF i = a THEN new ELSE g[i]]
  <2>3. a + 1 \in D(m) /\ (a \in O => a + P \in D(m))
    BY <2>2
  <2>4. new \in Seq(C)
    <3>1. CASE a \in O
      <4>1. w[a] \in Seq(C) /\ g[a + P] \in Seq(C)
        BY <2>3, <3>1
      <4> QED
        BY <3>1, <4>1, ConcatProperties
    <3>2. CASE a \notin O
      <4>1. <<text[a]>> \in Seq(C) /\ g[a + 1] \in Seq(C)
        BY <2>2, <2>3
      <4> QED
        BY <3>2, <4>1, ConcatProperties
    <3> QED
      BY <3>1, <3>2
  <2> HIDE DEF new, D
  <2>5. h \in [D(m + 1) -> Seq(C)]
    BY <2>2, <2>4
  <2>6. h[a] = new /\ \A i \in D(m) : h[i] = g[i]
    BY <2>2
  <2> HIDE DEF h
  <2>7. ASSUME NEW i \in D(m + 1)
        PROVE  h[i] = IF i > L THEN <<>>
                      ELSE IF i \in O THEN w[i] \o h[i + P] ELSE <<text[i]>> \o h[i + 1]
    <3>1. CASE i = a
      BY <2>2, <2>3, <2>6, <3>1 DEF new
    <3>2. CASE i \in D(m)
      <4>1. g[i] = IF i > L THEN <<>>
                   ELSE IF i \in O THEN w[i] \o g[i + P] ELSE <<text[i]>> \o g[i + 1]
        BY <2>1, <3>2 DEF FromOn
      <4>2. i <= L => i + 1 \in D(m) /\ (i \in O => i + P \in D(m))
        BY <2>2, <3>2
      <4>3. i \in O => i <= L
        OBVIOUS
      <4>4. i \in O => h[i + P] = g[i + P]
        BY <2>6, <4>2, <4>3
      <4>5. i <= L => h[i + 1] = g[i + 1]
        BY <2>6, <4>2
      <4>6. h[i] = g[i] /\ i \in Int
        BY <2>2, <2>6, <3>2
      <4>7. i > L \/ i <= L
        BY <4>6
      <4> QED
        BY <4>1, <4>4, <4>5, <4>6, <4>7
    <3> QED
      BY <2>2, <3>1, <3>2
  <2>8. FromOn(h, D(m + 1), L, P, O, w, text)
    BY <2>5, <2>7 DEF FromOn
  <2>9. m + 1 \in 0 .. L
    OBVIOUS
  <2> QED
    BY <2>5, <2>8, <2>9
<1>3. L \in S
  <2> HIDE DEF S
  <2>1. \A m \in 0 .. L - 1 : m \in S => m + 1 \in S
    BY <1>2
  <2>2. \A m \in 0 .. L : m \in S
    BY <1>1, <2>1, Climb
  <2> QED
    BY <2>2
<1>4. D(L) = 1 .. L + 1
  OBVIOUS
<1> QED
  BY <1>3, <1>4

\* The pieces of a text put together from the left.
Joined(g, L, p) ==
  /\ g[0] = <<>>
  /\ \A i \in 1 .. L : g[i] = g[i - 1] \o p[i]

\* They can always be put together.
LEMMA JoinedExists ==
  ASSUME NEW C, NEW L \in Nat, NEW p \in [1 .. L -> Seq(C)]
  PROVE  \E g \in [0 .. L -> Seq(C)] : Joined(g, L, p)
<1> DEFINE S == {m \in 0 .. L : \E g \in [0 .. m -> Seq(C)] : Joined(g, m, p)}
<1>1. 0 \in S
  <2> DEFINE g == [i \in 0 .. 0 |-> <<>>]
  <2>1. g \in [0 .. 0 -> Seq(C)] /\ g[0] = <<>>
    BY EmptySeq
  <2>2. Joined(g, 0, p)
    <3> HIDE DEF g
    <3> QED
      BY <2>1 DEF Joined
  <2>3. 0 \in 0 .. L
    OBVIOUS
  <2> HIDE DEF g
  <2> QED
    BY <2>1, <2>2, <2>3
<1>2. ASSUME NEW m \in 0 .. L - 1, m \in S PROVE m + 1 \in S
  <2>1. PICK g \in [0 .. m -> Seq(C)] : Joined(g, m, p)
    BY <1>2
  <2> DEFINE new == g[m] \o p[m + 1]
             h == [i \in 0 .. m + 1 |-> IF i = m + 1 THEN new ELSE g[i]]
  <2>2. g[m] \in Seq(C) /\ p[m + 1] \in Seq(C) /\ m + 1 \in 0 .. L
    OBVIOUS
  <2>3. new \in Seq(C)
    BY <2>2, ConcatProperties
  <2>4. h \in [0 .. m + 1 -> Seq(C)]
    <3> HIDE DEF new
    <3> QED
      BY <2>3
  <2>5. h[m + 1] = g[m] \o p[m + 1] /\ \A i \in 0 .. m : h[i] = g[i]
    OBVIOUS
  <2>6. Joined(h, m + 1, p)
    <3> HIDE DEF h
    <3>1. h[0] = <<>>
      BY <2>1, <2>5 DEF Joined
    <3>2. ASSUME NEW i \in 1 .. m + 1 PROVE h[i] = h[i - 1] \o p[i]
      <4>1. CASE i = m + 1
        <5>1. i - 1 = m /\ h[m] = g[m]
          BY <2>5, <4>1
        <5> QED
          BY <2>5, <4>1, <5>1
      <4>2. CASE i \in 1 .. m
        <5>1. i - 1 \in 0 .. m /\ i \in 0 .. m
          BY <4>2
        <5>2. g[i] = g[i - 1] \o p[i]
          BY <2>1, <4>2 DEF Joined
        <5> QED
          BY <2>5, <5>1, <5>2
      <4>3. m \in Nat
        OBVIOUS
      <4>4. i = m + 1 \/ i \in 1 .. m
        BY <4>3
      <4> QED
        BY <4>1, <4>2, <4>4
    <3> QED
      BY <3>1, <3>2 DEF Joined
  <2> HIDE DEF h
  <2> QED
    BY <2>2, <2>4, <2>6
<1>3. L \in S
  <2> HIDE DEF S
  <2>1. \A m \in 0 .. L - 1 : m \in S => m + 1 \in S
    BY <1>2
  <2>2. \A m \in 0 .. L : m \in S
    BY <1>1, <2>1, Climb
  <2> QED
    BY <2>2
<1> QED
  BY <1>3

\* FlattenSeq puts them together.
LEMMA FlattenIs ==
  ASSUME NEW C, NEW p \in Seq(Seq(C)), p # <<>>,
         NEW g \in [0 .. Len(p) -> Seq(C)], Joined(g, Len(p), p)
  PROVE  FlattenSeq(p) = g[Len(p)]
<1> DEFINE L == Len(p)
           Flat(f) == f = [i \in 1 .. L |-> IF i = 1 THEN p[i] ELSE f[i - 1] \o p[i]]
           flatten == CHOOSE f : Flat(f)
<1>1. L \in Nat \ {0} /\ \A i \in 1 .. L : p[i] \in Seq(C)
  BY EmptySeq, LenProperties
<1>2. Flat(flatten)
  <2> DEFINE h == [i \in 1 .. L |-> g[i]]
  <2>1. ASSUME NEW i \in 1 .. L
        PROVE  h[i] = IF i = 1 THEN p[i] ELSE h[i - 1] \o p[i]
    <3>0. i \in 0 .. L
      BY <1>1
    <3>1. g[i] = g[i - 1] \o p[i] /\ g[0] = <<>> /\ h[i] = g[i]
      BY DEF Joined
    <3>2. CASE i = 1
      <4>1. p[1] \in Seq(C) /\ i - 1 = 0
        BY <1>1, <3>2
      <4>2. <<>> \o p[1] = p[1]
        BY <4>1, ConcatEmptySeq
      <4> HIDE DEF h, L
      <4> QED
        BY <3>1, <3>2, <4>1, <4>2
    <3>3. CASE i # 1
      <4>1. i - 1 \in 1 .. L
        BY <1>1, <3>3
      <4> QED
        BY <3>1, <3>3, <4>1
    <3> QED
      BY <3>2, <3>3
  <2>2. Flat(h)
    BY <2>1
  <2> QED
    BY <2>2
<1>3. FlattenSeq(p) = flatten[L]
  BY <1>1 DEF FlattenSeq
<1> DEFINE S == {i \in 0 .. L : i # 0 => flatten[i] = g[i]}
<1>4. 0 \in S
  BY <1>1
<1>5. ASSUME NEW i \in 0 .. L - 1, i \in S PROVE i + 1 \in S
  <2>1. i + 1 \in 1 .. L /\ i + 1 \in 0 .. L /\ (i + 1) - 1 = i /\ i \in Nat
    BY <1>1
  <2>2. flatten[i + 1] = IF i + 1 = 1 THEN p[i + 1] ELSE flatten[i] \o p[i + 1]
    <3> HIDE DEF flatten, L
    <3>1. \A k \in 1 .. L : flatten[k] = IF k = 1 THEN p[k] ELSE flatten[k - 1] \o p[k]
      BY <1>2
    <3>2. flatten[i + 1] = IF i + 1 = 1 THEN p[i + 1] ELSE flatten[(i + 1) - 1] \o p[i + 1]
      BY <2>1, <3>1
    <3> QED
      BY <2>1, <3>2
  <2>3. g[i + 1] = g[i] \o p[i + 1] /\ g[0] = <<>>
    <3>1. g[i + 1] = g[(i + 1) - 1] \o p[i + 1] /\ g[0] = <<>>
      <4> HIDE DEF flatten
      <4> QED
        BY <2>1 DEF Joined
    <3> QED
      BY <2>1, <3>1
  <2> HIDE DEF flatten, L
  <2>4. CASE i = 0
    <3>1. p[1] \in Seq(C) /\ i + 1 = 1
      BY <1>1, <2>1, <2>4
    <3>2. <<>> \o p[1] = p[1]
      BY <3>1, ConcatEmptySeq
    <3>3. flatten[i + 1] = g[i + 1]
      BY <2>2, <2>3, <2>4, <3>1, <3>2
    <3> QED
      BY <2>1, <3>3
  <2>5. CASE i # 0
    <3>1. flatten[i] = g[i] /\ i + 1 # 1
      BY <1>5, <2>1, <2>5
    <3>2. flatten[i + 1] = g[i + 1]
      BY <2>2, <2>3, <3>1
    <3> QED
      BY <2>1, <3>2
  <2> QED
    BY <2>4, <2>5
<1>6. L \in S
  <2> HIDE DEF S, L
  <2>1. \A i \in 0 .. L - 1 : i \in S => i + 1 \in S
    BY <1>5
  <2>2. \A i \in 0 .. L : i \in S
    BY <1>1, <1>4, <2>1, Climb
  <2> QED
    BY <1>1, <2>2
<1> QED
  BY <1>1, <1>3, <1>6

-----------------------------------------------------------------------------
\* No occurrence of M reaches over i.
Open(M, P, i) == ~ \E j \in M : j < i /\ i < j + P
\* M has the leftmost occurrences that do not overlap.
Leftmost(M, P, O) == \A i \in O : i \in M <=> Open(M, P, i)

\* There are such occurrences: each place is decided by those before it.
Scattered(L, P, O) == L \in Nat /\ P \in Nat /\ P # 0 /\ O \in SUBSET (1 .. L)

LEMMA LeftmostExists ==
  \A L, P, O : Scattered(L, P, O) => \E M \in SUBSET O : Leftmost(M, P, O)
<1> SUFFICES ASSUME NEW L \in Nat, NEW P \in Nat, P # 0, NEW O \in SUBSET (1 .. L)
             PROVE  \E M \in SUBSET O : Leftmost(M, P, O)
  BY DEF Scattered
<1> DEFINE U(m) == {i \in O : i <= m}
           S == {m \in 0 .. L : \E M \in SUBSET U(m) : Leftmost(M, P, U(m))}
<1>0. \A i \in O : i \in Int /\ 1 <= i /\ i <= L
  OBVIOUS
<1>1. 0 \in S
  <2>1. U(0) = {}
    <3> SUFFICES ASSUME NEW i \in O, i <= 0 PROVE FALSE
      OBVIOUS
    <3> QED
      BY <1>0
  <2>0. 0 \in 0 .. L
    OBVIOUS
  <2>2. Leftmost({}, P, U(0))
    BY <2>1 DEF Leftmost
  <2> HIDE DEF U
  <2> QED
    BY <2>0, <2>1, <2>2
<1>2. ASSUME NEW m \in 0 .. L - 1, m \in S PROVE m + 1 \in S
  <2>1. PICK M \in SUBSET U(m) : Leftmost(M, P, U(m))
    BY <1>2
  <2> DEFINE a == m + 1
             K == IF a \in O /\ Open(M, P, a) THEN M \cup {a} ELSE M
  <2>2. /\ a \in 0 .. L /\ a \in Int
        /\ \A i \in U(m) : i \in Int /\ i < a
        /\ \A i \in U(a) : i = a \/ i \in U(m)
        /\ a \in U(a) => a \in O
    BY <1>0
  <2>3. K \subseteq U(a)
    <3>0. m \in Int /\ a = m + 1
      OBVIOUS
    <3>1. U(m) \subseteq U(a) /\ (a \in O => a \in U(a))
      <4>1. \A i \in O : i <= m => i <= a
        BY <1>0, <3>0
      <4>2. \A i \in U(m) : i \in U(a)
        BY <4>1
      <4>3. a \in O => a \in U(a)
        BY <3>0
      <4> QED
        BY <4>2, <4>3
    <3> HIDE DEF U
    <3> QED
      BY <3>1
  <2> HIDE DEF U
  <2>4. ASSUME NEW i \in U(m) PROVE i \in K <=> Open(K, P, i)
    <3>1. i \in M <=> Open(M, P, i)
      BY <2>1 DEF Leftmost
    <3>2. i # a /\ ~(a < i)
      BY <2>2
    <3>3. Open(M, P, i) <=> Open(K, P, i)
      BY <3>2 DEF Open
    <3> HIDE DEF a
    <3> QED
      BY <3>1, <3>2, <3>3
  <2>5. a \in U(a) => (a \in K <=> Open(K, P, a))
    <3>1. a \notin M /\ ~(a < a)
      BY <2>2
    <3>2. Open(M, P, a) <=> Open(K, P, a)
      <4> HIDE DEF a
      <4> QED
        BY <3>1 DEF Open
    <3> HIDE DEF a
    <3> QED
      BY <2>2, <3>1, <3>2
  <2>6. Leftmost(K, P, U(a))
    <3> HIDE DEF K, a
    <3> QED
      BY <2>2, <2>4, <2>5 DEF Leftmost
  <2> HIDE DEF K
  <2> QED
    BY <2>2, <2>3, <2>6
<1>3. L \in S
  <2> HIDE DEF S
  <2>1. \A m \in 0 .. L - 1 : m \in S => m + 1 \in S
    BY <1>2
  <2>2. \A m \in 0 .. L : m \in S
    BY <1>1, <2>1, Climb
  <2> QED
    BY <2>2
<1>4. U(L) = O
  BY <1>0
<1> HIDE DEF U
<1> QED
  BY <1>3, <1>4

\* Concatenation may be read from either side.
Associative(C) == \A x, y, z \in Seq(C) : (x \o y) \o z = x \o (y \o z)

LEMMA Regroup == \A C : Associative(C)
<1> SUFFICES ASSUME NEW C, NEW x \in Seq(C), NEW y \in Seq(C), NEW z \in Seq(C)
             PROVE  (x \o y) \o z = x \o (y \o z)
  BY DEF Associative
<1>1. /\ x \o y \in Seq(C) /\ y \o z \in Seq(C)
      /\ (x \o y) \o z \in Seq(C) /\ x \o (y \o z) \in Seq(C)
  BY ConcatProperties
<1>2. Len((x \o y) \o z) = Len(x \o (y \o z))
  OBVIOUS
<1>3. \A i \in 1 .. Len((x \o y) \o z) : ((x \o y) \o z)[i] = (x \o (y \o z))[i]
  OBVIOUS
<1> QED
  BY <1>1, <1>2, <1>3, SeqEqual

\* The pieces p of a text from the left and its recursion h from the right, for
\* the occurrences O with the leftmost M among them.
Pieces(C, L, P, O, w, text, M, p) ==
  /\ L \in Nat /\ P \in Nat /\ P # 0
  /\ O \subseteq 1 .. L /\ \A i \in O : i + P <= L + 1
  /\ M \subseteq O /\ Leftmost(M, P, O)
  /\ w \in [O -> Seq(C)] /\ text \in [1 .. L -> C] /\ p \in [1 .. L -> Seq(C)]
  /\ \A i \in 1 .. L : i \notin O /\ Open(M, P, i) => p[i] = <<text[i]>>
Skips(P, M, w, g) == \A i \in M : g[(i + P) - 1] = g[i - 1] \o w[i]

Scanned(C, L, P, O, w, text, M, p, g, h) ==
  /\ Pieces(C, L, P, O, w, text, M, p)
  /\ g \in [0 .. L -> Seq(C)] /\ Joined(g, L, p) /\ Skips(P, M, w, g)
  /\ h \in [1 .. L + 1 -> Seq(C)] /\ FromOn(h, 1 .. L + 1, L, P, O, w, text)

Meets(h, g, L) == h[1] = g[L]

LEMMA Scan ==
  \A C, L, P, O, w, text, M, p, g, h :
    Scanned(C, L, P, O, w, text, M, p, g, h) => Meets(h, g, L)
<1> SUFFICES ASSUME NEW C, NEW L, NEW P, NEW O, NEW w, NEW text, NEW M, NEW p,
                    NEW g, NEW h, Scanned(C, L, P, O, w, text, M, p, g, h)
             PROVE  h[1] = g[L]
  BY DEF Meets
<1> USE DEF Scanned
<1> DEFINE S == {i \in 1 .. L + 1 : Open(M, P, i) /\ g[i - 1] \o h[i] = h[1]}
<1>a. /\ L \in Nat /\ P \in Nat /\ P > 0
      /\ \A i \in O : i \in 1 .. L /\ i + P <= L + 1
      /\ \A i \in M : i \in O /\ i \in Int /\ 1 <= i /\ i <= L
  BY DEF Pieces
<1>b. /\ \A i \in O : w[i] \in Seq(C)
      /\ \A i \in 1 .. L : text[i] \in C
  BY DEF Pieces
<1>1. 1 \in S
  <2>1. Open(M, P, 1)
    BY <1>a DEF Open
  <2>2. 1 \in 1 .. L + 1 /\ h[1] \in Seq(C) /\ 1 - 1 = 0
    BY <1>a
  <2>3. g[0] = <<>> /\ <<>> \o h[1] = h[1]
    BY <2>2, ConcatEmptySeq DEF Joined
  <2>4. g[1 - 1] \o h[1] = h[1]
    BY <2>2, <2>3
  <2> QED
    BY <2>1, <2>2, <2>4
<1>2. PICK k \in S : \A l \in S : l <= k
  <2>1. S \subseteq 0 .. L + 1 /\ L + 1 \in Nat
    BY <1>a
  <2> HIDE DEF S
  <2> QED
    BY <1>1, <2>1, Greatest
<1>3. k \in 1 .. L + 1 /\ Open(M, P, k) /\ g[k - 1] \o h[k] = h[1]
  OBVIOUS
<1>4. ASSUME NEW i \in 1 .. L + 1, Open(M, P, i), g[i - 1] \o h[i] = h[1]
      PROVE  i <= k
  <2>1. i \in S
    BY <1>4
  <2> HIDE DEF S
  <2> QED
    BY <1>2, <2>1
<1> HIDE DEF S
<1>5. h[k] = IF k > L THEN <<>>
             ELSE IF k \in O THEN w[k] \o h[k + P] ELSE <<text[k]>> \o h[k + 1]
  BY <1>3 DEF FromOn
<1>6. g[k - 1] \in Seq(C)
  <2>1. k - 1 \in 0 .. L
    BY <1>a, <1>3
  <2> QED
    BY <2>1
<1>7. \A x, y, z \in Seq(C) : (x \o y) \o z = x \o (y \o z)
  BY Regroup DEF Associative
<1>8. CASE k > L
  <2>1. k = L + 1 /\ k - 1 = L
    BY <1>a, <1>3, <1>8
  <2>2. g[L] \o <<>> = g[L]
    BY <1>6, <2>1, ConcatEmptySeq
  <2> QED
    BY <1>3, <1>5, <1>8, <2>1, <2>2
<1>9. CASE k \in O
  <2>1. k \in M /\ k \in 1 .. L
    BY <1>a, <1>3, <1>9 DEF Leftmost, Pieces
  <2>2. k + P \in 1 .. L + 1 /\ ~(k + P <= k) /\ ~(k > L)
    BY <1>a, <2>1
  <2>3. Open(M, P, k + P)
    <3> SUFFICES ASSUME NEW j \in M, j < k + P, k + P < j + P PROVE FALSE
      BY DEF Open
    <3>1. k < j
      BY <1>a, <2>1
    <3>2. ~Open(M, P, j)
      BY <2>1, <3>1 DEF Open
    <3> QED
      BY <1>a, <3>2 DEF Leftmost, Pieces
  <2>4. w[k] \in Seq(C) /\ h[k + P] \in Seq(C)
    BY <1>b, <1>9, <2>2
  <2>5. h[k] = w[k] \o h[k + P] /\ g[(k + P) - 1] = g[k - 1] \o w[k]
    BY <1>5, <1>9, <2>1, <2>2 DEF Skips
  <2>6. (g[k - 1] \o w[k]) \o h[k + P] = g[k - 1] \o (w[k] \o h[k + P])
    BY <1>6, <1>7, <2>4
  <2>7. g[(k + P) - 1] \o h[k + P] = h[1]
    BY <1>3, <2>5, <2>6
  <2> QED
    BY <1>4, <2>2, <2>3, <2>7
<1>10. CASE ~(k > L) /\ k \notin O
  <2>1. k \in 1 .. L /\ k + 1 \in 1 .. L + 1 /\ (k + 1) - 1 = k /\ ~(k + 1 <= k)
    BY <1>a, <1>3, <1>10
  <2>2. Open(M, P, k + 1)
    <3> SUFFICES ASSUME NEW j \in M, j < k + 1, k + 1 < j + P PROVE FALSE
      BY DEF Open
    <3>1. j # k /\ j \in Int
      BY <1>a, <1>10
    <3>2. j < k /\ k < j + P
      BY <1>a, <2>1, <3>1
    <3> QED
      BY <1>3, <3>2 DEF Open
  <2> DEFINE one == <<text[k]>>
  <2>3. one \in Seq(C) /\ h[k + 1] \in Seq(C)
    BY <1>b, <2>1
  <2>4. h[k] = one \o h[k + 1]
    BY <1>5, <1>10
  <2>5. p[k] = one /\ g[k] = g[k - 1] \o p[k]
    BY <1>3, <1>10, <2>1 DEF Joined, Pieces
  <2> HIDE DEF one
  <2>6. (g[k - 1] \o one) \o h[k + 1] = g[k - 1] \o (one \o h[k + 1])
    BY <1>6, <1>7, <2>3
  <2>7. g[k] \o h[k + 1] = h[1]
    BY <1>3, <2>4, <2>5, <2>6
  <2>8. g[(k + 1) - 1] \o h[k + 1] = h[1]
    BY <2>1, <2>7
  <2> QED
    BY <1>4, <2>1, <2>2, <2>8
<1> QED
  BY <1>8, <1>9, <1>10

\* Pieces that are empty add nothing.
Erases(C, L, p, g, a, b) ==
  /\ L \in Nat /\ g \in [0 .. L -> Seq(C)] /\ Joined(g, L, p)
  /\ a \in 0 .. L /\ b \in a .. L /\ \A k \in a + 1 .. b : p[k] = <<>>

LEMMA Erased == \A C, L, p, g, a, b : Erases(C, L, p, g, a, b) => g[b] = g[a]
<1> SUFFICES ASSUME NEW C, NEW L, NEW p, NEW g, NEW a, NEW b, Erases(C, L, p, g, a, b)
             PROVE  g[b] = g[a]
  OBVIOUS
<1> USE DEF Erases
<1> DEFINE S == {m \in 0 .. b - a : g[a + m] = g[a]}
<1>1. b - a \in Nat /\ a \in Int /\ b \in Int
  OBVIOUS
<1>2. 0 \in S
  BY <1>1
<1>3. ASSUME NEW m \in 0 .. (b - a) - 1, m \in S PROVE m + 1 \in S
  <2>1. /\ a + (m + 1) \in a + 1 .. b /\ a + (m + 1) \in 1 .. L /\ a + m \in 0 .. L
        /\ (a + (m + 1)) - 1 = a + m /\ m + 1 \in 0 .. b - a
    BY <1>1
  <2>2. g[a + (m + 1)] = g[(a + (m + 1)) - 1] \o p[a + (m + 1)]
    BY <2>1 DEF Joined
  <2>3. p[a + (m + 1)] = <<>> /\ g[a + m] \in Seq(C)
    BY <2>1
  <2>4. g[a + m] \o <<>> = g[a + m]
    BY <2>3, ConcatEmptySeq
  <2>5. g[a + m] = g[a]
    BY <1>3
  <2> QED
    BY <2>1, <2>2, <2>3, <2>4, <2>5
<1>4. b - a \in S
  <2> HIDE DEF S
  <2>1. \A m \in 0 .. (b - a) - 1 : m \in S => m + 1 \in S
    BY <1>3
  <2>2. \A m \in 0 .. b - a : m \in S
    BY <1>1, <1>2, <2>1, Climb
  <2> QED
    BY <1>1, <2>2
<1>5. a + (b - a) = b
  BY <1>1
<1> QED
  BY <1>4, <1>5

\* Pieces of one character add the text.
Copies(C, text, p, g, a, b) ==
  /\ text \in Seq(C)
  /\ g \in [0 .. Len(text) -> Seq(C)] /\ Joined(g, Len(text), p)
  /\ a \in 1 .. Len(text) /\ b \in a .. Len(text)
  /\ \A k \in a .. b : p[k] = <<text[k]>>
HasCopied(text, g, a, b) == g[b] = g[a - 1] \o SubSeq(text, a, b)

LEMMA Copied ==
  \A C, text, p, g, a, b : Copies(C, text, p, g, a, b) => HasCopied(text, g, a, b)
<1> SUFFICES ASSUME NEW C, NEW text, NEW p, NEW g, NEW a, NEW b,
                    Copies(C, text, p, g, a, b)
             PROVE  g[b] = g[a - 1] \o SubSeq(text, a, b)
  BY DEF HasCopied
<1> USE DEF Copies
<1> DEFINE S == {m \in 0 .. b - a : g[a + m] = g[a - 1] \o SubSeq(text, a, a + m)}
<1>1. /\ b - a \in Nat /\ a \in Int /\ b \in Int /\ a - 1 \in 0 .. Len(text)
      /\ Len(text) \in Nat /\ g[a - 1] \in Seq(C)
  OBVIOUS
<1>2. 0 \in S
  <2>1. g[a] = g[a - 1] \o p[a] /\ p[a] = <<text[a]>> /\ a + 0 = a
    <3>1. a \in 1 .. Len(text) /\ a \in a .. b
      BY <1>1
    <3> HIDE DEF S
    <3>2. g[a] = g[a - 1] \o p[a]
      BY <3>1 DEF Joined
    <3>3. p[a] = <<text[a]>>
      BY <3>1
    <3> QED
      BY <1>1, <3>2, <3>3
  <2>2. SubSeq(text, a, a) = <<text[a]>>
    <3> DEFINE t == SubSeq(text, a, a)
               one == <<text[a]>>
    <3>2. \A i \in a .. a : text[i] \in C
      BY <1>1
    <3>3. t \in Seq(C) /\ Len(t) = 1 /\ t[1] = text[a]
      <4>1. (a - a) + 1 = 1 /\ a + 1 - 1 = a
        BY <1>1
      <4> QED
        BY <1>1, <3>2, <4>1, SubSeqProperties
    <3>4. one \in Seq(C) /\ Len(one) = 1 /\ one[1] = text[a]
      BY <3>2
    <3> HIDE DEF t, one
    <3>5. t = one
      BY <3>3, <3>4, SeqEqual
    <3> QED
      BY <3>5 DEF t, one
  <2>3. 0 \in 0 .. b - a
    BY <1>1
  <2> QED
    BY <2>1, <2>2, <2>3
<1>3. ASSUME NEW m \in 0 .. (b - a) - 1, m \in S PROVE m + 1 \in S
  <2> DEFINE c == a + (m + 1)
             one == <<text[c]>>
             head == SubSeq(text, a, a + m)
  <2>1. /\ c \in a .. b /\ c \in 1 .. Len(text) /\ a + m \in 0 .. Len(text)
        /\ c - 1 = a + m /\ m + 1 \in 0 .. b - a /\ c \in a .. Len(text)
    BY <1>1
  <2>2. g[c] = g[c - 1] \o p[c] /\ p[c] = one
    BY <2>1 DEF Joined
  <2>3. g[a + m] = g[a - 1] \o head
    BY <1>3
  <2>4. SubSeq(text, a, c) = SubSeq(text, a, c - 1) \o <<text[c]>>
    <3> HIDE DEF S, c
    <3> QED
      BY <2>1, SubSeqRecursiveSecond
  <2>5. one \in Seq(C) /\ head \in Seq(C)
    <3>1. ASSUME NEW i \in a .. a + m PROVE text[i] \in C
      <4>1. i \in 1 .. Len(text)
        BY <1>1, <2>1
      <4> HIDE DEF S, c
      <4> QED
        BY <4>1
    <3>2. a \in Int /\ a + m \in Int /\ text[c] \in C
      BY <1>1, <2>1
    <3>3. head \in Seq(C)
      BY <3>1, <3>2, SubSeqProperties
    <3> QED
      BY <3>2, <3>3
  <2>6. Associative(C)
    BY Regroup
  <2>7. SubSeq(text, a, c) = head \o one
    BY <2>1, <2>4
  <2> HIDE DEF one, head, c
  <2>8. (g[a - 1] \o head) \o one = g[a - 1] \o (head \o one)
    BY <1>1, <2>5, <2>6 DEF Associative
  <2>9. g[c] = g[a - 1] \o SubSeq(text, a, c)
    BY <2>1, <2>2, <2>3, <2>7, <2>8
  <2> QED
    BY <2>1, <2>9 DEF c
<1>4. b - a \in S
  <2> HIDE DEF S
  <2>1. \A m \in 0 .. (b - a) - 1 : m \in S => m + 1 \in S
    BY <1>3
  <2>2. \A m \in 0 .. b - a : m \in S
    BY <1>1, <1>2, <2>1, Climb
  <2> QED
    BY <1>1, <2>2
<1>5. a + (b - a) = b
  BY <1>1
<1> QED
  BY <1>4, <1>5

-----------------------------------------------------------------------------
\* Where a pattern occurs in a text.
Found(text, pattern) == {i \in DOMAIN text : Occurs(text, pattern, i)}

\* The leftmost occurrences that do not overlap, which the code stops at.
Matches(text, pattern) == FirstOf(Found(text, pattern), Len(pattern))

\* What the usage text says of the place of an occurrence.
Fitting(text, pattern, edit, i) ==
  /\ edit.kind = "start" => i = 1 \/ text[i - 1] \in LineEnds
  /\ edit.kind = "end" => LET next == i + Len(pattern)
                         IN  next > Len(text) \/ text[next] \in LineEnds
Replaced(text, pattern, edit) ==
  {i \in Matches(text, pattern) : Fitting(text, pattern, edit, i)}
Reached(M, pattern, i) == \E j \in M : j < i /\ i < j + Len(pattern)
Piece(text, pattern, edit) ==
  [i \in DOMAIN text |->
     IF i \in Replaced(text, pattern, edit) THEN edit.with
     ELSE IF Reached(Replaced(text, pattern, edit), pattern, i) THEN <<>>
     ELSE <<text[i]>>]
With(text, pattern, edit) ==
  [i \in Found(text, pattern) |->
     IF Fitting(text, pattern, edit, i) THEN edit.with ELSE pattern]

\* An occurrence lies within the text.
LEMMA FoundIs ==
  ASSUME NEW text \in Seq(Chars), NEW pattern \in Seq(Chars), pattern # <<>>
  PROVE  /\ Len(text) \in Nat /\ Len(pattern) \in Nat /\ Len(pattern) # 0 /\ DOMAIN text = 1 .. Len(text)
         /\ Found(text, pattern) \subseteq 1 .. Len(text)
         /\ \A i \in Found(text, pattern) : i + Len(pattern) <= Len(text) + 1
<1>1. /\ Len(text) \in Nat /\ Len(pattern) \in Nat /\ DOMAIN text = 1 .. Len(text)
      /\ Len(pattern) # 0
  BY EmptySeq, LenProperties
<1>2. \A i \in 1 .. Len(text) : Occurs(text, pattern, i) => i + Len(pattern) <= Len(text) + 1
  BY <1>1 DEF Occurs
<1> QED
  BY <1>1, <1>2 DEF Found

\* Matches are the leftmost of them.
LEMMA MatchesAre ==
  ASSUME NEW text \in Seq(Chars), NEW pattern \in Seq(Chars), pattern # <<>>
  PROVE  /\ Matches(text, pattern) \subseteq Found(text, pattern)
         /\ Leftmost(Matches(text, pattern), Len(pattern), Found(text, pattern))
<1> DEFINE L == Len(text)
           P == Len(pattern)
           O == Found(text, pattern)
           Right(M) == \A i \in O : i \in M <=> ~ \E j \in M : j < i /\ i < j + P
<1>1. PICK M \in SUBSET O : Leftmost(M, P, O)
  <2>1. Scattered(L, P, O)
    BY FoundIs DEF Scattered
  <2> HIDE DEF L, P, O
  <2> QED
    BY <2>1, LeftmostExists
<1>2. Right(M)
  BY <1>1 DEF Leftmost, Open
<1>3. Matches(text, pattern) = CHOOSE K \in SUBSET O : Right(K)
  BY DEF Matches, FirstOf
<1>4. Matches(text, pattern) \in SUBSET O /\ Right(Matches(text, pattern))
  <2> HIDE DEF O, Right
  <2> QED
    BY <1>1, <1>2, <1>3
<1> QED
  BY <1>4 DEF Leftmost, Open

\* The pieces of Expected are pieces in the sense of Scan.
LEMMA PiecesAre ==
  ASSUME NEW text \in Seq(Chars), NEW pattern \in Seq(Chars), pattern # <<>>, NEW edit \in Edits
  PROVE  Pieces(Chars, Len(text), Len(pattern), Found(text, pattern),
                With(text, pattern, edit), text, Matches(text, pattern),
                Piece(text, pattern, edit))
<1> DEFINE p == Piece(text, pattern, edit)
           M == Matches(text, pattern)
           R == Replaced(text, pattern, edit)
           O == Found(text, pattern)
<1>1. /\ Len(text) \in Nat /\ Len(pattern) \in Nat /\ Len(pattern) # 0 /\ DOMAIN text = 1 .. Len(text)
      /\ O \subseteq 1 .. Len(text)
      /\ \A i \in O : i + Len(pattern) <= Len(text) + 1
  BY FoundIs
<1>2. M \subseteq O /\ Leftmost(M, Len(pattern), O)
  BY MatchesAre
<1>3. edit.with \in Seq(Chars) /\ pattern \in Seq(Chars) /\ <<>> \in Seq(Chars)
  BY EmptySeq DEF Edits
<1>4. With(text, pattern, edit) \in [O -> Seq(Chars)]
  <2> HIDE DEF O
  <2> SUFFICES ASSUME NEW i \in O
               PROVE  (IF Fitting(text, pattern, edit, i) THEN edit.with ELSE pattern) \in Seq(Chars)
    BY DEF With, O
  <2> QED
    BY <1>3
<1>5. \A i \in 1 .. Len(text) : <<text[i]>> \in Seq(Chars)
  OBVIOUS
<1>6. p \in [1 .. Len(text) -> Seq(Chars)]
  <2> SUFFICES ASSUME NEW i \in 1 .. Len(text)
               PROVE  (IF i \in R THEN edit.with
                       ELSE IF Reached(R, pattern, i) THEN <<>> ELSE <<text[i]>>)
                        \in Seq(Chars)
    BY <1>1 DEF Piece
  <2> HIDE DEF R
  <2>1. <<text[i]>> \in Seq(Chars)
    BY <1>5
  <2> QED
    BY <1>3, <2>1
<1>7. R \subseteq M
  BY DEF Replaced
<1>8. ASSUME NEW i \in 1 .. Len(text), i \notin O, Open(M, Len(pattern), i)
      PROVE  p[i] = <<text[i]>>
  <2>1. i \notin R
    BY <1>2, <1>7, <1>8
  <2>2. ~Reached(R, pattern, i)
    <3> HIDE DEF R, M
    <3> QED
      BY <1>7, <1>8 DEF Open, Reached
  <2>3. p[i] = IF i \in R THEN edit.with
               ELSE IF Reached(R, pattern, i) THEN <<>> ELSE <<text[i]>>
    BY <1>1 DEF Piece
  <2> HIDE DEF R, p
  <2> QED
    BY <2>1, <2>2, <2>3
<1>9. text \in [1 .. Len(text) -> Chars]
  OBVIOUS
<1> HIDE DEF p, M, R, O
<1>10. Pieces(Chars, Len(text), Len(pattern), O, With(text, pattern, edit), text, M, p)
  BY <1>1, <1>2, <1>4, <1>6, <1>8, <1>9 DEF Pieces
<1> QED
  BY <1>10 DEF p, M, O

\* The pieces of an occurrence make its replacement, or the occurrence itself.
LEMMA Skipping ==
  ASSUME NEW text \in Seq(Chars), NEW pattern \in Seq(Chars), pattern # <<>>, NEW edit \in Edits,
         NEW g \in [0 .. Len(text) -> Seq(Chars)],
         Joined(g, Len(text), Piece(text, pattern, edit))
  PROVE  Skips(Len(pattern), Matches(text, pattern), With(text, pattern, edit), g)
<1> DEFINE p == Piece(text, pattern, edit)
           M == Matches(text, pattern)
           R == Replaced(text, pattern, edit)
           O == Found(text, pattern)
           P == Len(pattern)
<1>1. /\ Len(text) \in Nat /\ P \in Nat /\ P # 0 /\ DOMAIN text = 1 .. Len(text)
      /\ O \subseteq 1 .. Len(text)
      /\ \A i \in O : i + P <= Len(text) + 1
  BY FoundIs
<1>2. M \subseteq O /\ Leftmost(M, P, O)
  BY MatchesAre
<1>3. R \subseteq M
  BY DEF Replaced
<1>4. \A i \in 1 .. Len(text) :
        p[i] = IF i \in R THEN edit.with
               ELSE IF Reached(R, pattern, i) THEN <<>> ELSE <<text[i]>>
  BY <1>1 DEF Piece
<1>5. \A i \in O : i \in R => With(text, pattern, edit)[i] = edit.with
  BY DEF Replaced, With
<1>6. \A i \in M : i \notin R => With(text, pattern, edit)[i] = pattern
  BY <1>2 DEF Replaced, With
<1> DEFINE w == With(text, pattern, edit)
<1>7. Joined(g, Len(text), p)
  OBVIOUS
<1>12. \A i \in M : Occurs(text, pattern, i)
  BY <1>2 DEF Found
<1> HIDE DEF p, M, R, O, w
<1>8. \A i \in M : i \in Int /\ 1 <= i /\ i + P <= Len(text) + 1
  BY <1>1, <1>2
<1>9. \A i, j \in M : ~(j < i /\ i < j + P)
  BY <1>2 DEF Leftmost, Open
<1>10. ASSUME NEW i \in M, i \in R PROVE g[(i + P) - 1] = g[i - 1] \o w[i]
  <2> DEFINE b == (i + P) - 1
  <2>1. i \in 1 .. Len(text) /\ i \in 0 .. Len(text) /\ b \in i .. Len(text)
    BY <1>1, <1>8
  <2>2. ASSUME NEW k \in i + 1 .. b PROVE p[k] = <<>>
    <3>1. k \in 1 .. Len(text) /\ i < k /\ k < i + P
      BY <1>1, <1>8
    <3>2. k \notin R
      BY <1>3, <1>9, <3>1
    <3>3. Reached(R, pattern, k)
      BY <1>10, <3>1 DEF Reached
    <3> QED
      BY <1>4, <3>1, <3>2, <3>3
  <2>3. p[i] = edit.with /\ w[i] = edit.with
    BY <1>2, <1>4, <1>5, <1>10, <2>1 DEF w
  <2>4. g[i] = g[i - 1] \o p[i]
    BY <1>7, <2>1 DEF Joined
  <2>6. \A k \in i + 1 .. b : p[k] = <<>>
    BY <2>2
  <2>7. Len(text) \in Nat
    BY <1>1
  <2> HIDE DEF b
  <2>8. Erases(Chars, Len(text), p, g, i, b)
    BY <1>7, <2>1, <2>6, <2>7 DEF Erases
  <2>5. g[b] = g[i]
    BY <2>8, Erased
  <2> QED
    BY <2>3, <2>4, <2>5 DEF b
<1>11. ASSUME NEW i \in M, i \notin R PROVE g[(i + P) - 1] = g[i - 1] \o w[i]
  <2> DEFINE b == (i + P) - 1
  <2>1. i \in 1 .. Len(text) /\ b \in i .. Len(text)
    BY <1>1, <1>8
  <2>2. ASSUME NEW k \in i .. b PROVE p[k] = <<text[k]>>
    <3>1. k \in 1 .. Len(text) /\ i <= k /\ k < i + P /\ k \in Int /\ i \in Int
      BY <1>1, <1>8
    <3>2. k \notin R
      BY <1>3, <1>9, <1>11, <3>1
    <3>3. ~Reached(R, pattern, k)
      <4> SUFFICES ASSUME NEW j \in R, j < k, k < j + P PROVE FALSE
        BY DEF Reached
      <4>1. j \in M /\ j \in Int /\ j # i
        BY <1>3, <1>8, <1>11
      <4>2. CASE j < i
        <5>1. i < j + P
          BY <1>1, <3>1, <4>1
        <5> QED
          BY <1>9, <4>1, <4>2, <5>1
      <4>3. CASE i < j
        <5>1. j < i + P
          BY <1>1, <3>1, <4>1
        <5> QED
          BY <1>9, <4>1, <4>3, <5>1
      <4> QED
        BY <3>1, <4>1, <4>2, <4>3
    <3> QED
      BY <1>4, <3>1, <3>2, <3>3
  <2>5. w[i] = pattern
    BY <1>6, <1>11 DEF w
  <2>6. SubSeq(text, i, i + Len(pattern) - 1) = pattern
    BY <1>12 DEF Occurs
  <2>7. i + Len(pattern) - 1 = b
    BY <1>1, <1>8
  <2>3. w[i] = SubSeq(text, i, b)
    BY <2>5, <2>6, <2>7
  <2>8. \A k \in i .. b : p[k] = <<text[k]>>
    BY <2>2
  <2> HIDE DEF b
  <2>9. Copies(Chars, text, p, g, i, b)
    BY <1>7, <2>1, <2>8 DEF Copies
  <2>4. g[b] = g[i - 1] \o SubSeq(text, i, b)
    <3>1. HasCopied(text, g, i, b)
      BY <2>9, Copied
    <3> QED
      BY <3>1 DEF HasCopied
  <2> QED
    BY <2>3, <2>4 DEF b
<1>13. Skips(P, M, w, g)
  BY <1>10, <1>11 DEF Skips
<1> QED
  BY <1>13 DEF M, w

\* Only one function goes through the text from the right.
LEMMA FromOnUnique ==
  ASSUME NEW L \in Nat, NEW P \in Nat, P # 0, NEW O \in SUBSET (1 .. L),
         \A i \in O : i + P <= L + 1, NEW w, NEW text,
         NEW g, FromOn(g, 1 .. L + 1, L, P, O, w, text),
         NEW h, FromOn(h, 1 .. L + 1, L, P, O, w, text)
  PROVE  g = h
<1> DEFINE S == {m \in 0 .. L : \A i \in (L + 1) - m .. L + 1 : g[i] = h[i]}
<1>1. \A i \in 1 .. L + 1 :
        /\ g[i] = IF i > L THEN <<>>
                  ELSE IF i \in O THEN w[i] \o g[i + P] ELSE <<text[i]>> \o g[i + 1]
        /\ h[i] = IF i > L THEN <<>>
                  ELSE IF i \in O THEN w[i] \o h[i + P] ELSE <<text[i]>> \o h[i + 1]
  BY DEF FromOn
<1>2. 0 \in S
  <2>1. L + 1 \in 1 .. L + 1 /\ L + 1 > L
    OBVIOUS
  <2>2. g[L + 1] = h[L + 1]
    BY <1>1, <2>1
  <2>3. \A i \in (L + 1) - 0 .. L + 1 : i = L + 1
    OBVIOUS
  <2>4. 0 \in 0 .. L
    OBVIOUS
  <2> QED
    BY <2>2, <2>3, <2>4
<1>3. ASSUME NEW m \in 0 .. L - 1, m \in S PROVE m + 1 \in S
  <2> DEFINE a == L - m
  <2>1. /\ a \in 1 .. L + 1 /\ ~(a > L) /\ m + 1 \in 0 .. L
        /\ a + 1 \in (L + 1) - m .. L + 1
        /\ a \in O => a + P \in (L + 1) - m .. L + 1
        /\ \A i \in (L + 1) - (m + 1) .. L + 1 : i = a \/ i \in (L + 1) - m .. L + 1
    OBVIOUS
  <2>2. \A i \in (L + 1) - m .. L + 1 : g[i] = h[i]
    BY <1>3
  <2> HIDE DEF a
  <2>3. g[a] = h[a]
    BY <1>1, <2>1, <2>2
  <2> QED
    BY <2>1, <2>2, <2>3
<1>4. L \in S
  <2> HIDE DEF S
  <2>1. \A m \in 0 .. L - 1 : m \in S => m + 1 \in S
    BY <1>3
  <2>2. \A m \in 0 .. L : m \in S
    BY <1>2, <2>1, Climb
  <2> QED
    BY <2>2
<1>5. \A i \in 1 .. L + 1 : g[i] = h[i]
  <2>1. (L + 1) - L = 1
    OBVIOUS
  <2> QED
    BY <1>4, <2>1
<1> QED
  BY <1>5 DEF FromOn

\* The recursion of Replace.
Fits(text, pattern, edit, first, i) ==
  CASE edit.kind = "plain" -> TRUE
    [] edit.kind = "start" -> IF i = 1 THEN first ELSE text[i - 1] \in LineEnds
    [] edit.kind = "end" -> /\ i + Len(pattern) <= Len(text)
                            /\ text[i + Len(pattern)] \in LineEnds
Out(f, text, pattern, edit, first) ==
  f = [i \in 1 .. Len(text) + 1 |->
        IF i > Len(text) THEN <<>>
        ELSE IF Occurs(text, pattern, i)
          THEN (IF Fits(text, pattern, edit, first, i) THEN edit.with ELSE pattern)
               \o f[i + Len(pattern)]
          ELSE <<text[i]>> \o f[i + 1]]

\* Replace is the first value of that recursion.
LEMMA ReplaceOut ==
  ASSUME NEW text, NEW pattern, NEW edit, NEW first
  PROVE  Replace(text, pattern, edit, first) =
           (CHOOSE f : Out(f, text, pattern, edit, first))[1]
  BY DEF Replace, Out, Fits

\* What the code puts in the place of each occurrence.
Chosen(text, pattern, edit, first) ==
  [i \in Found(text, pattern) |->
     IF Fits(text, pattern, edit, first, i) THEN edit.with ELSE pattern]

\* The recursion is one over the occurrences.
LEMMA OutIsFromOn ==
  ASSUME NEW text \in Seq(Chars), NEW pattern \in Seq(Chars), NEW edit, NEW first, NEW f
  PROVE  Out(f, text, pattern, edit, first) <=>
           FromOn(f, 1 .. Len(text) + 1, Len(text), Len(pattern), Found(text, pattern),
                  Chosen(text, pattern, edit, first), text)
<1> DEFINE O == Found(text, pattern)
           w == Chosen(text, pattern, edit, first)
           one(i) == IF i > Len(text) THEN <<>>
                     ELSE IF Occurs(text, pattern, i)
                       THEN (IF Fits(text, pattern, edit, first, i) THEN edit.with ELSE pattern)
                            \o f[i + Len(pattern)]
                       ELSE <<text[i]>> \o f[i + 1]
           two(i) == IF i > Len(text) THEN <<>>
                     ELSE IF i \in O THEN w[i] \o f[i + Len(pattern)]
                     ELSE <<text[i]>> \o f[i + 1]
<1>2. Len(text) \in Nat /\ DOMAIN text = 1 .. Len(text)
  OBVIOUS
<1>3. ASSUME NEW i \in 1 .. Len(text) + 1 PROVE one(i) = two(i)
  <2>1. CASE i > Len(text)
    BY <2>1
  <2>2. CASE ~(i > Len(text)) /\ i \in O
    <3>1. Occurs(text, pattern, i)
      BY <2>2 DEF Found
    <3>2. w[i] = IF Fits(text, pattern, edit, first, i) THEN edit.with ELSE pattern
      BY <2>2 DEF Chosen
    <3> HIDE DEF O, w
    <3> QED
      BY <2>2, <3>1, <3>2
  <2>3. CASE ~(i > Len(text)) /\ i \notin O
    <3>1. i \in DOMAIN text
      BY <1>2, <2>3
    <3>2. ~Occurs(text, pattern, i)
      BY <2>3, <3>1 DEF Found
    <3> HIDE DEF O, w
    <3> QED
      BY <2>3, <3>2
  <2> HIDE DEF O, one, two
  <2> QED
    BY <2>1, <2>2, <2>3
<1>4. Out(f, text, pattern, edit, first) <=> f = [i \in 1 .. Len(text) + 1 |-> one(i)]
  BY DEF Out
<1>5. FromOn(f, 1 .. Len(text) + 1, Len(text), Len(pattern), O, w, text)
        <=> f = [i \in 1 .. Len(text) + 1 |-> two(i)]
  <2> HIDE DEF O, w
  <2> QED
    BY DEF FromOn
<1> HIDE DEF one, two, O, w
<1>6. [i \in 1 .. Len(text) + 1 |-> one(i)] = [i \in 1 .. Len(text) + 1 |-> two(i)]
  BY <1>3
<1> QED
  BY <1>4, <1>5, <1>6 DEF O, w
\* For an edit with one of the right formats that keeps the promise both look
\* at the same places.
Wide(text, pattern, edit) ==
  /\ text \in Seq(Chars) /\ pattern \in Seq(Chars) /\ pattern # <<>> /\ edit \in Edits
  /\ edit.kind # "wrong format"
  /\ Kept(text, pattern, edit)

\* The code's test of a place and that of the usage text agree there.
LEMMA FitsAre ==
  ASSUME NEW text, NEW pattern, NEW edit, Wide(text, pattern, edit), NEW first \in BOOLEAN,
         NEW i \in Found(text, pattern)
  PROVE  Fits(text, pattern, edit, first, i) <=> Fitting(text, pattern, edit, i)
<1>1. /\ edit.kind \in {"plain", "start", "end"} /\ text \in Seq(Chars)
      /\ pattern \in Seq(Chars)
  BY DEF Wide, Edits, Kinds
<1>2. i \in 1 .. Len(text) /\ Occurs(text, pattern, i) /\ DOMAIN text = 1 .. Len(text)
      /\ Len(text) \in Nat /\ Len(pattern) \in Nat
  BY <1>1 DEF Found
<1>3. CASE edit.kind = "plain"
  BY <1>3 DEF Fits, Fitting
<1>4. CASE edit.kind = "start"
  <2>1. i # 1 /\ i > 1
    BY <1>2, <1>4 DEF Wide, Kept
  <2> QED
    BY <1>4, <2>1 DEF Fits, Fitting
<1>5. CASE edit.kind = "end"
  <2>1. i + Len(pattern) <= Len(text)
    BY <1>2, <1>5 DEF Wide, Kept
  <2> QED
    BY <1>2, <1>5, <2>1 DEF Fits, Fitting
<1> QED
  BY <1>1, <1>3, <1>4, <1>5

\* And what the usage text wants replaced is what fits of the leftmost
\* occurrences.
LEMMA WantedIs ==
  ASSUME NEW text, NEW pattern, NEW edit, Wide(text, pattern, edit)
  PROVE  FirstOf(Wanted(text, pattern, edit), Len(pattern)) = Replaced(text, pattern, edit)
<1> DEFINE O == Found(text, pattern)
           P == Len(pattern)
           Q == Wanted(text, pattern, edit)
<1>1. /\ edit.kind \in {"plain", "start", "end"} /\ text \in Seq(Chars)
      /\ pattern \in Seq(Chars) /\ pattern # <<>>
  BY DEF Wide, Edits, Kinds
<1>2. Q = {i \in O : Fitting(text, pattern, edit, i)}
  BY DEF Wanted, Found, Fitting
<1>3. CASE edit.kind = "plain"
  <2>1. \A i \in O : Fitting(text, pattern, edit, i)
    BY <1>3 DEF Fitting
  <2>2. Q = O
    BY <1>2, <2>1
  <2>3. Matches(text, pattern) \subseteq O
    BY <1>1, MatchesAre
  <2>4. Replaced(text, pattern, edit) = Matches(text, pattern)
    BY <2>1, <2>3 DEF Replaced
  <2> HIDE DEF O, Q
  <2> QED
    BY <2>2, <2>4 DEF Matches, O, Q
<1>4. CASE edit.kind # "plain"
  <2>1. \A i, j \in O : i < j => i + P <= j
    BY <1>4 DEF Wide, Kept, Found
  <2>2. O \subseteq 1 .. Len(text) /\ P \in Nat /\ Len(text) \in Nat
    BY <1>1, FoundIs
  <2>3. ASSUME NEW i \in O, NEW j \in O PROVE ~(j < i /\ i < j + P)
    <3>1. i \in Int /\ j \in Int
      BY <2>2
    <3>2. j < i => j + P <= i
      BY <2>1
    <3> HIDE DEF O, P
    <3> QED
      BY <2>2, <3>1, <3>2
  <2>4. ASSUME NEW places \in SUBSET O
        PROVE  FirstOf(places, P) = places
    <3> DEFINE Right(M) == \A i \in places : i \in M <=> ~ \E j \in M : j < i /\ i < j + P
    <3>1. Right(places)
      <4> HIDE DEF O, P
      <4> QED
        BY <2>3
    <3>2. \A M \in SUBSET places : Right(M) => M = places
      <4> HIDE DEF O, P
      <4> QED
        BY <2>3
    <3>3. FirstOf(places, P) = CHOOSE M \in SUBSET places : Right(M)
      BY DEF FirstOf
    <3> HIDE DEF Right
    <3> QED
      BY <3>1, <3>2, <3>3
  <2>5. FirstOf(O, P) = O /\ FirstOf(Q, P) = Q
    <3> HIDE DEF O, P, Q
    <3> QED
      BY <1>2, <2>4
  <2>6. Replaced(text, pattern, edit) = {i \in O : Fitting(text, pattern, edit, i)}
    BY <2>5 DEF Replaced, Matches
  <2> HIDE DEF O, P, Q
  <2> QED
    BY <1>2, <2>5, <2>6 DEF P, Q
<1> QED
  BY <1>3, <1>4

\* So the code puts the same in the place of each occurrence.
LEMMA ChosenIsWith ==
  ASSUME NEW text, NEW pattern, NEW edit, Wide(text, pattern, edit), NEW first \in BOOLEAN
  PROVE  Chosen(text, pattern, edit, first) = With(text, pattern, edit)
<1>1. \A i \in Found(text, pattern) :
        Fits(text, pattern, edit, first, i) <=> Fitting(text, pattern, edit, i)
  BY FitsAre
<1> QED
  BY <1>1 DEF Chosen, With

\* The recursion of Replace comes to an end with texts.
LEMMA ReplaceGoesOn ==
  ASSUME NEW text \in Seq(Chars), NEW pattern \in Seq(Chars), pattern # <<>>,
         NEW edit \in Edits, NEW first
  PROVE  \E h \in [1 .. Len(text) + 1 -> Seq(Chars)] :
           /\ FromOn(h, 1 .. Len(text) + 1, Len(text), Len(pattern), Found(text, pattern),
                     Chosen(text, pattern, edit, first), text)
           /\ Replace(text, pattern, edit, first) = h[1]
<1> DEFINE L == Len(text)
           P == Len(pattern)
           O == Found(text, pattern)
           w == Chosen(text, pattern, edit, first)
           out == CHOOSE f : Out(f, text, pattern, edit, first)
<1>1. edit.with \in Seq(Chars)
  BY DEF Edits
<1>2. w \in [O -> Seq(Chars)]
  <2> SUFFICES ASSUME NEW i \in O
               PROVE  (IF Fits(text, pattern, edit, first, i) THEN edit.with ELSE pattern)
                        \in Seq(Chars)
    BY DEF Chosen
  <2> QED
    BY <1>1
<1>3. /\ L \in Nat /\ P \in Nat /\ P # 0 /\ O \in SUBSET (1 .. L)
      /\ \A i \in O : i + P <= L + 1
      /\ w \in [O -> Seq(Chars)] /\ text \in [1 .. L -> Chars]
  <2>1. L \in Nat /\ P \in Nat /\ P # 0 /\ O \in SUBSET (1 .. L)
    BY FoundIs
  <2>2. \A i \in O : i + P <= L + 1
    BY FoundIs
  <2>3. text \in [1 .. L -> Chars]
    OBVIOUS
  <2> HIDE DEF L, P, O, w
  <2> QED
    BY <1>2, <2>1, <2>2, <2>3
<1>4. PICK h \in [1 .. L + 1 -> Seq(Chars)] : FromOn(h, 1 .. L + 1, L, P, O, w, text)
  <2> HIDE DEF L, P, O, w
  <2> QED
    BY <1>3, FromOnExists
<1>5. Out(out, text, pattern, edit, first)
  <2>1. Out(h, text, pattern, edit, first)
    <3> HIDE DEF L, P, O, w
    <3> QED
      BY <1>4, OutIsFromOn DEF L, P, O, w
  <2> QED
    BY <2>1
<1>6. FromOn(out, 1 .. L + 1, L, P, O, w, text)
  <2> HIDE DEF out
  <2> QED
    BY <1>5, OutIsFromOn
<1>7. out = h
  <2> HIDE DEF out, L, P, O, w
  <2> QED
    BY <1>3, <1>4, <1>6, FromOnUnique
<1>8. Replace(text, pattern, edit, first) = h[1]
  BY <1>7, ReplaceOut
<1> QED
  BY <1>4, <1>8

\* Every replacement is a text, and that of the empty text is empty.
LEMMA ReplaceTyped ==
  ASSUME NEW text \in Seq(Chars), NEW pattern \in Seq(Chars), pattern # <<>>,
         NEW edit \in Edits, NEW first
  PROVE  /\ Replace(text, pattern, edit, first) \in Seq(Chars)
         /\ text = <<>> => Replace(text, pattern, edit, first) = <<>>
<1>1. PICK h \in [1 .. Len(text) + 1 -> Seq(Chars)] :
        /\ FromOn(h, 1 .. Len(text) + 1, Len(text), Len(pattern), Found(text, pattern),
                  Chosen(text, pattern, edit, first), text)
        /\ Replace(text, pattern, edit, first) = h[1]
  BY ReplaceGoesOn
<1>2. 1 \in 1 .. Len(text) + 1 /\ (text = <<>> => 1 > Len(text))
  OBVIOUS
<1>3. text = <<>> => h[1] = <<>>
  BY <1>1, <1>2 DEF FromOn
<1> QED
  BY <1>1, <1>2, <1>3

\* Replace, which goes through the text once, character by character and
\* over each occurrence, is what Expected says of the leftmost occurrences.
LEMMA ReplaceIs ==
  ASSUME NEW text, NEW pattern, NEW edit, Wide(text, pattern, edit), NEW first \in BOOLEAN
  PROVE  /\ Replace(text, pattern, edit, first) = Expected(text, pattern, edit)
         /\ Expected(text, pattern, edit) \in Seq(Chars)
<1> DEFINE L == Len(text)
           P == Len(pattern)
           O == Found(text, pattern)
           w == With(text, pattern, edit)
           M == Matches(text, pattern)
           p == Piece(text, pattern, edit)
<1>1. text \in Seq(Chars) /\ pattern \in Seq(Chars) /\ pattern # <<>> /\ edit \in Edits
  BY DEF Wide
<1>2. Pieces(Chars, L, P, O, w, text, M, p)
  <2> HIDE DEF L, P, O, w, M, p
  <2> QED
    BY <1>1, PiecesAre DEF L, P, O, w, M, p
<1>3. L \in Nat /\ p \in [1 .. L -> Seq(Chars)]
  <2> HIDE DEF L, P, O, w, M, p
  <2> QED
    BY <1>2 DEF Pieces
<1>4. PICK g \in [0 .. L -> Seq(Chars)] : Joined(g, L, p)
  <2> HIDE DEF L, p
  <2> QED
    BY <1>3, JoinedExists
<1>5. Skips(P, M, w, g)
  <2> HIDE DEF P, M, w
  <2> QED
    BY <1>1, <1>4, Skipping DEF P, M, w
<1>6. PICK h \in [1 .. L + 1 -> Seq(Chars)] :
        FromOn(h, 1 .. L + 1, L, P, O, w, text)
          /\ Replace(text, pattern, edit, first) = h[1]
  BY <1>1, ReplaceGoesOn, ChosenIsWith
<1>7. h[1] = g[L]
  <2> HIDE DEF L, P, O, w, M, p
  <2>1. Scanned(Chars, L, P, O, w, text, M, p, g, h)
    BY <1>2, <1>4, <1>5, <1>6 DEF Scanned
  <2>2. Meets(h, g, L)
    BY <2>1, Scan, Zenon
  <2> QED
    BY <2>2 DEF Meets
<1>8. Expected(text, pattern, edit) = FlattenSeq(p)
  <2> DEFINE R == Replaced(text, pattern, edit)
  <2>1. FirstOf(Wanted(text, pattern, edit), Len(pattern)) = R
    BY WantedIs
  <2> HIDE DEF R
  <2>2. Expected(text, pattern, edit) =
          FlattenSeq([i \in DOMAIN text |->
            IF i \in R THEN edit.with
            ELSE IF \E j \in R : j < i /\ i < j + Len(pattern) THEN <<>> ELSE <<text[i]>>])
    BY <2>1 DEF Expected
  <2> QED
    BY <2>2 DEF Piece, R, Reached
<1>9. p \in Seq(Seq(Chars)) /\ Len(p) = L
  <2> HIDE DEF L, p
  <2> QED
    BY <1>3
<1>10. FlattenSeq(p) = g[L]
  <2> HIDE DEF L, p
  <2>1. CASE L = 0
    <3>1. p = <<>> /\ g[0] = <<>>
      BY <1>4, <1>9, <2>1, EmptySeq DEF Joined
    <3>2. FlattenSeq(p) = p
      BY <1>9, <2>1 DEF FlattenSeq
    <3> QED
      BY <2>1, <3>1, <3>2
  <2>2. CASE L # 0
    <3>1. p # <<>>
      BY <1>9, <2>2
    <3>2. g \in [0 .. Len(p) -> Seq(Chars)] /\ Joined(g, Len(p), p)
      BY <1>4, <1>9
    <3>3. FlattenSeq(p) = g[Len(p)]
      BY <1>9, <3>1, <3>2, FlattenIs
    <3> QED
      BY <1>9, <3>3
  <2> QED
    BY <2>1, <2>2
<1>11. g[L] \in Seq(Chars)
  <2> HIDE DEF L
  <2> QED
    BY <1>3, <1>4
<1> QED
  BY <1>6, <1>7, <1>8, <1>10, <1>11

-----------------------------------------------------------------------------
\* The editors: the invariant of their steps.
Stages == {"lock", "edit", "read", "write", "done", "failed"}

EditTypes ==
  /\ original \in Seq(Chars)
  /\ stage \in [Editors -> Stages]
  /\ job \in [Editors -> Jobs]
  /\ pair \in [Editors -> Nat]
  /\ alt \in [Editors -> Nat]
  /\ pos \in [Editors -> Nat]
  /\ temp \in [Editors -> Seq(Chars)]
  /\ before \in [Editors -> Seq(Chars)]

\* An editor at its edits holds the lock.
EditorHolds == \A e \in Editors : stage[e] \in {"edit", "read", "write"} => holder = e

\* The counters name an edit that can be made, and a pattern of it.
AtAnEdit ==
  \A e \in Editors :
    /\ pair[e] > 0
    /\ stage[e] = "lock" => pair[e] = 1
    /\ stage[e] \in {"read", "write"} =>
         /\ pair[e] <= Len(job[e]) /\ Edit(e).kind # "wrong format"
         /\ alt[e] \in 1 .. Len(Edit(e).patterns)

\* The first pattern is looked for from the head of the file as it was.
FromTheHead ==
  \A e \in Editors :
    stage[e] = "read" /\ alt[e] = 1 =>
      pos[e] = 0 /\ temp[e] = <<>> /\ before[e] = original

\* What an edit makes of a text, where EditReplacesAll speaks of it.
Simple(edit, text) ==
  Len(edit.patterns) = 1 /\ Kept(text, edit.patterns[1], edit)
Edited(edit, text) == Expected(text, edit.patterns[1], edit)
TempIsEdited ==
  \A e \in Editors :
    stage[e] = "write" /\ Simple(Edit(e), before[e]) =>
      before[e] = original /\ temp[e] = Edited(Edit(e), before[e])

\* All of it.
EInv ==
  EditTypes /\ EditorHolds /\ AtAnEdit /\ FromTheHead /\ TempIsEdited /\ EditReplacesAll

-----------------------------------------------------------------------------
\* An edit of a command line has patterns, none of them empty.
LEMMA JobIs ==
  ASSUME NEW j \in Jobs, NEW k \in Nat, k > 0, k <= Len(j)
  PROVE  /\ j[k] \in Edits /\ j[k].with \in Seq(Chars) /\ j[k].kind \in Kinds
         /\ Len(j[k].patterns) \in Nat /\ Len(j[k].patterns) > 0
         /\ \A a \in 1 .. Len(j[k].patterns) :
              j[k].patterns[a] \in Seq(Chars) /\ j[k].patterns[a] # <<>>
<1>1. j \in Seq(Edits)
  BY EditorAssumption
<1>2. k \in 1 .. Len(j)
  BY <1>1
<1>3. j[k] \in Edits
  BY <1>1, <1>2
<1> DEFINE P == Seq(Chars) \ {<<>>}
           ps == j[k].patterns
<1>4. ps \in Seq(P) /\ ps # <<>> /\ j[k].with \in Seq(Chars) /\ j[k].kind \in Kinds
  BY <1>3 DEF Edits
<1> HIDE DEF P, ps
<1>5. Len(ps) \in Nat /\ Len(ps) > 0 /\ \A a \in 1 .. Len(ps) : ps[a] \in P
  BY <1>4, EmptySeq
<1> QED
  BY <1>3, <1>4, <1>5 DEF P, ps

\* Lowering a text keeps its length.
LEMMA LoweredIs ==
  ASSUME NEW s \in Seq(Chars), NEW edit
  PROVE  /\ Lowered(s, edit) \in Seq(Chars) /\ Len(Lowered(s, edit)) = Len(s)
         /\ Lowered(s, edit) = <<>> <=> s = <<>>
<1> DEFINE t == [k \in DOMAIN s |-> Lower(s[k])]
<1>1. \A k \in 1 .. Len(s) : Lower(s[k]) \in Chars
  BY EditorAssumption
<1>2. DOMAIN s = 1 .. Len(s) /\ Len(s) \in Nat
  OBVIOUS
<1>3. t \in Seq(Chars) /\ Len(t) = Len(s)
  BY <1>1, <1>2
<1> HIDE DEF t
<1>4. t = <<>> <=> s = <<>>
  BY <1>3, EmptySeq
<1> QED
  BY <1>3, <1>4 DEF Lowered, t

\* It holds at first.
LEMMA EInvInit == EditInit => EInv
<1> SUFFICES ASSUME EditInit PROVE EInv
  OBVIOUS
<1> USE DEF EditInit
<1>1. EditTypes
  BY EditorAssumption, EmptySeq DEF EditTypes, Stages
<1>2. EditorHolds /\ AtAnEdit /\ FromTheHead
  BY DEF EditorHolds, AtAnEdit, FromTheHead
<1>3. TempIsEdited /\ EditReplacesAll
  BY DEF TempIsEdited, EditReplacesAll
<1> QED
  BY <1>1, <1>2, <1>3 DEF EInv

\* What an editor adds to its temporary file is a text.
LEMMA ReadTyped ==
  ASSUME EInv, NEW e \in Editors, stage[e] = "read", NEW first
  PROVE  LET chunk == Lowered(SubSeq(original, pos[e] + 1, Len(original)), Edit(e))
             pattern == Lowered(Edit(e).patterns[alt[e]], Edit(e))
         IN  /\ Edit(e) \in Edits /\ chunk \in Seq(Chars)
             /\ pattern \in Seq(Chars) /\ pattern # <<>>
             /\ Replace(chunk, pattern, Edit(e), first) \in Seq(Chars)
<1> DEFINE rest == SubSeq(original, pos[e] + 1, Len(original))
           chunk == Lowered(rest, Edit(e))
           pattern == Lowered(Edit(e).patterns[alt[e]], Edit(e))
<1>1. /\ original \in Seq(Chars) /\ job[e] \in Jobs /\ pair[e] \in Nat /\ pos[e] \in Nat
      /\ pair[e] > 0 /\ pair[e] <= Len(job[e]) /\ alt[e] \in 1 .. Len(Edit(e).patterns)
  BY DEF EInv, EditTypes, AtAnEdit
<1>2. Edit(e) \in Edits /\ Edit(e).patterns[alt[e]] \in Seq(Chars)
      /\ Edit(e).patterns[alt[e]] # <<>>
  BY <1>1, JobIs DEF Edit
<1>3. rest \in Seq(Chars)
  <2>1. \A i \in pos[e] + 1 .. Len(original) : original[i] \in Chars
    BY <1>1
  <2> QED
    BY <1>1, <2>1, SubSeqProperties
<1> HIDE DEF rest
<1>4. chunk \in Seq(Chars) /\ pattern \in Seq(Chars) /\ pattern # <<>>
  BY <1>2, <1>3, LoweredIs
<1> HIDE DEF chunk, pattern
<1>5. Replace(chunk, pattern, Edit(e), first) \in Seq(Chars)
  BY <1>2, <1>4, ReplaceTyped
<1> QED
  BY <1>2, <1>4, <1>5 DEF chunk, pattern, rest

\* A counter set anew is a counter.
LEMMA Counted ==
  ASSUME NEW f \in [Editors -> Nat], NEW g, NEW e \in Editors, NEW v \in Nat,
         g = f \/ g = [f EXCEPT ![e] = v]
  PROVE  g \in [Editors -> Nat]
  OBVIOUS

\* Every step keeps each part of the invariant.
LEMMA EditTypesStep ==
  ASSUME EInv, NEW e \in Editors, Editor(e) \/ Kill(e)
  PROVE  EditTypes'
<1> USE DEF EditTypes, EInv
<1>1. CASE SetLock(e)
  BY <1>1 DEF SetLock, GoTo, Stages
<1>2. CASE StartEdit(e)
  <2>1. <<>> \in Seq(Chars)
    BY EmptySeq
  <2>2. stage' \in [Editors -> Stages]
    BY <1>2 DEF StartEdit, NewTemp, GoTo, Leave, Stages
  <2>3. alt' \in [Editors -> Nat] /\ pos' \in [Editors -> Nat]
    <3>1. alt' = alt \/ alt' = [alt EXCEPT ![e] = 1]
      BY <1>2 DEF StartEdit, NewTemp
    <3>2. pos' = pos \/ pos' = [pos EXCEPT ![e] = 0]
      BY <1>2 DEF StartEdit, NewTemp
    <3>3. alt' \in [Editors -> Nat]
      BY <3>1, Counted
    <3>4. pos' \in [Editors -> Nat]
      BY <3>2, Counted
    <3> QED
      BY <3>3, <3>4
  <2>4. temp' \in [Editors -> Seq(Chars)] /\ before' \in [Editors -> Seq(Chars)]
    BY <1>2, <2>1 DEF StartEdit, NewTemp
  <2> QED
    BY <1>2, <2>2, <2>3, <2>4 DEF StartEdit, NewTemp
<1>3. CASE EndEdits(e)
  BY <1>3 DEF EndEdits, GoTo, Leave, Stages
<1>4. CASE FillTemp(e)
  <2> DEFINE chunk == Lowered(SubSeq(original, pos[e] + 1, Len(original)), Edit(e))
             pattern == Lowered(Edit(e).patterns[alt[e]], Edit(e))
  <2>1. stage[e] = "read"
    BY <1>4 DEF FillTemp
  <2>2. PICK first \in BOOLEAN :
          temp' = [temp EXCEPT ![e] =
                     IF chunk = <<>> THEN @
                     ELSE @ \o Replace(chunk, pattern, Edit(e), first)]
    BY <1>4 DEF FillTemp
  <2>3. Replace(chunk, pattern, Edit(e), first) \in Seq(Chars)
    BY <2>1, ReadTyped
  <2> DEFINE new == temp[e] \o Replace(chunk, pattern, Edit(e), first)
  <2>4. new \in Seq(Chars)
    BY <2>3, ConcatProperties
  <2>5. temp' = [temp EXCEPT ![e] = IF chunk = <<>> THEN temp[e] ELSE new]
    BY <2>2
  <2> HIDE DEF new, chunk, pattern
  <2>6. temp' \in [Editors -> Seq(Chars)]
    BY <2>4, <2>5
  <2>7. stage' \in [Editors -> Stages]
    BY <1>4 DEF FillTemp, GoTo, Stages
  <2> QED
    BY <1>4, <2>6, <2>7 DEF FillTemp
<1>5. CASE CopyBack(e)
  <2> DEFINE tail == SubSeq(original, Len(temp[e]) + 1, Len(original))
  <2>1. original \in Seq(Chars) /\ temp[e] \in Seq(Chars)
    OBVIOUS
  <2>2. tail \in Seq(Chars)
    <3>1. \A i \in Len(temp[e]) + 1 .. Len(original) : original[i] \in Chars
      BY <2>1
    <3> QED
      BY <2>1, <3>1, SubSeqProperties
  <2>3. original' = temp[e] \o tail
    BY <1>5 DEF CopyBack
  <2> HIDE DEF tail
  <2>4. original' \in Seq(Chars)
    BY <2>1, <2>2, <2>3, ConcatProperties
  <2>5. pos' \in [Editors -> Nat]
    BY <1>5, <2>1 DEF CopyBack
  <2>6. stage' \in [Editors -> Stages] /\ pair' \in [Editors -> Nat] /\ alt' \in [Editors -> Nat]
    <3>1. stage' = [stage EXCEPT ![e] = "read"] \/ stage' = [stage EXCEPT ![e] = "edit"]
      BY <1>5 DEF CopyBack, GoTo
    <3>2. pair' = pair \/ pair' = [pair EXCEPT ![e] = pair[e] + 1]
      BY <1>5 DEF CopyBack
    <3>3. alt' = alt \/ alt' = [alt EXCEPT ![e] = alt[e] + 1]
      BY <1>5 DEF CopyBack
    <3>4. stage' \in [Editors -> Stages]
      BY <3>1 DEF Stages
    <3>7. pair[e] + 1 \in Nat /\ alt[e] + 1 \in Nat
      OBVIOUS
    <3>5. pair' \in [Editors -> Nat]
      BY <3>2, <3>7, Counted
    <3>6. alt' \in [Editors -> Nat]
      BY <3>3, <3>7, Counted
    <3> QED
      BY <3>4, <3>5, <3>6
  <2> QED
    BY <1>5, <2>4, <2>5, <2>6 DEF CopyBack
<1>6. CASE Kill(e)
  BY <1>6 DEF Kill, GoTo, Leave, Stages
<1> QED
  BY <1>1, <1>2, <1>3, <1>4, <1>5, <1>6 DEF Editor

LEMMA EditorHoldsStep ==
  ASSUME EInv, NEW e \in Editors, Editor(e) \/ Kill(e)
  PROVE  EditorHolds'
<1> USE DEF EditorHolds, EInv
<1>0. stage \in [Editors -> Stages]
  BY DEF EditTypes
<1>1. CASE SetLock(e)
  <2>1. \A f \in Editors : f # None
    BY EditorAssumption
  <2> QED
    BY <1>0, <1>1, <2>1 DEF SetLock, GoTo
<1>2. CASE StartEdit(e)
  BY <1>0, <1>2 DEF StartEdit, NewTemp, GoTo, Leave
<1>3. CASE EndEdits(e)
  BY <1>0, <1>3 DEF EndEdits, GoTo, Leave
<1>4. CASE FillTemp(e)
  BY <1>0, <1>4 DEF FillTemp, GoTo
<1>5. CASE CopyBack(e)
  BY <1>0, <1>5 DEF CopyBack, GoTo
<1>6. CASE Kill(e)
  BY <1>0, <1>6 DEF Kill, GoTo, Leave
<1> QED
  BY <1>1, <1>2, <1>3, <1>4, <1>5, <1>6 DEF Editor

LEMMA AtAnEditStep ==
  ASSUME EInv, NEW e \in Editors, Editor(e) \/ Kill(e)
  PROVE  AtAnEdit'
<1>0. /\ stage \in [Editors -> Stages] /\ pair \in [Editors -> Nat]
      /\ alt \in [Editors -> Nat] /\ job \in [Editors -> Jobs]
  BY DEF EInv, EditTypes
<1>1. \A f \in Editors :
        /\ pair[f] > 0
        /\ stage[f] = "lock" => pair[f] = 1
        /\ stage[f] \in {"read", "write"} =>
             /\ pair[f] <= Len(job[f]) /\ job[f][pair[f]].kind # "wrong format"
             /\ alt[f] \in 1 .. Len(job[f][pair[f]].patterns)
  BY DEF EInv, AtAnEdit, Edit
<1>2. SUFFICES ASSUME NEW f \in Editors
               PROVE  /\ pair'[f] > 0
                      /\ stage'[f] = "lock" => pair'[f] = 1
                      /\ stage'[f] \in {"read", "write"} =>
                           /\ pair'[f] <= Len(job'[f])
                           /\ job'[f][pair'[f]].kind # "wrong format"
                           /\ alt'[f] \in 1 .. Len(job'[f][pair'[f]].patterns)
  BY DEF AtAnEdit, Edit
<1>3. CASE SetLock(e)
  BY <1>0, <1>1, <1>3 DEF SetLock, GoTo
<1>4. CASE StartEdit(e)
  <2>1. pair' = pair /\ job' = job
    BY <1>4 DEF StartEdit, NewTemp
  <2>2. CASE f # e
    BY <1>0, <1>1, <1>4, <2>1, <2>2 DEF StartEdit, NewTemp, GoTo, Leave
  <2>3. CASE f = e /\ Leave(e, "failed")
    BY <1>0, <1>1, <2>1, <2>3 DEF Leave, GoTo
  <2>4. CASE f = e /\ ~Leave(e, "failed")
    <3>1. Edit(e).kind # "wrong format" /\ pair[e] <= Len(job[e])
      BY <1>4, <2>4 DEF StartEdit, NewTemp
    <3>2. alt'[e] = 1 /\ stage'[e] = "read"
      BY <1>0, <1>4, <2>4 DEF StartEdit, NewTemp, GoTo
    <3>3. 1 \in 1 .. Len(job[e][pair[e]].patterns)
      <4>1. job[e] \in Jobs /\ pair[e] \in Nat /\ pair[e] > 0
        BY <1>0, <1>1
      <4>2. Len(job[e][pair[e]].patterns) \in Nat /\ Len(job[e][pair[e]].patterns) > 0
        BY <3>1, <4>1, JobIs
      <4> QED
        BY <4>2
    <3> QED
      BY <1>1, <2>1, <2>4, <3>1, <3>2, <3>3 DEF Edit
  <2> QED
    BY <2>2, <2>3, <2>4
<1>5. CASE EndEdits(e)
  BY <1>0, <1>1, <1>5 DEF EndEdits, GoTo, Leave
<1>6. CASE FillTemp(e)
  BY <1>0, <1>1, <1>6 DEF FillTemp, GoTo
<1>7. CASE CopyBack(e)
  <2>1. job' = job /\ stage[e] = "write"
    BY <1>7 DEF CopyBack
  <2>2. CASE f # e
    <3>1. pair'[f] = pair[f] /\ alt'[f] = alt[f] /\ stage'[f] = stage[f]
      BY <1>0, <1>7, <2>2 DEF CopyBack, GoTo
    <3> QED
      BY <1>1, <2>1, <3>1
  <2>3. CASE f = e /\ alt[e] < Len(Edit(e).patterns)
    <3>1. pair' = pair /\ alt'[e] = alt[e] + 1 /\ stage'[e] = "read"
      BY <1>0, <1>7, <2>3 DEF CopyBack, GoTo
    <3>2. alt[e] + 1 \in 1 .. Len(job[e][pair[e]].patterns)
      <4>1. job[e] \in Jobs /\ pair[e] \in Nat /\ pair[e] > 0 /\ pair[e] <= Len(job[e])
            /\ alt[e] \in 1 .. Len(job[e][pair[e]].patterns)
        BY <1>0, <1>1, <2>1
      <4>2. Len(job[e][pair[e]].patterns) \in Nat
        BY <4>1, JobIs
      <4> QED
        BY <2>3, <4>1, <4>2 DEF Edit
    <3> QED
      BY <1>1, <2>1, <2>3, <3>1, <3>2
  <2>4. CASE f = e /\ ~(alt[e] < Len(Edit(e).patterns))
    <3>1. pair'[e] = pair[e] + 1 /\ stage'[e] = "edit"
      BY <1>0, <1>7, <2>4 DEF CopyBack, GoTo
    <3>2. pair[e] \in Nat
      BY <1>0
    <3>3. pair'[e] > 0 /\ stage'[e] = "edit"
      BY <3>1, <3>2
    <3> QED
      BY <2>4, <3>3
  <2> QED
    BY <2>2, <2>3, <2>4
<1>8. CASE Kill(e)
  BY <1>0, <1>1, <1>8 DEF Kill, GoTo, Leave
<1> QED
  BY <1>3, <1>4, <1>5, <1>6, <1>7, <1>8 DEF Editor

\* Who is at its edits when e takes a step at them is e itself.
LEMMA OnlyEditor ==
  ASSUME EInv, NEW e \in Editors, NEW f \in Editors,
         stage[e] \in {"edit", "read", "write"}, stage[f] \in {"edit", "read", "write"}
  PROVE  e = f
  BY DEF EInv, EditorHolds

\* Nor does one come to its edits while another is there.
LEMMA OthersUnchanged ==
  ASSUME EInv, NEW e \in Editors, Editor(e) \/ Kill(e), NEW f \in Editors, f # e
  PROVE  /\ stage'[f] = stage[f] /\ pair'[f] = pair[f] /\ alt'[f] = alt[f]
         /\ pos'[f] = pos[f] /\ temp'[f] = temp[f] /\ before'[f] = before[f]
         /\ job' = job
         /\ stage[f] \in {"edit", "read", "write"} => original' = original
<1>0. /\ stage \in [Editors -> Stages] /\ pair \in [Editors -> Nat]
      /\ alt \in [Editors -> Nat] /\ pos \in [Editors -> Nat]
      /\ temp \in [Editors -> Seq(Chars)] /\ before \in [Editors -> Seq(Chars)]
  BY DEF EInv, EditTypes
<1>1. CASE SetLock(e)
  BY <1>0, <1>1 DEF SetLock, GoTo
<1>2. CASE StartEdit(e)
  <2>1. /\ stage' \in {[stage EXCEPT ![e] = "failed"], [stage EXCEPT ![e] = "read"]}
        /\ alt' \in {alt, [alt EXCEPT ![e] = 1]}
        /\ pos' \in {pos, [pos EXCEPT ![e] = 0]}
        /\ temp' \in {temp, [temp EXCEPT ![e] = <<>>]}
        /\ before' \in {before, [before EXCEPT ![e] = original]}
        /\ pair' = pair /\ job' = job /\ original' = original
    BY <1>2 DEF StartEdit, NewTemp, GoTo, Leave
  <2> QED
    BY <1>0, <2>1
<1>3. CASE EndEdits(e)
  BY <1>0, <1>3 DEF EndEdits, GoTo, Leave
<1>4. CASE FillTemp(e)
  BY <1>0, <1>4 DEF FillTemp, GoTo
<1>5. CASE CopyBack(e)
  <2>1. stage[f] \notin {"edit", "read", "write"}
    BY <1>5, OnlyEditor DEF CopyBack
  <2>2. /\ stage' \in {[stage EXCEPT ![e] = "edit"], [stage EXCEPT ![e] = "read"]}
        /\ alt' \in {alt, [alt EXCEPT ![e] = alt[e] + 1]}
        /\ pair' \in {pair, [pair EXCEPT ![e] = pair[e] + 1]}
        /\ pos' = [pos EXCEPT ![e] = Len(temp[e])]
        /\ temp' = temp /\ before' = before /\ job' = job
    BY <1>5 DEF CopyBack, GoTo
  <2> QED
    BY <1>0, <2>1, <2>2
<1>6. CASE Kill(e)
  BY <1>0, <1>6 DEF Kill, GoTo, Leave
<1> QED
  BY <1>1, <1>2, <1>3, <1>4, <1>5, <1>6 DEF Editor

LEMMA FromTheHeadStep ==
  ASSUME EInv, NEW e \in Editors, Editor(e) \/ Kill(e)
  PROVE  FromTheHead'
<1>0. /\ stage \in [Editors -> Stages] /\ pair \in [Editors -> Nat]
      /\ alt \in [Editors -> Nat] /\ pos \in [Editors -> Nat]
      /\ temp \in [Editors -> Seq(Chars)] /\ before \in [Editors -> Seq(Chars)]
  BY DEF EInv, EditTypes
<1>1. SUFFICES ASSUME NEW f \in Editors, stage'[f] = "read", alt'[f] = 1
               PROVE  pos'[f] = 0 /\ temp'[f] = <<>> /\ before'[f] = original'
  BY DEF FromTheHead
<1>2. CASE f # e
  BY <1>1, <1>2, OthersUnchanged DEF EInv, FromTheHead
<1>3. CASE f = e
  <2>1. CASE SetLock(e)
    BY <1>0, <1>1, <1>3, <2>1 DEF SetLock, GoTo
  <2>2. CASE StartEdit(e)
    <3>1. stage'[e] # "failed"
      BY <1>1, <1>3
    <3>2. ~Leave(e, "failed")
      BY <1>0, <3>1 DEF Leave, GoTo
    <3> QED
      BY <1>0, <1>3, <2>2, <3>2 DEF StartEdit, NewTemp
  <2>3. CASE EndEdits(e)
    BY <1>0, <1>1, <1>3, <2>3 DEF EndEdits, GoTo, Leave
  <2>4. CASE FillTemp(e)
    BY <1>0, <1>1, <1>3, <2>4 DEF FillTemp, GoTo
  <2>5. CASE CopyBack(e)
    <3>1. alt'[e] = alt[e] + 1
      BY <1>0, <1>1, <1>3, <2>5 DEF CopyBack, GoTo
    <3>2. alt[e] \in 1 .. Len(Edit(e).patterns)
      BY <2>5 DEF CopyBack, EInv, AtAnEdit
    <3> QED
      BY <1>0, <1>1, <1>3, <3>1, <3>2
  <2>6. CASE Kill(e)
    BY <1>0, <1>1, <1>3, <2>6 DEF Kill, GoTo, Leave
  <2> QED
    BY <2>1, <2>2, <2>3, <2>4, <2>5, <2>6 DEF Editor
<1> QED
  BY <1>2, <1>3

\* An edit for which EditReplacesAll speaks is one that ReplaceIs is about.
LEMMA SimpleIsWide ==
  ASSUME NEW edit \in Edits, edit.kind # "wrong format", NEW text \in Seq(Chars),
         edit.patterns[1] \in Seq(Chars), edit.patterns[1] # <<>>, Simple(edit, text)
  PROVE  /\ Wide(text, edit.patterns[1], edit)
         /\ Lowered(text, edit) = text
         /\ Lowered(edit.patterns[1], edit) = edit.patterns[1]
  BY DEF Simple, Wide, Kept, Lowered

LEMMA TempIsEditedStep ==
  ASSUME EInv, NEW e \in Editors, Editor(e) \/ Kill(e)
  PROVE  TempIsEdited'
<1>0. /\ stage \in [Editors -> Stages] /\ pair \in [Editors -> Nat]
      /\ alt \in [Editors -> Nat] /\ pos \in [Editors -> Nat]
      /\ temp \in [Editors -> Seq(Chars)] /\ before \in [Editors -> Seq(Chars)]
      /\ job \in [Editors -> Jobs] /\ original \in Seq(Chars)
  BY DEF EInv, EditTypes
<1>1. SUFFICES ASSUME NEW f \in Editors, stage'[f] = "write",
                      Simple(job'[f][pair'[f]], before'[f])
               PROVE  before'[f] = original' /\ temp'[f] = Edited(job'[f][pair'[f]], before'[f])
  BY DEF TempIsEdited, Edit, Simple, Edited
<1>2. CASE f # e
  <2>1. stage[f] = "write" /\ Simple(job[f][pair[f]], before[f])
    BY <1>1, <1>2, OthersUnchanged
  <2>2. before[f] = original /\ temp[f] = Edited(job[f][pair[f]], before[f])
    BY <2>1 DEF EInv, TempIsEdited, Edit
  <2> QED
    BY <1>2, <2>1, <2>2, OthersUnchanged
<1>3. CASE f = e
  <2>1. CASE SetLock(e)
    BY <1>0, <1>1, <1>3, <2>1 DEF SetLock, GoTo
  <2>2. CASE StartEdit(e)
    <3>1. stage' \in {[stage EXCEPT ![e] = "failed"], [stage EXCEPT ![e] = "read"]}
      BY <2>2 DEF StartEdit, NewTemp, GoTo, Leave
    <3> QED
      BY <1>0, <1>1, <1>3, <3>1
  <2>3. CASE EndEdits(e)
    BY <1>0, <1>1, <1>3, <2>3 DEF EndEdits, GoTo, Leave
  <2>4. CASE FillTemp(e)
    <3> DEFINE edit == job[e][pair[e]]
               chunk == Lowered(SubSeq(original, pos[e] + 1, Len(original)), edit)
               pattern == Lowered(edit.patterns[alt[e]], edit)
               text == before[e]
    <3>1. /\ stage[e] = "read" /\ job' = job /\ pair' = pair /\ before' = before
          /\ original' = original
      BY <2>4 DEF FillTemp
    <3>2. PICK first \in BOOLEAN :
            temp' = [temp EXCEPT ![e] =
                       IF chunk = <<>> THEN temp[e]
                       ELSE temp[e] \o Replace(chunk, pattern, edit, first)]
      BY <2>4 DEF FillTemp, Edit
    <3>3. /\ pair[e] > 0 /\ pair[e] <= Len(job[e]) /\ edit.kind # "wrong format"
          /\ alt[e] \in 1 .. Len(edit.patterns)
      <4>2. /\ pair[e] > 0 /\ pair[e] <= Len(job[e]) /\ Edit(e).kind # "wrong format"
            /\ alt[e] \in 1 .. Len(Edit(e).patterns)
        <5> HIDE DEF edit, chunk, pattern, text
        <5> QED
          BY <3>1 DEF EInv, AtAnEdit
      <4>3. /\ pair[e] > 0 /\ pair[e] <= Len(job[e]) /\ job[e][pair[e]].kind # "wrong format"
            /\ alt[e] \in 1 .. Len(job[e][pair[e]].patterns)
        <5> HIDE DEF edit, chunk, pattern, text
        <5> QED
          BY <4>2 DEF Edit
      <4> HIDE DEF chunk, pattern, text
      <4> QED
        BY <4>3
    <3>4. Simple(edit, before[e])
      BY <1>1, <1>3, <3>1
    <3>5. alt[e] = 1
      <4>1. Len(edit.patterns) = 1
        BY <3>4 DEF Simple
      <4>2. alt[e] \in 1 .. Len(edit.patterns)
        BY <3>3
      <4> HIDE DEF edit
      <4>3. alt[e] \in 1 .. 1
        BY <4>1, <4>2
      <4> QED
        BY <4>3
    <3>6. pos[e] = 0 /\ temp[e] = <<>> /\ before[e] = original
      BY <3>1, <3>5 DEF EInv, FromTheHead
    <3>7. /\ edit \in Edits /\ edit.patterns[1] \in Seq(Chars) /\ edit.patterns[1] # <<>>
      <4>1. job[e] \in Jobs /\ pair[e] \in Nat
        BY <1>0
      <4>2. /\ job[e][pair[e]] \in Edits
            /\ \A a \in 1 .. Len(job[e][pair[e]].patterns) :
                 job[e][pair[e]].patterns[a] \in Seq(Chars) /\ job[e][pair[e]].patterns[a] # <<>>
        BY <3>3, <4>1, JobIs
      <4> QED
        BY <3>3, <3>5, <4>2
    <3>8. chunk = text
      <4>1. SubSeq(original, 1, Len(original)) = original
        BY <1>0, SubSeqFull
      <4>2. pos[e] + 1 = 1
        BY <3>6
      <4>3. SubSeq(original, pos[e] + 1, Len(original)) = before[e]
        BY <3>6, <4>1, <4>2
      <4> HIDE DEF edit
      <4>4. Lowered(before[e], edit) = before[e]
        BY <1>0, <3>3, <3>4, <3>7, SimpleIsWide
      <4> QED
        BY <4>3, <4>4
    <3>9. Wide(text, pattern, edit) /\ pattern = edit.patterns[1]
      <4> HIDE DEF edit
      <4>1. /\ Wide(before[e], edit.patterns[1], edit)
            /\ Lowered(edit.patterns[1], edit) = edit.patterns[1]
        BY <1>0, <3>3, <3>4, <3>7, SimpleIsWide
      <4> QED
        BY <3>5, <4>1
    <3>10. Edited(edit, before[e]) = Expected(text, pattern, edit)
      <4> HIDE DEF edit
      <4> QED
        BY <3>9 DEF Edited
    <3> HIDE DEF edit, chunk, pattern, text
    <3>11. /\ Replace(text, pattern, edit, first) = Expected(text, pattern, edit)
           /\ Expected(text, pattern, edit) \in Seq(Chars)
      BY <3>9, ReplaceIs
    <3>12. text = <<>> => Expected(text, pattern, edit) = <<>>
      BY <3>7, <3>9, <3>11, ReplaceTyped DEF Wide
    <3>13. temp'[e] = IF chunk = <<>> THEN temp[e]
                      ELSE temp[e] \o Replace(chunk, pattern, edit, first)
      BY <1>0, <3>2
    <3>14. <<>> \o Expected(text, pattern, edit) = Expected(text, pattern, edit)
      BY <3>11, ConcatEmptySeq
    <3>15. temp'[e] = Expected(text, pattern, edit)
      BY <3>6, <3>8, <3>11, <3>12, <3>13, <3>14
    <3> QED
      BY <1>3, <3>1, <3>6, <3>10, <3>15 DEF edit
  <2>5. CASE CopyBack(e)
    <3>1. stage' \in {[stage EXCEPT ![e] = "edit"], [stage EXCEPT ![e] = "read"]}
      BY <2>5 DEF CopyBack, GoTo
    <3> QED
      BY <1>0, <1>1, <1>3, <3>1
  <2>6. CASE Kill(e)
    BY <1>0, <1>1, <1>3, <2>6 DEF Kill, GoTo, Leave
  <2> QED
    BY <2>1, <2>2, <2>3, <2>4, <2>5, <2>6 DEF Editor
<1> QED
  BY <1>2, <1>3

LEMMA EditReplacesAllStep ==
  ASSUME EInv, NEW e \in Editors, Editor(e) \/ Kill(e)
  PROVE  EditReplacesAll'
<1>0. /\ stage \in [Editors -> Stages] /\ pair \in [Editors -> Nat]
      /\ alt \in [Editors -> Nat] /\ temp \in [Editors -> Seq(Chars)]
      /\ before \in [Editors -> Seq(Chars)] /\ job \in [Editors -> Jobs]
      /\ original \in Seq(Chars)
  BY DEF EInv, EditTypes
<1> DEFINE Done(edit, old, new) ==
             Simple(edit, old) /\ Len(Edited(edit, old)) >= Len(old) =>
               new = Edited(edit, old)
<1>1. \A f \in Editors : stage[f] = "edit" /\ pair[f] > 1 =>
        Done(job[f][pair[f] - 1], before[f], original)
  BY DEF EInv, EditReplacesAll, Simple, Edited
<1>2. SUFFICES ASSUME NEW f \in Editors, stage'[f] = "edit", pair'[f] > 1
               PROVE  Done(job'[f][pair'[f] - 1], before'[f], original')
  BY DEF EditReplacesAll, Simple, Edited
<1> HIDE DEF Done
<1>3. CASE f # e
  <2>1. stage[f] = "edit"
    BY <1>2, <1>3, OthersUnchanged
  <2> QED
    BY <1>1, <1>2, <1>3, <2>1, OthersUnchanged
<1>4. CASE f = e
  <2>1. CASE SetLock(e)
    <3>1. pair'[e] = 1
      BY <2>1 DEF SetLock, EInv, AtAnEdit
    <3> QED
      BY <1>2, <1>4, <3>1
  <2>2. CASE StartEdit(e)
    <3>1. stage' \in {[stage EXCEPT ![e] = "failed"], [stage EXCEPT ![e] = "read"]}
      BY <2>2 DEF StartEdit, NewTemp, GoTo, Leave
    <3> QED
      BY <1>0, <1>2, <1>4, <3>1
  <2>3. CASE EndEdits(e)
    BY <1>0, <1>2, <1>4, <2>3 DEF EndEdits, GoTo, Leave
  <2>4. CASE FillTemp(e)
    BY <1>0, <1>2, <1>4, <2>4 DEF FillTemp, GoTo
  <2>5. CASE CopyBack(e)
    <3>1. stage[e] = "write" /\ job' = job /\ before' = before
      BY <2>5 DEF CopyBack
    <3>2. pair' = [pair EXCEPT ![e] = pair[e] + 1]
      <4>1. ~(alt[e] < Len(Edit(e).patterns))
        BY <1>0, <1>2, <1>4, <2>5 DEF CopyBack, GoTo
      <4> QED
        BY <2>5, <4>1 DEF CopyBack
    <3>3. pair'[e] - 1 = pair[e]
      BY <1>0, <3>2
    <3>4. original' = temp[e] \o SubSeq(original, Len(temp[e]) + 1, Len(original))
      BY <2>5 DEF CopyBack
    <3>5. Simple(Edit(e), before[e]) =>
            before[e] = original /\ temp[e] = Edited(Edit(e), before[e])
      BY <3>1 DEF EInv, TempIsEdited
    <3>6. Done(Edit(e), before[e], original')
      <4> SUFFICES ASSUME Simple(Edit(e), before[e]),
                          Len(Edited(Edit(e), before[e])) >= Len(before[e])
                   PROVE  original' = Edited(Edit(e), before[e])
        BY DEF Done
      <4>1. Len(temp[e]) >= Len(original) /\ temp[e] \in Seq(Chars)
        BY <1>0, <3>5
      <4>2. SubSeq(original, Len(temp[e]) + 1, Len(original)) = <<>>
        BY <1>0, <4>1
      <4> QED
        BY <3>4, <3>5, <4>1, <4>2, ConcatEmptySeq
    <3> QED
      BY <1>4, <3>1, <3>3, <3>6 DEF Edit
  <2>6. CASE Kill(e)
    BY <1>0, <1>2, <1>4, <2>6 DEF Kill, GoTo, Leave
  <2> QED
    BY <2>1, <2>2, <2>3, <2>4, <2>5, <2>6 DEF Editor
<1> QED
  BY <1>3, <1>4

\* Together.
LEMMA EInvNext == EInv /\ [EditNext]_editVars => EInv'
<1> SUFFICES ASSUME EInv, [EditNext]_editVars PROVE EInv'
  OBVIOUS
<1>1. CASE EditNext
  <2>1. PICK e \in Editors : Editor(e) \/ Kill(e)
    BY <1>1 DEF EditNext
  <2> QED
    BY <2>1, EditTypesStep, EditorHoldsStep, AtAnEditStep, FromTheHeadStep,
       TempIsEditedStep, EditReplacesAllStep DEF EInv
<1>2. CASE UNCHANGED editVars
  <2> USE <1>2 DEF EInv, editVars
  <2>1. EditTypes'
    BY DEF EditTypes
  <2>2. EditorHolds' /\ AtAnEdit' /\ FromTheHead'
    BY DEF EditorHolds, AtAnEdit, FromTheHead, Edit
  <2>3. TempIsEdited'
    BY DEF TempIsEdited, Edit
  <2>4. EditReplacesAll'
    BY DEF EditReplacesAll
  <2> QED
    BY <2>1, <2>2, <2>3, <2>4
<1> QED
  BY <1>1, <1>2

\* The invariant holds of every run of the editors.
THEOREM EditingInvariant == EditSpec => []EInv
<1>1. EditInit => EInv
  BY EInvInit
<1>2. EInv /\ [EditNext]_editVars => EInv'
  BY EInvNext
<1> QED
  BY <1>1, <1>2, PTL DEF EditSpec

\* After an edit with one pattern the file is the text it was with every
\* leftmost occurrence replaced, when the text has not become shorter, and the
\* end of the old text behind it otherwise: for any texts, patterns and number of
\* editors, interrupted anywhere.
THEOREM Replacing == EditSpec => []EditReplacesAll
<1>1. EInv => EditReplacesAll
  BY DEF EInv
<1> QED
  BY <1>1, EditingInvariant, PTL

\* Between an editor's lock and its end nobody else writes the file.
THEOREM Isolation == EditSpec => EditsIsolated
<1>1. EInv /\ [EditNext]_editVars =>
        [\A e \in Editors : stage[e] \in {"edit", "read", "write"} /\ original' # original
           => stage[e] = "write" /\ stage'[e] # "write"]_editVars
  <2> SUFFICES ASSUME EInv, EditNext, NEW f \in Editors,
                      stage[f] \in {"edit", "read", "write"}, original' # original
               PROVE  stage[f] = "write" /\ stage'[f] # "write"
    OBVIOUS
  <2>0. stage \in [Editors -> Stages]
    BY DEF EInv, EditTypes
  <2>1. PICK e \in Editors : Editor(e) \/ Kill(e)
    BY DEF EditNext
  <2>2. f = e
    BY <2>1, OthersUnchanged
  <2>3. CopyBack(e)
    BY <2>1 DEF Editor, SetLock, StartEdit, EndEdits, FillTemp, Kill
  <2>4. stage' \in {[stage EXCEPT ![e] = "edit"], [stage EXCEPT ![e] = "read"]}
    BY <2>3 DEF CopyBack, GoTo
  <2>5. stage[e] = "write"
    BY <2>3 DEF CopyBack
  <2> QED
    BY <2>0, <2>2, <2>4, <2>5
<1> QED
  BY <1>1, EditingInvariant, PTL DEF EditSpec, EditsIsolated
=============================================================================
