---------------------------- MODULE ConsoleProofs ----------------------------
(***************************************************************************)
(* Proofs about console input, for any number of readers, any size of the  *)
(* buffer and any multiple of it at which the indices wrap.  What is typed *)
(* and what is entered is seen from r: Stored(j) is the character j places *)
(* after it.  Then there is one lemma per action: it keeps ConsoleInv, and *)
(* it is a step of LineInput or leaves it alone.                           *)
(***************************************************************************)
EXTENDS Console, WellFoundedInduction, TLAPS

\* The remainder is the only one in its range.
LEMMA ModUnique ==
  ASSUME NEW m \in Nat \ {0}, NEW x \in Int, NEW q \in Int, NEW rem \in 0 .. m - 1,
         x = q * m + rem
  PROVE  x % m = rem
  BY SMTT(30)

\* A number is a multiple of m plus its remainder.
LEMMA ModExists ==
  ASSUME NEW m \in Nat \ {0}, NEW x \in Int
  PROVE  \E q \in Int : x = q * m + (x % m) /\ x % m \in 0 .. m - 1
<1>1. x % m \in 0 .. m - 1
  OBVIOUS
<1>2. x \div m \in Int
  OBVIOUS
<1>3. x = (x \div m) * m + (x % m)
  BY Z3
<1> QED
  BY <1>1, <1>2, <1>3, Zenon

\* An index less than a lap out of range is brought back by adding or subtracting u
\* once at most.
LEMMA ModCases ==
  ASSUME NEW u \in Nat \ {0}, NEW x \in Int, -u < x, x < 2 * u
  PROVE  x % u = IF x < 0 THEN x + u ELSE IF x >= u THEN x - u ELSE x
<1>1. CASE x < 0
  <2>1. x = (-1) * u + (x + u)
    OBVIOUS
  <2> QED
    BY <1>1, <2>1, ModUnique
<1>2. CASE x >= u
  <2>1. x = 1 * u + (x - u)
    OBVIOUS
  <2> QED
    BY <1>2, <2>1, ModUnique
<1>3. CASE 0 <= x /\ x < u
  <2>1. x = 0 * u + x
    OBVIOUS
  <2> QED
    BY <1>3, <2>1, ModUnique
<1> QED
  BY <1>1, <1>2, <1>3

\* Wrapping an index does not change the place it stands for.
LEMMA ModShift ==
  ASSUME NEW m \in Nat \ {0}, NEW u \in Nat \ {0}, u % m = 0, NEW a \in Int, NEW i \in Int
  PROVE  ((a % u) + i) % m = (a + i) % m
<1> DEFINE b == a % u
           rem == (a + i) % m
<1>a. u \in Int /\ a + i \in Int
  OBVIOUS
<1>1. PICK q1 \in Int : a = q1 * u + b /\ b \in 0 .. u - 1
  BY ModExists, Zenon
<1>2. PICK q2 \in Int : u = q2 * m
  <2>1. PICK q2 \in Int : u = q2 * m + (u % m)
    BY <1>a, ModExists, Zenon
  <2> QED
    BY <2>1
<1>3. PICK q3 \in Int : a + i = q3 * m + rem /\ rem \in 0 .. m - 1
  BY <1>a, ModExists, Zenon
<1> HIDE DEF b, rem
<1>4. q1 * u = (q1 * q2) * m
  BY <1>2
<1>5. b + i = (q3 - q1 * q2) * m + rem
  BY <1>1, <1>3, <1>4
<1>6. (b + i) % m = rem
  <2>1. q3 - q1 * q2 \in Int /\ b + i \in Int
    BY <1>1
  <2> QED
    BY <1>3, <1>5, <2>1, ModUnique
<1> QED
  BY <1>6 DEF b, rem

\* Indices less than a ring apart stand for different places.
LEMMA ModInjective ==
  ASSUME NEW m \in Nat \ {0}, NEW x \in Int, NEW y \in Int, x % m = y % m,
         x - y < m, y - x < m
  PROVE  x = y
<1> DEFINE t == x % m
<1>1. PICK q1 \in Int : x = q1 * m + t
  BY ModExists, Zenon
<1>2. PICK q2 \in Int : y = q2 * m + t
  BY ModExists, Zenon
<1>3. t \in Int
  OBVIOUS
<1> HIDE DEF t
<1> DEFINE d == q1 - q2
<1>4. d \in Int /\ x - y = d * m
  BY <1>1, <1>2, <1>3
<1> HIDE DEF d
<1>5. ~(d >= 1)
  BY <1>4
<1>6. ~(d <= -1)
  BY <1>4
<1> QED
  BY <1>4, <1>5, <1>6

\* A set of natural numbers that is not empty has a least member.
LEMMA MinFacts ==
  ASSUME NEW S \in SUBSET Nat, S # {}
  PROVE  Min(S) \in S /\ \A y \in S : Min(S) =< y
<1>1. PICK x \in S : \A y \in S : ~(<<y, x>> \in OpToRel(<, Nat))
  BY NatLessThanWellFounded, WFMin
<1>2. \A y, z \in Nat : y < z => <<y, z>> \in OpToRel(<, Nat)
  BY Zenon DEF OpToRel
<1>3. \A y \in S : ~(y < x)
  BY <1>1, <1>2, Zenon
<1>4. \A y \in S : x =< y
  BY <1>3, SMT
<1> QED
  BY <1>4 DEF Min

\* If it is bounded, it also has a greatest.
LEMMA MaxFacts ==
  ASSUME NEW n \in Nat, NEW S \in SUBSET (0 .. n), S # {}
  PROVE  Max(S) \in S /\ \A y \in S : Max(S) >= y
<1> DEFINE T == { n - x : x \in S }
<1>1. T \in SUBSET Nat /\ T # {}
  <2>1. \A x \in S : n - x \in Nat
    OBVIOUS
  <2> QED
    BY <2>1, Zenon
<1>2. Min(T) \in T /\ \A y \in T : Min(T) =< y
  <2> HIDE DEF T
  <2> QED
    BY <1>1, MinFacts
<1>3. PICK x \in S : Min(T) = n - x
  BY <1>2
<1>4. \A y \in S : n - x =< n - y
  BY <1>2, <1>3
<1>5. \A y \in S : x >= y
  BY <1>4
<1> QED
  BY <1>5 DEF Max

\* The difference of two of the unsigned indices.
LEMMA MinusCases ==
  ASSUME NEW a \in 0 .. UINT - 1, NEW b \in 0 .. UINT - 1
  PROVE  /\ Minus(a, b) = IF a < b THEN a - b + UINT ELSE a - b
         /\ Minus(a, b) \in 0 .. UINT - 1
<1>1. UINT \in Nat \ {0}
  BY BufAssumption, WrapAssumption
<1>2. a - b \in Int /\ -UINT < a - b /\ a - b < 2 * UINT /\ a - b < UINT
  BY <1>1
<1>3. Minus(a, b) = IF a - b < 0 THEN a - b + UINT
                    ELSE IF a - b >= UINT THEN a - b - UINT ELSE a - b
  BY <1>1, <1>2, ModCases, Zenon DEF Minus
<1> QED
  BY <1>1, <1>2, <1>3

\* Three indices in order.
LEMMA MinusSplit ==
  ASSUME NEW a \in 0 .. UINT - 1, NEW b \in 0 .. UINT - 1, NEW d \in 0 .. UINT - 1,
         Minus(b, a) <= Minus(d, a)
  PROVE  Minus(d, b) = Minus(d, a) - Minus(b, a)
<1>1. /\ Minus(b, a) = IF b < a THEN b - a + UINT ELSE b - a
      /\ Minus(d, a) = IF d < a THEN d - a + UINT ELSE d - a
      /\ Minus(d, b) = IF d < b THEN d - b + UINT ELSE d - b
      /\ UINT \in Nat
  BY MinusCases, BufAssumption, WrapAssumption
<1> QED
  BY <1>1

\* An index that is advanced.
LEMMA PlusCases ==
  ASSUME NEW a \in 0 .. UINT - 1, NEW n \in 0 .. UINT - 1
  PROVE  /\ Plus(a, n) = IF a + n >= UINT THEN a + n - UINT ELSE a + n
         /\ Plus(a, n) \in 0 .. UINT - 1
<1>1. UINT \in Nat \ {0}
  BY BufAssumption, WrapAssumption
<1>2. a + n \in Int /\ -UINT < a + n /\ a + n < 2 * UINT
  BY <1>1
<1>3. Plus(a, n) = IF a + n < 0 THEN a + n + UINT
                   ELSE IF a + n >= UINT THEN (a + n) - UINT ELSE a + n
  BY <1>1, <1>2, ModCases, Zenon DEF Plus
<1> QED
  BY <1>1, <1>2, <1>3

\* The place that is i after index b, counted from index a: input.buf[b % INPUT_BUF]
\* does not depend on the laps.
LEMMA PlaceFrom ==
  ASSUME NEW a \in 0 .. UINT - 1, NEW b \in 0 .. UINT - 1, NEW i \in Int
  PROVE  (b + i) % INPUT_BUF = (a + (Minus(b, a) + i)) % INPUT_BUF
<1> DEFINE d == Minus(b, a)
<1>0. d = (IF b < a THEN b - a + UINT ELSE b - a) /\ d \in 0 .. UINT - 1
  BY MinusCases
<1>1. d \in 0 .. UINT - 1 /\ Plus(a, d) = b
  <2> HIDE DEF d
  <2>1. Plus(a, d) = IF a + d >= UINT THEN a + d - UINT ELSE a + d
    BY <1>0, PlusCases
  <2> QED
    BY <1>0, <2>1, BufAssumption
<1> HIDE DEF d
<1>2. /\ UINT \in Nat \ {0} /\ INPUT_BUF \in Nat \ {0} /\ UINT % INPUT_BUF = 0
      /\ a + d \in Int /\ (a + d) + i = a + (d + i)
  BY <1>1, BufAssumption, WrapAssumption
<1>3. (((a + d) % UINT) + i) % INPUT_BUF = ((a + d) + i) % INPUT_BUF
  <2> DEFINE x == a + d
  <2>1. /\ x \in Int /\ UINT \in Nat \ {0} /\ INPUT_BUF \in Nat \ {0}
        /\ UINT % INPUT_BUF = 0
    BY <1>2
  <2> HIDE DEF x
  <2>2. ((x % UINT) + i) % INPUT_BUF = (x + i) % INPUT_BUF
    BY <2>1, ModShift, Zenon
  <2> QED
    BY <2>2, Zenon DEF x
<1> QED
  BY <1>1, <1>2, <1>3, Zenon DEF Plus, d

\* Places less than INPUT_BUF apart are different.
LEMMA PlacesDiffer ==
  ASSUME NEW a \in Int, NEW i \in 0 .. INPUT_BUF - 1, NEW j \in 0 .. INPUT_BUF - 1,
         (a + i) % INPUT_BUF = (a + j) % INPUT_BUF
  PROVE  i = j
<1>1. /\ INPUT_BUF \in Nat \ {0} /\ a + i \in Int /\ a + j \in Int
      /\ (a + i) - (a + j) < INPUT_BUF /\ (a + j) - (a + i) < INPUT_BUF
  BY BufAssumption
<1>2. a + i = a + j
  BY <1>1, ModInjective, Zenon
<1> QED
  BY <1>2

\* The character j places after r.
Stored(j) == buf[(r + j) % INPUT_BUF]

\* What is entered, and the line after it, seen from r.
Entered == [i \in 1 .. Minus(w, r) |-> Stored(i - 1)]
Line == [i \in 1 .. Minus(e, w) |-> Stored(Minus(w, r) + (i - 1))]

SeenFromR ==
  /\ Between(r, w) = Entered /\ Between(w, e) = Line
  /\ Entered \in Seq(Char) /\ Len(Entered) = Minus(w, r)
  /\ Line \in Seq(Char) /\ Len(Line) = Minus(e, w)

\* The sequence between two indices, seen from another one.
LEMMA BetweenFrom ==
  ASSUME TypeOK, NEW a \in 0 .. UINT - 1, NEW b \in 0 .. UINT - 1
  PROVE  Between(a, b) = [i \in 1 .. Minus(b, a) |-> Stored(Minus(a, r) + (i - 1))]
<1>1. r \in 0 .. UINT - 1
  BY DEF TypeOK
<1>2. ASSUME NEW i \in 1 .. Minus(b, a)
      PROVE  (a + i - 1) % INPUT_BUF = (r + (Minus(a, r) + (i - 1))) % INPUT_BUF
  <2>1. i - 1 \in Int /\ a + i - 1 = a + (i - 1)
    OBVIOUS
  <2> QED
    BY <1>1, <2>1, PlaceFrom
<1> QED
  BY <1>2, Zenon DEF Between, Stored

\* What the invariant says of the indices, and of the two sequences.
LEMMA InvFacts ==
  ASSUME ConsoleInv
  PROVE  /\ r \in 0 .. UINT - 1 /\ w \in 0 .. UINT - 1 /\ e \in 0 .. UINT - 1
         /\ Minus(w, r) \in 0 .. INPUT_BUF /\ Minus(e, w) \in 0 .. INPUT_BUF
         /\ Minus(e, r) = Minus(w, r) + Minus(e, w)
         /\ Minus(e, r) \in 0 .. INPUT_BUF
         /\ Minus(e, r) = INPUT_BUF => w = e
<1>1. r \in 0 .. UINT - 1 /\ w \in 0 .. UINT - 1 /\ e \in 0 .. UINT - 1
  BY DEF ConsoleInv, TypeOK
<1>2. /\ Minus(w, r) <= Minus(e, r) /\ Minus(e, r) <= INPUT_BUF
      /\ Minus(e, r) = INPUT_BUF => w = e
  BY DEF ConsoleInv, IndicesInOrder
<1>3. /\ Minus(w, r) = IF w < r THEN w - r + UINT ELSE w - r
      /\ Minus(e, r) = IF e < r THEN e - r + UINT ELSE e - r
      /\ Minus(e, w) = IF e < w THEN e - w + UINT ELSE e - w
  BY <1>1, MinusCases
<1> QED
  BY <1>1, <1>2, <1>3, BufAssumption

\* The mapping to LineInput, seen from r.
LEMMA Views ==
  ASSUME ConsoleInv
  PROVE  SeenFromR
<1>1. TypeOK
  BY DEF ConsoleInv
<1>2. Minus(r, r) = 0
  BY InvFacts, MinusCases
<1>3. Between(r, w) = Entered
  <2>1. \A i \in 1 .. Minus(w, r) : 0 + (i - 1) = i - 1
    OBVIOUS
  <2>2. Between(r, w) = [i \in 1 .. Minus(w, r) |-> Stored(0 + (i - 1))]
    BY <1>1, <1>2, InvFacts, BetweenFrom
  <2> QED
    BY <2>1, <2>2, Zenon DEF Entered
<1>4. Between(w, e) = Line
  BY <1>1, InvFacts, BetweenFrom DEF Line
<1>5. \A j \in Int : Stored(j) \in Char
  <2>1. \A j \in Int : (r + j) % INPUT_BUF \in 0 .. INPUT_BUF - 1
    BY InvFacts, BufAssumption
  <2> QED
    BY <1>1, <2>1 DEF TypeOK, Stored
<1>6. /\ \A i \in 1 .. Minus(w, r) : i - 1 \in Int
      /\ \A i \in 1 .. Minus(e, w) : Minus(w, r) + (i - 1) \in Int
  BY InvFacts
<1>7. Minus(w, r) \in Nat /\ Minus(e, w) \in Nat
  BY InvFacts
<1>8. Entered \in Seq(Char) /\ Len(Entered) = Minus(w, r)
  BY <1>5, <1>6, <1>7 DEF Entered
<1>9. Line \in Seq(Char) /\ Len(Line) = Minus(e, w)
  BY <1>5, <1>6, <1>7 DEF Line
<1> QED
  BY <1>3, <1>4, <1>8, <1>9 DEF SeenFromR

\* The same in the next state.
LEMMA ViewsNext == ConsoleInv' => SeenFromR'
<1>1. ConsoleInv => SeenFromR
  BY Views
<1> QED
  BY <1>1, PTL

\* A step that leaves the buffer and the indices alone.
LEMMA SameInput ==
  ASSUME UNCHANGED input
  PROVE  UNCHANGED Lines!vars /\ (IndicesInOrder => IndicesInOrder')
  BY DEF input, Lines!vars, Between, Minus, IndicesInOrder

\* read() is called.
LEMMA ReadCallStep ==
  ASSUME ConsoleInv, NEW p \in Reader, NEW n \in 1 .. MaxRead, read_call(p, n)
  PROVE  ConsoleInv' /\ UNCHANGED Lines!vars
<1>1. TypeOK'
  BY MaxReadAssumption DEF read_call, ConsoleInv, TypeOK, input
<1>2. \A q \in Reader : pc'[q] # "idle" => left'[q] > 0
  BY MaxReadAssumption DEF read_call, ConsoleInv, TypeOK
<1> QED
  BY <1>1, <1>2, SameInput DEF read_call, ConsoleInv

\* consoleread() finds nothing entered.
LEMMA ReadEmptyStep ==
  ASSUME ConsoleInv, NEW p \in Reader, consoleread_empty(p)
  PROVE  ConsoleInv' /\ UNCHANGED Lines!vars
<1>1. TypeOK'
  BY MaxReadAssumption DEF consoleread_empty, ConsoleInv, TypeOK, input
<1>2. \A q \in Reader : pc'[q] # "idle" => left'[q] > 0
  BY DEF consoleread_empty, ConsoleInv, TypeOK
<1> QED
  BY <1>1, <1>2, SameInput DEF consoleread_empty, ConsoleInv

\* kill() of a reader.
LEMMA KillStep ==
  ASSUME ConsoleInv, NEW p \in Reader, kill(p)
  PROVE  ConsoleInv' /\ UNCHANGED Lines!vars
<1>1. TypeOK'
  BY DEF kill, ConsoleInv, TypeOK, input
<1>2. \A q \in Reader : pc'[q] # "idle" => left'[q] > 0
  BY DEF kill, ConsoleInv, TypeOK
<1> QED
  BY <1>1, <1>2, SameInput DEF kill, ConsoleInv

\* Moving e back by n characters of the line erases these.
LEMMA EraseStep ==
  ASSUME ConsoleInv, NEW n \in 0 .. Minus(e, w), e' = Minus(e, n),
         UNCHANGED <<buf, r, w, pc, left, got, killed>>
  PROVE  ConsoleInv' /\ [Lines!Next]_(Lines!vars)
<1>1. /\ r \in 0 .. UINT - 1 /\ w \in 0 .. UINT - 1 /\ e \in 0 .. UINT - 1
      /\ Minus(w, r) \in 0 .. INPUT_BUF /\ Minus(e, w) \in 0 .. INPUT_BUF
      /\ Minus(e, r) = Minus(w, r) + Minus(e, w)
      /\ Minus(e, r) <= INPUT_BUF
  BY InvFacts, BufAssumption
<1>2. n \in 0 .. UINT - 1
  BY <1>1, BufAssumption, WrapAssumption
<1>3. e' \in 0 .. UINT - 1 /\ e' = IF e < n THEN e - n + UINT ELSE e - n
  BY <1>1, <1>2, MinusCases
<1>4. /\ Minus(e, w) = IF e < w THEN e - w + UINT ELSE e - w
      /\ Minus(e', w) = IF e' < w THEN e' - w + UINT ELSE e' - w
      /\ Minus(e, r) = IF e < r THEN e - r + UINT ELSE e - r
      /\ Minus(e', r) = IF e' < r THEN e' - r + UINT ELSE e' - r
  BY <1>1, <1>3, MinusCases
<1>5. Minus(e', w) = Minus(e, w) - n /\ Minus(e', r) = Minus(e, r) - n
  BY <1>1, <1>2, <1>3, <1>4, BufAssumption, WrapAssumption
<1>6. /\ Minus(w, r)' = Minus(w, r) /\ Minus(e, w)' = Minus(e', w)
      /\ Minus(e, r)' = Minus(e', r)
  BY DEF Minus
<1>7. n > 0 => Minus(e, r)' < INPUT_BUF
  BY <1>1, <1>5, <1>6, BufAssumption
<1>8. n = 0 => e' = e
  BY <1>1, <1>3
<1>9. ConsoleInv'
  <2>1. TypeOK'
    BY <1>3 DEF ConsoleInv, TypeOK
  <2>2. Minus(w, r)' <= Minus(e, r)' /\ Minus(e, r)' <= INPUT_BUF
    BY <1>1, <1>5, <1>6, BufAssumption
  <2>3. Minus(e, r)' = INPUT_BUF => w' = e'
    <3>1. CASE n = 0
      BY <1>6, <1>8, <3>1 DEF ConsoleInv, IndicesInOrder
    <3>2. CASE n > 0
      BY <1>1, <1>5, <1>6, <1>7, <3>2, BufAssumption
    <3> QED
      BY <3>1, <3>2
  <2>4. \A q \in Reader : pc'[q] # "idle" => left'[q] > 0
    BY DEF ConsoleInv
  <2> QED
    BY <2>1, <2>2, <2>3, <2>4 DEF ConsoleInv, IndicesInOrder
<1>10. CASE n = 0
  <2>1. UNCHANGED input
    BY <1>8, <1>10 DEF input
  <2> QED
    BY <1>9, <2>1, SameInput
<1>11. CASE n > 0
  <2>1. SeenFromR /\ SeenFromR'
    BY <1>9, Views, ViewsNext
  <2>2. Entered' = Entered
    BY <1>6 DEF Entered, Stored
  <2>3. Line' = [i \in 1 .. Minus(e, w) - n |-> Stored(Minus(w, r) + (i - 1))]
    BY <1>5, <1>6 DEF Line, Stored
  <2>4. Line' = SubSeq(Line, 1, Len(Line) - n)
    <3> DEFINE S(i) == Stored(Minus(w, r) + (i - 1))
               k == Minus(e, w)
    <3>1. /\ Line = [i \in 1 .. k |-> S(i)] /\ Line' = [i \in 1 .. k - n |-> S(i)]
          /\ Line \in Seq(Char) /\ Len(Line) = k /\ k \in Nat /\ n \in 0 .. k
      BY <1>1, <2>1, <2>3 DEF Line, SeenFromR
    <3> HIDE DEF S, k
    <3> QED
      BY <3>1
  <2>5. Between(w, e)' = SubSeq(Between(w, e), 1, Len(Between(w, e)) - n)
        /\ Between(r, w)' = Between(r, w) /\ n \in 1 .. Len(Between(w, e))
    BY <1>1, <1>11, <2>1, <2>2, <2>4 DEF SeenFromR
  <2> QED
    BY <1>9, <2>5 DEF Lines!Next, Lines!Erase
<1> QED
  BY <1>1, <1>10, <1>11

\* C('H') erases one character.
LEMMA BackspaceStep ==
  ASSUME ConsoleInv, backspace
  PROVE  ConsoleInv' /\ [Lines!Next]_(Lines!vars)
<1>1. 1 \in 0 .. Minus(e, w)
  <2>1. Minus(e, w) = (IF e < w THEN e - w + UINT ELSE e - w) /\ e # w
    BY InvFacts, MinusCases DEF backspace
  <2> QED
    BY <2>1, InvFacts, BufAssumption
<1> QED
  BY <1>1, EraseStep DEF backspace

\* C('U') erases no more than the line.
LEMMA KilllineStep ==
  ASSUME ConsoleInv, killline
  PROVE  ConsoleInv' /\ [Lines!Next]_(Lines!vars)
<1> DEFINE s == Between(w, e)
           S == {0} \cup { i \in DOMAIN s : s[i] = NL }
<1>1. s \in Seq(Char) /\ Len(s) = Minus(e, w) /\ Minus(e, w) \in Nat
  BY Views, InvFacts DEF SeenFromR
<1>2. S \in SUBSET (0 .. Minus(e, w)) /\ S # {}
  <2> HIDE DEF s
  <2> QED
    BY <1>1
<1>3. Max(S) \in 0 .. Minus(e, w)
  <2> HIDE DEF S
  <2> QED
    BY <1>1, <1>2, MaxFacts
<1>4. LineLength = Minus(e, w) - Max(S)
  BY <1>1 DEF LineLength
<1>5. LineLength \in 0 .. Minus(e, w)
  <2> HIDE DEF S
  <2> QED
    BY <1>1, <1>3, <1>4
<1> QED
  BY <1>5, EraseStep DEF killline

\* A character is stored behind the line, over none that is still to be read.
LEMMA StoreFacts ==
  ASSUME ConsoleInv, NEW c \in Char, consoleintr(c)
  PROVE  /\ r' = r /\ e' \in 0 .. UINT - 1 /\ Minus(e', r) = Minus(e, r) + 1
         /\ buf' \in [0 .. INPUT_BUF - 1 -> Char]
         /\ \A j \in 0 .. Minus(e, r) :
              Stored(j)' = IF j = Minus(e, r) THEN c ELSE Stored(j)
<1> DEFINE n == Minus(e, r)
<1>0. /\ r \in 0 .. UINT - 1 /\ e \in 0 .. UINT - 1 /\ n \in 0 .. INPUT_BUF - 1
      /\ n = (IF e < r THEN e - r + UINT ELSE e - r)
      /\ INPUT_BUF \in Nat \ {0} /\ UINT \in Nat /\ INPUT_BUF < UINT
      /\ r' = r /\ e' = Plus(e, 1)
  <2>1. r' = r /\ e' = Plus(e, 1) /\ n < INPUT_BUF
    BY DEF consoleintr
  <2>2. r \in 0 .. UINT - 1 /\ e \in 0 .. UINT - 1 /\ n \in 0 .. INPUT_BUF
    BY InvFacts
  <2>3. n = IF e < r THEN e - r + UINT ELSE e - r
    BY <2>2, MinusCases
  <2> HIDE DEF n
  <2> QED
    BY <2>1, <2>2, <2>3, BufAssumption, WrapAssumption
<1>1. e' \in 0 .. UINT - 1 /\ e' = IF e + 1 >= UINT THEN e + 1 - UINT ELSE e + 1
  <2>1. 1 \in 0 .. UINT - 1
    BY <1>0
  <2> QED
    BY <1>0, <2>1, PlusCases
<1>2. Minus(e', r) = IF e' < r THEN e' - r + UINT ELSE e' - r
  BY <1>0, <1>1, MinusCases
<1>3. Minus(e', r) = n + 1
  <2> HIDE DEF n
  <2> QED
    BY <1>0, <1>1, <1>2
<1>4. e % INPUT_BUF = (r + n) % INPUT_BUF
  <2>1. (e + 0) % INPUT_BUF = (r + (n + 0)) % INPUT_BUF
    BY <1>0, PlaceFrom, 0 \in Int, Zenon
  <2>2. e + 0 = e /\ n + 0 = n
    BY <1>0
  <2> QED
    BY <2>1, <2>2, Zenon
<1>5. \A j \in Int : (r + j) % INPUT_BUF \in 0 .. INPUT_BUF - 1
  BY <1>0
<1>6. /\ buf \in [0 .. INPUT_BUF - 1 -> Char]
      /\ buf' = [buf EXCEPT ![(r + n) % INPUT_BUF] = c]
  BY <1>4 DEF consoleintr, ConsoleInv, TypeOK
<1> DEFINE at(j) == (r + j) % INPUT_BUF
<1>7. \A j \in 0 .. n : at(j) = at(n) => j = n
  <2> SUFFICES ASSUME NEW j \in 0 .. n, at(j) = at(n) PROVE j = n
    OBVIOUS
  <2>1. r \in Int /\ j \in 0 .. INPUT_BUF - 1
    BY <1>0
  <2> QED
    BY <1>0, <2>1, PlacesDiffer, Zenon
<1>8. \A j \in 0 .. n : Stored(j)' = buf'[at(j)] /\ Stored(j) = buf[at(j)]
  BY <1>0 DEF Stored
<1>9. /\ \A j \in 0 .. n : at(j) \in 0 .. INPUT_BUF - 1
      /\ buf' = [buf EXCEPT ![at(n)] = c] /\ n \in 0 .. n
  BY <1>0, <1>5, <1>6
<1> HIDE DEF at, n
<1>10. buf' \in [0 .. INPUT_BUF - 1 -> Char]
  BY <1>6, <1>9
<1>11. \A j \in 0 .. n : Stored(j)' = IF j = n THEN c ELSE Stored(j)
  BY <1>6, <1>7, <1>8, <1>9
<1> QED
  BY <1>0, <1>1, <1>3, <1>10, <1>11 DEF n

\* A sequence is the function of its elements.
LEMMA SeqFun ==
  ASSUME NEW s \in Seq(Char)
  PROVE  s = [i \in 1 .. Len(s) |-> s[i]]
  OBVIOUS

\* What Append makes of a sequence of characters ...
LEMMA AppendFacts ==
  ASSUME NEW s \in Seq(Char), NEW c \in Char
  PROVE  /\ Append(s, c) \in Seq(Char) /\ Len(Append(s, c)) = Len(s) + 1
         /\ \A i \in 1 .. Len(s) : Append(s, c)[i] = s[i]
         /\ Append(s, c)[Len(s) + 1] = c
  OBVIOUS

\* ... and concatenation of two.
LEMMA ConcatFacts ==
  ASSUME NEW s \in Seq(Char), NEW t \in Seq(Char)
  PROVE  s \o t = [i \in 1 .. Len(s) + Len(t) |->
                    IF i <= Len(s) THEN s[i] ELSE t[i - Len(s)]]
<1> DEFINE u == s \o t
<1>1. u \in Seq(Char) /\ Len(u) = Len(s) + Len(t)
  OBVIOUS
<1>2. \A i \in 1 .. Len(s) + Len(t) : u[i] = IF i <= Len(s) THEN s[i] ELSE t[i - Len(s)]
  OBVIOUS
<1>3. u = [i \in 1 .. Len(u) |-> u[i]]
  BY <1>1, SeqFun
<1> HIDE DEF u
<1>4. u = [i \in 1 .. Len(s) + Len(t) |-> IF i <= Len(s) THEN s[i] ELSE t[i - Len(s)]]
  BY <1>1, <1>2, <1>3, Zenon
<1> QED
  BY <1>4 DEF u

\* consoleintr() adds the character to the line, and enters the line if it ends.
LEMMA TypeStep ==
  ASSUME ConsoleInv, NEW c \in Char, consoleintr(c)
  PROVE  ConsoleInv' /\ [Lines!Next]_(Lines!vars)
<1> DEFINE m == Minus(w, r)
           k == Minus(e, w)
<1>0. /\ r \in 0 .. UINT - 1 /\ w \in 0 .. UINT - 1 /\ e \in 0 .. UINT - 1
      /\ m \in 0 .. INPUT_BUF /\ k \in 0 .. INPUT_BUF
      /\ Minus(e, r) = m + k /\ m + k < INPUT_BUF
      /\ INPUT_BUF \in Nat \ {0}
  BY InvFacts, BufAssumption DEF consoleintr
<1>1. /\ r' = r /\ e' \in 0 .. UINT - 1 /\ Minus(e', r) = m + k + 1
      /\ buf' \in [0 .. INPUT_BUF - 1 -> Char]
      /\ \A j \in 0 .. m + k : Stored(j)' = IF j = m + k THEN c ELSE Stored(j)
  BY <1>0, StoreFacts
<1>2. Minus(e, r)' = Minus(e', r) /\ Minus(w, r)' = Minus(w', r) /\ Minus(e, w)' = Minus(e', w')
  BY <1>1 DEF Minus
<1>3. Ends(c) <=> c \in {NL, EOF} \/ m + k + 1 = INPUT_BUF
  BY <1>1 DEF Ends
<1>4. w' = (IF Ends(c) THEN e' ELSE w) /\ w' \in 0 .. UINT - 1
  BY <1>0, <1>1 DEF consoleintr
<1>5. /\ Ends(c) => Minus(w', r) = m + k + 1 /\ Minus(e', w') = 0
      /\ ~Ends(c) => Minus(w', r) = m /\ Minus(e', w') = k + 1
  <2>1. CASE Ends(c)
    BY <1>1, <1>4, <2>1, MinusCases
  <2>2. CASE ~Ends(c)
    <3>1. w' = w
      BY <1>4, <2>2
    <3>2. Minus(w, r) <= Minus(e', r)
      BY <1>0, <1>1
    <3>3. Minus(e', w) = Minus(e', r) - m
      BY <1>0, <1>1, <3>2, MinusSplit
    <3> HIDE DEF m, k
    <3>4. Minus(e', w) = k + 1
      BY <1>0, <1>1, <3>3
    <3> QED
      BY <2>2, <3>1, <3>4 DEF m
  <2> QED
    BY <2>1, <2>2
<1>6. ConsoleInv'
  <2>1. pc' \in [Reader -> {"idle", "run", "asleep"}]
        /\ \A q \in Reader : pc'[q] # "idle" => pc[q] # "idle"
    BY DEF consoleintr, wakeup, ConsoleInv, TypeOK
  <2>2. UNCHANGED <<left, got, killed>>
    BY DEF consoleintr
  <2>3. TypeOK'
    BY <1>0, <1>1, <1>4, <2>1, <2>2 DEF ConsoleInv, TypeOK
  <2>4. \A q \in Reader : pc'[q] # "idle" => left'[q] > 0
    BY <2>1, <2>2 DEF ConsoleInv
  <2>5. Minus(w, r)' <= Minus(e, r)' /\ Minus(e, r)' <= INPUT_BUF
    <3> HIDE DEF m, k
    <3> QED
      BY <1>0, <1>1, <1>2, <1>5
  <2>6. Minus(e, r)' = INPUT_BUF => w' = e'
    BY <1>1, <1>2, <1>3, <1>4
  <2> QED
    BY <2>3, <2>4, <2>5, <2>6 DEF ConsoleInv, IndicesInOrder
<1>7. SeenFromR /\ SeenFromR'
  BY <1>6, Views, ViewsNext
<1>8. /\ Entered = [i \in 1 .. m |-> Stored(i - 1)]
      /\ Line = [i \in 1 .. k |-> Stored(m + (i - 1))]
      /\ Entered \in Seq(Char) /\ Len(Entered) = m
      /\ Line \in Seq(Char) /\ Len(Line) = k
  BY <1>7 DEF Entered, Line, SeenFromR
<1> DEFINE S(j) == buf[(r + j) % INPUT_BUF]
           T(j) == buf'[(r + j) % INPUT_BUF]
<1>9. /\ Entered' = [i \in 1 .. Minus(w', r) |-> T(i - 1)]
      /\ Line' = [i \in 1 .. Minus(e', w') |-> T(Minus(w', r) + (i - 1))]
  BY <1>1, Zenon DEF Entered, Line, Stored, Minus
<1>10. \A j \in 0 .. m + k : T(j) = IF j = m + k THEN c ELSE S(j)
  BY <1>1, Zenon DEF Stored
<1> HIDE DEF m, k
<1>11. CASE ~Ends(c)
  <2>1. /\ Entered' = [i \in 1 .. m |-> T(i - 1)]
        /\ Line' = [i \in 1 .. k + 1 |-> T(m + (i - 1))]
    BY <1>5, <1>9, <1>11, Zenon
  <2>2. /\ Entered = [i \in 1 .. m |-> S(i - 1)]
        /\ Line = [i \in 1 .. k |-> S(m + (i - 1))]
    BY <1>8 DEF Stored
  <2> HIDE DEF S, T
  <2>3. Entered' = Entered
    <3>1. \A i \in 1 .. m : T(i - 1) = S(i - 1)
      BY <1>0, <1>10
    <3> QED
      BY <2>1, <2>2, <3>1
  <2>4. Line' = Append(Line, c)
    <3>1. /\ \A i \in 1 .. k : T(m + (i - 1)) = S(m + (i - 1))
          /\ T(m + ((k + 1) - 1)) = c
      BY <1>0, <1>10
    <3> DEFINE A == Append(Line, c)
    <3>2. /\ A = [i \in 1 .. k + 1 |-> A[i]] /\ A[k + 1] = c
          /\ \A i \in 1 .. k : A[i] = Line[i]
      <4>1. Line \in Seq(Char) /\ Len(Line) = k
        BY <1>8
      <4>2. A \in Seq(Char) /\ Len(A) = k + 1
        BY <4>1, AppendFacts
      <4>3. A = [i \in 1 .. Len(A) |-> A[i]]
        BY <4>2, SeqFun, Zenon
      <4>4. A[k + 1] = c /\ \A i \in 1 .. k : A[i] = Line[i]
        BY <4>1, AppendFacts, Zenon
      <4> QED
        BY <4>2, <4>3, <4>4, Zenon
    <3> HIDE DEF A
    <3>3. \A i \in 1 .. k + 1 : T(m + (i - 1)) = A[i]
      <4> SUFFICES ASSUME NEW i \in 1 .. k + 1 PROVE T(m + (i - 1)) = A[i]
        OBVIOUS
      <4>1. CASE i \in 1 .. k
        BY <2>2, <3>1, <3>2, <4>1
      <4>2. CASE i = k + 1
        BY <3>1, <3>2, <4>2
      <4> QED
        BY <1>0, <4>1, <4>2
    <3> QED
      BY <2>1, <3>2, <3>3, Zenon DEF A
  <2>5. Lines!Type(c)
    <3>1. Len(Line) + Len(Entered) + 1 < INPUT_BUF /\ c \notin {NL, EOF}
      BY <1>0, <1>3, <1>8, <1>11
    <3> QED
      BY <1>7, <2>3, <2>4, <3>1 DEF SeenFromR, Lines!Type
  <2> QED
    BY <1>6, <2>5 DEF Lines!Next
<1>12. CASE Ends(c)
  <2>1. /\ Entered' = [i \in 1 .. m + k + 1 |-> T(i - 1)]
        /\ Line' = [i \in 1 .. 0 |-> T(m + k + 1 + (i - 1))]
    BY <1>5, <1>9, <1>12, Zenon
  <2>2. /\ Entered = [i \in 1 .. m |-> S(i - 1)]
        /\ Line = [i \in 1 .. k |-> S(m + (i - 1))]
    BY <1>8 DEF Stored
  <2> HIDE DEF S, T
  <2>3. Line' = <<>>
    BY <2>1
  <2>4. Entered' = Entered \o Append(Line, c)
    <3> DEFINE A == Append(Line, c)
    <3>1. /\ A \in Seq(Char) /\ Len(A) = k + 1 /\ A[k + 1] = c
          /\ \A i \in 1 .. k : A[i] = Line[i]
      <4>1. Line \in Seq(Char) /\ Len(Line) = k
        BY <1>8
      <4> QED
        BY <4>1, AppendFacts, Zenon
    <3> HIDE DEF A
    <3>2. /\ \A i \in 1 .. m : T(i - 1) = S(i - 1)
          /\ \A i \in m + 1 .. m + k : T(i - 1) = S(m + ((i - m) - 1))
          /\ T(m + k) = c
      BY <1>0, <1>10
    <3>3. \A i \in 1 .. m + k + 1 :
            T(i - 1) = IF i <= m THEN Entered[i] ELSE A[i - m]
      <4> SUFFICES ASSUME NEW i \in 1 .. m + k + 1
                   PROVE  T(i - 1) = IF i <= m THEN Entered[i] ELSE A[i - m]
        OBVIOUS
      <4>1. CASE i <= m
        BY <1>0, <2>2, <3>2, <4>1
      <4>2. CASE i > m /\ i <= m + k
        <5>1. i \in m + 1 .. m + k /\ i - m \in 1 .. k
          BY <1>0, <4>2
        <5>2. ~(i <= m)
          BY <1>0, <4>2
        <5> QED
          BY <2>2, <3>1, <3>2, <5>1, <5>2, Zenon
      <4>3. CASE i = m + k + 1
        <5>1. i - 1 = m + k /\ i - m = k + 1 /\ ~(i <= m)
          BY <1>0, <4>3
        <5> QED
          BY <3>1, <3>2, <5>1, Zenon
      <4>4. i <= m \/ (i > m /\ i <= m + k) \/ i = m + k + 1
        BY <1>0
      <4> QED
        BY <4>1, <4>2, <4>3, <4>4, Zenon
    <3>4. Entered \o A = [i \in 1 .. m + (k + 1) |-> IF i <= m THEN Entered[i] ELSE A[i - m]]
      <4>1. Entered \in Seq(Char) /\ Len(Entered) = m
        BY <1>8
      <4>2. A \in Seq(Char) /\ Len(A) = k + 1
        BY <3>1
      <4>3. Entered \o A = [i \in 1 .. Len(Entered) + Len(A) |->
                            IF i <= Len(Entered) THEN Entered[i] ELSE A[i - Len(Entered)]]
        BY <4>1, <4>2, ConcatFacts, Zenon
      <4> QED
        BY <4>1, <4>2, <4>3, Zenon
    <3>5. m + (k + 1) = m + k + 1
      BY <1>0
    <3> QED
      BY <2>1, <3>3, <3>4, <3>5, Zenon DEF A
  <2>5. Lines!Enter(c)
    <3>1. /\ Len(Line) + Len(Entered) < INPUT_BUF
          /\ c \in {NL, EOF} \/ Len(Line) + Len(Entered) + 1 = INPUT_BUF
      BY <1>0, <1>3, <1>8, <1>12
    <3> QED
      BY <1>7, <2>3, <2>4, <3>1 DEF SeenFromR, Lines!Enter, Lines!Room
  <2> QED
    BY <1>6, <2>5 DEF Lines!Next
<1> QED
  BY <1>11, <1>12
\* How far consoleread() gets: at least one character, none after the end of a
\* line, and no more than wanted.
LEMMA TakenFacts ==
  ASSUME NEW s \in Seq(Char), s # <<>>, NEW n \in Nat \ {0}
  PROVE  /\ Taken(s, n) \in 1 .. Len(s) /\ Taken(s, n) <= n
         /\ \A i \in 1 .. Taken(s, n) - 1 : s[i] \notin {NL, EOF}
<1> DEFINE S == {Len(s), n} \cup { i \in DOMAIN s : s[i] \in {NL, EOF} }
<1>1. Len(s) \in Nat \ {0} /\ DOMAIN s = 1 .. Len(s)
  OBVIOUS
<1>2. /\ S \in SUBSET (Nat \ {0}) /\ Len(s) \in S /\ n \in S
      /\ \A i \in 1 .. Len(s) : s[i] \in {NL, EOF} => i \in S
  <2>1. \A i \in 1 .. Len(s) : i \in Nat \ {0}
    BY <1>1
  <2> QED
    BY <1>1, <2>1, Zenon
<1>3. Taken(s, n) = Min(S)
  BY DEF Taken
<1> HIDE DEF S
<1>4. Taken(s, n) \in S /\ \A i \in S : Taken(s, n) <= i
  <2>1. S \in SUBSET Nat /\ S # {}
    BY <1>2
  <2> QED
    BY <1>3, <2>1, MinFacts
<1> HIDE DEF Taken
<1>5. Taken(s, n) \in 1 .. Len(s) /\ Taken(s, n) <= n
  <2>1. Taken(s, n) \in Nat \ {0} /\ Taken(s, n) <= Len(s) /\ Taken(s, n) <= n
    BY <1>2, <1>4, Zenon
  <2> QED
    BY <1>1, <2>1
<1>6. ASSUME NEW i \in 1 .. Taken(s, n) - 1, s[i] \in {NL, EOF}
      PROVE  FALSE
  <2>1. i \in 1 .. Len(s) /\ i < Taken(s, n)
    BY <1>1, <1>5
  <2>2. i \in S
    BY <1>2, <1>6, <2>1
  <2> QED
    BY <1>4, <1>5, <2>1, <2>2
<1> QED
  BY <1>5, <1>6

\* Moving r on by t characters takes these from what is entered.
LEMMA TakeFacts ==
  ASSUME ConsoleInv, NEW t \in 0 .. Minus(w, r), r' = Plus(r, t), UNCHANGED <<buf, w, e>>
  PROVE  /\ r' \in 0 .. UINT - 1 /\ Minus(r', r) = t
         /\ IndicesInOrder'
         /\ Between(w, e)' = Between(w, e)
         /\ SeenFromR' => Between(r, w)' = SubSeq(Between(r, w), t + 1, Len(Between(r, w)))
<1> DEFINE m == Minus(w, r)
           n == Minus(e, r)
<1>1. /\ r \in 0 .. UINT - 1 /\ w \in 0 .. UINT - 1 /\ e \in 0 .. UINT - 1
      /\ m \in 0 .. INPUT_BUF /\ n \in 0 .. INPUT_BUF /\ t <= m /\ m <= n
      /\ n = INPUT_BUF => w = e
      /\ INPUT_BUF \in Nat /\ UINT \in Nat /\ INPUT_BUF < UINT /\ t \in 0 .. UINT - 1
  BY InvFacts, BufAssumption, WrapAssumption
<1>2. r' \in 0 .. UINT - 1 /\ r' = IF r + t >= UINT THEN r + t - UINT ELSE r + t
  BY <1>1, PlusCases
<1>3. Minus(r', r) = t
  <2>1. Minus(r', r) = IF r' < r THEN r' - r + UINT ELSE r' - r
    BY <1>1, <1>2, MinusCases
  <2> QED
    BY <1>1, <1>2, <2>1
<1>4. Minus(w, r)' = m - t /\ Minus(e, r)' = n - t
  <2>1. Minus(w, r)' = Minus(w, r') /\ Minus(e, r)' = Minus(e, r')
    BY DEF Minus
  <2>2. t <= m /\ t <= n
    <3> HIDE DEF m, n
    <3> QED
      BY <1>1
  <2>3. Minus(w, r') = Minus(w, r) - Minus(r', r) /\ Minus(e, r') = Minus(e, r) - Minus(r', r)
    BY <1>1, <1>2, <1>3, <2>2, MinusSplit, Zenon
  <2> QED
    BY <1>3, <2>1, <2>3
<1>5. t = 0 => r' = r
  BY <1>1, <1>2
<1>6. IndicesInOrder'
  <2>1. Minus(w, r)' <= Minus(e, r)' /\ Minus(e, r)' <= INPUT_BUF
    <3>1. m - t <= n - t /\ n - t <= INPUT_BUF
      <4> HIDE DEF m, n
      <4> QED
        BY <1>1
    <3> QED
      BY <1>4, <3>1, Zenon
  <2>2. Minus(e, r)' = INPUT_BUF => w' = e'
    <3>1. n - t = INPUT_BUF => n = INPUT_BUF
      <4> HIDE DEF m, n
      <4> QED
        BY <1>1
    <3> QED
      BY <1>1, <1>4, <3>1, Zenon
  <2> QED
    BY <2>1, <2>2 DEF IndicesInOrder
<1>7. Between(w, e)' = Between(w, e)
  BY DEF Between, Minus
<1>8. ASSUME SeenFromR'
      PROVE  Between(r, w)' = SubSeq(Between(r, w), t + 1, Len(Between(r, w)))
  <2> DEFINE S(j) == buf[(r + j) % INPUT_BUF]
             T(j) == buf[(r' + j) % INPUT_BUF]
  <2>1. /\ Entered' = [i \in 1 .. Minus(w, r)' |-> T(i - 1)]
        /\ Entered = [i \in 1 .. m |-> S(i - 1)]
    BY Zenon DEF Entered, Stored
  <2>2. \A j \in Int : T(j) = S(t + j)
    BY <1>1, <1>2, <1>3, PlaceFrom, Zenon
  <2>3. /\ Between(r, w) = Entered /\ Entered \in Seq(Char) /\ Len(Entered) = m
        /\ Between(r, w)' = Entered'
    BY <1>8, Views DEF SeenFromR
  <2> HIDE DEF S, T, m
  <2>4. \A i \in 1 .. m - t : T(i - 1) = S((t + i) - 1)
    <3> SUFFICES ASSUME NEW i \in 1 .. m - t PROVE T(i - 1) = S((t + i) - 1)
      OBVIOUS
    <3>1. i - 1 \in Int /\ t + (i - 1) = (t + i) - 1
      BY <1>1
    <3> QED
      BY <2>2, <3>1, Zenon
  <2>5. \A i \in 1 .. m - t : t + i \in 1 .. m
    BY <1>1
  <2>6. \A i \in 1 .. m - t : Entered[t + i] = S((t + i) - 1)
    BY <2>1, <2>5, Zenon
  <2>7. Entered' = [i \in 1 .. m - t |-> Entered[t + i]]
    BY <1>4, <2>1, <2>4, <2>6, Zenon
  <2>8. SubSeq(Entered, t + 1, m) = [i \in 1 .. m - t |-> Entered[t + i]]
    BY <1>1, <2>3
  <2> QED
    BY <2>3, <2>7, <2>8, Zenon
<1> QED
  BY <1>2, <1>3, <1>6, <1>7, <1>8

\* Nothing of a sequence.
LEMMA EmptySubSeq ==
  ASSUME NEW s \in Seq(Char)
  PROVE  SubSeq(s, 1, 0) = <<>>
  OBVIOUS

\* consoleread() takes characters up to the end of a line, and read() returns
\* without having passed a C('D') unless it returns nothing.
LEMMA ReadStep ==
  ASSUME ConsoleInv, NEW p \in Reader, consoleread(p)
  PROVE  /\ ConsoleInv' /\ [Lines!Next]_(Lines!vars)
         /\ got'[p] # <<>> => \A i \in 1 .. Minus(r', r) : buf[(r + i - 1) % INPUT_BUF] # EOF
<1> DEFINE s == Between(r, w)
           k == Taken(s, left[p])
           c == s[k]
           t == IF SavesEOF(p, k, c) THEN k - 1 ELSE k
           copied == SubSeq(s, 1, IF c = EOF THEN k - 1 ELSE k)
           done == c \in {NL, EOF} \/ k = left[p]
<1>1. /\ r' = Plus(r, t) /\ UNCHANGED <<buf, w, e, killed>>
      /\ got' = [got EXCEPT ![p] = @ \o copied]
      /\ left' = [left EXCEPT ![p] = IF done \/ killed[p] THEN 0 ELSE @ - k]
      /\ pc' = [pc EXCEPT ![p] = IF done \/ killed[p] THEN "idle" ELSE "asleep"]
      /\ pc[p] = "run" /\ r # w
  BY DEF consoleread
<1>2. s \in Seq(Char) /\ Len(s) = Minus(w, r) /\ s # <<>>
  <2>1. s \in Seq(Char) /\ Len(s) = Minus(w, r)
    BY Views DEF SeenFromR
  <2>2. Minus(w, r) # 0
    <3>1. Minus(w, r) = IF w < r THEN w - r + UINT ELSE w - r
      BY InvFacts, MinusCases
    <3> QED
      BY <1>1, <3>1, InvFacts, BufAssumption
  <2> HIDE DEF s
  <2> QED
    BY <2>1, <2>2
<1>3. left[p] \in Nat \ {0} /\ left[p] <= MaxRead
  <2>1. left[p] \in 0 .. MaxRead /\ pc[p] # "idle"
    BY <1>1 DEF ConsoleInv, TypeOK
  <2>2. left[p] > 0
    BY <2>1 DEF ConsoleInv
  <2> QED
    BY <2>1, <2>2, MaxReadAssumption
<1>4. /\ k \in 1 .. Len(s) /\ k <= left[p]
      /\ \A i \in 1 .. k - 1 : s[i] \notin {NL, EOF}
  BY <1>2, <1>3, TakenFacts
<1>5. s = [i \in 1 .. Minus(w, r) |-> buf[(r + i - 1) % INPUT_BUF]]
  BY DEF Between
<1> HIDE DEF s, k
<1>6. /\ t \in 0 .. Len(s) /\ t \in {k - 1, k} /\ c \in Char /\ copied \in Seq(Char)
  BY <1>2, <1>4
<1>7. /\ r' \in 0 .. UINT - 1 /\ Minus(r', r) = t /\ IndicesInOrder'
      /\ Between(w, e)' = Between(w, e)
      /\ SeenFromR' => Between(r, w)' = SubSeq(s, t + 1, Len(s))
  <2>1. t \in 0 .. Minus(w, r)
    BY <1>2, <1>6
  <2> HIDE DEF t
  <2> QED
    BY <1>1, <2>1, TakeFacts DEF s
<1>8. ConsoleInv'
  <2>1. /\ pc' \in [Reader -> {"idle", "run", "asleep"}]
        /\ \A q \in Reader : pc'[q] # "idle" => left'[q] > 0
    BY <1>1, <1>3, <1>4 DEF ConsoleInv, TypeOK
  <2>2. left' \in [Reader -> 0 .. MaxRead]
    BY <1>1, <1>3, <1>4, MaxReadAssumption DEF ConsoleInv, TypeOK
  <2>3. got' \in [Reader -> Seq(Char)]
    <3> HIDE DEF copied
    <3> QED
      BY <1>1, <1>6 DEF ConsoleInv, TypeOK
  <2>4. TypeOK'
    BY <1>1, <1>7, <2>1, <2>2, <2>3 DEF ConsoleInv, TypeOK
  <2> QED
    BY <1>7, <2>1, <2>4 DEF ConsoleInv
<1>9. [Lines!Next]_(Lines!vars)
  <2>1. Between(r, w)' = SubSeq(s, t + 1, Len(s))
    BY <1>7, <1>8, ViewsNext
  <2>2. CASE t = 0
    <3>1. SubSeq(s, 1, Len(s)) = s
      BY <1>2
    <3>2. Between(r, w)' = s
      BY <2>1, <2>2, <3>1
    <3> QED
      BY <1>7, <3>2 DEF Lines!vars, s
  <2>3. CASE t # 0
    <3>1. t \in 1 .. Len(s) /\ \A i \in 1 .. t - 1 : s[i] \notin {NL, EOF}
      BY <1>2, <1>4, <1>6, <2>3
    <3> HIDE DEF t
    <3>2. Lines!Take(t) /\ t \in 1 .. Len(Between(r, w))
      BY <1>7, <2>1, <3>1 DEF Lines!Take, s
    <3> QED
      BY <3>2 DEF Lines!Next
  <2> QED
    BY <2>2, <2>3
<1>10. ASSUME got'[p] # <<>>, NEW i \in 1 .. Minus(r', r)
       PROVE  buf[(r + i - 1) % INPUT_BUF] # EOF
  <2>1. i \in 1 .. t /\ i \in 1 .. Minus(w, r) /\ s[i] = buf[(r + i - 1) % INPUT_BUF]
    <3>1. i \in 1 .. t /\ i \in 1 .. Minus(w, r)
      BY <1>2, <1>6, <1>7, <1>10
    <3> QED
      BY <1>5, <3>1, Zenon
  <2>2. CASE i \in 1 .. k - 1
    BY <1>4, <2>1, <2>2
  <2>3. CASE i = k /\ t = k /\ s[k] = EOF
    <3>1. ~SavesEOF(p, k, c)
      BY <1>4, <2>3
    <3>2. k = 1 /\ got[p] = <<>>
      BY <1>4, <2>3, <3>1 DEF SavesEOF
    <3>3. copied = SubSeq(s, 1, 0)
      BY <2>3, <3>2
    <3>4. copied = <<>>
      BY <1>2, <3>3, EmptySubSeq, Zenon
    <3>5. got'[p] = got[p] \o copied
      BY <1>1 DEF ConsoleInv, TypeOK
    <3>6. got'[p] = <<>>
      BY <3>2, <3>4, <3>5
    <3> QED
      BY <1>10, <3>6
  <2>4. i \in 1 .. k - 1 \/ (i = k /\ t = k)
    BY <1>4, <1>6, <2>1
  <2> QED
    BY <2>1, <2>2, <2>3, <2>4
<1> QED
  BY <1>8, <1>9, <1>10

\* The input buffer is empty when the console comes up.
LEMMA InitConsole ==
  ASSUME Init
  PROVE  ConsoleInv /\ Lines!Init
<1>1. /\ r = 0 /\ w = 0 /\ e = 0 /\ 0 \in 0 .. UINT - 1
  BY BufAssumption, WrapAssumption DEF Init
<1>2. Minus(0, 0) = 0
  BY <1>1, MinusCases
<1>3. TypeOK
  <2>1. buf \in [0 .. INPUT_BUF - 1 -> Char]
    BY DEF Init
  <2>2. killed \in [Reader -> BOOLEAN] /\ pc \in [Reader -> {"idle", "run", "asleep"}]
    BY Zenon DEF Init
  <2>3. left \in [Reader -> 0 .. MaxRead] /\ got \in [Reader -> Seq(Char)]
    BY MaxReadAssumption DEF Init
  <2> QED
    BY <1>1, <2>1, <2>2, <2>3 DEF TypeOK
<1>4. IndicesInOrder
  BY <1>1, <1>2, BufAssumption DEF IndicesInOrder
<1>5. \A q \in Reader : pc[q] = "idle"
  BY DEF Init
<1>6. Between(r, w) = <<>> /\ Between(w, e) = <<>>
  BY <1>1, <1>2 DEF Between
<1> QED
  BY <1>3, <1>4, <1>5, <1>6 DEF ConsoleInv, Lines!Init

\* What EofIsKept says of a step.
EofStep ==
  \A p \in Reader : pc[p] = "run" /\ pc'[p] = "idle" /\ ~killed[p] /\ got'[p] # <<>>
                    => \A i \in 1 .. Minus(r', r) : buf[(r + i - 1) % INPUT_BUF] # EOF

\* A step that does not move r.
LEMMA EofSame ==
  ASSUME ConsoleInv, r' = r
  PROVE  EofStep
<1>1. Minus(r', r) = 0
  BY InvFacts, MinusCases
<1> QED
  BY <1>1 DEF EofStep

\* Every step.
LEMMA NextConsole ==
  ASSUME ConsoleInv, [Next]_vars
  PROVE  ConsoleInv' /\ [Lines!Next]_(Lines!vars) /\ EofStep
<1>1. ASSUME NEW c \in Char, consoleintr(c)
      PROVE  ConsoleInv' /\ [Lines!Next]_(Lines!vars) /\ EofStep
  <2>1. r' = r
    BY <1>1 DEF consoleintr
  <2> QED
    BY <1>1, <2>1, TypeStep, EofSame
<1>2. CASE backspace \/ killline
  <2>1. r' = r
    BY <1>2 DEF backspace, killline
  <2> QED
    BY <1>2, <2>1, BackspaceStep, KilllineStep, EofSame
<1>3. ASSUME NEW p \in Reader, consoleread(p)
      PROVE  ConsoleInv' /\ [Lines!Next]_(Lines!vars) /\ EofStep
  <2>1. \A q \in Reader : q # p => pc'[q] = pc[q]
    BY <1>3 DEF consoleread, ConsoleInv, TypeOK
  <2>2. EofStep
    BY <1>3, <2>1, ReadStep DEF EofStep
  <2> QED
    BY <1>3, <2>2, ReadStep
<1>4. ASSUME NEW p \in Reader, consoleread_empty(p) \/ kill(p)
      PROVE  ConsoleInv' /\ [Lines!Next]_(Lines!vars) /\ EofStep
  <2>1. r' = r
    BY <1>4 DEF consoleread_empty, kill, input
  <2> QED
    BY <1>4, <2>1, ReadEmptyStep, KillStep, EofSame
<1>5. ASSUME NEW p \in Reader, NEW n \in 1 .. MaxRead, read_call(p, n)
      PROVE  ConsoleInv' /\ [Lines!Next]_(Lines!vars) /\ EofStep
  <2>1. r' = r
    BY <1>5 DEF read_call, input
  <2> QED
    BY <1>5, <2>1, ReadCallStep, EofSame
<1>6. CASE UNCHANGED vars
  <2>1. UNCHANGED input /\ r' = r
    BY <1>6 DEF vars, input
  <2>2. ConsoleInv'
    BY <1>6 DEF vars, ConsoleInv, TypeOK, IndicesInOrder, Minus
  <2> QED
    BY <2>1, <2>2, SameInput, EofSame
<1> QED
  BY <1>1, <1>2, <1>3, <1>4, <1>5, <1>6 DEF Next

\* The indices r, w and e stay in order through wrapping, a full buffer is entered
\* to its end, and a reader that sleeps in consoleread() still wants characters.
THEOREM ConsoleInvariance == Spec => []ConsoleInv
<1>1. Init => ConsoleInv
  BY InitConsole
<1>2. ConsoleInv /\ [Next]_vars => ConsoleInv'
  BY NextConsole
<1> QED
  BY <1>1, <1>2, PTL DEF Spec

\* consoleintr() and consoleread() implement LineInput: for every buffer size and
\* every number of readers, erasing never reaches an entered character, and nothing
\* entered is overwritten, lost or read twice.
THEOREM Refinement == Spec => EnteredLinesAreRead
<1>1. Init => Lines!Init
  BY InitConsole
<1>2. ConsoleInv /\ [Next]_vars => [Lines!Next]_(Lines!vars)
  BY NextConsole
<1> QED
  BY <1>1, <1>2, ConsoleInvariance, PTL DEF Spec, EnteredLinesAreRead, Lines!Spec

\* consoleread() returns 0 only for a C('D') typed at the start: one after other
\* characters is put back for the next read().
THEOREM EofStays == Spec => EofIsKept
<1>1. ConsoleInv /\ [Next]_vars => EofStep
  BY NextConsole
<1>2. Spec => [][EofStep]_vars
  BY <1>1, ConsoleInvariance, PTL DEF Spec
<1> QED
  BY <1>2 DEF EofIsKept, EofStep
=============================================================================
