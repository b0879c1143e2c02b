------------------------------ MODULE PipeProofs ------------------------------
(***************************************************************************)
(* Proofs about the pipe, for every set of readers and writers, every      *)
(* PIPESIZE and every UINT that it divides.  First what the wrapping       *)
(* indices mean (WrapCases to WrapShift), then one lemma per action: it    *)
(* keeps PipeInv, and it is a step of ByteStream or leaves it alone.       *)
(***************************************************************************)
EXTENDS Pipe, TLAPS

\* The remainder is the only one in its range.
LEMMA ModUnique ==
  ASSUME NEW m \in Nat \ {0}, NEW x \in Int, NEW q \in Int, NEW r \in 0 .. m - 1,
         x = q * m + r
  PROVE  x % m = r
  BY SMTT(30)

\* A number is a multiple of m plus its remainder.
LEMMA ModExists ==
  ASSUME NEW m \in Nat \ {0}, NEW x \in Int
  PROVE  \E q \in Int : x = q * m + (x % m) /\ x % m \in 0 .. m - 1
<1>1. x % m \in 0 .. m - 1
  OBVIOUS
<1>2. x \div m \in Int
  OBVIOUS
<1>3. x = (x \div m) * m + (x % m)
  BY Z3
<1> QED
  BY <1>1, <1>2, <1>3, Zenon

\* An index less than a lap out of range is brought back by adding or subtracting u
\* once at most.
LEMMA ModCases ==
  ASSUME NEW u \in Nat \ {0}, NEW x \in Int, -u < x, x < 2 * u
  PROVE  x % u = IF x < 0 THEN x + u ELSE IF x >= u THEN x - u ELSE x
<1>1. CASE x < 0
  <2>1. x = (-1) * u + (x + u)
    OBVIOUS
  <2> QED
    BY <1>1, <2>1, ModUnique
<1>2. CASE x >= u
  <2>1. x = 1 * u + (x - u)
    OBVIOUS
  <2> QED
    BY <1>2, <2>1, ModUnique
<1>3. CASE 0 <= x /\ x < u
  <2>1. x = 0 * u + x
    OBVIOUS
  <2> QED
    BY <1>3, <2>1, ModUnique
<1> QED
  BY <1>1, <1>2, <1>3

\* Wrapping an index does not change the place it stands for.
LEMMA ModShift ==
  ASSUME NEW m \in Nat \ {0}, NEW u \in Nat \ {0}, u % m = 0, NEW a \in Int, NEW i \in Int
  PROVE  ((a % u) + i) % m = (a + i) % m
<1> DEFINE b == a % u
           r == (a + i) % m
<1>a. u \in Int /\ a + i \in Int
  OBVIOUS
<1>1. PICK q1 \in Int : a = q1 * u + b /\ b \in 0 .. u - 1
  BY ModExists, Zenon
<1>2. PICK q2 \in Int : u = q2 * m
  <2>1. PICK q2 \in Int : u = q2 * m + (u % m)
    BY <1>a, ModExists, Zenon
  <2> QED
    BY <2>1
<1>3. PICK q3 \in Int : a + i = q3 * m + r /\ r \in 0 .. m - 1
  BY <1>a, ModExists, Zenon
<1> HIDE DEF b, r
<1>4. q1 * u = (q1 * q2) * m
  BY <1>2
<1>5. b + i = (q3 - q1 * q2) * m + r
  BY <1>1, <1>3, <1>4
<1>6. (b + i) % m = r
  <2>1. q3 - q1 * q2 \in Int /\ b + i \in Int
    BY <1>1
  <2> QED
    BY <1>3, <1>5, <2>1, ModUnique
<1> QED
  BY <1>6 DEF b, r

\* min(a, b), as the loops over a buffer compute it.
LEMMA MinOfTwo ==
  ASSUME NEW a \in Int, NEW b \in Int
  PROVE  Min({a, b}) = IF a <= b THEN a ELSE b
  BY DEF Min

\* The indices are never more than one lap apart, so that taking a remainder means
\* to add or to subtract UINT once at most.
LEMMA WrapCases ==
  ASSUME NEW x \in Int, -UINT < x, x < 2 * UINT
  PROVE  Wrap(x) = IF x < 0 THEN x + UINT ELSE IF x >= UINT THEN x - UINT ELSE x
<1>1. UINT \in Nat \ {0}
  BY SizeAssumption, WrapAssumption
<1> QED
  BY <1>1, ModCases, Zenon DEF Wrap

\* pipewrite() and piperead() test with == what the difference of the indices says.
LEMMA IndexFacts ==
  ASSUME NEW a \in 0 .. UINT - 1, NEW b \in 0 .. UINT - 1
  PROVE  /\ Wrap(b - a) \in 0 .. UINT - 1
         /\ a = b <=> Wrap(b - a) = 0
         /\ b = Wrap(a + PIPESIZE) <=> Wrap(b - a) = PIPESIZE
<1>1. Wrap(b - a) = IF b < a THEN b - a + UINT ELSE b - a
  BY WrapCases, SizeAssumption, WrapAssumption
<1>2. Wrap(a + PIPESIZE) = IF a + PIPESIZE >= UINT THEN a + PIPESIZE - UINT ELSE a + PIPESIZE
  BY WrapCases, SizeAssumption, WrapAssumption
<1> QED
  BY <1>1, <1>2, SizeAssumption, WrapAssumption

\* The same for nread and nwrite: IsEmpty and IsFull are the two ends of Count.
LEMMA CountFacts ==
  ASSUME nread \in 0 .. UINT - 1, nwrite \in 0 .. UINT - 1
  PROVE  /\ Count \in 0 .. UINT - 1
         /\ IsEmpty <=> Count = 0
         /\ IsFull <=> Count = PIPESIZE
  BY IndexFacts DEF Count, IsEmpty, IsFull

\* nwrite += n adds n to the number of bytes.
LEMMA CountAfterWrite ==
  ASSUME nread \in 0 .. UINT - 1, nwrite \in 0 .. UINT - 1, Count <= PIPESIZE,
         NEW n \in 0 .. PIPESIZE - Count
  PROVE  Wrap(nwrite + n) \in 0 .. UINT - 1 /\ Wrap(Wrap(nwrite + n) - nread) = Count + n
<1> USE SizeAssumption, WrapAssumption
<1>0. Count \in 0 .. UINT - 1
  BY CountFacts
<1>1. Count = IF nwrite < nread THEN nwrite - nread + UINT ELSE nwrite - nread
  BY WrapCases DEF Count
<1>2. Wrap(nwrite + n) = IF nwrite + n >= UINT THEN nwrite + n - UINT ELSE nwrite + n
  BY <1>0, WrapCases
<1> DEFINE b == Wrap(nwrite + n)
<1>3. b \in 0 .. UINT - 1
  BY <1>0, <1>2
<1>4. Wrap(b - nread) = IF b < nread THEN b - nread + UINT ELSE b - nread
  <2> HIDE DEF b
  <2> QED
    BY <1>3, WrapCases
<1> QED
  BY <1>0, <1>1, <1>2, <1>3, <1>4

\* nread += n takes n from the number of bytes.
LEMMA CountAfterRead ==
  ASSUME nread \in 0 .. UINT - 1, nwrite \in 0 .. UINT - 1, NEW n \in 0 .. Count
  PROVE  Wrap(nread + n) \in 0 .. UINT - 1 /\ Wrap(nwrite - Wrap(nread + n)) = Count - n
<1> USE SizeAssumption, WrapAssumption
<1>0. Count \in 0 .. UINT - 1
  BY CountFacts
<1>1. Count = IF nwrite < nread THEN nwrite - nread + UINT ELSE nwrite - nread
  BY WrapCases DEF Count
<1>2. Wrap(nread + n) = IF nread + n >= UINT THEN nread + n - UINT ELSE nread + n
  BY <1>0, WrapCases
<1> DEFINE a == Wrap(nread + n)
<1>3. a \in 0 .. UINT - 1
  BY <1>0, <1>2
<1>4. Wrap(nwrite - a) = IF nwrite < a THEN nwrite - a + UINT ELSE nwrite - a
  <2> HIDE DEF a
  <2> QED
    BY <1>3, WrapCases
<1> QED
  BY <1>0, <1>1, <1>2, <1>3, <1>4

\* Where byte i of the contents is, seen from nwrite: since PIPESIZE divides UINT, the
\* place does not depend on the laps.
LEMMA RingIndex ==
  ASSUME nread \in 0 .. UINT - 1, nwrite \in 0 .. UINT - 1, NEW i \in Int
  PROVE  (((nread + i - 1) % PIPESIZE) - nwrite) % PIPESIZE = (i - 1 - Count) % PIPESIZE
<1> USE SizeAssumption, WrapAssumption
<1> DEFINE k == (nread + i - 1) % PIPESIZE
           r == (i - 1 - Count) % PIPESIZE
<1>4. Count \in Int
  BY CountFacts
<1>a. /\ PIPESIZE \in Nat \ {0} /\ UINT \in Nat \ {0} /\ UINT \in Int
      /\ nread + i - 1 \in Int /\ nwrite - nread \in Int /\ i - 1 - Count \in Int
  BY <1>4
<1>1. PICK q1 \in Int : nread + i - 1 = q1 * PIPESIZE + k /\ k \in 0 .. PIPESIZE - 1
  BY <1>a, ModExists, Zenon
<1>2. PICK q2 \in Int : nwrite - nread = q2 * UINT + Count
  BY <1>a, ModExists, Zenon DEF Count, Wrap
<1>3. PICK q3 \in Int : UINT = q3 * PIPESIZE
  <2>1. PICK q3 \in Int : UINT = q3 * PIPESIZE + (UINT % PIPESIZE)
    BY <1>a, ModExists, Zenon
  <2> QED
    BY <2>1
<1>5. PICK q4 \in Int : i - 1 - Count = q4 * PIPESIZE + r /\ r \in 0 .. PIPESIZE - 1
  BY <1>a, ModExists, Zenon
<1>6. q2 * UINT = (q2 * q3) * PIPESIZE
  BY <1>3
<1> HIDE DEF k, r
<1>7. k - nwrite = (i - 1 - Count) - (q1 * PIPESIZE) - (q2 * q3) * PIPESIZE
  BY <1>1, <1>2, <1>4, <1>6
<1>8. k - nwrite = (q4 - q1 - q2 * q3) * PIPESIZE + r
  BY <1>5, <1>7
<1>9. (k - nwrite) % PIPESIZE = r
  <2>1. q4 - q1 - q2 * q3 \in Int
    OBVIOUS
  <2>2. k - nwrite \in Int
    BY <1>1
  <2> QED
    BY <1>5, <1>8, <2>1, <2>2, ModUnique
<1> QED
  BY <1>9 DEF k, r

\* Wrapping an index does not change the place it stands for.
LEMMA WrapShift ==
  ASSUME NEW a \in Nat, NEW i \in Int
  PROVE  (Wrap(a) + i) % PIPESIZE = (a + i) % PIPESIZE
<1>1. PIPESIZE \in Nat \ {0} /\ UINT \in Nat \ {0} /\ UINT % PIPESIZE = 0 /\ a \in Int
  BY SizeAssumption, WrapAssumption
<1> QED
  BY <1>1, ModShift, Zenon DEF Wrap

\* Facts that every step uses.
LEMMA InvFacts ==
  ASSUME PipeInv
  PROVE  /\ TypeOK
         /\ Count \in 0 .. PIPESIZE
         /\ IsEmpty <=> Count = 0
         /\ IsFull <=> Count = PIPESIZE
<1>1. TypeOK /\ Count <= PIPESIZE
  BY DEF PipeInv, NobodyStranded
<1>2. nread \in 0 .. UINT - 1 /\ nwrite \in 0 .. UINT - 1
  BY <1>1 DEF TypeOK
<1> QED
  BY <1>1, <1>2, CountFacts, SizeAssumption, WrapAssumption

\* A step that leaves the ring and the open ends alone.
LEMMA SameStream ==
  ASSUME UNCHANGED <<ring, writeopen, got>>
  PROVE  UNCHANGED Stream!vars
  BY DEF ring, Stream!vars, Contents, Count

\* sys_write() on the pipe only sets the writer going.
LEMMA WriteCallStep ==
  ASSUME PipeInv, NEW w \in Writer, NEW s \in Writes, write_call(w, s)
  PROVE  PipeInv' /\ [Stream!Next]_(Stream!vars)
<1> USE DEF write_call, ring
<1>1. TypeOK'
  BY InvFacts, WritesAssumption DEF TypeOK, Proc
<1>2. Count' = Count /\ IsEmpty' = IsEmpty /\ IsFull' = IsFull
  BY DEF Count, IsEmpty, IsFull
<1>3. NobodyStranded' /\ FreedOnce'
  BY <1>1, <1>2, InvFacts DEF PipeInv, TypeOK, NobodyStranded, FreedOnce, Proc
<1>4. PipeInv'
  BY <1>2, <1>3, InvFacts, EndAssumption DEF PipeInv, TypeOK, Proc
<1> QED
  BY <1>4, SameStream

\* sys_read() on the pipe only sets the reader going.
LEMMA ReadCallStep ==
  ASSUME PipeInv, NEW r \in Reader, NEW n \in 1 .. MaxRead, read_call(r, n)
  PROVE  PipeInv' /\ [Stream!Next]_(Stream!vars)
<1> USE DEF read_call, ring
<1>1. TypeOK'
  BY InvFacts, MaxReadAssumption DEF TypeOK, Proc
<1>2. Count' = Count /\ IsEmpty' = IsEmpty /\ IsFull' = IsFull
  BY DEF Count, IsEmpty, IsFull
<1>3. NobodyStranded' /\ FreedOnce'
  BY <1>1, <1>2, InvFacts DEF PipeInv, TypeOK, NobodyStranded, FreedOnce, Proc
<1>4. PipeInv'
  BY <1>2, <1>3, InvFacts, MaxReadAssumption DEF PipeInv, TypeOK, Proc
<1> QED
  BY <1>4, SameStream

\* piperead() of an empty pipe sleeps only while the write end is open.
LEMMA ReadEmptyStep ==
  ASSUME PipeInv, NEW r \in Reader, piperead_empty(r)
  PROVE  PipeInv' /\ [Stream!Next]_(Stream!vars)
<1> USE DEF piperead_empty, ring
<1>1. TypeOK'
  BY InvFacts, MaxReadAssumption DEF TypeOK, Proc
<1>2. Count' = Count /\ IsEmpty' = IsEmpty /\ IsFull' = IsFull
  BY DEF Count, IsEmpty, IsFull
<1>3. NobodyStranded' /\ FreedOnce'
  BY <1>1, <1>2, InvFacts, EndAssumption
     DEF PipeInv, TypeOK, NobodyStranded, FreedOnce, Proc
<1>4. PipeInv'
  BY <1>2, <1>3, InvFacts DEF PipeInv, TypeOK, Proc
<1> QED
  BY <1>4, SameStream

\* kill() wakes whoever sleeps, and nothing else changes.
LEMMA KillStep ==
  ASSUME PipeInv, NEW p \in Proc, kill(p)
  PROVE  PipeInv' /\ [Stream!Next]_(Stream!vars)
<1> USE DEF kill, ring
<1>1. TypeOK'
  BY InvFacts DEF TypeOK
<1>2. Count' = Count /\ IsEmpty' = IsEmpty /\ IsFull' = IsFull
  BY DEF Count, IsEmpty, IsFull
<1>3. NobodyStranded' /\ FreedOnce'
  BY <1>1, <1>2, InvFacts DEF PipeInv, TypeOK, NobodyStranded, FreedOnce, Proc
<1>4. PipeInv'
  BY <1>2, <1>3, InvFacts DEF PipeInv, TypeOK, Proc
<1> QED
  BY <1>4, SameStream

\* pipeclose(): the last descriptor of an end closes it and wakes the other end, and the
\* pipe is freed by the one that finds both closed.
LEMMA CloseStep ==
  ASSUME PipeInv, NEW p \in Proc, pipeclose(p)
  PROVE  PipeInv' /\ [Stream!Next]_(Stream!vars)
<1> USE DEF pipeclose, ring, wakeup, BothClosed
<1>0. TypeOK /\ pc[p] = "idle" /\ p \in ends
  BY InvFacts
<1>1. TypeOK'
  <2>1. pc' \in [Proc -> {"idle", "run", "asleep"}]
    BY <1>0 DEF TypeOK
  <2>2. readopen' \in BOOLEAN /\ writeopen' \in BOOLEAN
    OBVIOUS
  <2>3. freed' \in 0 .. 1
    BY <1>0, EndAssumption DEF PipeInv, FreedOnce, Proc, TypeOK
  <2> QED
    BY <1>0, <2>1, <2>2, <2>3 DEF TypeOK
<1>2. Count' = Count /\ IsEmpty' = IsEmpty /\ IsFull' = IsFull
  BY DEF Count, IsEmpty, IsFull
<1>3. NobodyStranded'
  BY <1>0, <1>1, <1>2, EndAssumption DEF PipeInv, TypeOK, NobodyStranded, Proc
<1>4. FreedOnce'
  <2>1. /\ freed \in 0 .. 1
        /\ freed = 1 <=> ~readopen /\ ~writeopen
        /\ p \in Reader => readopen
        /\ p \in Writer => writeopen
    BY <1>0 DEF PipeInv, FreedOnce, TypeOK
  <2>2. freed = 0
    BY <1>0, <2>1 DEF Proc
  <2>3. freed' = 1 <=> ~readopen' /\ ~writeopen'
    <3> DEFINE last == (IF p \in Writer THEN Writer ELSE Reader) \cap ends' = {}
    <3>1. freed' = IF last /\ ~readopen' /\ ~writeopen' THEN 1 ELSE 0
      BY <2>2
    <3>2. ~readopen' /\ ~writeopen' => last
      BY <1>0, <2>1, Zenon DEF Proc
    <3> QED
      BY <3>1, <3>2
  <2>4. freed' \in 0 .. 1
    BY <1>1 DEF TypeOK
  <2>5. freed' = 1 => ends' = {}
    BY <1>0, <2>1, <2>2, EndAssumption DEF PipeInv, TypeOK, Proc
  <2>6. ends' = {} => \A q \in Proc : pc'[q] = "idle"
    BY <1>0 DEF PipeInv, TypeOK
  <2> QED
    BY <2>3, <2>4, <2>5, <2>6 DEF FreedOnce
<1>5. PipeInv'
  BY <1>0, <1>2, <1>3, <1>4, EndAssumption DEF PipeInv, TypeOK, Proc
<1>6. [Stream!Next]_(Stream!vars)
  <2>1. Contents' = Contents
    BY <1>2 DEF Contents
  <2>2. CASE writeopen' = FALSE
    BY <2>1, <2>2 DEF Stream!Next, Stream!Close
  <2>3. CASE writeopen' # FALSE
    BY <1>0, <2>1, <2>3 DEF Stream!vars, TypeOK
  <2> QED
    BY <2>2, <2>3
<1> QED
  BY <1>5, <1>6

\* piperead() takes the first bytes of the contents, in order.
LEMMA ReadStep ==
  ASSUME PipeInv, NEW r \in Reader, piperead(r)
  PROVE  PipeInv' /\ [Stream!Next]_(Stream!vars)
<1> DEFINE n == Min({want[r], Count})
<1> USE DEF piperead, wakeup
<1>0. /\ TypeOK /\ want[r] \in 1 .. MaxRead /\ Count \in 0 .. PIPESIZE
      /\ IsEmpty <=> Count = 0
      /\ r \in ends /\ r \in Proc /\ r \notin Writer
  BY InvFacts, MaxReadAssumption, EndAssumption DEF PipeInv, TypeOK, Proc
<1>1. n \in 0 .. Count /\ n <= want[r] /\ (n = 0 => Count = 0)
  BY <1>0, MinOfTwo, MaxReadAssumption, SizeAssumption
<1> HIDE DEF n
<1>2. nread' = Wrap(nread + n) /\ nread' \in 0 .. UINT - 1 /\ Count' = Count - n
  <2>1. nread' = Wrap(nread + n) /\ nwrite' = nwrite
    BY DEF n
  <2> QED
    BY <1>0, <1>1, <2>1, CountAfterRead DEF Count, TypeOK
<1> DEFINE b(i) == data[(nread + i - 1) % PIPESIZE]
<1>3. got' = [got EXCEPT ![r] = [i \in 1 .. n |-> b(i)]]
  BY DEF n
<1>4. \A i \in Int : b(i) \in Byte
  <2>1. \A i \in Int : (nread + i - 1) % PIPESIZE \in 0 .. PIPESIZE - 1
    BY <1>0, SizeAssumption DEF TypeOK
  <2> QED
    BY <1>0, <2>1 DEF TypeOK
<1>a. Contents = [i \in 1 .. Count |-> b(i)]
  BY DEF Contents
<1>b. Contents' = [i \in 1 .. Count - n |-> b(i + n)]
  <2>1. ASSUME NEW i \in Int
        PROVE  (nread' + i - 1) % PIPESIZE = (nread + (i + n) - 1) % PIPESIZE
    <3>1. nread + n \in Nat /\ i - 1 \in Int
      BY <1>0, <1>1, SizeAssumption DEF TypeOK
    <3>2. (nread' + (i - 1)) % PIPESIZE = ((nread + n) + (i - 1)) % PIPESIZE
      BY <1>2, <3>1, WrapShift
    <3>3. nread' + (i - 1) = nread' + i - 1 /\ (nread + n) + (i - 1) = nread + (i + n) - 1
      BY <1>0, <1>1, <1>2 DEF TypeOK
    <3> QED
      BY <3>2, <3>3
  <2>2. \A i \in 1 .. Count - n : i \in Int
    OBVIOUS
  <2>3. Contents' = [i \in 1 .. Count - n |-> data[(nread' + i - 1) % PIPESIZE]]
    BY <1>2 DEF Contents
  <2> QED
    BY <2>1, <2>2, <2>3, Zenon
<1> HIDE DEF b
<1>5. TypeOK'
  <2>1. [i \in 1 .. n |-> b(i)] \in [1 .. n -> Byte]
    BY <1>4
  <2>2. n \in 0 .. MaxRead
    BY <1>0, <1>1, MaxReadAssumption
  <2>3. got' \in [Reader -> UNION { [1 .. m -> Byte] : m \in 0 .. MaxRead }]
    <3> DEFINE f == [i \in 1 .. n |-> b(i)]
               T == UNION { [1 .. m -> Byte] : m \in 0 .. MaxRead }
    <3>1. f \in T
      BY <2>1, <2>2, Zenon
    <3>2. got \in [Reader -> T] /\ got' = [got EXCEPT ![r] = f]
      BY <1>0, <1>3 DEF TypeOK
    <3> HIDE DEF f, T
    <3>3. got' \in [Reader -> T]
      BY <3>1, <3>2
    <3> QED
      BY <3>3 DEF T
  <2>4. pc' \in [Proc -> {"idle", "run", "asleep"}] /\ want' \in [Reader -> 0 .. MaxRead]
    BY <1>0, MaxReadAssumption DEF TypeOK
  <2> QED
    BY <1>0, <1>2, <2>3, <2>4 DEF TypeOK
<1>6. NobodyStranded'
  <2>1. \A w \in Writer : pc'[w] # "asleep"
    BY <1>0, EndAssumption DEF TypeOK, Proc
  <2>2. ASSUME NEW q \in Reader, pc'[q] = "asleep"
        PROVE  writeopen' /\ (IsEmpty' \/ \E w \in Writer : killed'[w])
    <3>1. pc[q] = "asleep"
      BY <1>0, <2>2, EndAssumption DEF TypeOK, Proc
    <3>2. writeopen /\ \E w \in Writer : killed[w]
      BY <3>1 DEF PipeInv, NobodyStranded
    <3> QED
      BY <3>2
  <2> QED
    BY <1>5, <2>1, <2>2 DEF NobodyStranded
<1>7. PipeInv'
  <2>1. FreedOnce'
    BY <1>0, EndAssumption DEF PipeInv, FreedOnce, TypeOK, Proc
  <2>2. Count' <= PIPESIZE
    BY <1>0, <1>1, <1>2, SizeAssumption
  <2> QED
    BY <1>0, <1>6, <2>1, <2>2, EndAssumption DEF PipeInv, TypeOK, Proc
<1>8. CASE n = 0
  <2>1. Contents' = <<>> /\ Contents = <<>> /\ [i \in 1 .. n |-> b(i)] = <<>>
    BY <1>1, <1>8, <1>a, <1>b
  <2>2. ~writeopen /\ writeopen' = writeopen
    BY <1>0, <1>1, <1>8
  <2>3. got' = [got EXCEPT ![r] = <<>>]
    BY <1>3, <2>1
  <2> QED
    BY <1>7, <2>1, <2>2, <2>3 DEF Stream!Next, Stream!EndOfStream
<1>9. CASE n > 0
  <2>1. Contents \in Seq(Byte) /\ Len(Contents) = Count
    BY <1>0, <1>4, <1>a
  <2>2. SubSeq(Contents, 1, n) = [i \in 1 .. n |-> b(i)]
    BY <1>0, <1>1, <1>a, <2>1
  <2>3. Contents' = SubSeq(Contents, n + 1, Len(Contents))
    BY <1>0, <1>1, <1>a, <1>b, <2>1
  <2>4. Stream!Receive(r, n)
    <3>1. n <= Len(Contents)
      BY <1>0, <1>1, <2>1
    <3>2. got' = [got EXCEPT ![r] = SubSeq(Contents, 1, n)]
      BY <1>3, <2>2, Zenon
    <3>3. writeopen' = writeopen
      OBVIOUS
    <3> QED
      BY <2>3, <3>1, <3>2, <3>3, Zenon DEF Stream!Receive
  <2>5. n \in 1 .. PIPESIZE
    BY <1>0, <1>1, <1>9, SizeAssumption
  <2> QED
    BY <1>7, <2>4, <2>5 DEF Stream!Next
<1> QED
  BY <1>0, <1>1, <1>8, <1>9

\* pipewrite() appends the first bytes that it has left, as many as there is room for.
LEMMA WriteStep ==
  ASSUME PipeInv, NEW w \in Writer, pipewrite(w)
  PROVE  PipeInv' /\ [Stream!Next]_(Stream!vars)
<1> DEFINE s == todo[w]
           n == Min({Len(s), PIPESIZE - Count})
           left == SubSeq(s, n + 1, Len(s))
           giveup == ~readopen \/ killed[w]
           room(k) == ((k - nwrite) % PIPESIZE) + 1
<1>0. /\ TypeOK /\ s \in Seq(Byte) /\ Len(s) \in Nat /\ Count \in 0 .. PIPESIZE
      /\ IsEmpty <=> Count = 0
      /\ IsFull <=> Count = PIPESIZE
      /\ w \in ends /\ w \in Proc /\ w \notin Reader
      /\ writeopen /\ PIPESIZE \in Nat \ {0}
  BY InvFacts, EndAssumption, SizeAssumption DEF PipeInv, TypeOK, Proc, pipewrite
<1>1. n \in 0 .. PIPESIZE - Count /\ n <= Len(s) /\ (n < Len(s) => n = PIPESIZE - Count)
  <2> HIDE DEF s
  <2> QED
    BY <1>0, MinOfTwo
<1>2. /\ data' = [k \in DOMAIN data |-> IF room(k) <= n THEN s[room(k)] ELSE data[k]]
      /\ nwrite' = Wrap(nwrite + n)
      /\ UNCHANGED <<nread, readopen, writeopen, freed, ends, want, killed, got>>
  BY DEF pipewrite
<1>3. \/ /\ left = <<>>
         /\ pc' = [wakeup(Reader) EXCEPT ![w] = "idle"]
         /\ todo' = [todo EXCEPT ![w] = <<>>]
      \/ /\ left # <<>> /\ giveup
         /\ pc' = [pc EXCEPT ![w] = "idle"]
         /\ todo' = [todo EXCEPT ![w] = <<>>]
      \/ /\ left # <<>> /\ ~giveup
         /\ pc' = [wakeup(Reader) EXCEPT ![w] = "asleep"]
         /\ todo' = [todo EXCEPT ![w] = left]
  BY DEF pipewrite
<1> HIDE DEF n
<1>4. left \in Seq(Byte) /\ (left # <<>> => n = PIPESIZE - Count)
  <2> HIDE DEF s
  <2> QED
    BY <1>0, <1>1
<1>5. nwrite' \in 0 .. UINT - 1 /\ Count' = Count + n
  BY <1>0, <1>1, <1>2, CountAfterWrite DEF Count, TypeOK
<1>6. \A k \in Int : room(k) \in 1 .. PIPESIZE
  BY <1>0 DEF TypeOK
<1>7. data' \in [0 .. PIPESIZE - 1 -> Byte]
  <2> HIDE DEF room, s
  <2>1. \A k \in 0 .. PIPESIZE - 1 : k \in Int
    OBVIOUS
  <2>2. DOMAIN data = 0 .. PIPESIZE - 1 /\ \A k \in 0 .. PIPESIZE - 1 : data[k] \in Byte
    BY <1>0 DEF TypeOK
  <2>3. \A j \in 1 .. PIPESIZE : j <= n => s[j] \in Byte
    BY <1>0, <1>1
  <2> QED
    BY <1>2, <1>6, <2>1, <2>2, <2>3
<1> HIDE DEF s
<1>8. TypeOK'
  <2>1. pc' \in [Proc -> {"idle", "run", "asleep"}]
    <3> HIDE DEF left, giveup
    <3> QED
      BY <1>0, <1>3 DEF TypeOK, wakeup
  <2>2. todo' \in [Writer -> Seq(Byte)]
    <3>1. <<>> \in Seq(Byte)
      OBVIOUS
    <3> HIDE DEF left, giveup
    <3> QED
      BY <1>0, <1>3, <1>4, <3>1 DEF TypeOK
  <2> QED
    BY <1>0, <1>2, <1>5, <1>7, <2>1, <2>2 DEF TypeOK
<1>9. Count' \in 0 .. PIPESIZE /\ nread' \in 0 .. UINT - 1
  BY <1>0, <1>1, <1>2, <1>5 DEF TypeOK
<1>10. (IsEmpty' <=> Count' = 0) /\ (IsFull' <=> Count' = PIPESIZE)
  BY <1>5, <1>9, IndexFacts DEF Count, IsEmpty, IsFull
<1>11. NobodyStranded'
  <2>1. ASSUME NEW v \in Writer, pc'[v] = "asleep" PROVE IsFull' /\ readopen'
    <3>1. CASE v = w
      <4>1. left # <<>> /\ ~giveup
        <5> HIDE DEF left, giveup
        <5> QED
          BY <1>0, <1>3, <2>1, <3>1 DEF TypeOK, wakeup
      <4> QED
        BY <1>0, <1>1, <1>2, <1>4, <1>5, <1>10, <4>1
    <3>2. CASE v # w
      <4>1. pc[v] = "asleep"
        <5> HIDE DEF left, giveup
        <5> QED
          BY <1>0, <1>3, <2>1, <3>2, EndAssumption DEF TypeOK, wakeup, Proc
      <4>2. IsFull /\ readopen
        BY <4>1 DEF PipeInv, NobodyStranded
      <4> QED
        BY <1>0, <1>1, <1>2, <1>5, <1>9, <1>10, <4>2
    <3> QED
      BY <3>1, <3>2
  <2>2. ASSUME NEW r \in Reader, pc'[r] = "asleep"
        PROVE  writeopen' /\ (IsEmpty' \/ \E v \in Writer : killed'[v])
    <3>1. pc[r] = "asleep" /\ left # <<>> /\ giveup
      <4> HIDE DEF left, giveup
      <4> QED
        BY <1>0, <1>3, <2>2, EndAssumption DEF TypeOK, wakeup, Proc
    <3>2. readopen
      BY <3>1 DEF PipeInv, Proc
    <3> QED
      BY <1>0, <1>2, <3>1, <3>2
  <2> QED
    BY <1>8, <2>1, <2>2 DEF NobodyStranded
<1>12. \A p \in Proc : pc'[p] # "idle" => pc[p] # "idle"
  <2> HIDE DEF left, giveup
  <2> QED
    BY <1>0, <1>3 DEF TypeOK, wakeup, pipewrite
<1>13. PipeInv'
  <2>1. FreedOnce'
    BY <1>0, <1>2, <1>12, <1>8 DEF PipeInv, FreedOnce, TypeOK
  <2>2. Count' <= PIPESIZE
    BY <1>0, <1>9
  <2> QED
    BY <1>2, <1>11, <1>12, <2>1, <2>2 DEF PipeInv, Proc
<1>14. Contents' = Contents \o SubSeq(s, 1, n)
  <2> DEFINE at(i) == (nread + i - 1) % PIPESIZE
  <2>1. \A i \in Int : at(i) \in 0 .. PIPESIZE - 1
    BY <1>0 DEF TypeOK
  <2>2. \A i \in Int : room(at(i)) = ((i - 1 - Count) % PIPESIZE) + 1
    BY <1>0, RingIndex DEF TypeOK
  <2>3. \A i \in 1 .. Count : room(at(i)) > n
    <3> SUFFICES ASSUME NEW i \in 1 .. Count PROVE room(at(i)) > n
      OBVIOUS
    <3>1. i - 1 - Count = (-1) * PIPESIZE + (PIPESIZE + i - 1 - Count)
      BY <1>0
    <3>2. PIPESIZE + i - 1 - Count \in 0 .. PIPESIZE - 1
      BY <1>0
    <3>3. (i - 1 - Count) % PIPESIZE = PIPESIZE + i - 1 - Count
      BY <1>0, <3>1, <3>2, ModUnique
    <3>4. room(at(i)) = PIPESIZE + i - Count
      BY <1>0, <2>2, <3>3
    <3> QED
      BY <1>0, <1>1, <3>4
  <2>4. \A i \in Count + 1 .. Count + n : room(at(i)) = i - Count
    <3> SUFFICES ASSUME NEW i \in Count + 1 .. Count + n PROVE room(at(i)) = i - Count
      OBVIOUS
    <3>1. i - 1 - Count = 0 * PIPESIZE + (i - 1 - Count)
      BY <1>0, <1>1
    <3>2. i - 1 - Count \in 0 .. PIPESIZE - 1
      BY <1>0, <1>1
    <3>3. (i - 1 - Count) % PIPESIZE = i - 1 - Count
      BY <1>0, <3>1, <3>2, ModUnique
    <3> QED
      BY <1>0, <1>1, <2>2, <3>3
  <2>5. \A i \in Int : data'[at(i)] = IF room(at(i)) <= n THEN s[room(at(i))] ELSE data[at(i)]
    <3> HIDE DEF at, room
    <3> QED
      BY <1>0, <1>2, <2>1 DEF TypeOK
  <2>6. Contents = [i \in 1 .. Count |-> data[at(i)]]
        /\ Contents' = [i \in 1 .. Count + n |-> data'[at(i)]]
    BY <1>2, <1>5 DEF Contents
  <2> HIDE DEF at, room
  <2>7. \A i \in Int : data[at(i)] \in Byte
    BY <1>0, <2>1 DEF TypeOK
  <2>8. Contents \in Seq(Byte) /\ Len(Contents) = Count
    BY <1>0, <2>6, <2>7
  <2>9. SubSeq(s, 1, n) \in Seq(Byte) /\ Len(SubSeq(s, 1, n)) = n
        /\ \A j \in 1 .. n : SubSeq(s, 1, n)[j] = s[j]
    BY <1>0, <1>1
  <2>10. \A i \in 1 .. Count + n : data'[at(i)] = IF i <= Count THEN Contents[i]
                                                    ELSE SubSeq(s, 1, n)[i - Count]
    <3> SUFFICES ASSUME NEW i \in 1 .. Count + n
                 PROVE  data'[at(i)] = IF i <= Count THEN Contents[i]
                                                     ELSE SubSeq(s, 1, n)[i - Count]
      OBVIOUS
    <3>1. i \in Int
      OBVIOUS
    <3>2. CASE i <= Count
      <4>1. i \in 1 .. Count
        BY <1>0, <3>2
      <4>2. room(at(i)) > n /\ room(at(i)) \in Int /\ n \in Int
        <5>1. at(i) \in Int
          BY <2>1, <3>1
        <5>2. room(at(i)) \in 1 .. PIPESIZE
          BY <1>6, <5>1
        <5> QED
          BY <1>0, <1>1, <2>3, <4>1, <5>2
      <4> QED
        BY <2>5, <2>6, <3>1, <3>2, <4>1, <4>2
    <3>3. CASE i > Count
      <4>1. i \in Count + 1 .. Count + n /\ i - Count \in 1 .. n
        BY <1>0, <1>1, <3>3
      <4>2. room(at(i)) = i - Count
        BY <2>4, <4>1
      <4> QED
        BY <1>0, <1>1, <2>5, <2>9, <3>1, <3>3, <4>1, <4>2
    <3>4. i <= Count \/ i > Count
      BY <1>0
    <3> QED
      BY <3>2, <3>3, <3>4, Zenon
  <2> QED
    BY <1>0, <1>1, <2>6, <2>8, <2>9, <2>10
<1>15. CASE n = 0
  <2>1. Contents' = Contents
    <3>1. Contents \in Seq(Byte)
      <4>1. \A i \in Int : data[(nread + i - 1) % PIPESIZE] \in Byte
        <5>1. \A i \in Int : (nread + i - 1) % PIPESIZE \in 0 .. PIPESIZE - 1
          BY <1>0 DEF TypeOK
        <5> QED
          BY <1>0, <5>1 DEF TypeOK
      <4> DEFINE d(i) == data[(nread + i - 1) % PIPESIZE]
      <4>2. Contents = [i \in 1 .. Count |-> d(i)] /\ \A i \in Int : d(i) \in Byte
        BY <4>1 DEF Contents
      <4> HIDE DEF d
      <4> QED
        BY <1>0, <4>2
    <3> QED
      BY <1>0, <1>14, <1>15, <3>1
  <2> QED
    BY <1>2, <1>13, <2>1 DEF Stream!vars
<1>16. CASE n > 0
  <2>1. SubSeq(s, 1, n) \in [1 .. n -> Byte] /\ Len(SubSeq(s, 1, n)) = n
    <3>1. SubSeq(s, 1, n) \in Seq(Byte) /\ Len(SubSeq(s, 1, n)) = n
      BY <1>0, <1>1
    <3>2. \A t \in Seq(Byte) : t \in [1 .. Len(t) -> Byte]
      OBVIOUS
    <3> QED
      BY <3>1, <3>2, Zenon
  <2>2. n \in 1 .. PIPESIZE
    BY <1>0, <1>1, <1>16
  <2>3. Len(Contents) = Count
    <3> DEFINE d(i) == data[(nread + i - 1) % PIPESIZE]
    <3>1. Contents = [i \in 1 .. Count |-> d(i)]
      BY DEF Contents
    <3> HIDE DEF d
    <3> QED
      BY <1>0, <3>1
  <2>4. Len(Contents) + Len(SubSeq(s, 1, n)) <= PIPESIZE
    BY <1>0, <1>1, <2>1, <2>3
  <2>5. Stream!Send(SubSeq(s, 1, n))
    BY <1>0, <1>2, <1>14, <2>4, Zenon DEF Stream!Send
  <2> QED
    BY <1>13, <2>1, <2>2, <2>5, Zenon DEF Stream!Next
<1> QED
  BY <1>0, <1>1, <1>15, <1>16

\* pipealloc() makes an empty stream, and the invariant holds.
LEMMA InitPipe == Init => PipeInv /\ Stream!Init
<1> SUFFICES ASSUME Init PROVE PipeInv /\ Stream!Init
  OBVIOUS
<1> USE DEF Init
<1>1. TypeOK
  <2>1. <<>> \in Seq(Byte) /\ <<>> \in [1 .. 0 -> Byte]
    OBVIOUS
  <2>2. got \in [Reader -> UNION { [1 .. m -> Byte] : m \in 0 .. MaxRead }]
    <3>1. 0 \in 0 .. MaxRead
      BY MaxReadAssumption
    <3>2. <<>> \in UNION { [1 .. m -> Byte] : m \in 0 .. MaxRead }
      BY <2>1, <3>1, Zenon
    <3> QED
      BY <3>2, Zenon
  <2>3. /\ readopen \in BOOLEAN /\ writeopen \in BOOLEAN
        /\ killed \in [Proc -> BOOLEAN]
    BY Zenon
  <2>4. /\ pc \in [Proc -> {"idle", "run", "asleep"}]
        /\ want \in [Reader -> 0 .. MaxRead]
        /\ nread \in 0 .. UINT - 1 /\ nwrite \in 0 .. UINT - 1 /\ freed \in 0 .. 1
    BY SizeAssumption, WrapAssumption, MaxReadAssumption
  <2>5. todo \in [Writer -> Seq(Byte)] /\ ends \subseteq Proc
    BY <2>1, Zenon
  <2> QED
    BY <2>2, <2>3, <2>4, <2>5, Zenon DEF TypeOK
<1>2. Count = 0
  BY CountFacts, SizeAssumption, WrapAssumption DEF IsEmpty
<1>3. NobodyStranded /\ FreedOnce
  BY <1>1 DEF NobodyStranded, FreedOnce, Proc
<1>4. Contents = <<>>
  BY <1>2 DEF Contents
<1> QED
  BY <1>2, <1>3, <1>4, SizeAssumption DEF PipeInv, Proc, Stream!Init

\* Every step keeps the invariant and is a step of ByteStream, or changes nothing of it.
LEMMA NextPipe ==
  ASSUME PipeInv, [Next]_vars
  PROVE  PipeInv' /\ [Stream!Next]_(Stream!vars)
<1>1. CASE UNCHANGED vars
  <2>1. PipeInv'
    BY <1>1 DEF vars, PipeInv, NobodyStranded, FreedOnce, TypeOK, Count, IsEmpty, IsFull
  <2> QED
    BY <1>1, <2>1, SameStream DEF vars, ring
<1>2. CASE Next
  BY <1>2, WriteStep, WriteCallStep, ReadStep, ReadEmptyStep, ReadCallStep, CloseStep,
     KillStep DEF Next
<1> QED
  BY <1>1, <1>2

\* For any number of readers and writers and any size of the pipe.
THEOREM PipeInvariance == Spec => []PipeInv
  BY InitPipe, NextPipe, PTL DEF Spec

\* pipewrite(), piperead() and pipeclose() lose no wakeup, but for the killed writer.
THEOREM NoLostWakeup == Spec => []NobodyStranded
<1>1. PipeInv => NobodyStranded
  BY DEF PipeInv
<1> QED
  BY <1>1, PipeInvariance, PTL

\* pipeclose() frees the pipe once, when nobody is in it.
THEOREM PipeIsFreedOnce == Spec => []FreedOnce
<1>1. PipeInv => FreedOnce
  BY DEF PipeInv
<1> QED
  BY <1>1, PipeInvariance, PTL

\* The ring buffer implements the bounded FIFO stream, also when its indices wrap.
THEOREM Refinement == Spec => FifoStream
  BY InitPipe, NextPipe, PipeInvariance, PTL DEF Spec, FifoStream, Stream!Spec
=============================================================================
