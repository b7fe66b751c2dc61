--------------------------- MODULE MpidSessionProofs ---------------------------
EXTENDS MpidSession, FiniteSetTheorems, SequenceTheorems, TLAPS

-----------------------------------------------------------------------------
(* Counting up.                                                             *)

\* A set of numbers has a least.
LEMMA Least ==
  ASSUME NEW T \in SUBSET Nat, T # {}
  PROVE  \E m \in T : \A y \in T : m <= y
  <1> DEFINE U == {0 .. n : n \in T}
             S == FiniteSubsetsOf(Nat)
  <1>0. PICK k \in T : TRUE
    OBVIOUS
  <1>1. U \subseteq S /\ U # {}
    <2>1. ASSUME NEW n \in T PROVE 0 .. n \in S
      BY <2>1, FS_Interval DEF FiniteSubsetsOf
    <2> QED
      BY <2>1, <1>0
  <1>2. PICK x \in U : \A y \in U : <<y, x>> \notin StrictSubsetOrdering(Nat)
    <2> HIDE DEF U, S
    <2> QED
      BY <1>1, WFMin, FS_StrictSubsetOrderingWellFounded DEF S
  <1>3. PICK m \in T : x = 0 .. m
    BY <1>2
  <1>4. ASSUME NEW y \in T, y < m PROVE FALSE
    <2>1. 0 .. y \subseteq x /\ 0 .. y # x /\ x \in SUBSET Nat
      BY <1>3, <1>4
    <2>2. <<0 .. y, x>> \in StrictSubsetOrdering(Nat)
      BY <2>1 DEF StrictSubsetOrdering
    <2> QED
      BY <2>2, <1>2
  <1>5. m \in Nat /\ T \subseteq Nat
    BY <1>3
  <1>6. ASSUME NEW y \in T PROVE m <= y
    BY <1>4, <1>5
  <1> QED
    BY <1>3, <1>6

\* What holds at 0 and, from every number below n, of the next, holds up to n.
LEMMA Upward ==
  ASSUME NEW n \in Nat, NEW P, 0 \in P, \A k \in 0 .. n - 1 : k \in P => k + 1 \in P
  PROVE  \A k \in 0 .. n : k \in P
  <1> DEFINE T == {k \in 0 .. n : k \notin P}
  <1>1. ASSUME T # {} PROVE FALSE
    <2>0. T \in SUBSET Nat
      OBVIOUS
    <2>1. PICK m \in T : \A y \in T : m <= y
      <3> HIDE DEF T
      <3> QED
        BY <1>1, <2>0, Least
    <2>2. m # 0 /\ m - 1 \in 0 .. n - 1 /\ m - 1 \in 0 .. n /\ ~(m <= m - 1) /\ (m - 1) + 1 = m
      BY <2>1
    <2>3. m - 1 \in P
      BY <2>1, <2>2
    <2> QED
      BY <2>1, <2>2, <2>3
  <1> QED
    BY <1>1

\* What holds at 0 and, of any number, of the next, holds of every number.
LEMMA Onward ==
  ASSUME NEW P, 0 \in P, \A k \in Nat : k \in P => k + 1 \in P
  PROVE  Nat \subseteq P
  <1> SUFFICES ASSUME NEW n \in Nat PROVE n \in P
    OBVIOUS
  <1>1. \A k \in 0 .. n - 1 : k \in P => k + 1 \in P
    OBVIOUS
  <1>2. \A k \in 0 .. n : k \in P
    BY <1>1, Upward
  <1> QED
    BY <1>2

\* What takes a value to the next makes a function of the first.
Steps(F, S, base, step) ==
  F \in [Nat -> S] /\ F[0] = base /\ \A k \in Nat : F[k + 1] = step[<<k, F[k]>>]

LEMMA Recursion ==
  ASSUME NEW S, NEW base \in S, NEW step \in [Nat \X S -> S]
  PROVE  \E F : Steps(F, S, base, step)
  <1> DEFINE Runs(n, f) == f \in [0 .. n -> S] /\ f[0] = base /\ \A k \in 0 .. n - 1 : f[k + 1] = step[<<k, f[k]>>]
             P == {n \in Nat : \E f : Runs(n, f)}
  <1>1. 0 \in P
    <2>1. Runs(0, [k \in 0 .. 0 |-> base])
      OBVIOUS
    <2> QED
      BY <2>1
  <1>2. ASSUME NEW n \in Nat, n \in P PROVE n + 1 \in P
    <2>1. PICK f : Runs(n, f)
      BY <1>2
    <2> DEFINE g == [k \in 0 .. n + 1 |-> IF k = n + 1 THEN step[<<n, f[n]>>] ELSE f[k]]
    <2>2. f[n] \in S /\ step[<<n, f[n]>>] \in S
      BY <2>1
    <2>3. g \in [0 .. n + 1 -> S] /\ g[0] = base
      <3>1. ASSUME NEW k \in 0 .. n + 1 PROVE g[k] \in S
        <4>1. k # n + 1 => k \in 0 .. n
          OBVIOUS
        <4> QED
          BY <2>1, <2>2, <4>1
      <3>2. 0 \in 0 .. n + 1 /\ 0 # n + 1
        OBVIOUS
      <3>3. g[0] = base
        BY <2>1, <3>2
      <3> QED
        BY <3>1, <3>3
    <2>4. ASSUME NEW k \in 0 .. (n + 1) - 1 PROVE g[k + 1] = step[<<k, g[k]>>]
      <3>1. CASE k = n
        <4>1. n + 1 \in 0 .. n + 1 /\ n \in 0 .. n + 1 /\ n # n + 1
          OBVIOUS
        <4>2. g[n + 1] = step[<<n, f[n]>>] /\ g[n] = f[n]
          BY <4>1
        <4> QED
          BY <3>1, <4>2
      <3>2. CASE k # n
        <4>1. k \in 0 .. n - 1 /\ k + 1 \in 0 .. n + 1 /\ k \in 0 .. n + 1 /\ k + 1 # n + 1 /\ k # n + 1
          BY <3>2
        <4>2. g[k + 1] = f[k + 1] /\ g[k] = f[k]
          BY <4>1
        <4> QED
          BY <2>1, <4>1, <4>2
      <3> QED
        BY <3>1, <3>2
    <2> HIDE DEF g
    <2>5. Runs(n + 1, g)
      BY <2>3, <2>4
    <2> HIDE DEF Runs
    <2> QED
      BY <2>5
  <1>3. \A n \in Nat : \E f : Runs(n, f)
    <2> HIDE DEF Runs
    <2>1. Nat \subseteq P
      <3> HIDE DEF P
      <3> QED
        BY <1>1, <1>2, Onward
    <2> QED
      BY <2>1
  <1>4. ASSUME NEW m \in Nat, NEW n \in Nat, m <= n, NEW f, NEW g, Runs(m, f), Runs(n, g)
        PROVE  f[m] = g[m]
    <2> DEFINE Q == {k \in 0 .. m : f[k] = g[k]}
    <2>1. 0 \in Q
      BY <1>4
    <2>2. ASSUME NEW k \in 0 .. m - 1, k \in Q PROVE k + 1 \in Q
      <3>1. k \in 0 .. n - 1 /\ k + 1 \in 0 .. m
        BY <1>4
      <3> QED
        BY <1>4, <2>2, <3>1
    <2>3. \A k \in 0 .. m : k \in Q
      <3> HIDE DEF Q, Runs
      <3> QED
        BY <2>1, <2>2, Upward
    <2>4. m \in 0 .. m
      OBVIOUS
    <2> QED
      BY <2>3, <2>4
  <1> DEFINE At(n) == CHOOSE f : Runs(n, f)
             F == [n \in Nat |-> At(n)[n]]
  <1>5. \A n \in Nat : Runs(n, At(n))
    <2> HIDE DEF Runs
    <2> QED
      BY <1>3
  <1> HIDE DEF At
  <1>6. F \in [Nat -> S] /\ F[0] = base
    BY <1>5
  <1>7. ASSUME NEW k \in Nat PROVE F[k + 1] = step[<<k, F[k]>>]
    <2>1. Runs(k + 1, At(k + 1)) /\ Runs(k, At(k)) /\ k <= k + 1 /\ k + 1 \in Nat
      BY <1>5
    <2>2. At(k)[k] = At(k + 1)[k]
      <3> HIDE DEF Runs
      <3> QED
        BY <1>4, <2>1
    <2>3. k \in 0 .. (k + 1) - 1
      OBVIOUS
    <2>4. At(k + 1)[k + 1] = step[<<k, At(k + 1)[k]>>]
      BY <2>1, <2>3
    <2> QED
      BY <2>1, <2>2, <2>4
  <1>8. Steps(F, S, base, step)
    BY <1>6, <1>7 DEF Steps
  <1> QED
    BY <1>8


-----------------------------------------------------------------------------
(* Reading what was written (protobuf.ts).                                  *)

LEMMA Pair ==
  ASSUME NEW a, NEW b
  PROVE  <<a>> \o <<b>> = <<a, b>>
  <1> DEFINE S == {a, b}
  <1>1. <<a>> \in Seq(S) /\ <<b>> \in Seq(S) /\ <<a, b>> \in Seq(S)
    OBVIOUS
  <1>2. Len(<<a>>) = 1 /\ Len(<<b>>) = 1 /\ Len(<<a, b>>) = 2
    OBVIOUS
  <1> DEFINE t == <<a>> \o <<b>>
  <1>3. t \in Seq(S) /\ Len(t) = 2 /\ t[1] = a /\ t[2] = b
    BY <1>1, <1>2
  <1> HIDE DEF t
  <1>4. t = <<a, b>>
    BY <1>1, <1>2, <1>3
  <1> QED
    BY <1>4 DEF t

LEMMA Triple ==
  ASSUME NEW a, NEW b, NEW c
  PROVE  <<a>> \o <<b, c>> = <<a, b, c>>
  <1> DEFINE S == {a, b, c}
  <1>1. <<a>> \in Seq(S) /\ <<b, c>> \in Seq(S) /\ <<a, b, c>> \in Seq(S)
    OBVIOUS
  <1>2. Len(<<a>>) = 1 /\ Len(<<b, c>>) = 2 /\ Len(<<a, b, c>>) = 3
    OBVIOUS
  <1> DEFINE t == <<a>> \o <<b, c>>
  <1>3. t \in Seq(S) /\ Len(t) = 3 /\ t[1] = a /\ t[2] = b /\ t[3] = c
    BY <1>1, <1>2
  <1> HIDE DEF t
  <1>4. t = <<a, b, c>>
    BY <1>1, <1>2, <1>3
  <1> QED
    BY <1>4 DEF t

\* One sequence after another.
Joined(t, x, m, y, n) ==
  /\ Len(t) = m + n
  /\ \A i \in 1 .. m : t[i] = x[i]
  /\ \A i \in 1 .. n : t[m + i] = y[i]

LEMMA Joins ==
  ASSUME NEW S, NEW x \in Seq(S), NEW y \in Seq(S)
  PROVE  x \o y \in Seq(S) /\ Joined(x \o y, x, Len(x), y, Len(y))
  <1>1. /\ x \o y \in Seq(S) /\ Len(x \o y) = Len(x) + Len(y)
        /\ \A i \in 1 .. Len(x) + Len(y) : (x \o y)[i] = IF i <= Len(x) THEN x[i] ELSE y[i - Len(x)]
    BY ConcatProperties
  <1> DEFINE t == x \o y
  <1> HIDE DEF t
  <1>0. PICK m \in Nat, n \in Nat : m = Len(x) /\ n = Len(y)
    OBVIOUS
  <1>2. t \in Seq(S) /\ Len(t) = m + n /\ \A i \in 1 .. m + n : t[i] = IF i <= m THEN x[i] ELSE y[i - m]
    BY <1>0, <1>1 DEF t
  <1>3. \A i \in 1 .. m : t[i] = x[i]
    BY <1>2
  <1>4. ASSUME NEW i \in 1 .. n PROVE t[m + i] = y[i]
    <2>1. m + i \in 1 .. m + n /\ ~(m + i <= m) /\ (m + i) - m = i
      OBVIOUS
    <2> QED
      BY <1>2, <2>1
  <1>5. Joined(t, x, m, y, n)
    BY <1>2, <1>3, <1>4 DEF Joined
  <1> QED
    BY <1>0, <1>2, <1>5 DEF t

TwoGroups == 128 .. 16383

LEMMA Groups ==
  ASSUME NEW n \in TwoGroups
  PROVE  /\ n % 128 \in 0 .. 127 /\ n \div 128 \in 1 .. 127
         /\ (n % 128) + 128 * (n \div 128) = n
         /\ (128 + (n % 128)) % 128 = n % 128
         /\ n % 128 \in Int /\ n \div 128 \in Int /\ 128 + (n % 128) \in 128 .. 255
  <1>1. n % 128 \in 0 .. 127
    BY DEF TwoGroups
  <1>2. n \div 128 \in 1 .. 127
    BY DEF TwoGroups
  <1>3. (n % 128) + 128 * (n \div 128) = n
    BY DEF TwoGroups
  <1>4. \A m \in 0 .. 127 : (128 + m) % 128 = m
    OBVIOUS
  <1> QED
    BY <1>1, <1>2, <1>3, <1>4

LEMMA LowByte ==
  ASSUME NEW b \in 0 .. 127
  PROVE  b % 128 = b /\ b < 128
  OBVIOUS

LEMMA HighByte ==
  ASSUME NEW b \in 128 .. 255
  PROVE  ~(b < 128)
  OBVIOUS

\* Where a varint ends.
Ends(bytes, i, j) == j > Len(bytes) \/ bytes[j] < 128 \/ j = i + 10

\* The groups up to there.
UpTo(bytes, i, last) ==
  [k \in 1 .. last - i + 1 |-> IF i + k - 1 > Len(bytes) THEN 0 ELSE bytes[i + k - 1] % 128]

LEMMA VarintIs ==
  ASSUME NEW bytes, NEW i \in Nat, NEW last \in i .. i + 10, Ends(bytes, i, last),
         \A k \in i .. last - 1 : ~Ends(bytes, i, k)
  PROVE  ReadVarint(bytes, i) = [groups |-> UpTo(bytes, i, last), next |-> last + 1]
  <1> DEFINE P(j) == Ends(bytes, i, j) /\ \A k \in i .. j - 1 : ~Ends(bytes, i, k)
  <1>1. ASSUME NEW j \in i .. i + 10, P(j) PROVE j = last
    <2>1. last < j => last \in i .. j - 1
      OBVIOUS
    <2>2. j < last => j \in i .. last - 1
      OBVIOUS
    <2>3. ~(last < j) /\ ~(j < last)
      BY <1>1, <2>1, <2>2
    <2> QED
      BY <2>3
  <1>2. (CHOOSE j \in i .. i + 10 : P(j)) = last
    <2>1. P(last)
      OBVIOUS
    <2> HIDE DEF P
    <2> QED
      BY <1>1, <2>1
  <1> QED
    BY <1>2 DEF ReadVarint, Ends, UpTo

LEMMA LowVarint ==
  ASSUME NEW bytes \in Seq(Int), NEW i \in 1 .. Len(bytes), bytes[i] \in 0 .. 127
  PROVE  ReadVarint(bytes, i) = [groups |-> <<bytes[i]>>, next |-> i + 1]
  <1>1. Ends(bytes, i, i) /\ bytes[i] % 128 = bytes[i]
    BY LowByte DEF Ends
  <1>2. i \in Nat /\ i \in i .. i + 10 /\ ~(i > Len(bytes)) /\ i + 1 - 1 = i /\ 1 .. i - i + 1 = 1 .. 1
        /\ i .. i - 1 = {}
    OBVIOUS
  <1>3. UpTo(bytes, i, i) = <<bytes[i]>>
    BY <1>1, <1>2 DEF UpTo
  <1> QED
    BY <1>1, <1>2, <1>3, VarintIs

\* A byte with its top bit: there is more.
More(long, low) == long \in 128 .. 255 /\ low = long % 128

LongAt(bytes, i, j, low, high) ==
  /\ bytes \in Seq(Int) /\ i \in 1 .. Len(bytes) /\ j \in 1 .. Len(bytes) /\ j = i + 1
  /\ More(bytes[i], low) /\ bytes[j] = high /\ high \in 0 .. 127

LEMMA LongVarint ==
  ASSUME NEW bytes, NEW i, NEW j, NEW low, NEW high, LongAt(bytes, i, j, low, high)
  PROVE  ReadVarint(bytes, i) = [groups |-> <<low, high>>, next |-> j + 1]
  <1>0. /\ bytes \in Seq(Int) /\ i \in 1 .. Len(bytes) /\ j \in 1 .. Len(bytes) /\ j = i + 1
        /\ More(bytes[i], low) /\ bytes[j] = high /\ high \in 0 .. 127 /\ i \in Nat /\ j \in Nat
    BY DEF LongAt
  <1>1. Ends(bytes, i, j) /\ high % 128 = high
    BY <1>0, LowByte DEF Ends
  <1>2. /\ j \in i .. i + 10 /\ ~(i > Len(bytes)) /\ ~(j > Len(bytes)) /\ i # i + 10
        /\ i + 1 - 1 = i /\ i + 2 - 1 = j /\ 1 .. j - i + 1 = 1 .. 2
        /\ \A k \in i .. j - 1 : k = i
    BY <1>0
  <1>3. ~Ends(bytes, i, i) /\ bytes[i] % 128 = low
    BY <1>0, <1>2, HighByte DEF Ends, More
  <1>4. UpTo(bytes, i, j) = <<low, high>>
    BY <1>0, <1>1, <1>2, <1>3 DEF UpTo
  <1>5. \A k \in i .. j - 1 : ~Ends(bytes, i, k)
    BY <1>2, <1>3
  <1>6. ReadVarint(bytes, i) = [groups |-> UpTo(bytes, i, j), next |-> j + 1]
    BY <1>0, <1>1, <1>2, <1>5, VarintIs
  <1> QED
    BY <1>4, <1>6, Zenon

LEMMA SmallInt ==
  ASSUME NEW b
  PROVE  b \in Int => AsInt([wire |-> 0, data |-> <<b>>]) = b
  BY DEF AsInt, Group

LEMMA LongInt ==
  ASSUME NEW b \in Int, NEW c \in Int
  PROVE  AsInt([wire |-> 0, data |-> <<b, c>>]) = b + 128 * c
  BY DEF AsInt, Group

\* A tag of one byte.
Tag(tag, field, w) == tag \in 0 .. 127 /\ tag % 8 = w /\ tag \div 8 = field

LEMMA TagIs ==
  ASSUME NEW field \in 1 .. 15, NEW w \in 0 .. 7
  PROVE  Tag(8 * field + w, field, w)
  <1>1. 8 * field + w \in 0 .. 127
    OBVIOUS
  <1>2. (8 * field + w) % 8 = w
    OBVIOUS
  <1>3. (8 * field + w) \div 8 = field
    OBVIOUS
  <1> QED
    BY <1>1, <1>2, <1>3 DEF Tag

LEMMA WritesLow ==
  ASSUME NEW n \in 0 .. 127
  PROVE  EncodeUvarint(n) = <<n>>
  BY DEF EncodeUvarint

\* A field starts with its tag, and goes on as its wire type says.
LEMMA ReadsTag ==
  ASSUME NEW bytes \in Seq(Int), NEW i \in 1 .. Len(bytes), NEW field, NEW w \in 0 .. 7, Tag(bytes[i], field, w)
  PROVE  LET n == AsInt([wire |-> 0, data |-> ReadVarint(bytes, i).groups])
         IN  n % 8 = w /\ n \div 8 = field /\ ReadVarint(bytes, i).next = i + 1
  <1>1. bytes[i] \in 0 .. 127 /\ bytes[i] % 8 = w /\ bytes[i] \div 8 = field
    BY DEF Tag
  <1>2. ReadVarint(bytes, i) = [groups |-> <<bytes[i]>>, next |-> i + 1]
    <2>1. bytes[i] \in 0 .. 127
      BY <1>1
    <2> QED
      BY <2>1, LowVarint
  <1>3. AsInt([wire |-> 0, data |-> <<bytes[i]>>]) = bytes[i]
    BY SmallInt
  <1>4. AsInt([wire |-> 0, data |-> ReadVarint(bytes, i).groups]) = bytes[i] /\ ReadVarint(bytes, i).next = i + 1
    BY <1>2, <1>3
  <1> QED
    BY <1>1, <1>4, Zenon

NumberAt(bytes, i, field, groups, next) ==
  /\ bytes \in Seq(Int) /\ i \in 1 .. Len(bytes) /\ Tag(bytes[i], field, 0)
  /\ ReadVarint(bytes, i + 1) = [groups |-> groups, next |-> next]

Number(field, groups, next) == [field |-> field, value |-> [wire |-> 0, data |-> groups], next |-> next]
Octets(field, bytes, next)  == [field |-> field, value |-> [wire |-> 2, data |-> bytes], next |-> next]

LEMMA NumberRead ==
  ASSUME NEW bytes, NEW i, NEW field, NEW groups, NEW next, NumberAt(bytes, i, field, groups, next)
  PROVE  ReadField(bytes, i) = Number(field, groups, next)
  <1>00. /\ bytes \in Seq(Int) /\ i \in 1 .. Len(bytes) /\ Tag(bytes[i], field, 0)
         /\ ReadVarint(bytes, i + 1) = [groups |-> groups, next |-> next]
    BY Zenon DEF NumberAt
  <1> DEFINE n == AsInt([wire |-> 0, data |-> ReadVarint(bytes, i).groups])
  <1>0. 0 \in 0 .. 7
    OBVIOUS
  <1>1. n % 8 = 0 /\ n \div 8 = field /\ ReadVarint(bytes, i).next = i + 1
    BY <1>00, <1>0, ReadsTag, Zenon
  <1>2. ReadVarint(bytes, ReadVarint(bytes, i).next).groups = groups /\ ReadVarint(bytes, ReadVarint(bytes, i).next).next = next
    BY <1>00, <1>1
  <1> QED
    BY <1>1, <1>2, Zenon DEF ReadField, Number

\* At i is a tag, at j a length, and to is where its bytes end.
OctetsAt(bytes, i, j, field, to) ==
  /\ bytes \in Seq(Int) /\ i \in 1 .. Len(bytes) /\ j \in 1 .. Len(bytes) /\ j = i + 1
  /\ Tag(bytes[i], field, 2) /\ bytes[j] \in 0 .. 127 /\ to \in Nat /\ to = j + bytes[j]

LEMMA ReadsOctets ==
  ASSUME NEW bytes, NEW i, NEW j, NEW field, NEW to, OctetsAt(bytes, i, j, field, to)
  PROVE  ReadField(bytes, i) = Octets(field, Slice(bytes, j, to), to + 1)
  <1> DEFINE num == AsInt([wire |-> 0, data |-> ReadVarint(bytes, i).groups])
             v   == ReadVarint(bytes, ReadVarint(bytes, i).next)
  <1>0. /\ bytes \in Seq(Int) /\ i \in 1 .. Len(bytes) /\ j \in 1 .. Len(bytes) /\ j = i + 1
        /\ Tag(bytes[i], field, 2) /\ bytes[j] \in 0 .. 127 /\ to \in Nat /\ to = j + bytes[j]
    BY DEF OctetsAt
  <1>1. num % 8 = 2 /\ num \div 8 = field /\ ReadVarint(bytes, i).next = j
    <2>1. 2 \in 0 .. 7
      OBVIOUS
    <2>2. num % 8 = 2 /\ num \div 8 = field /\ ReadVarint(bytes, i).next = i + 1
      BY <1>0, <2>1, ReadsTag, Zenon
    <2> QED
      BY <1>0, <2>2
  <1>2. v = [groups |-> <<bytes[j]>>, next |-> j + 1]
    BY <1>0, <1>1, LowVarint, Zenon
  <1> DEFINE size == AsInt([wire |-> 0, data |-> v.groups])
  <1>3. size = bytes[j] /\ v.next = j + 1
    <2>1. bytes[j] \in Int
      BY <1>0
    <2>2. v.groups = <<bytes[j]>> /\ v.next = j + 1
      BY <1>2
    <2> QED
      BY <2>1, <2>2, SmallInt, Zenon
  <1>4. 2 # 0 /\ 2 # 5 /\ 2 # 1 /\ 2 \in {1, 2, 5}
    OBVIOUS
  <1>5. ReadField(bytes, i) =
           [field |-> num \div 8, value |-> [wire |-> 2, data |-> Slice(bytes, v.next - 1, v.next - 1 + size)],
            next |-> v.next + size]
    BY <1>1, <1>4, Zenon DEF ReadField
  <1>6. PICK next \in Int, n \in Int : next = v.next /\ n = size /\ n = bytes[j] /\ next = j + 1
    <2>1. bytes[j] \in Int /\ j + 1 \in Int
      BY <1>0
    <2> QED
      BY <1>3, <2>1, Zenon
  <1>7. next - 1 = j /\ next - 1 + n = to /\ next + n = to + 1
    <2>1. j \in Int /\ to \in Int /\ bytes[j] \in Int /\ to = j + bytes[j]
      BY <1>0
    <2>2. n = bytes[j] /\ next = j + 1
      BY <1>6
    <2>3. to = j + n
      BY <2>1, <2>2, Zenon
    <2> QED
      BY <2>1, <2>2, <2>3
  <1>8. ReadField(bytes, i) =
           [field |-> field, value |-> [wire |-> 2, data |-> Slice(bytes, next - 1, next - 1 + n)], next |-> next + n]
    BY <1>1, <1>5, <1>6, Zenon
  <1> QED
    BY <1>7, <1>8, Zenon DEF Octets

LEMMA ReadsFour ==
  ASSUME NEW bytes \in Seq(Int), NEW i \in Nat, NEW field,
         i \in 1 .. Len(bytes), Tag(bytes[i], field, 5)
  PROVE  ReadField(bytes, i) = Octets(field, Slice(bytes, i, i + 4), i + 5)
  <1> DEFINE num == AsInt([wire |-> 0, data |-> ReadVarint(bytes, i).groups])
  <1>0. 5 \in 0 .. 7
    OBVIOUS
  <1>1. num % 8 = 5 /\ num \div 8 = field /\ ReadVarint(bytes, i).next = i + 1
    BY <1>0, ReadsTag, Zenon
  <1>2. i + 1 - 1 = i /\ i + 1 + 4 = i + 5 /\ 5 # 0 /\ 5 # 2 /\ 5 \in {1, 2, 5}
    OBVIOUS
  <1> DEFINE after == ReadVarint(bytes, i).next
  <1>3. ReadField(bytes, i) =
           [field |-> num \div 8, value |-> [wire |-> 2, data |-> Slice(bytes, after - 1, after - 1 + 4)], next |-> after + 4]
    <2>1. num % 8 = 5
      BY <1>1
    <2> QED
      BY <2>1, <1>2, Zenon DEF ReadField
  <1>4. num \div 8 = field /\ after = i + 1
    BY <1>1
  <1>5. ReadField(bytes, i) =
           [field |-> field, value |-> [wire |-> 2, data |-> Slice(bytes, i + 1 - 1, i + 1 - 1 + 4)], next |-> i + 1 + 4]
    <2> DEFINE of == num \div 8
    <2>1. ReadField(bytes, i) =
             [field |-> of, value |-> [wire |-> 2, data |-> Slice(bytes, after - 1, after - 1 + 4)], next |-> after + 4]
      BY <1>3
    <2>2. of = field /\ after = i + 1
      BY <1>4
    <2> HIDE DEF of, after
    <2> QED
      BY <2>1, <2>2
  <1> QED
    BY <1>2, <1>5, Zenon DEF Octets

\* Another wire type ends the reading.
LEMMA ReadsNone ==
  ASSUME NEW bytes \in Seq(Int), NEW i \in Nat, NEW field,
         i \in 1 .. Len(bytes), Tag(bytes[i], field, 6)
  PROVE  ReadField(bytes, i) = [field |-> None, value |-> Missing, next |-> Len(bytes) + 1]
  <1> DEFINE num == AsInt([wire |-> 0, data |-> ReadVarint(bytes, i).groups])
  <1>0. 6 \in 0 .. 7
    OBVIOUS
  <1>1. num % 8 = 6
    BY <1>0, ReadsTag, Zenon
  <1>2. 6 # 0 /\ 6 \notin {1, 2, 5}
    OBVIOUS
  <1> QED
    BY <1>1, <1>2, Zenon DEF ReadField


\* The loop of parseFields().
Start == [fields |-> <<>>, next |-> 1]
Reads(bytes, read) == read = [k \in Nat |-> IF k = 0 THEN Start ELSE Advanced(bytes, read[k - 1])]

\* No message of the portal's has more than two fields.
LEMMA Parsed ==
  ASSUME NEW bytes \in Seq(Int), NEW one, NEW two,
         one = Advanced(bytes, Start), two = Advanced(bytes, one), Advanced(bytes, two) = two,
         Len(bytes) = 0 => two = Start, Len(bytes) = 1 => two = one
  PROVE  ParseFields(bytes) = two.fields
  <1>1. \E read : Reads(bytes, read)
    <2> DEFINE g == [k \in Nat |-> IF k = 0 THEN Start ELSE IF k = 1 THEN one ELSE two]
    <2>1. ASSUME NEW k \in Nat PROVE g[k] = IF k = 0 THEN Start ELSE Advanced(bytes, g[k - 1])
      <3>1. CASE k = 0
        BY <3>1
      <3>2. CASE k = 1
        <4>1. 0 \in Nat /\ 1 \in Nat /\ 1 - 1 = 0 /\ 1 # 0
          OBVIOUS
        <4>2. g[0] = Start /\ g[1] = one
          BY <4>1
        <4> QED
          BY <3>2, <4>1, <4>2
      <3>3. CASE k = 2
        <4>1. 1 \in Nat /\ 2 \in Nat /\ 2 - 1 = 1 /\ 2 # 0 /\ 2 # 1 /\ 1 # 0
          OBVIOUS
        <4>2. g[1] = one /\ g[2] = two
          BY <4>1
        <4> QED
          BY <3>3, <4>1, <4>2
      <3>4. CASE k > 2
        <4>1. k - 1 \in Nat /\ k - 1 # 0 /\ k - 1 # 1 /\ k # 0 /\ k # 1
          BY <3>4
        <4>2. g[k] = two /\ g[k - 1] = two
          BY <4>1
        <4> QED
          BY <4>1, <4>2
      <3> QED
        BY <3>1, <3>2, <3>3, <3>4
    <2>2. g = [k \in Nat |-> g[k]]
      OBVIOUS
    <2>3. Reads(bytes, g)
      <3> HIDE DEF g
      <3> QED
        BY <2>1, <2>2 DEF Reads
    <2> HIDE DEF g
    <2> QED
      BY <2>3
  <1>2. PICK read : Reads(bytes, read) /\ ParseFields(bytes) = read[Len(bytes)].fields
    BY <1>1 DEF ParseFields, Reads, Start, Advanced
  <1>3. \A k \in Nat : read[k] = IF k = 0 THEN Start ELSE Advanced(bytes, read[k - 1])
    BY <1>2 DEF Reads
  <1>4. read[0] = Start /\ read[1] = one /\ read[2] = two
    <2>1. 0 \in Nat /\ 1 \in Nat /\ 2 \in Nat /\ 1 - 1 = 0 /\ 2 - 1 = 1 /\ 1 # 0 /\ 2 # 0
      OBVIOUS
    <2>2. read[0] = Start
      BY <1>3, <2>1
    <2>3. read[1] = Advanced(bytes, read[0])
      BY <1>3, <2>1
    <2>4. read[2] = Advanced(bytes, read[1])
      BY <1>3, <2>1
    <2> QED
      BY <2>2, <2>3, <2>4
  <1> DEFINE P == {k \in Nat : k < 2 \/ read[k] = two}
  <1>5. \A k \in Nat : k \in P => k + 1 \in P
    <2> SUFFICES ASSUME NEW k \in Nat, k \in P, ~(k + 1 < 2) PROVE read[k + 1] = two
      OBVIOUS
    <2>1. k + 1 \in Nat /\ k + 1 # 0 /\ (k + 1) - 1 = k /\ (k = 1 \/ k > 1)
      OBVIOUS
    <2>2. read[k + 1] = Advanced(bytes, read[k])
      BY <1>3, <2>1
    <2>3. CASE k = 1
      BY <1>4, <2>2, <2>3
    <2>4. CASE k > 1
      <3>1. read[k] = two
        BY <2>4
      <3> QED
        BY <2>2, <3>1
    <2> QED
      BY <2>1, <2>3, <2>4
  <1>6. Nat \subseteq P
    <2>1. 0 \in P
      OBVIOUS
    <2> HIDE DEF P
    <2> QED
      BY <1>5, <2>1, Onward
  <1>7. read[Len(bytes)] = two
    <2>1. Len(bytes) \in Nat
      OBVIOUS
    <2>2. \A n \in Nat : n < 2 => n = 0 \/ n = 1
      OBVIOUS
    <2>3. Len(bytes) < 2 \/ read[Len(bytes)] = two
      BY <1>6, <2>1
    <2>4. CASE read[Len(bytes)] = two
      BY <2>4
    <2>5. CASE Len(bytes) < 2
      <3>1. Len(bytes) = 0 \/ Len(bytes) = 1
        BY <2>1, <2>2, <2>5
      <3> QED
        BY <1>4, <3>1
    <2> QED
      BY <2>3, <2>4, <2>5
  <1> QED
    BY <1>2, <1>7

LEMMA ParsedNone == ParseFields(<<>>) = <<>>
  <1>1. <<>> \in Seq(Int) /\ Len(<<>>) = 0 /\ 1 > 0
    OBVIOUS
  <1>2. Advanced(<<>>, Start) = Start
    BY <1>1 DEF Advanced, Start
  <1>3. Start.fields = <<>>
    BY DEF Start
  <1> QED
    BY <1>1, <1>2, <1>3, Parsed

LEMMA ParsedEnds ==
  ASSUME NEW bytes \in Seq(Int), Len(bytes) > 0,
         ReadField(bytes, 1) = [field |-> None, value |-> Missing, next |-> Len(bytes) + 1]
  PROVE  ParseFields(bytes) = <<>>
  <1> DEFINE end == [fields |-> <<>>, next |-> Len(bytes) + 1]
  <1>1. Len(bytes) \in Nat /\ ~(1 > Len(bytes)) /\ Len(bytes) + 1 > Len(bytes) /\ Len(bytes) # 0
    OBVIOUS
  <1>2. end = Advanced(bytes, Start)
    BY <1>1 DEF Advanced, Start
  <1>3. end = Advanced(bytes, end)
    BY <1>1 DEF Advanced
  <1>4. ParseFields(bytes) = end.fields
    <2> HIDE DEF end
    <2> QED
      BY <1>1, <1>2, <1>3, Parsed
  <1> QED
    BY <1>4

\* The only field there is, and the two there are.
Alone(bytes, f) ==
  /\ bytes \in Seq(Int) /\ Len(bytes) > 0
  /\ f = ReadField(bytes, 1) /\ f.field # None /\ f.next = Len(bytes) + 1
Both(bytes, f, g) ==
  /\ bytes \in Seq(Int) /\ f.next \in 2 .. Len(bytes)
  /\ f = ReadField(bytes, 1) /\ f.field # None
  /\ g = ReadField(bytes, f.next) /\ g.field # None /\ g.next = Len(bytes) + 1

LEMMA ParsedOne ==
  ASSUME NEW bytes, NEW f, Alone(bytes, f)
  PROVE  ParseFields(bytes) = <<f>>
  <1> DEFINE one == [fields |-> <<f>>, next |-> f.next]
  <1>0. bytes \in Seq(Int) /\ Len(bytes) > 0 /\ f = ReadField(bytes, 1) /\ f.field # None /\ f.next = Len(bytes) + 1
    BY DEF Alone
  <1>1. Len(bytes) \in Nat /\ ~(1 > Len(bytes)) /\ Len(bytes) + 1 > Len(bytes) /\ Len(bytes) # 0
    BY <1>0
  <1>2. one = Advanced(bytes, Start)
    <2>1. Append(<<>>, f) = <<f>>
      OBVIOUS
    <2> QED
      BY <1>0, <1>1, <2>1 DEF Advanced, Start
  <1>3. one = Advanced(bytes, one)
    BY <1>0, <1>1 DEF Advanced
  <1>4. ParseFields(bytes) = one.fields
    <2> HIDE DEF one
    <2> QED
      BY <1>0, <1>1, <1>2, <1>3, Parsed
  <1> QED
    BY <1>4

LEMMA AppendOne ==
  ASSUME NEW f, NEW g
  PROVE  Append(<<f>>, g) = <<f, g>>
  <1> DEFINE S == {f, g}
  <1>1. <<f>> \in Seq(S) /\ g \in S
    OBVIOUS
  <1>2. Append(<<f>>, g) = <<f>> \o <<g>>
    <2> HIDE DEF S
    <2> QED
      BY <1>1, AppendIsConcat
  <1> QED
    BY <1>2, Pair

LEMMA ParsedTwo ==
  ASSUME NEW bytes, NEW f, NEW g, Both(bytes, f, g)
  PROVE  ParseFields(bytes) = <<f, g>>
  <1> DEFINE one == [fields |-> <<f>>, next |-> f.next]
             two == [fields |-> <<f, g>>, next |-> g.next]
  <1>0. /\ bytes \in Seq(Int) /\ f.next \in 2 .. Len(bytes)
        /\ f = ReadField(bytes, 1) /\ f.field # None
        /\ g = ReadField(bytes, f.next) /\ g.field # None /\ g.next = Len(bytes) + 1
    BY DEF Both
  <1>1. ~(1 > Len(bytes)) /\ Len(bytes) + 1 > Len(bytes) /\ Len(bytes) # 0 /\ Len(bytes) # 1 /\ ~(f.next > Len(bytes))
    <2>1. PICK n \in Nat : n = Len(bytes)
      BY <1>0
    <2>2. PICK at \in 2 .. n : at = f.next
      BY <1>0, <2>1
    <2>3. ~(1 > n) /\ n + 1 > n /\ n # 0 /\ n # 1 /\ ~(at > n)
      OBVIOUS
    <2> QED
      BY <2>1, <2>2, <2>3, Zenon
  <1>2. one = Advanced(bytes, Start)
    <2>1. Append(<<>>, f) = <<f>>
      OBVIOUS
    <2> QED
      BY <1>0, <1>1, <2>1 DEF Advanced, Start
  <1>3. two = Advanced(bytes, one)
    <2>1. Append(<<f>>, g) = <<f, g>>
      BY AppendOne
    <2> QED
      BY <1>0, <1>1, <2>1 DEF Advanced
  <1>4. two = Advanced(bytes, two)
    BY <1>0, <1>1 DEF Advanced
  <1>5. ParseFields(bytes) = two.fields
    <2> HIDE DEF one, two
    <2> QED
      BY <1>0, <1>1, <1>2, <1>3, <1>4, Parsed
  <1> QED
    BY <1>5

LEMMA MinIs ==
  ASSUME NEW S \in SUBSET Int, NEW m \in S, \A y \in S : m <= y
  PROVE  Min(S) = m
  <1>1. \A x \in S : (\A y \in S : x <= y) => x = m
    OBVIOUS
  <1> QED
    BY <1>1 DEF Min

\* The first field of a number, among none, one or two.
LEMMA FirstOfNone ==
  ASSUME NEW num
  PROVE  First(<<>>, num) = Missing
  <1>1. {i \in 1 .. Len(<<>>) : <<>>[i].field = num} = {}
    OBVIOUS
  <1> QED
    BY <1>1 DEF First, SelectInSeq

LEMMA FirstOfOne ==
  ASSUME NEW f, NEW num
  PROVE  First(<<f>>, num) = IF f.field = num THEN f.value ELSE Missing
  <1> DEFINE S == {i \in 1 .. Len(<<f>>) : <<f>>[i].field = num}
  <1>1. Len(<<f>>) = 1 /\ <<f>>[1] = f
    OBVIOUS
  <1>2. S = IF f.field = num THEN {1} ELSE {}
    BY <1>1
  <1>3. f.field = num => Min(S) = 1
    BY <1>2, MinIs
  <1> QED
    BY <1>1, <1>2, <1>3 DEF First, SelectInSeq

LEMMA FirstOfTwo ==
  ASSUME NEW f, NEW g, NEW num
  PROVE  First(<<f, g>>, num) =
           IF f.field = num THEN f.value ELSE IF g.field = num THEN g.value ELSE Missing
  <1> DEFINE S == {i \in 1 .. Len(<<f, g>>) : <<f, g>>[i].field = num}
  <1>1. Len(<<f, g>>) = 2 /\ <<f, g>>[1] = f /\ <<f, g>>[2] = g
    OBVIOUS
  <1>2. S \in SUBSET Int /\ (f.field # num /\ g.field # num => S = {})
    BY <1>1
  <1>3. f.field = num => S # {} /\ Min(S) = 1
    <2>1. f.field = num => 1 \in S /\ \A y \in S : 1 <= y
      BY <1>1
    <2> HIDE DEF S
    <2> QED
      BY <1>2, <2>1, MinIs
  <1>4. f.field # num /\ g.field = num => S # {} /\ Min(S) = 2
    <2>1. f.field # num /\ g.field = num => 2 \in S /\ \A y \in S : 2 <= y
      BY <1>1
    <2> HIDE DEF S
    <2> QED
      BY <1>2, <2>1, MinIs
  <1> QED
    BY <1>1, <1>2, <1>3, <1>4 DEF First, SelectInSeq


\* EncodeBytesField(): tag, length and the bytes.
IsOctets(enc, field, n, v) ==
  /\ enc \in Seq(Int) /\ Len(enc) = n + 2
  /\ Tag(enc[1], field, 2) /\ enc[2] = n
  /\ \A j \in 1 .. n : enc[j + 2] = v[j]

LEMMA BytesField ==
  ASSUME NEW field \in 1 .. 15, NEW n \in 0 .. 127, NEW v \in Seq(Int), Len(v) = n
  PROVE  IsOctets(EncodeBytesField(field, v), field, n, v)
  <1>0. 2 \in 0 .. 7
    OBVIOUS
  <1>1. Tag(8 * field + 2, field, 2)
    BY <1>0, TagIs
  <1>2. PICK tag \in 0 .. 127 : tag = 8 * field + 2
    BY <1>1 DEF Tag
  <1>3. EncodeUvarint(tag) = <<tag>> /\ EncodeUvarint(n) = <<n>>
    BY WritesLow
  <1>4. EncodeBytesField(field, v) = <<tag, n>> \o v
    <2>1. EncodeBytesField(field, v) = <<tag>> \o <<n>> \o v
      BY <1>2, <1>3 DEF EncodeBytesField
    <2>2. <<tag>> \o <<n>> = <<tag, n>>
      BY Pair
    <2> QED
      BY <2>1, <2>2
  <1>5. Tag(tag, field, 2)
    BY <1>1, <1>2
  <1> DEFINE enc == <<tag, n>> \o v
  <1>6. enc \in Seq(Int) /\ Len(enc) = n + 2 /\ enc[1] = tag /\ enc[2] = n /\ \A j \in 1 .. n : enc[j + 2] = v[j]
    <2>1. <<tag, n>> \in Seq(Int) /\ Len(<<tag, n>>) = 2 /\ <<tag, n>>[1] = tag /\ <<tag, n>>[2] = n
      OBVIOUS
    <2> QED
      BY <2>1
  <1> HIDE DEF enc
  <1>7. IsOctets(enc, field, n, v)
    BY <1>5, <1>6 DEF IsOctets
  <1> QED
    BY <1>4, <1>7 DEF enc

\* EncodeVarintField(), of one and of two groups.
IsLow(enc, field, n) ==
  enc \in Seq(Int) /\ Len(enc) = 2 /\ Tag(enc[1], field, 0) /\ enc[2] = n
IsLong(enc, field, low, high) ==
  enc \in Seq(Int) /\ Len(enc) = 3 /\ Tag(enc[1], field, 0) /\ More(enc[2], low) /\ enc[3] = high

Split(n, low, high, long) ==
  low = n % 128 /\ high = n \div 128 /\ long = 128 + (n % 128) /\ More(long, low)

LEMMA Splits ==
  ASSUME NEW n \in TwoGroups
  PROVE  \E low \in 0 .. 127, high \in 0 .. 127, long \in 128 .. 255 :
           Split(n, low, high, long) /\ low + 128 * high = n
  <1>2. /\ n % 128 \in 0 .. 127 /\ n \div 128 \in 1 .. 127
        /\ (n % 128) + 128 * (n \div 128) = n
        /\ (128 + (n % 128)) % 128 = n % 128
        /\ 128 + (n % 128) \in 128 .. 255
    BY Groups
  <1>3. \A m \in 1 .. 127 : m \in 0 .. 127
    OBVIOUS
  <1>4. Split(n, n % 128, n \div 128, 128 + (n % 128))
    BY <1>2 DEF Split, More
  <1> QED
    BY <1>2, <1>3, <1>4, Zenon

LEMMA WritesLong ==
  ASSUME NEW n \in TwoGroups, NEW low, NEW high, NEW long, Split(n, low, high, long)
  PROVE  EncodeUvarint(n) = <<long, high>>
  <1>1. ~(n < 128)
    BY DEF TwoGroups
  <1> QED
    BY <1>1, Zenon DEF EncodeUvarint, Split
LEMMA LowField ==
  ASSUME NEW field \in 1 .. 15, NEW n \in 0 .. 127
  PROVE  IsLow(EncodeVarintField(field, n), field, n)
  <1>0. 0 \in 0 .. 7
    OBVIOUS
  <1>1. Tag(8 * field + 0, field, 0)
    BY <1>0, TagIs
  <1>2. PICK tag \in 0 .. 127 : tag = 8 * field + 0
    BY <1>1 DEF Tag
  <1>3. EncodeUvarint(tag) = <<tag>> /\ EncodeUvarint(n) = <<n>> /\ tag = 8 * field
    BY <1>2, WritesLow
  <1>4. EncodeVarintField(field, n) = <<tag, n>>
    BY <1>3, Pair DEF EncodeVarintField
  <1>5. Tag(tag, field, 0)
    BY <1>1, <1>2
  <1>6. <<tag, n>> \in Seq(Int) /\ Len(<<tag, n>>) = 2 /\ <<tag, n>>[1] = tag /\ <<tag, n>>[2] = n
    OBVIOUS
  <1>7. IsLow(<<tag, n>>, field, n)
    BY <1>5, <1>6 DEF IsLow
  <1> QED
    BY <1>4, <1>7

LEMMA LongField ==
  ASSUME NEW field \in 1 .. 15, NEW n \in TwoGroups
  PROVE  \E low \in 0 .. 127, high \in 0 .. 127 :
           low + 128 * high = n /\ IsLong(EncodeVarintField(field, n), field, low, high)
  <1>0. 0 \in 0 .. 7
    OBVIOUS
  <1>1. Tag(8 * field + 0, field, 0)
    BY <1>0, TagIs
  <1>2. PICK tag \in 0 .. 127 : tag = 8 * field + 0
    BY <1>1 DEF Tag
  <1>3. PICK low \in 0 .. 127, high \in 0 .. 127, long \in 128 .. 255 :
          Split(n, low, high, long) /\ low + 128 * high = n
    BY Splits
  <1>4. EncodeUvarint(n) = <<long, high>>
    BY <1>3, WritesLong
  <1>5. EncodeVarintField(field, n) = <<tag, long, high>>
    <2>1. EncodeUvarint(tag) = <<tag>> /\ tag = 8 * field
      BY <1>2, WritesLow
    <2>2. EncodeVarintField(field, n) = <<tag>> \o <<long, high>>
      BY <1>4, <2>1 DEF EncodeVarintField
    <2> QED
      BY <2>2, Triple
  <1>6. Tag(tag, field, 0) /\ More(long, low)
    BY <1>1, <1>2, <1>3 DEF Split
  <1> DEFINE enc == <<tag, long, high>>
  <1>7. enc \in Seq(Int) /\ Len(enc) = 3 /\ enc[1] = tag /\ enc[2] = long /\ enc[3] = high
    <2>1. tag \in Int /\ long \in Int /\ high \in Int
      OBVIOUS
    <2> QED
      BY <2>1
  <1> HIDE DEF enc
  <1>8. IsLong(enc, field, low, high)
    BY <1>6, <1>7 DEF IsLong
  <1> QED
    BY <1>3, <1>5, <1>8 DEF enc

\* What is at the end of the bytes is all of them from there.
EndsIn(bytes, j, to, v) ==
  /\ bytes \in Seq(Int) /\ v \in Seq(Int) /\ j \in Nat /\ to = Len(bytes) /\ to = j + Len(v)
  /\ \A k \in 1 .. Len(v) : bytes[k + j] = v[k]

LEMMA SliceEnd ==
  ASSUME NEW bytes, NEW j, NEW to, NEW v, EndsIn(bytes, j, to, v)
  PROVE  Slice(bytes, j, to) = v
  <1> DEFINE n == Len(v)
  <1>0. /\ bytes \in Seq(Int) /\ v \in Seq(Int) /\ j \in Nat /\ to = Len(bytes) /\ to = j + n /\ n \in Nat /\ to \in Nat
        /\ \A k \in 1 .. n : bytes[k + j] = v[k]
    BY DEF EndsIn
  <1>1. ~(to < Len(bytes))
    BY <1>0
  <1>2. SubSeq(bytes, j + 1, to) = v
    <2> DEFINE s == SubSeq(bytes, j + 1, to)
    <2>0. j + 1 \in Int /\ to \in Int /\ to - (j + 1) + 1 = n /\ (j + 1 <= to <=> n # 0)
          /\ (\A i \in j + 1 .. to : bytes[i] \in Int) /\ \A k \in 1 .. n : (j + 1) + k - 1 = k + j
      <3> HIDE DEF n
      <3>0. j \in Nat /\ n \in Nat /\ to = j + n
        BY <1>0
      <3>1. j + 1 \in Int /\ to \in Int /\ to - (j + 1) + 1 = n /\ (j + 1 <= to <=> n # 0)
        BY <3>0
      <3>2. \A i \in j + 1 .. to : bytes[i] \in Int
        <4>1. \A i \in j + 1 .. to : i \in 1 .. to
          BY <1>0
        <4>2. \A i \in 1 .. Len(bytes) : bytes[i] \in Int
          <5>1. bytes \in Seq(Int)
            BY <1>0
          <5> QED
            BY <5>1, ElementOfSeq, Zenon
        <4> QED
          BY <1>0, <4>1, <4>2, Zenon
      <3>3. \A k \in 1 .. n : (j + 1) + k - 1 = k + j
        BY <1>0
      <3> QED
        BY <3>1, <3>2, <3>3
    <2>1. /\ s \in Seq(Int) /\ Len(s) = IF j + 1 <= to THEN to - (j + 1) + 1 ELSE 0
          /\ \A k \in 1 .. to - (j + 1) + 1 : s[k] = bytes[(j + 1) + k - 1]
      BY <1>0, <2>0, SubSeqProperties
    <2>2. Len(s) = n /\ \A k \in 1 .. n : s[k] = v[k]
      BY <1>0, <2>0, <2>1
    <2> HIDE DEF s
    <2>3. s = v
      BY <1>0, <2>1, <2>2, SeqEqual
    <2> QED
      BY <2>3 DEF s
  <1> QED
    BY <1>0, <1>1, <1>2, Zenon DEF Slice

LEMMA ParsesBytes ==
  ASSUME NEW field \in 1 .. 15, NEW n \in 0 .. 127, NEW v \in Seq(Int), Len(v) = n
  PROVE  \E next : ParseFields(EncodeBytesField(field, v)) = <<Octets(field, v, next)>>
  <1> DEFINE enc == EncodeBytesField(field, v)
  <1>0. IsOctets(enc, field, n, v)
    BY BytesField
  <1> HIDE DEF enc
  <1>1. /\ enc \in Seq(Int) /\ Len(enc) = n + 2
        /\ Tag(enc[1], field, 2) /\ enc[2] = n
        /\ \A j \in 1 .. n : enc[j + 2] = v[j]
    BY <1>0 DEF IsOctets
  <1>2. PICK to \in Nat : to = n + 2 /\ to = 2 + n /\ 1 \in 1 .. to /\ 2 \in 1 .. to /\ to > 0
    OBVIOUS
  <1>3. OctetsAt(enc, 1, 2, field, to)
    <2>1. 1 \in 1 .. Len(enc) /\ 2 \in 1 .. Len(enc) /\ 2 = 1 + 1 /\ enc[2] \in 0 .. 127 /\ to = 2 + enc[2]
      BY <1>1, <1>2
    <2> QED
      BY <1>1, <2>1, Zenon DEF OctetsAt
  <1>4. ReadField(enc, 1) = Octets(field, Slice(enc, 2, to), to + 1)
    BY <1>3, ReadsOctets, Zenon
  <1>5. EndsIn(enc, 2, to, v)
    BY <1>1, <1>2 DEF EndsIn
  <1>6. Slice(enc, 2, to) = v
    BY <1>5, SliceEnd, Zenon
  <1>7. ReadField(enc, 1) = Octets(field, v, to + 1)
    BY <1>4, <1>6, Zenon
  <1>8. Octets(field, v, to + 1).field # None /\ Octets(field, v, to + 1).next = Len(enc) + 1 /\ Len(enc) > 0
    BY <1>1, <1>2 DEF Octets, None
  <1>9. Alone(enc, Octets(field, v, to + 1))
    BY <1>1, <1>7, <1>8, Zenon DEF Alone
  <1>10. ParseFields(enc) = <<Octets(field, v, to + 1)>>
    BY <1>9, ParsedOne, Zenon
  <1> QED
    BY <1>10, Zenon DEF enc

\* A varint of one byte.
LowAt(bytes, i, n) == bytes \in Seq(Int) /\ i \in 1 .. Len(bytes) /\ bytes[i] = n /\ n \in 0 .. 127

LEMMA LowRead ==
  ASSUME NEW bytes, NEW i, NEW n, LowAt(bytes, i, n)
  PROVE  ReadVarint(bytes, i) = [groups |-> <<n>>, next |-> i + 1]
  <1>1. bytes \in Seq(Int) /\ i \in 1 .. Len(bytes) /\ bytes[i] = n /\ bytes[i] \in 0 .. 127
    BY Zenon DEF LowAt
  <1> QED
    BY <1>1, LowVarint, Zenon

\* Two fields, one after the other: a number and bytes.
LEMMA ParsesEvent ==
  ASSUME NEW t \in 0 .. 127, NEW field \in 1 .. 15, NEW n \in 0 .. 127, NEW v \in Seq(Int), Len(v) = n
  PROVE  \E a, b : ParseFields(EncodeVarintField(1, t) \o EncodeBytesField(field, v))
                     = <<Number(1, <<t>>, a), Octets(field, v, b)>>
  <1> DEFINE x == EncodeVarintField(1, t)
             y == EncodeBytesField(field, v)
             enc == x \o y
  <1>0. IsLow(x, 1, t) /\ IsOctets(y, field, n, v)
    <2>1. 1 \in 1 .. 15
      OBVIOUS
    <2> QED
      BY <2>1, LowField, BytesField
  <1> HIDE DEF x, y
  <1>1. /\ x \in Seq(Int) /\ Len(x) = 2 /\ Tag(x[1], 1, 0) /\ x[2] = t
        /\ y \in Seq(Int) /\ Len(y) = n + 2 /\ Tag(y[1], field, 2) /\ y[2] = n
        /\ \A j \in 1 .. n : y[j + 2] = v[j]
    BY <1>0 DEF IsLow, IsOctets
  <1>2. /\ enc \in Seq(Int) /\ Len(enc) = n + 4 /\ enc[1] = x[1] /\ enc[2] = t /\ enc[3] = y[1] /\ enc[4] = n
        /\ \A j \in 1 .. n : enc[j + 4] = v[j]
    <2>1. enc \in Seq(Int) /\ Joined(enc, x, Len(x), y, Len(y))
      BY <1>1, Joins
    <2>2. enc \in Seq(Int) /\ Joined(enc, x, 2, y, n + 2)
      BY <1>1, <2>1, Zenon
    <2> HIDE DEF enc
    <2>3. Len(enc) = n + 4 /\ enc[1] = x[1] /\ enc[2] = x[2] /\ enc[3] = y[1] /\ enc[4] = y[2]
      BY <2>2 DEF Joined
    <2>4. ASSUME NEW j \in 1 .. n PROVE enc[j + 4] = v[j]
      <3>1. j + 2 \in 1 .. n + 2 /\ 2 + (j + 2) = j + 4
        OBVIOUS
      <3>2. enc[j + 4] = y[j + 2]
        BY <2>2, <3>1 DEF Joined
      <3> QED
        BY <1>1, <3>2
    <2> QED
      BY <1>1, <2>2, <2>3, <2>4
  <1> HIDE DEF enc
  <1>3. PICK to \in Nat : to = n + 4 /\ to = 4 + n /\ 1 \in 1 .. to /\ 2 \in 1 .. to /\ 3 \in 1 .. to /\ 4 \in 1 .. to
                          /\ 3 \in 2 .. to /\ 1 + 1 = 2 /\ 2 + 1 = 3 /\ 3 + 1 = 4
    OBVIOUS
  <1>4. LowAt(enc, 2, t)
    BY <1>2, <1>3, Zenon DEF LowAt
  <1>5. ReadVarint(enc, 1 + 1) = [groups |-> <<t>>, next |-> 3]
    BY <1>3, <1>4, LowRead
  <1>6. NumberAt(enc, 1, 1, <<t>>, 3)
    BY <1>1, <1>2, <1>3, <1>5, Zenon DEF NumberAt
  <1>7. ReadField(enc, 1) = Number(1, <<t>>, 3)
    BY <1>6, NumberRead
  <1>8. OctetsAt(enc, 3, 4, field, to)
    BY <1>1, <1>2, <1>3, Zenon DEF OctetsAt
  <1>9. ReadField(enc, 3) = Octets(field, Slice(enc, 4, to), to + 1)
    BY <1>8, ReadsOctets, Zenon
  <1>10. EndsIn(enc, 4, to, v)
    BY <1>2, <1>3 DEF EndsIn
  <1>11. Slice(enc, 4, to) = v
    BY <1>10, SliceEnd, Zenon
  <1>12. ReadField(enc, 3) = Octets(field, v, to + 1)
    BY <1>9, <1>11, Zenon
  <1> DEFINE f == Number(1, <<t>>, 3)
             g == Octets(field, v, to + 1)
  <1>13. f.next = 3 /\ f.field # None /\ g.field # None /\ g.next = Len(enc) + 1
    BY <1>2, <1>3 DEF Number, Octets, None
  <1> HIDE DEF f, g
  <1>14. Both(enc, f, g)
    BY <1>2, <1>3, <1>7, <1>12, <1>13, Zenon DEF Both, f, g
  <1>15. ParseFields(enc) = <<f, g>>
    BY <1>14, ParsedTwo, Zenon
  <1> QED
    BY <1>15, Zenon DEF f, g, enc, x, y

\* Two numbers of two bytes.
TwoNumbers(enc, one, m, two, n) ==
  \E a, b, c, d \in 0 .. 127 : \E u, w :
    /\ a + 128 * b = m /\ c + 128 * d = n
    /\ ParseFields(enc) = <<Number(one, <<a, b>>, u), Number(two, <<c, d>>, w)>>

LEMMA ParsesNumbers ==
  ASSUME NEW one \in 1 .. 15, NEW m \in TwoGroups, NEW two \in 1 .. 15, NEW n \in TwoGroups
  PROVE  TwoNumbers(EncodeVarintField(one, m) \o EncodeVarintField(two, n), one, m, two, n)
  <1> DEFINE x == EncodeVarintField(one, m)
             y == EncodeVarintField(two, n)
             enc == x \o y
  <1>1. PICK a \in 0 .. 127, b \in 0 .. 127 : a + 128 * b = m /\ IsLong(x, one, a, b)
    BY LongField
  <1>2. PICK c \in 0 .. 127, d \in 0 .. 127 : c + 128 * d = n /\ IsLong(y, two, c, d)
    BY LongField
  <1> HIDE DEF x, y
  <1>3. /\ x \in Seq(Int) /\ Len(x) = 3 /\ Tag(x[1], one, 0) /\ More(x[2], a) /\ x[3] = b
        /\ y \in Seq(Int) /\ Len(y) = 3 /\ Tag(y[1], two, 0) /\ More(y[2], c) /\ y[3] = d
    BY <1>1, <1>2, Zenon DEF IsLong
  <1>4. /\ enc \in Seq(Int) /\ Len(enc) = 6 /\ enc[1] = x[1] /\ enc[2] = x[2] /\ enc[3] = b
        /\ enc[4] = y[1] /\ enc[5] = y[2] /\ enc[6] = d
    <2>1. enc \in Seq(Int) /\ Joined(enc, x, Len(x), y, Len(y))
      BY <1>3, Joins
    <2>2. enc \in Seq(Int) /\ Joined(enc, x, 3, y, 3)
      BY <1>3, <2>1, Zenon
    <2> HIDE DEF enc
    <2>3. /\ Len(enc) = 6 /\ enc[1] = x[1] /\ enc[2] = x[2] /\ enc[3] = x[3]
          /\ enc[4] = y[1] /\ enc[5] = y[2] /\ enc[6] = y[3]
      BY <2>2 DEF Joined
    <2> QED
      BY <1>3, <2>2, <2>3, Zenon
  <1> HIDE DEF enc
  <1>5. /\ 1 \in 1 .. 6 /\ 2 \in 1 .. 6 /\ 3 \in 1 .. 6 /\ 4 \in 1 .. 6 /\ 5 \in 1 .. 6 /\ 6 \in 1 .. 6 /\ 4 \in 2 .. 6
        /\ 1 + 1 = 2 /\ 2 + 1 = 3 /\ 3 + 1 = 4 /\ 4 + 1 = 5 /\ 5 + 1 = 6 /\ 6 + 1 = 7
    OBVIOUS
  <1>6. LongAt(enc, 2, 3, a, b) /\ LongAt(enc, 5, 6, c, d)
    BY <1>3, <1>4, <1>5, Zenon DEF LongAt
  <1>7. ReadVarint(enc, 1 + 1) = [groups |-> <<a, b>>, next |-> 4]
    <2>1. ReadVarint(enc, 2) = [groups |-> <<a, b>>, next |-> 3 + 1]
      BY <1>6, LongVarint
    <2> QED
      BY <1>5, <2>1, Zenon
  <1>8. ReadVarint(enc, 4 + 1) = [groups |-> <<c, d>>, next |-> 7]
    <2>1. ReadVarint(enc, 5) = [groups |-> <<c, d>>, next |-> 6 + 1]
      BY <1>6, LongVarint
    <2> QED
      BY <1>5, <2>1, Zenon
  <1>9. NumberAt(enc, 1, one, <<a, b>>, 4) /\ NumberAt(enc, 4, two, <<c, d>>, 7)
    BY <1>3, <1>4, <1>5, <1>7, <1>8, Zenon DEF NumberAt
  <1> DEFINE f == Number(one, <<a, b>>, 4)
             g == Number(two, <<c, d>>, 7)
  <1>10. ReadField(enc, 1) = f /\ ReadField(enc, 4) = g
    BY <1>9, NumberRead
  <1>11. f.next = 4 /\ f.field # None /\ g.field # None /\ g.next = 7
    BY DEF Number, None
  <1> HIDE DEF f, g
  <1>12. Both(enc, f, g)
    BY <1>4, <1>5, <1>10, <1>11, Zenon DEF Both
  <1>13. ParseFields(enc) = <<f, g>>
    BY <1>12, ParsedTwo, Zenon
  <1>14. \E u, w : ParseFields(enc) = <<Number(one, <<a, b>>, u), Number(two, <<c, d>>, w)>>
    BY <1>13, Zenon DEF f, g
  <1>15. a + 128 * b = m /\ c + 128 * d = n
    BY <1>1, <1>2
  <1>16. TwoNumbers(enc, one, m, two, n)
    <2> USE DEF TwoNumbers
    <2>1. WITNESS a \in 0 .. 127, b \in 0 .. 127, c \in 0 .. 127, d \in 0 .. 127
    <2> QED
      BY <1>14, <1>15, Zenon
  <1> QED
    BY <1>16, Zenon DEF enc, x, y

-----------------------------------------------------------------------------
(* One sequence of a sequence of them.                                      *)

Flattens(seqs, f) == f = [i \in 1 .. Len(seqs) |-> IF i = 1 THEN seqs[i] ELSE f[i - 1] \o seqs[i]]

\* g[k]: the first k of them.
Flat(E, seqs, g) ==
  /\ g \in [Nat -> Seq(E)] /\ g[0] = <<>>
  /\ \A k \in 1 .. Len(seqs) : g[k] = g[k - 1] \o seqs[k]

LEMMA FlattenIs ==
  ASSUME NEW E, NEW seqs \in Seq(Seq(E))
  PROVE  \E g : Flat(E, seqs, g) /\ FlattenSeq(seqs) = g[Len(seqs)]
  <1> DEFINE S == Seq(E)
             n == Len(seqs)
             step == [x \in Nat \X S |-> IF x[1] + 1 \in 1 .. n THEN x[2] \o seqs[x[1] + 1] ELSE x[2]]
  <1>1. <<>> \in S /\ n \in Nat /\ \A k \in 1 .. n : seqs[k] \in S
    OBVIOUS
  <1>2. step \in [Nat \X S -> S]
    <2>1. ASSUME NEW x \in Nat \X S PROVE step[x] \in S
      <3>1. x[1] \in Nat /\ x[2] \in S
        OBVIOUS
      <3>2. CASE x[1] + 1 \in 1 .. n
        <4>1. x[2] \o seqs[x[1] + 1] \in S
          BY <1>1, <3>1, <3>2, ConcatProperties
        <4> QED
          BY <3>2, <4>1
      <3>3. CASE x[1] + 1 \notin 1 .. n
        BY <3>1, <3>3
      <3> QED
        BY <3>2, <3>3
    <2> HIDE DEF S
    <2> QED
      BY <2>1
  <1> HIDE DEF S, step
  <1>3. PICK g : Steps(g, S, <<>>, step)
    BY <1>1, <1>2, Recursion
  <1>4. g \in [Nat -> S] /\ g[0] = <<>> /\ \A k \in Nat : g[k + 1] = step[<<k, g[k]>>]
    BY <1>3 DEF Steps
  <1>5. ASSUME NEW k \in 1 .. n PROVE g[k] = g[k - 1] \o seqs[k]
    <2>1. PICK m \in Nat : m = k - 1 /\ m + 1 = k
      BY <1>1
    <2>2. g[m] \in S /\ <<m, g[m]>> \in Nat \X S
      BY <1>4
    <2>3. step[<<m, g[m]>>] = g[m] \o seqs[k]
      BY <2>1, <2>2 DEF step
    <2>4. g[k] = step[<<m, g[m]>>]
      BY <1>4, <2>1
    <2> QED
      BY <2>1, <2>3, <2>4
  <1>6. Flat(E, seqs, g)
    BY <1>4, <1>5 DEF Flat, S
  <1>7. CASE n = 0
    <2>1. seqs = <<>>
      BY <1>7
    <2> QED
      BY <1>4, <1>6, <1>7, <2>1 DEF FlattenSeq
  <1>8. CASE n # 0
    <2> DEFINE f == [i \in 1 .. n |-> g[i]]
    <2>1. ASSUME NEW i \in 1 .. n PROVE f[i] = IF i = 1 THEN seqs[i] ELSE f[i - 1] \o seqs[i]
      <3>1. CASE i = 1
        <4>1. seqs[1] \in Seq(E) /\ g[1] = <<>> \o seqs[1]
          <5>0. g[i] = g[i - 1] \o seqs[i]
            BY <1>5, Zenon
          <5>1. 1 - 1 = 0 /\ 1 \in 1 .. n
            BY <3>1
          <5>2. g[1] = g[0] \o seqs[1]
            BY <3>1, <5>0, <5>1, Zenon
          <5> QED
            BY <1>1, <1>4, <5>1, <5>2 DEF S
        <4>2. g[1] = seqs[1]
          BY <4>1, ConcatEmptySeq
        <4> QED
          BY <3>1, <4>2
      <3>2. CASE i # 1
        <4>1. i - 1 \in 1 .. n /\ i \in Nat
          BY <3>2
        <4> QED
          BY <1>5, <3>2, <4>1
      <3> QED
        BY <3>1, <3>2
    <2>2. f = [i \in 1 .. n |-> f[i]]
      OBVIOUS
    <2>3. Flattens(seqs, f)
      <3> HIDE DEF f
      <3> QED
        BY <2>1, <2>2 DEF Flattens
    <2>4. PICK h : Flattens(seqs, h) /\ FlattenSeq(seqs) = h[n]
      <3> HIDE DEF f
      <3>1. \E h : Flattens(seqs, h)
        BY <2>3
      <3> QED
        BY <1>8, <3>1 DEF FlattenSeq, Flattens
    <2>5. \A i \in 1 .. n : h[i] = IF i = 1 THEN seqs[i] ELSE h[i - 1] \o seqs[i]
      BY <2>4 DEF Flattens
    <2> DEFINE P == {i \in 0 .. n : i = 0 \/ h[i] = f[i]}
    <2>6. 0 \in P
      BY <1>1
    <2>7. ASSUME NEW k \in 0 .. n - 1, k \in P PROVE k + 1 \in P
      <3>1. k + 1 \in 1 .. n /\ k + 1 \in 0 .. n /\ (k + 1) - 1 = k
        BY <1>1
      <3>2. CASE k = 0
        <4>0. k + 1 = 1
          BY <3>2
        <4> HIDE DEF f
        <4>1. h[k + 1] = seqs[k + 1] /\ f[k + 1] = seqs[k + 1]
          BY <2>1, <2>5, <3>1, <4>0
        <4> QED
          BY <3>1, <3>2, <4>1
      <3>3. CASE k # 0
        <4>1. h[k] = f[k] /\ k + 1 # 1
          BY <2>7, <3>3
        <4> HIDE DEF f
        <4>2. h[k + 1] = f[k + 1]
          BY <2>1, <2>5, <3>1, <4>1
        <4> QED
          BY <3>1, <4>2
      <3> QED
        BY <3>2, <3>3
    <2>8. \A k \in 0 .. n : k \in P
      <3> HIDE DEF P
      <3> QED
        BY <1>1, <2>6, <2>7, Upward
    <2>9. n \in 0 .. n /\ n \in 1 .. n
      BY <1>1, <1>8
    <2>10. h[n] = g[n]
      BY <1>8, <2>8, <2>9
    <2> QED
      BY <1>6, <2>4, <2>10
  <1> QED
    BY <1>7, <1>8

LEMMA FlattenNone == FlattenSeq(<<>>) = <<>>
  BY DEF FlattenSeq

LEMMA FlattenOne ==
  ASSUME NEW E, NEW x \in Seq(E)
  PROVE  FlattenSeq(<<x>>) = x
  <1>1. <<x>> \in Seq(Seq(E)) /\ Len(<<x>>) = 1 /\ <<x>>[1] = x
    OBVIOUS
  <1> DEFINE s == <<x>>
  <1> HIDE DEF s
  <1>2. PICK g : Flat(E, s, g) /\ FlattenSeq(s) = g[Len(s)]
    BY <1>1, FlattenIs DEF s
  <1>3. Len(s) = 1 /\ s[1] = x /\ 1 \in 1 .. 1 /\ 1 - 1 = 0
    BY <1>1 DEF s
  <1>4. g[1] = g[1 - 1] \o x /\ g[0] = <<>>
    BY <1>2, <1>3, Zenon DEF Flat
  <1>5. <<>> \o x = x
    BY ConcatEmptySeq
  <1>6. FlattenSeq(s) = x
    BY <1>2, <1>3, <1>4, <1>5
  <1> QED
    BY <1>6 DEF s

LEMMA FlattenAppend ==
  ASSUME NEW E, NEW seqs \in Seq(Seq(E)), NEW x \in Seq(E)
  PROVE  FlattenSeq(Append(seqs, x)) = FlattenSeq(seqs) \o x
  <1> DEFINE more == Append(seqs, x)
             n == Len(seqs)
  <1>1. /\ more \in Seq(Seq(E)) /\ Len(more) = n + 1 /\ n \in Nat
        /\ \A i \in 1 .. n : more[i] = seqs[i]
        /\ more[n + 1] = x
    BY AppendProperties
  <1> HIDE DEF more
  <1>2. PICK g : Flat(E, seqs, g) /\ FlattenSeq(seqs) = g[n]
    BY FlattenIs
  <1>3. PICK h : Flat(E, more, h) /\ FlattenSeq(more) = h[n + 1]
    BY <1>1, FlattenIs
  <1>4. g[0] = <<>> /\ \A k \in 1 .. n : g[k] = g[k - 1] \o seqs[k]
    BY <1>2 DEF Flat
  <1>5. h[0] = <<>> /\ \A k \in 1 .. n + 1 : h[k] = h[k - 1] \o more[k]
    BY <1>1, <1>3 DEF Flat
  <1> HIDE DEF n
  <1> DEFINE P == {k \in 0 .. n : h[k] = g[k]}
  <1>6. 0 \in P
    BY <1>1, <1>4, <1>5
  <1>7. ASSUME NEW k \in 0 .. n - 1, k \in P PROVE k + 1 \in P
    <2>1. k + 1 \in 1 .. n /\ k + 1 \in 1 .. n + 1 /\ (k + 1) - 1 = k /\ k + 1 \in 0 .. n
      BY <1>1
    <2>2. h[k + 1] = h[k] \o seqs[k + 1] /\ g[k + 1] = g[k] \o seqs[k + 1]
      BY <1>1, <1>4, <1>5, <2>1
    <2> QED
      BY <1>7, <2>1, <2>2
  <1>8. \A k \in 0 .. n : k \in P
    <2> HIDE DEF P
    <2> QED
      BY <1>1, <1>6, <1>7, Upward
  <1>9. n \in 0 .. n /\ n + 1 \in 1 .. n + 1 /\ (n + 1) - 1 = n
    BY <1>1
  <1>10. h[n] = g[n]
    BY <1>8, <1>9
  <1>11. h[n + 1] = h[n] \o x
    BY <1>1, <1>5, <1>9
  <1> QED
    BY <1>2, <1>3, <1>10, <1>11 DEF more

-----------------------------------------------------------------------------
(* What the portal says is what it means.                                   *)

LEMMA ParsesMessage ==
  ASSUME NEW n \in 0 .. 127, NEW event \in Seq(Int), Len(event) = n
  PROVE  ParseMessage(EncodeBytesField(2, event)) = <<ParseEvent(event)>>
  <1>0. 2 \in 1 .. 15
    OBVIOUS
  <1>1. PICK next : ParseFields(EncodeBytesField(2, event)) = <<Octets(2, event, next)>>
    BY <1>0, ParsesBytes
  <1>2. First(<<Octets(2, event, next)>>, 2) = [wire |-> 2, data |-> event]
    BY FirstOfOne DEF Octets
  <1> QED
    BY <1>1, <1>2 DEF ParseMessage, IsBytes

\* An event of a car, and one of a speed.
LEMMA ParsesCar ==
  ASSUME NEW t \in 0 .. 127, NEW n \in 0 .. 127, NEW v \in Seq(Int), Len(v) = n
  PROVE  ParseEvent(EncodeVarintField(1, t) \o EncodeBytesField(2, v))
           = [type |-> t, carInfo |-> <<ParseCarInfo(v)>>, speedMeasurement |-> <<>>]
  <1> DEFINE enc == EncodeVarintField(1, t) \o EncodeBytesField(2, v)
  <1>0. 2 \in 1 .. 15
    OBVIOUS
  <1>1. PICK a, b : ParseFields(enc) = <<Number(1, <<t>>, a), Octets(2, v, b)>>
    BY <1>0, ParsesEvent
  <1> DEFINE f == <<Number(1, <<t>>, a), Octets(2, v, b)>>
  <1>2. First(f, 1) = [wire |-> 0, data |-> <<t>>]
    BY FirstOfTwo DEF Number, Octets
  <1>3. First(f, 2) = [wire |-> 2, data |-> v]
    BY FirstOfTwo DEF Number, Octets
  <1>4. First(f, 3) = Missing
    BY FirstOfTwo DEF Number, Octets
  <1>5. AsInt([wire |-> 0, data |-> <<t>>]) = t
    BY SmallInt
  <1>6. ~IsBytes(Missing) /\ IsBytes([wire |-> 2, data |-> v])
    BY DEF IsBytes, Missing, None
  <1> HIDE DEF f, enc
  <1>7. ParseEvent(enc) = [type |-> t, carInfo |-> <<ParseCarInfo(v)>>, speedMeasurement |-> <<>>]
    BY <1>1, <1>2, <1>3, <1>4, <1>5, <1>6 DEF ParseEvent, f
  <1> QED
    BY <1>7 DEF enc

LEMMA ParsesSpeed ==
  ASSUME NEW t \in 0 .. 127, NEW n \in 0 .. 127, NEW v \in Seq(Int), Len(v) = n
  PROVE  ParseEvent(EncodeVarintField(1, t) \o EncodeBytesField(3, v))
           = [type |-> t, carInfo |-> <<>>, speedMeasurement |-> <<ParseSpeedMeasurement(v)>>]
  <1> DEFINE enc == EncodeVarintField(1, t) \o EncodeBytesField(3, v)
  <1>0. 3 \in 1 .. 15
    OBVIOUS
  <1>1. PICK a, b : ParseFields(enc) = <<Number(1, <<t>>, a), Octets(3, v, b)>>
    BY <1>0, ParsesEvent
  <1> DEFINE f == <<Number(1, <<t>>, a), Octets(3, v, b)>>
  <1>2. First(f, 1) = [wire |-> 0, data |-> <<t>>]
    BY FirstOfTwo DEF Number, Octets
  <1>3. First(f, 3) = [wire |-> 2, data |-> v]
    BY FirstOfTwo DEF Number, Octets
  <1>4. First(f, 2) = Missing
    BY FirstOfTwo DEF Number, Octets
  <1>5. AsInt([wire |-> 0, data |-> <<t>>]) = t
    BY SmallInt
  <1>6. ~IsBytes(Missing) /\ IsBytes([wire |-> 2, data |-> v])
    BY DEF IsBytes, Missing, None
  <1> HIDE DEF f, enc
  <1>7. ParseEvent(enc) = [type |-> t, carInfo |-> <<>>, speedMeasurement |-> <<ParseSpeedMeasurement(v)>>]
    BY <1>1, <1>2, <1>3, <1>4, <1>5, <1>6 DEF ParseEvent, f
  <1> QED
    BY <1>7 DEF enc

LEMMA ParsesTag ==
  ASSUME NEW n \in 0 .. 127, NEW v \in Seq(Int), Len(v) = n
  PROVE  ParseCarInfo(EncodeBytesField(1, v)) = [tagUid |-> v, carNdefData |-> <<>>]
  <1>0. 1 \in 1 .. 15
    OBVIOUS
  <1>1. PICK next : ParseFields(EncodeBytesField(1, v)) = <<Octets(1, v, next)>>
    BY <1>0, ParsesBytes
  <1>2. First(<<Octets(1, v, next)>>, 1) = [wire |-> 2, data |-> v]
    BY FirstOfOne DEF Octets
  <1>3. First(<<Octets(1, v, next)>>, 3) = Missing
    BY FirstOfOne DEF Octets
  <1>4. AsBytes([wire |-> 2, data |-> v]) = v /\ AsBytes(Missing) = <<>>
    BY DEF AsBytes, IsBytes, Missing, None
  <1> QED
    BY <1>1, <1>2, <1>3, <1>4 DEF ParseCarInfo

LEMMA Single ==
  ASSUME NEW x
  PROVE  [i \in {1} |-> x] = <<x>>
  <1>1. {1} = 1 .. 1
    OBVIOUS
  <1>2. <<x>> \in Seq({x}) /\ Len(<<x>>) = 1 /\ <<x>>[1] = x
    OBVIOUS
  <1>3. <<x>> = [i \in 1 .. 1 |-> <<x>>[i]]
    BY <1>2
  <1> QED
    BY <1>1, <1>2, <1>3

LEMMA Dispatches ==
  ASSUME NEW payload, NEW event, NEW x, ParseMessage(payload) = <<event>>, MpidToPortalEvents(event) = <<x>>
  PROVE  DecodeAndDispatch(payload) = <<x>>
  <1> DEFINE e == ParseMessage(payload)
  <1>1. DOMAIN e = {1} /\ e[1] = event
    <2>1. DOMAIN <<event>> = 1 .. 1 /\ <<event>>[1] = event /\ 1 .. 1 = {1}
      OBVIOUS
    <2> QED
      BY <2>1
  <1>2. [i \in DOMAIN e |-> MpidToPortalEvents(e[i])] = [i \in {1} |-> <<x>>]
    BY <1>1
  <1>3. [i \in {1} |-> <<x>>] = <<<<x>>>>
    BY Single
  <1>4. FlattenSeq(<<<<x>>>>) = <<x>>
    <2>1. <<x>> \in Seq({x})
      OBVIOUS
    <2> QED
      BY <2>1, FlattenOne
  <1>5. DecodeAndDispatch(payload) = FlattenSeq([i \in DOMAIN e |-> MpidToPortalEvents(e[i])])
    BY DEF DecodeAndDispatch
  <1> QED
    BY <1>2, <1>3, <1>4, <1>5

LEMMA DispatchesNone ==
  ASSUME NEW payload, ParseMessage(payload) = <<>>
  PROVE  DecodeAndDispatch(payload) = <<>>
  <1> DEFINE e == ParseMessage(payload)
  <1>1. DOMAIN e = {} /\ DOMAIN <<>> = {}
    OBVIOUS
  <1>2. [i \in DOMAIN e |-> MpidToPortalEvents(e[i])] = <<>>
    <2>1. [i \in {} |-> MpidToPortalEvents(e[i])] = <<>>
      OBVIOUS
    <2> QED
      BY <1>1, <2>1
  <1>3. DecodeAndDispatch(payload) = FlattenSeq([i \in DOMAIN e |-> MpidToPortalEvents(e[i])])
    BY DEF DecodeAndDispatch
  <1> QED
    BY <1>2, <1>3, FlattenNone

LEMMA Appended ==
  ASSUME NEW x
  PROVE  <<x>> \o <<>> = <<x>> /\ <<>> \o <<x>> = <<x>>
  <1>1. <<x>> \in Seq({x})
    OBVIOUS
  <1> QED
    BY <1>1, ConcatEmptySeq

LEMMA CarEvents ==
  ASSUME NEW c, Len(c.tagUid) >= 7
  PROVE  MpidToPortalEvents([type |-> 2, carInfo |-> <<c>>, speedMeasurement |-> <<>>]) = <<Detected(c)>>
  <1> DEFINE ev == [type |-> 2, carInfo |-> <<c>>, speedMeasurement |-> <<>>]
             cars == {i \in DOMAIN ev.carInfo : Len(ev.carInfo[i].tagUid) >= 7}
  <1>1. ev.type # CAR_OFF_PORTAL
    BY DEF CAR_OFF_PORTAL
  <1>2. cars = {1} /\ ev.carInfo[1] = c
    <2>1. DOMAIN <<c>> = {1} /\ <<c>>[1] = c
      OBVIOUS
    <2> QED
      BY <2>1
  <1>3. [i \in cars |-> Detected(ev.carInfo[i])] = <<Detected(c)>>
    <2>1. [i \in cars |-> Detected(ev.carInfo[i])] = [i \in {1} |-> Detected(c)]
      BY <1>2
    <2> QED
      BY <2>1, Single
  <1>4. DOMAIN ev.speedMeasurement = {}
    OBVIOUS
  <1> HIDE DEF ev
  <1> DEFINE Speed(sm) == [kind |-> "speed", raw |-> SpeedOf(sm)]
  <1>5. [i \in DOMAIN ev.speedMeasurement |-> Speed(ev.speedMeasurement[i])] = <<>>
    <2>1. [i \in {} |-> Speed(ev.speedMeasurement[i])] = <<>>
      OBVIOUS
    <2> HIDE DEF Speed
    <2> QED
      BY <1>4, <2>1
  <1>6. MpidToPortalEvents(ev) =
          [i \in cars |-> Detected(ev.carInfo[i])]
            \o [i \in DOMAIN ev.speedMeasurement |-> Speed(ev.speedMeasurement[i])]
    BY <1>1 DEF MpidToPortalEvents
  <1>7. MpidToPortalEvents(ev) = <<Detected(c)>> \o <<>>
    BY <1>3, <1>5, <1>6
  <1> QED
    BY <1>7, Appended DEF ev

LEMMA SpeedEvents ==
  ASSUME NEW sm
  PROVE  MpidToPortalEvents([type |-> 4, carInfo |-> <<>>, speedMeasurement |-> <<sm>>])
           = <<[kind |-> "speed", raw |-> SpeedOf(sm)]>>
  <1> DEFINE ev == [type |-> 4, carInfo |-> <<>>, speedMeasurement |-> <<sm>>]
             cars == {i \in DOMAIN ev.carInfo : Len(ev.carInfo[i].tagUid) >= 7}
             x == [kind |-> "speed", raw |-> SpeedOf(sm)]
  <1>1. ev.type # CAR_OFF_PORTAL
    BY DEF CAR_OFF_PORTAL
  <1>2. cars = {} /\ DOMAIN ev.speedMeasurement = {1} /\ ev.speedMeasurement[1] = sm
    <2>1. DOMAIN <<>> = {} /\ DOMAIN <<sm>> = {1} /\ <<sm>>[1] = sm
      OBVIOUS
    <2> QED
      BY <2>1
  <1>3. [i \in cars |-> Detected(ev.carInfo[i])] = <<>>
    <2>1. [i \in {} |-> Detected(ev.carInfo[i])] = <<>>
      OBVIOUS
    <2> QED
      BY <1>2, <2>1
  <1> DEFINE Speed(s) == [kind |-> "speed", raw |-> SpeedOf(s)]
  <1>4. [i \in DOMAIN ev.speedMeasurement |-> Speed(ev.speedMeasurement[i])] = <<x>>
    <2>1. [i \in DOMAIN ev.speedMeasurement |-> Speed(ev.speedMeasurement[i])] = [i \in {1} |-> x]
      BY <1>2
    <2> HIDE DEF x
    <2> QED
      BY <2>1, Single
  <1> HIDE DEF ev
  <1>5. MpidToPortalEvents(ev) =
          [i \in cars |-> Detected(ev.carInfo[i])]
            \o [i \in DOMAIN ev.speedMeasurement |-> Speed(ev.speedMeasurement[i])]
    BY <1>1 DEF MpidToPortalEvents
  <1>6. MpidToPortalEvents(ev) = <<>> \o <<x>>
    BY <1>3, <1>4, <1>5
  <1> QED
    BY <1>6, Appended DEF ev

\* Numbers of two groups, and what is missing.
LEMMA Signed ==
  ASSUME NEW a \in 0 .. 127, NEW b \in 0 .. 127
  PROVE  AsS32([wire |-> 0, data |-> <<a, b>>]) = a + 128 * b
  <1> DEFINE v == [wire |-> 0, data |-> <<a, b>>]
  <1>1. AsInt(v) = a + 128 * b
    BY LongInt
  <1>2. Group(v.data, 5) = 0 /\ v.wire = 0
    BY DEF Group
  <1> HIDE DEF v
  <1>3. AsS32(v) = AsInt(v)
    BY <1>1, <1>2, SMT DEF AsS32
  <1> QED
    BY <1>1, <1>3 DEF v

LEMMA NoNumber == AsS32(Missing) = 0 /\ AsF32(Missing) = Zeros(4)
  <1>1. Missing.wire # 0 /\ ~IsBytes(Missing)
    BY DEF Missing, None, IsBytes
  <1>2. AsS32(Missing) = 0
    BY <1>1, SMT DEF AsS32
  <1>3. AsF32(Missing) = Zeros(4)
    BY <1>1, Zenon DEF AsF32
  <1> QED
    BY <1>2, <1>3

LEMMA BytesAreInts ==
  ASSUME NEW s \in Seq(Byte)
  PROVE  s \in Seq(Int)
  <1>1. s \in [1 .. Len(s) -> Byte] /\ Len(s) \in Nat
    BY LenProperties
  <1>2. s \in [1 .. Len(s) -> Int]
    <2>1. \A b \in Byte : b \in Int
      BY DEF Byte
    <2> QED
      BY <1>1, <2>1
  <1> QED
    BY <1>1, <1>2

\* A car that arrives.
LEMMA CarOn ==
  ASSUME NEW k \in Byte
  PROVE  LET v == <<4>> \o Uid(k)
         IN  /\ v \in Seq(Byte) /\ Len(v) = 7
             /\ ParseNfcUid(v) = Uid(k)
             /\ Detected([tagUid |-> v, carNdefData |-> <<>>]) = [kind |-> "carDetected", uid |-> Uid(k), mattelId |-> <<>>]
  <1> DEFINE v == <<4>> \o Uid(k)
             u == Uid(k)
  <1>1. <<4>> \in Seq(Byte) /\ Len(<<4>>) = 1 /\ u \in Seq(Byte) /\ Len(u) = 6
    BY DEF Uid, Byte
  <1> HIDE DEF u
  <1>2. v \in Seq(Byte) /\ Joined(v, <<4>>, Len(<<4>>), u, Len(u))
    BY <1>1, Joins DEF u
  <1>3. Joined(v, <<4>>, 1, u, 6)
    BY <1>1, <1>2, Zenon
  <1> HIDE DEF v
  <1>4. Len(v) = 7 /\ \A j \in 1 .. 6 : v[j + 1] = u[j]
    <2>1. Len(v) = 7
      BY <1>3 DEF Joined
    <2>2. \A j \in 1 .. 6 : v[1 + j] = u[j] /\ 1 + j = j + 1
      BY <1>3 DEF Joined
    <2> QED
      BY <2>1, <2>2
  <1>5. EndsIn(v, 1, 7, u)
    <2>2. v \in Seq(Int) /\ u \in Seq(Int)
      BY <1>1, <1>2, BytesAreInts
    <2>3. 1 \in Nat /\ 7 = 1 + 6
      OBVIOUS
    <2> QED
      BY <1>1, <1>4, <2>2, <2>3 DEF EndsIn
  <1>6. Slice(v, 1, 7) = u
    BY <1>5, SliceEnd, Zenon
  <1>7. Detected([tagUid |-> v, carNdefData |-> <<>>]) = [kind |-> "carDetected", uid |-> u, mattelId |-> <<>>]
    BY <1>6 DEF Detected, ParseNfcUid
  <1> QED
    BY <1>2, <1>4, <1>6, <1>7 DEF u, v, ParseNfcUid

\* A car that drives by, with the portal's own speed.
LEMMA DriveBy ==
  ASSUME NEW k \in Byte
  PROVE  LET v == <<21, k, 0, 0, 63>>
         IN  v \in Seq(Byte) /\ Len(v) = 5 /\ SpeedOf(ParseSpeedMeasurement(v)) = Raw(<<k, 0, 0, 63>>)
  <1> DEFINE v == <<21, k, 0, 0, 63>>
             s == <<k, 0, 0, 63>>
  <1>1. v \in Seq(Byte) /\ Len(v) = 5 /\ s \in Seq(Int) /\ Len(s) = 4 /\ v \in Seq(Int)
    BY DEF Byte
  <1>2. v[1] = 21 /\ v[2] = s[1] /\ v[3] = s[2] /\ v[4] = s[3] /\ v[5] = s[4] /\ s[4] = 63
    BY DEF Byte
  <1> HIDE DEF v, s
  <1>3. Tag(21, 2, 5)
    BY DEF Tag
  <1>4. ReadField(v, 1) = Octets(2, Slice(v, 1, 1 + 4), 1 + 5)
    <2>1. 1 \in Nat /\ 1 \in 1 .. Len(v)
      BY <1>1
    <2> QED
      BY <1>1, <1>2, <1>3, <2>1, ReadsFour
  <1>5. EndsIn(v, 1, 5, s)
    <2>1. \A j \in 1 .. 4 : v[j + 1] = s[j]
      <3>1. \A j \in 1 .. 4 : j = 1 \/ j = 2 \/ j = 3 \/ j = 4
        OBVIOUS
      <3>2. 1 + 1 = 2 /\ 2 + 1 = 3 /\ 3 + 1 = 4 /\ 4 + 1 = 5
        OBVIOUS
      <3> QED
        BY <1>2, <3>1, <3>2
    <2>2. 1 \in Nat /\ 5 = 1 + 4
      OBVIOUS
    <2> QED
      BY <1>1, <2>1, <2>2 DEF EndsIn
  <1>6. Slice(v, 1, 5) = s
    BY <1>5, SliceEnd, Zenon
  <1>7. ReadField(v, 1) = Octets(2, s, 6)
    <2>1. 1 + 4 = 5 /\ 1 + 5 = 6
      OBVIOUS
    <2> QED
      BY <1>4, <1>6, <2>1, Zenon
  <1>8. Alone(v, Octets(2, s, 6))
    <2>1. Octets(2, s, 6).field # None /\ Octets(2, s, 6).next = Len(v) + 1 /\ Len(v) > 0
      BY <1>1 DEF Octets, None
    <2> QED
      BY <1>1, <1>7, <2>1, Zenon DEF Alone
  <1>9. ParseFields(v) = <<Octets(2, s, 6)>>
    BY <1>8, ParsedOne, Zenon
  <1>10. First(<<Octets(2, s, 6)>>, 2) = [wire |-> 2, data |-> s]
    BY FirstOfOne DEF Octets
  <1>11. AsF32([wire |-> 2, data |-> s]) = s
    BY <1>1 DEF AsF32, IsBytes
  <1>12. ParseSpeedMeasurement(v).speed = s
    BY <1>9, <1>10, <1>11 DEF ParseSpeedMeasurement
  <1>13. s \notin {Zeros(4), <<0, 0, 0, 128>>}
    <2>1. Zeros(4)[4] = 0
      BY DEF Zeros
    <2>2. <<0, 0, 0, 128>>[4] = 128
      OBVIOUS
    <2> QED
      BY <1>2, <2>1, <2>2
  <1>14. SpeedOf(ParseSpeedMeasurement(v)) = Raw(s)
    BY <1>12, <1>13 DEF SpeedOf
  <1> QED
    BY <1>1, <1>14 DEF v, s

\* A car that drives by, with the times of the two gates.
LEMMA Gates ==
  ASSUME NEW k \in 1 .. 255
  PROVE  SpeedOf(ParseSpeedMeasurement(EncodeVarintField(3, 300) \o EncodeVarintField(5, 300 + k)))
           = [f32 |-> Zeros(4), gap |-> k]
  <1> DEFINE enc == EncodeVarintField(3, 300) \o EncodeVarintField(5, 300 + k)
  <1>1. 3 \in 1 .. 15 /\ 5 \in 1 .. 15 /\ 300 \in TwoGroups /\ 300 + k \in TwoGroups
    BY DEF TwoGroups
  <1>2. PICK a \in 0 .. 127, b \in 0 .. 127, c \in 0 .. 127, d \in 0 .. 127 : \E u, w :
          /\ a + 128 * b = 300 /\ c + 128 * d = 300 + k
          /\ ParseFields(enc) = <<Number(3, <<a, b>>, u), Number(5, <<c, d>>, w)>>
    <2>1. TwoNumbers(enc, 3, 300, 5, 300 + k)
      BY <1>1, ParsesNumbers
    <2> QED
      BY <2>1, Zenon DEF TwoNumbers
  <1>3. PICK u, w : ParseFields(enc) = <<Number(3, <<a, b>>, u), Number(5, <<c, d>>, w)>>
    BY <1>2
  <1>4. a + 128 * b = 300 /\ c + 128 * d = 300 + k
    BY <1>2
  <1> DEFINE f == <<Number(3, <<a, b>>, u), Number(5, <<c, d>>, w)>>
  <1>5. First(f, 2) = Missing
    BY FirstOfTwo DEF Number
  <1>6. First(f, 3) = [wire |-> 0, data |-> <<a, b>>]
    BY FirstOfTwo DEF Number
  <1>7. First(f, 5) = [wire |-> 0, data |-> <<c, d>>]
    BY FirstOfTwo DEF Number
  <1> HIDE DEF f, enc
  <1>8. AsS32(First(f, 3)) = 300 /\ AsS32(First(f, 5)) = 300 + k
    <2>1. AsS32([wire |-> 0, data |-> <<a, b>>]) = a + 128 * b
      BY Signed
    <2>2. AsS32([wire |-> 0, data |-> <<c, d>>]) = c + 128 * d
      BY Signed
    <2> QED
      BY <1>4, <1>6, <1>7, <2>1, <2>2, Zenon
  <1> DEFINE sm == ParseSpeedMeasurement(enc)
  <1>9. sm.speed = Zeros(4) /\ sm.tIr1In = 300 /\ sm.tIr2In = 300 + k
    BY <1>3, <1>5, <1>8, NoNumber DEF ParseSpeedMeasurement, f
  <1> HIDE DEF sm
  <1>10. 300 < 300 + k /\ (300 + k) - 300 = k
    OBVIOUS
  <1>11. SpeedOf(sm) = [f32 |-> Zeros(4), gap |-> k]
    BY <1>9, <1>10 DEF SpeedOf
  <1> QED
    BY <1>11 DEF sm, enc

LEMMA IntsAreBytes ==
  ASSUME NEW s \in Seq(Int), NEW n \in Nat, Len(s) = n, \A i \in 1 .. n : s[i] \in Byte
  PROVE  s \in Seq(Byte)
  <1>1. s = [i \in 1 .. n |-> s[i]]
    OBVIOUS
  <1>2. s \in [1 .. n -> Byte]
    BY <1>1
  <1> QED
    BY <1>2

LEMMA SmallBytes ==
  /\ \A b \in 0 .. 127 : b \in Byte
  /\ \A b \in 128 .. 255 : b \in Byte
  BY DEF Byte

LEMMA BytesWritten ==
  ASSUME NEW field \in 1 .. 15, NEW v \in Seq(Byte), Len(v) \in 0 .. 127
  PROVE  EncodeBytesField(field, v) \in Seq(Byte) /\ Len(EncodeBytesField(field, v)) = Len(v) + 2
  <1> DEFINE enc == EncodeBytesField(field, v)
             n == Len(v)
  <1>0. v \in Seq(Int) /\ \A j \in 1 .. n : v[j] \in Byte
    BY BytesAreInts
  <1>1. IsOctets(enc, field, n, v)
    BY <1>0, BytesField
  <1> HIDE DEF enc
  <1>2. /\ enc \in Seq(Int) /\ Len(enc) = n + 2 /\ n + 2 \in Nat
        /\ enc[1] \in 0 .. 127 /\ enc[2] = n
        /\ \A j \in 1 .. n : enc[j + 2] = v[j]
    BY <1>1 DEF IsOctets, Tag
  <1>3. ASSUME NEW i \in 1 .. n + 2 PROVE enc[i] \in Byte
    <2>0. enc[1] \in Byte /\ enc[2] \in Byte
      BY <1>2, SmallBytes, Zenon
    <2>1. CASE i = 1
      BY <2>0, <2>1
    <2>2. CASE i = 2
      BY <2>0, <2>2
    <2>3. CASE i > 2
      <3>1. PICK j \in 1 .. n : j + 2 = i
        <4>1. i - 2 \in 1 .. n /\ (i - 2) + 2 = i
          BY <2>3
        <4> QED
          BY <4>1
      <3> QED
        BY <1>0, <1>2, <3>1
    <2> QED
      BY <2>1, <2>2, <2>3
  <1>4. enc \in Seq(Byte)
    BY <1>2, <1>3, IntsAreBytes
  <1> QED
    BY <1>2, <1>4 DEF enc

LEMMA LowWritten ==
  ASSUME NEW field \in 1 .. 15, NEW n \in 0 .. 127
  PROVE  EncodeVarintField(field, n) \in Seq(Byte) /\ Len(EncodeVarintField(field, n)) = 2
  <1> DEFINE enc == EncodeVarintField(field, n)
  <1>1. IsLow(enc, field, n)
    BY LowField
  <1> HIDE DEF enc
  <1>2. enc \in Seq(Int) /\ Len(enc) = 2 /\ enc[1] \in 0 .. 127 /\ enc[2] = n
    BY <1>1 DEF IsLow, Tag
  <1>3. ASSUME NEW i \in 1 .. 2 PROVE enc[i] \in Byte
    <2>1. i = 1 \/ i = 2
      OBVIOUS
    <2> QED
      BY <1>2, <2>1, SmallBytes
  <1>4. enc \in Seq(Byte)
    <2>1. 2 \in Nat
      OBVIOUS
    <2> QED
      BY <1>2, <1>3, <2>1, IntsAreBytes
  <1> QED
    BY <1>2, <1>4 DEF enc

LEMMA LongWritten ==
  ASSUME NEW field \in 1 .. 15, NEW n \in TwoGroups
  PROVE  EncodeVarintField(field, n) \in Seq(Byte) /\ Len(EncodeVarintField(field, n)) = 3
  <1> DEFINE enc == EncodeVarintField(field, n)
  <1>1. PICK low \in 0 .. 127, high \in 0 .. 127 : IsLong(enc, field, low, high)
    BY LongField
  <1> HIDE DEF enc
  <1>2. enc \in Seq(Int) /\ Len(enc) = 3 /\ enc[1] \in 0 .. 127 /\ enc[2] \in 128 .. 255 /\ enc[3] \in 0 .. 127
    BY <1>1 DEF IsLong, Tag, More
  <1>3. ASSUME NEW i \in 1 .. 3 PROVE enc[i] \in Byte
    <2>a. PICK b \in 128 .. 255 : enc[2] = b
      BY <1>2
    <2>b. enc[2] \in Byte
      BY <2>a DEF Byte
    <2>0. enc[1] \in Byte /\ enc[2] \in Byte /\ enc[3] \in Byte
      BY <1>2, <2>b, SmallBytes, Zenon
    <2>1. i = 1 \/ i = 2 \/ i = 3
      OBVIOUS
    <2> QED
      BY <2>0, <2>1
  <1>4. enc \in Seq(Byte)
    <2>1. 3 \in Nat
      OBVIOUS
    <2> QED
      BY <1>2, <1>3, <2>1, IntsAreBytes
  <1> QED
    BY <1>2, <1>4 DEF enc

LEMMA TogetherWritten ==
  ASSUME NEW x \in Seq(Byte), NEW y \in Seq(Byte)
  PROVE  x \o y \in Seq(Byte) /\ Len(x \o y) = Len(x) + Len(y)
  BY ConcatProperties

\* What of a message is needed below: bytes, not too many, and what they mean.
Told(payload, event) ==
  /\ payload \in Seq(Byte) /\ Len(payload) \in 1 .. 126
  /\ DecodeAndDispatch(payload) = <<event>>

CarSeen(k) == [kind |-> "carDetected", uid |-> Uid(k), mattelId |-> <<>>]
SpeedSeen(raw) == [kind |-> "speed", raw |-> raw]
EventOf(kind, k) ==
  IF kind = "carOn" THEN CarSeen(k)
  ELSE IF kind = "driveBy" THEN SpeedSeen(Raw(<<k, 0, 0, 63>>))
  ELSE SpeedSeen([f32 |-> Zeros(4), gap |-> k])

LEMMA TellsCar ==
  ASSUME NEW k \in Byte
  PROVE  Told(EncodeBytesField(2, EncodeVarintField(1, 2) \o EncodeBytesField(2, EncodeBytesField(1, <<4>> \o Uid(k)))),
              CarSeen(k))
  <1> DEFINE v == <<4>> \o Uid(k)
             w == EncodeBytesField(1, v)
             x == EncodeVarintField(1, 2)
             y == EncodeBytesField(2, w)
             event == x \o y
             payload == EncodeBytesField(2, event)
  <1>0. 1 \in 1 .. 15 /\ 2 \in 1 .. 15 /\ 2 \in 0 .. 127 /\ 7 \in 0 .. 127 /\ 9 \in 0 .. 127 /\ 13 \in 0 .. 127
    OBVIOUS
  <1>1. /\ v \in Seq(Byte) /\ Len(v) = 7
        /\ Detected([tagUid |-> v, carNdefData |-> <<>>]) = CarSeen(k)
    BY CarOn DEF CarSeen
  <1> HIDE DEF v
  <1>2. w \in Seq(Byte) /\ Len(w) = 9
    <2>1. w \in Seq(Byte) /\ Len(w) = Len(v) + 2
      BY <1>0, <1>1, BytesWritten, Zenon
    <2> QED
      BY <1>1, <2>1
  <1>3. ParseCarInfo(w) = [tagUid |-> v, carNdefData |-> <<>>]
    BY <1>0, <1>1, BytesAreInts, ParsesTag, Zenon
  <1> HIDE DEF w
  <1>4. x \in Seq(Byte) /\ Len(x) = 2
    BY <1>0, LowWritten, Zenon
  <1>5. y \in Seq(Byte) /\ Len(y) = 11
    <2>1. y \in Seq(Byte) /\ Len(y) = Len(w) + 2
      BY <1>0, <1>2, BytesWritten, Zenon
    <2> QED
      BY <1>2, <2>1
  <1>6. event \in Seq(Byte) /\ Len(event) = 13
    <2> HIDE DEF x, y
    <2>1. event \in Seq(Byte) /\ Len(event) = Len(x) + Len(y)
      BY <1>4, <1>5, TogetherWritten, Zenon
    <2> QED
      BY <1>4, <1>5, <2>1
  <1>7. ParseEvent(event) = [type |-> 2, carInfo |-> <<ParseCarInfo(w)>>, speedMeasurement |-> <<>>]
    BY <1>0, <1>2, BytesAreInts, ParsesCar, Zenon
  <1> HIDE DEF event
  <1>8. payload \in Seq(Byte) /\ Len(payload) = 15
    <2>1. payload \in Seq(Byte) /\ Len(payload) = Len(event) + 2
      BY <1>0, <1>6, BytesWritten, Zenon
    <2> QED
      BY <1>6, <2>1
  <1>9. ParseMessage(payload) = <<ParseEvent(event)>>
    BY <1>0, <1>6, BytesAreInts, ParsesMessage, Zenon
  <1> HIDE DEF payload
  <1> DEFINE c == [tagUid |-> v, carNdefData |-> <<>>]
  <1>10. Len(c.tagUid) >= 7
    <2>1. c.tagUid = v
      OBVIOUS
    <2> HIDE DEF c
    <2>2. Len(c.tagUid) = 7
      BY <1>1, <2>1
    <2> QED
      BY <2>2
  <1> HIDE DEF c
  <1>11. MpidToPortalEvents([type |-> 2, carInfo |-> <<c>>, speedMeasurement |-> <<>>]) = <<Detected(c)>>
    BY <1>10, CarEvents, Zenon
  <1>12. DecodeAndDispatch(payload) = <<CarSeen(k)>>
    <2>1. ParseEvent(event) = [type |-> 2, carInfo |-> <<c>>, speedMeasurement |-> <<>>]
      BY <1>3, <1>7 DEF c
    <2>2. MpidToPortalEvents(ParseEvent(event)) = <<CarSeen(k)>>
      BY <1>1, <1>11, <2>1 DEF c
    <2> QED
      BY <1>9, <2>2, Dispatches
  <1>13. Told(payload, CarSeen(k))
    BY <1>8, <1>12 DEF Told
  <1> QED
    BY <1>13, Zenon DEF payload, event, w, v

\* A drive-by, whatever its measurement says.
LEMMA TellsSpeed ==
  ASSUME NEW n \in 0 .. 15, NEW v \in Seq(Byte), Len(v) = n
  PROVE  Told(EncodeBytesField(2, EncodeVarintField(1, 4) \o EncodeBytesField(3, v)),
              SpeedSeen(SpeedOf(ParseSpeedMeasurement(v))))
  <1> DEFINE x == EncodeVarintField(1, 4)
             y == EncodeBytesField(3, v)
             event == x \o y
             payload == EncodeBytesField(2, event)
  <1>0. 1 \in 1 .. 15 /\ 2 \in 1 .. 15 /\ 3 \in 1 .. 15 /\ 4 \in 0 .. 127 /\ n \in 0 .. 127 /\ n + 4 \in 0 .. 127
    OBVIOUS
  <1>1. x \in Seq(Byte) /\ Len(x) = 2
    BY <1>0, LowWritten, Zenon
  <1>2. y \in Seq(Byte) /\ Len(y) = n + 2
    BY <1>0, BytesWritten, Zenon
  <1>3. event \in Seq(Byte) /\ Len(event) = n + 4
    <2> HIDE DEF x, y
    <2>1. event \in Seq(Byte) /\ Len(event) = Len(x) + Len(y)
      BY <1>1, <1>2, TogetherWritten, Zenon
    <2> QED
      BY <1>1, <1>2, <2>1
  <1> DEFINE sm == ParseSpeedMeasurement(v)
  <1> HIDE DEF sm
  <1>4. ParseEvent(event) = [type |-> 4, carInfo |-> <<>>, speedMeasurement |-> <<sm>>]
    BY <1>0, BytesAreInts, ParsesSpeed, Zenon DEF sm
  <1> HIDE DEF event
  <1>5. payload \in Seq(Byte) /\ Len(payload) = Len(event) + 2
    BY <1>0, <1>3, BytesWritten, Zenon
  <1>6. ParseMessage(payload) = <<ParseEvent(event)>>
    BY <1>0, <1>3, BytesAreInts, ParsesMessage, Zenon
  <1> HIDE DEF payload
  <1>7. MpidToPortalEvents([type |-> 4, carInfo |-> <<>>, speedMeasurement |-> <<sm>>]) = <<SpeedSeen(SpeedOf(sm))>>
    BY SpeedEvents DEF SpeedSeen
  <1>8. DecodeAndDispatch(payload) = <<SpeedSeen(SpeedOf(sm))>>
    BY <1>4, <1>6, <1>7, Dispatches
  <1>9. Told(payload, SpeedSeen(SpeedOf(sm)))
    BY <1>3, <1>5, <1>8 DEF Told
  <1> QED
    BY <1>9, Zenon DEF payload, event, sm

\* A message of the portal's is read as what it means.
LEMMA SaysWhatItMeans ==
  ASSUME NEW kind \in Kinds, NEW k \in 1 .. MaxFrames
  PROVE  \/ Payload(kind, k) = <<>> /\ Says(kind, k).means = <<>>
         \/ Told(Payload(kind, k), EventOf(kind, k)) /\ Says(kind, k).means = <<EventOf(kind, k)>>
  <1>0. k \in 1 .. 255 /\ k \in Byte
    <2>1. MaxFrames \in 1 .. 255
      BY BoundsAssumption
    <2> QED
      BY <2>1 DEF Byte
  <1>1. kind \in {"carOn", "driveBy", "gates", "empty"}
    BY KindsAssumption
  <1>2. CASE kind = "empty"
    BY <1>2 DEF Payload, Says
  <1>3. CASE kind = "carOn"
    <2>1. Payload(kind, k) =
            EncodeBytesField(2, EncodeVarintField(1, 2) \o EncodeBytesField(2, EncodeBytesField(1, <<4>> \o Uid(k))))
      BY <1>3 DEF Payload, Says, CAR_ON_PORTAL
    <2>2. EventOf(kind, k) = CarSeen(k) /\ Says(kind, k).means = <<CarSeen(k)>>
      BY <1>3 DEF EventOf, CarSeen, Says
    <2> QED
      BY <1>0, <2>1, <2>2, TellsCar
  <1>4. CASE kind = "driveBy"
    <2> DEFINE v == <<21, k, 0, 0, 63>>
               p == EncodeBytesField(2, EncodeVarintField(1, 4) \o EncodeBytesField(3, v))
    <2>1. Payload(kind, k) = p
      BY <1>4 DEF Payload, Says, CAR_DRIVE_BY
    <2>2. EventOf(kind, k) = SpeedSeen(Raw(<<k, 0, 0, 63>>)) /\ Says(kind, k).means = <<SpeedSeen(Raw(<<k, 0, 0, 63>>))>>
      BY <1>4 DEF EventOf, SpeedSeen, Says
    <2>3. v \in Seq(Byte) /\ Len(v) = 5 /\ SpeedOf(ParseSpeedMeasurement(v)) = Raw(<<k, 0, 0, 63>>)
      BY <1>0, DriveBy
    <2> HIDE DEF v
    <2>4. Told(p, SpeedSeen(SpeedOf(ParseSpeedMeasurement(v))))
      <3>1. 5 \in 0 .. 15
        OBVIOUS
      <3> QED
        BY <2>3, <3>1, TellsSpeed, Zenon
    <2> HIDE DEF p
    <2> QED
      BY <2>1, <2>2, <2>3, <2>4
  <1>5. CASE kind = "gates"
    <2> DEFINE x == EncodeVarintField(3, 300)
               y == EncodeVarintField(5, 300 + k)
               v == x \o y
               p == EncodeBytesField(2, EncodeVarintField(1, 4) \o EncodeBytesField(3, v))
               raw == [f32 |-> Zeros(4), gap |-> k]
    <2>1. Payload(kind, k) = p
      BY <1>5 DEF Payload, Says, CAR_DRIVE_BY
    <2>2. EventOf(kind, k) = SpeedSeen(raw) /\ Says(kind, k).means = <<SpeedSeen(raw)>>
      BY <1>5 DEF EventOf, SpeedSeen, Says
    <2>3. SpeedOf(ParseSpeedMeasurement(v)) = raw
      BY <1>0, Gates
    <2>4. v \in Seq(Byte) /\ Len(v) = 6
      <3>1. 3 \in 1 .. 15 /\ 5 \in 1 .. 15 /\ 300 \in TwoGroups /\ 300 + k \in TwoGroups
        BY <1>0 DEF TwoGroups
      <3>2. x \in Seq(Byte) /\ Len(x) = 3 /\ y \in Seq(Byte) /\ Len(y) = 3
        BY <3>1, LongWritten
      <3> HIDE DEF x, y
      <3>3. v \in Seq(Byte) /\ Len(v) = Len(x) + Len(y)
        BY <3>2, TogetherWritten
      <3> QED
        BY <3>2, <3>3
    <2> HIDE DEF v
    <2>5. Told(p, SpeedSeen(SpeedOf(ParseSpeedMeasurement(v))))
      <3>1. 6 \in 0 .. 15
        OBVIOUS
      <3> QED
        BY <2>4, <3>1, TellsSpeed, Zenon
    <2> HIDE DEF p, raw
    <2> QED
      BY <2>1, <2>2, <2>3, <2>5
  <1> QED
    BY <1>1, <1>2, <1>3, <1>4, <1>5

\* No two of its events are the same.
LEMMA EventsDiffer ==
  ASSUME NEW one, NEW k \in Int, NEW other, NEW m \in Int, EventOf(one, k) = EventOf(other, m)
  PROVE  k = m
  <1>1. CarSeen(k) = CarSeen(m) => k = m
    <2>1. CarSeen(k).uid[6] = k /\ CarSeen(m).uid[6] = m
      BY DEF CarSeen, Uid
    <2> QED
      BY <2>1
  <1>2. \A raw : CarSeen(k) # SpeedSeen(raw) /\ CarSeen(m) # SpeedSeen(raw)
    BY DEF CarSeen, SpeedSeen
  <1>3. \A raw, raw2 : SpeedSeen(raw) = SpeedSeen(raw2) => raw = raw2
    BY DEF SpeedSeen
  <1> DEFINE A(n) == Raw(<<n, 0, 0, 63>>)
             B(n) == [f32 |-> Zeros(4), gap |-> n]
  <1>4. A(k) = A(m) => k = m
    <2>1. A(k).f32[1] = k /\ A(m).f32[1] = m
      BY DEF Raw
    <2> QED
      BY <2>1
  <1>5. A(k) # B(m) /\ A(m) # B(k)
    <2>1. A(k).f32[4] = 63 /\ A(m).f32[4] = 63
      BY DEF Raw
    <2>2. B(k).f32[4] = 0 /\ B(m).f32[4] = 0
      BY DEF Zeros
    <2> QED
      BY <2>1, <2>2
  <1>6. B(k) = B(m) => k = m
    <2>1. B(k).gap = k /\ B(m).gap = m
      OBVIOUS
    <2> QED
      BY <2>1
  <1>7. /\ EventOf(one, k) \in {CarSeen(k), SpeedSeen(A(k)), SpeedSeen(B(k))}
        /\ EventOf(other, m) \in {CarSeen(m), SpeedSeen(A(m)), SpeedSeen(B(m))}
    BY DEF EventOf
  <1> HIDE DEF A, B
  <1> QED
    BY <1>1, <1>2, <1>3, <1>4, <1>5, <1>6, <1>7

-----------------------------------------------------------------------------
(* A packet.                                                                *)

Highs(n, high) == high = [k \in Nat |-> IF k = 0 THEN n ELSE high[k - 1] \div 256]

BytesFrom(high, n, width) ==
  /\ high \in [Nat -> Nat]
  /\ high[0] = n /\ \A k \in Nat : high[k + 1] = high[k] \div 256
  /\ Bytes(n, width) = [i \in 1 .. width |-> high[width - i] % 256]

LEMMA BytesIs ==
  ASSUME NEW n \in Nat, NEW width \in Nat
  PROVE  \E high : BytesFrom(high, n, width)
  <1> DEFINE step == [x \in Nat \X Nat |-> x[2] \div 256]
  <1>1. \A m \in Nat : m \div 256 \in Nat
    OBVIOUS
  <1>2. step \in [Nat \X Nat -> Nat]
    BY <1>1
  <1>3. PICK f : Steps(f, Nat, n, step)
    <2> HIDE DEF step
    <2> QED
      BY <1>2, Recursion
  <1>4. f \in [Nat -> Nat] /\ f[0] = n /\ \A k \in Nat : f[k + 1] = f[k] \div 256
    <2>1. f \in [Nat -> Nat] /\ f[0] = n /\ \A k \in Nat : f[k + 1] = step[<<k, f[k]>>]
      BY <1>3 DEF Steps
    <2>2. ASSUME NEW k \in Nat PROVE f[k + 1] = f[k] \div 256
      <3>1. <<k, f[k]>> \in Nat \X Nat /\ <<k, f[k]>>[2] = f[k]
        BY <2>1
      <3> QED
        BY <2>1, <3>1
    <2> QED
      BY <2>1, <2>2
  <1>5. Highs(n, f)
    <2>1. f = [k \in Nat |-> f[k]]
      BY <1>4
    <2>2. ASSUME NEW k \in Nat PROVE f[k] = IF k = 0 THEN n ELSE f[k - 1] \div 256
      <3>1. CASE k = 0
        BY <1>4, <3>1
      <3>2. CASE k # 0
        <4>1. PICK m \in Nat : m = k - 1 /\ k = m + 1
          <5>1. k - 1 \in Nat /\ k = (k - 1) + 1
            BY <3>2
          <5> QED
            BY <5>1
        <4>2. f[m + 1] = f[m] \div 256
          BY <1>4
        <4> QED
          BY <3>2, <4>1, <4>2
      <3> QED
        BY <3>1, <3>2
    <2> QED
      BY <2>1, <2>2 DEF Highs
  <1>6. PICK high : Highs(n, high) /\ Bytes(n, width) = [i \in 1 .. width |-> high[width - i] % 256]
    <2>1. \E high : Highs(n, high)
      BY <1>5
    <2> QED
      BY <2>1 DEF Bytes, Highs
  <1>7. \A k \in Nat : high[k] = IF k = 0 THEN n ELSE high[k - 1] \div 256
    BY <1>6 DEF Highs
  <1>8. high[0] = n /\ \A k \in Nat : high[k + 1] = high[k] \div 256
    <2>1. high[0] = n
      BY <1>7
    <2>2. ASSUME NEW k \in Nat PROVE high[k + 1] = high[k] \div 256
      <3>1. k + 1 \in Nat /\ k + 1 # 0 /\ (k + 1) - 1 = k
        OBVIOUS
      <3> QED
        BY <1>7, <3>1
    <2> QED
      BY <2>1, <2>2
  <1>9. \A k \in Nat : high[k] \in Nat
    <2> DEFINE P == {k \in Nat : high[k] \in Nat}
    <2>1. 0 \in P
      BY <1>8
    <2>2. \A k \in Nat : k \in P => k + 1 \in P
      BY <1>1, <1>8
    <2>3. Nat \subseteq P
      <3> HIDE DEF P
      <3> QED
        BY <2>1, <2>2, Onward
    <2> QED
      BY <2>3
  <1>10. high \in [Nat -> Nat]
    <2>1. high = [k \in Nat |-> high[k]]
      BY <1>6 DEF Highs
    <2> QED
      BY <1>9, <2>1
  <1> QED
    BY <1>6, <1>8, <1>10 DEF BytesFrom

LEMMA BytesType ==
  ASSUME NEW n \in Nat, NEW width \in Nat
  PROVE  Bytes(n, width) \in Seq(Byte) /\ Len(Bytes(n, width)) = width
  <1>0. PICK high : BytesFrom(high, n, width)
    BY BytesIs
  <1>1. high \in [Nat -> Nat] /\ Bytes(n, width) = [i \in 1 .. width |-> high[width - i] % 256]
    BY <1>0 DEF BytesFrom
  <1>2. ASSUME NEW i \in 1 .. width PROVE high[width - i] % 256 \in Byte
    <2>1. width - i \in Nat
      OBVIOUS
    <2>4. high[width - i] \in Nat
      BY <1>1, <2>1
    <2>2. PICK m \in Nat : m = high[width - i]
      BY <2>4
    <2>3. m % 256 \in 0 .. 255
      OBVIOUS
    <2> QED
      BY <2>2, <2>3 DEF Byte
  <1>3. Bytes(n, width) \in [1 .. width -> Byte]
    BY <1>1, <1>2
  <1> QED
    BY <1>3

LEMMA TwoBytes ==
  ASSUME NEW n \in Byte
  PROVE  Bytes(n, 2)[1] * 256 + Bytes(n, 2)[2] = n
  <1>0. n \in Nat /\ 2 \in Nat /\ n \div 256 = 0 /\ n % 256 = n /\ 0 % 256 = 0 /\ 0 * 256 + n = n
    BY DEF Byte
  <1>4. PICK high : BytesFrom(high, n, 2)
    <2>1. n \in Nat /\ 2 \in Nat
      BY DEF Byte
    <2> QED
      BY <2>1, BytesIs
  <1>1. /\ high \in [Nat -> Nat]
        /\ high[0] = n /\ \A k \in Nat : high[k + 1] = high[k] \div 256
        /\ Bytes(n, 2) = [i \in 1 .. 2 |-> high[2 - i] % 256]
    BY <1>4 DEF BytesFrom
  <1>2. high[1] = 0
    <2>1. high[0 + 1] = high[0] \div 256
      BY <1>1
    <2>2. 0 + 1 = 1
      OBVIOUS
    <2> QED
      BY <1>0, <1>1, <2>1, <2>2
  <1>3. Bytes(n, 2)[1] = high[1] % 256 /\ Bytes(n, 2)[2] = high[0] % 256
    <2>1. 1 \in 1 .. 2 /\ 2 \in 1 .. 2 /\ 2 - 1 = 1 /\ 2 - 2 = 0
      OBVIOUS
    <2> QED
      BY <1>1, <2>1
  <1> QED
    BY <1>0, <1>1, <1>2, <1>3


\* A number's byte is deciphered as it was enciphered.
LEMMA Deciphered ==
  ASSUME NEW key \in Byte, NEW b \in Byte
  PROVE  (key - b) % 256 \in Byte /\ (key - ((key - b) % 256)) % 256 = b
  BY DEF Byte

LEMMA Unveiled ==
  ASSUME NEW x
  PROVE  /\ SymDiff({}, {x}) = {x} /\ SymDiff({x}, {x}) = {}
         /\ \A veil : SymDiff(veil, {x}) = {} => veil = {x}
  BY DEF SymDiff

Packets == Sessions \X Kinds \X (1 .. MaxFrames)

LEMMA FrameIs ==
  ASSUME NEW f \in Packets
  PROVE  f \in DOMAIN Frame /\ Frame[f] = EncryptPacket(f[1], f[3], PeerSalt, Salt(f[1]), Payload(f[2], f[3]))
  BY DEF Frame, Packets

\* Sequences of what comes: of their elements.
IsSeq(x, m) == m \in Nat /\ x = [i \in 1 .. m |-> x[i]]

LEMMA SeqOfThem ==
  ASSUME NEW x, NEW m, IsSeq(x, m), NEW S, \A i \in 1 .. m : x[i] \in S
  PROVE  x \in Seq(S) /\ Len(x) = m /\ DOMAIN x = 1 .. m
  <1>1. x \in [1 .. m -> S] /\ m \in Nat /\ DOMAIN x = 1 .. m
    BY DEF IsSeq
  <1> QED
    BY <1>1

LEMMA SeqIsSeq ==
  ASSUME NEW S, NEW x \in Seq(S)
  PROVE  IsSeq(x, Len(x))
  BY LenProperties DEF IsSeq

LEMMA JoinsThem ==
  ASSUME NEW x, NEW m, IsSeq(x, m), NEW y, NEW n, IsSeq(y, n)
  PROVE  IsSeq(x \o y, m + n) /\ Joined(x \o y, x, m, y, n)
  <1> DEFINE S == {x[i] : i \in 1 .. m} \cup {y[i] : i \in 1 .. n}
             t == x \o y
  <1>0. m \in Nat /\ n \in Nat /\ m + n \in Nat
    BY DEF IsSeq
  <1>1. x \in Seq(S) /\ Len(x) = m
    <2>1. \A i \in 1 .. m : x[i] \in S
      OBVIOUS
    <2> HIDE DEF S
    <2> QED
      BY <2>1, SeqOfThem
  <1>2. y \in Seq(S) /\ Len(y) = n
    <2>1. \A i \in 1 .. n : y[i] \in S
      OBVIOUS
    <2> HIDE DEF S
    <2> QED
      BY <2>1, SeqOfThem
  <1> HIDE DEF S
  <1>3. t \in Seq(S) /\ Joined(t, x, m, y, n)
    BY <1>1, <1>2, Joins
  <1> HIDE DEF t
  <1>4. Len(t) = m + n
    BY <1>3 DEF Joined
  <1>5. IsSeq(t, m + n)
    BY <1>3, <1>4, SeqIsSeq
  <1> QED
    BY <1>3, <1>5 DEF t

Grown(t, x, m, e) ==
  IsSeq(t, m + 1) /\ t[m + 1] = e /\ \A i \in 1 .. m : t[i] = x[i]

LEMMA AppendsOne ==
  ASSUME NEW x, NEW m, NEW e, IsSeq(x, m)
  PROVE  Grown(Append(x, e), x, m, e)
  <1> DEFINE S == {x[i] : i \in 1 .. m} \cup {e}
             t == Append(x, e)
  <1>0. m \in Nat
    BY DEF IsSeq
  <1>1. x \in Seq(S) /\ Len(x) = m /\ e \in S
    <2>1. \A i \in 1 .. m : x[i] \in S
      OBVIOUS
    <2>2. e \in S
      OBVIOUS
    <2> HIDE DEF S
    <2> QED
      BY <2>1, <2>2, SeqOfThem
  <1> HIDE DEF S
  <1>2. /\ t \in Seq(S) /\ Len(t) = m + 1 /\ t[m + 1] = e
        /\ \A i \in 1 .. m : t[i] = x[i]
    BY <1>0, <1>1, AppendProperties
  <1> HIDE DEF t
  <1>3. IsSeq(t, m + 1)
    BY <1>2, SeqIsSeq
  <1> QED
    BY <1>2, <1>3 DEF t, Grown

LEMMA SlicesThem ==
  ASSUME NEW x, NEW m, IsSeq(x, m), NEW a \in 1 .. m + 1, NEW b \in a - 1 .. m
  PROVE  IsSeq(SubSeq(x, a, b), (b - a) + 1) /\ \A i \in 1 .. (b - a) + 1 : SubSeq(x, a, b)[i] = x[a + i - 1]
  <1>0. m \in Nat /\ a \in Nat /\ b \in Int /\ (b - a) + 1 \in Nat
    BY DEF IsSeq
  <1> DEFINE S == {x[i] : i \in 1 .. m}
  <1>1. x \in Seq(S) /\ Len(x) = m
    <2>1. \A i \in 1 .. m : x[i] \in S
      OBVIOUS
    <2> HIDE DEF S
    <2> QED
      BY <2>1, SeqOfThem
  <1> HIDE DEF S
  <1>2. SubSeq(x, a, b) = [i \in 1 .. (b - a) + 1 |-> x[a + i - 1]]
    <2>1. SubSeq(x, a, b) = [i \in 1 .. (1 + b - a) |-> x[a + i - 1]]
      OBVIOUS
    <2>2. 1 + b - a = (b - a) + 1
      BY <1>0
    <2> QED
      BY <2>1, <2>2
  <1> QED
    BY <1>0, <1>2 DEF IsSeq

-----------------------------------------------------------------------------
(* The frames there are.                                                    *)

Said(f)     == Payload(f[2], f[3])
BodyLen(f)  == IF Said(f) = <<>> THEN 0 ELSE Len(Said(f)) + 1
HeadOf(f)   == OnWire(<<PREAMBLE>> \o Bytes(f[3], 4) \o Bytes(BodyLen(f), 2))
IvOf(f)     == MakeIv(Bytes(f[3], 4), PeerSalt, Salt(f[1]))
Octet(x)    == \E b \in Byte : x = Plain(b)
BodyCrc(f)  == [byte |-> None, of |-> OnWire(Said(f)), veil |-> {<<f[1], IvOf(f), BodyLen(f)>>}]

LEMMA PacketsAre ==
  ASSUME NEW f \in Packets
  PROVE  /\ f[1] \in Sessions /\ f[2] \in Kinds /\ f[3] \in 1 .. MaxFrames
         /\ f[3] \in Byte /\ f[1] \in Nat /\ f[3] \in Nat
  <1>1. f[1] \in Sessions /\ f[2] \in Kinds /\ f[3] \in 1 .. MaxFrames
    BY DEF Packets
  <1>2. MaxFrames \in 1 .. 255
    BY BoundsAssumption
  <1> QED
    BY <1>1, <1>2 DEF Byte, Sessions

LEMMA SaidIs ==
  ASSUME NEW f \in Packets
  PROVE  /\ Said(f) \in Seq(Byte) /\ Len(Said(f)) \in 0 .. 126
         /\ BodyLen(f) \in 0 .. 127 /\ (BodyLen(f) = 0 <=> Said(f) = <<>>)
         /\ BodyLen(f) > 0 => BodyLen(f) = Len(Said(f)) + 1
  <1>1. Said(f) = <<>> \/ Told(Said(f), EventOf(f[2], f[3]))
    BY PacketsAre, SaysWhatItMeans DEF Said
  <1>2. CASE Said(f) = <<>>
    BY <1>2 DEF BodyLen
  <1>3. CASE Said(f) # <<>>
    <2>1. Said(f) \in Seq(Byte) /\ Len(Said(f)) \in 1 .. 126
      BY <1>1, <1>3 DEF Told
    <2>2. BodyLen(f) = Len(Said(f)) + 1
      BY <1>3 DEF BodyLen
    <2>3. PICK n \in 1 .. 126 : n = Len(Said(f))
      BY <2>1
    <2>4. n + 1 \in 0 .. 127 /\ n + 1 # 0 /\ n \in 0 .. 126
      OBVIOUS
    <2>5. BodyLen(f) = n + 1
      BY <2>2, <2>3
    <2> QED
      BY <1>3, <2>1, <2>3, <2>4, <2>5
  <1> QED
    BY <1>2, <1>3

LEMMA OnWireIs ==
  ASSUME NEW bytes \in Seq(Byte)
  PROVE  /\ IsSeq(OnWire(bytes), Len(bytes))
         /\ \A i \in 1 .. Len(bytes) : OnWire(bytes)[i] = Plain(bytes[i]) /\ bytes[i] \in Byte
         /\ BytesOf(OnWire(bytes)) = bytes
  <1>1. DOMAIN bytes = 1 .. Len(bytes) /\ Len(bytes) \in Nat /\ bytes = [i \in 1 .. Len(bytes) |-> bytes[i]]
    BY LenProperties
  <1>2. OnWire(bytes) = [i \in 1 .. Len(bytes) |-> Plain(bytes[i])]
    BY <1>1 DEF OnWire
  <1>3. BytesOf(OnWire(bytes)) = [i \in 1 .. Len(bytes) |-> Plain(bytes[i]).byte]
    BY <1>2 DEF BytesOf
  <1>4. \A i \in 1 .. Len(bytes) : Plain(bytes[i]).byte = bytes[i]
    BY DEF Plain
  <1> QED
    BY <1>1, <1>2, <1>3, <1>4 DEF IsSeq

\* The seven bytes of a header.
HeaderBytes(h, f) ==
  /\ h \in Seq(Byte) /\ Len(h) = 7 /\ h[1] = 126
  /\ \A i \in 1 .. 4 : h[1 + i] = Bytes(f[3], 4)[i]
  /\ h[6] * 256 + h[7] = BodyLen(f)

LEMMA HeaderIs ==
  ASSUME NEW f \in Packets
  PROVE  \E h : HeaderBytes(h, f) /\ HeadOf(f) = OnWire(h)
  <1> DEFINE x == <<PREAMBLE>>
             y == Bytes(f[3], 4)
             z == Bytes(BodyLen(f), 2)
             h == x \o y \o z
  <1>1. x \in Seq(Byte) /\ Len(x) = 1 /\ x[1] = 126
    BY DEF PREAMBLE, Byte
  <1>2. y \in Seq(Byte) /\ Len(y) = 4
    BY PacketsAre, BytesType
  <1>3. z \in Seq(Byte) /\ Len(z) = 2 /\ z[1] * 256 + z[2] = BodyLen(f)
    <2>0. BodyLen(f) \in 0 .. 127
      BY SaidIs
    <2>1. BodyLen(f) \in Byte /\ BodyLen(f) \in Nat
      BY <2>0 DEF Byte
    <2> QED
      BY <2>1, BytesType, TwoBytes
  <1> DEFINE xy == x \o y
  <1>4. HeadOf(f) = OnWire(xy \o z)
    BY DEF HeadOf
  <1> HIDE DEF x, y, z
  <1>5. xy \in Seq(Byte) /\ Joined(xy, x, 1, y, 4)
    <2>1. xy \in Seq(Byte) /\ Joined(xy, x, Len(x), y, Len(y))
      BY <1>1, <1>2, Joins
    <2> QED
      BY <1>1, <1>2, <2>1, Zenon
  <1> HIDE DEF xy
  <1>6. Len(xy) = 5 /\ xy[1] = 126 /\ \A i \in 1 .. 4 : xy[1 + i] = y[i]
    <2>1. 1 \in 1 .. 1
      OBVIOUS
    <2> QED
      BY <1>1, <1>5, <2>1 DEF Joined
  <1> DEFINE t == xy \o z
  <1>7. t \in Seq(Byte) /\ Joined(t, xy, 5, z, 2)
    <2>1. t \in Seq(Byte) /\ Joined(t, xy, Len(xy), z, Len(z))
      BY <1>3, <1>5, Joins
    <2> QED
      BY <1>3, <1>6, <2>1, Zenon
  <1> HIDE DEF t
  <1>8. Len(t) = 7 /\ (\A i \in 1 .. 5 : t[i] = xy[i]) /\ t[6] = z[1] /\ t[7] = z[2]
    <2>1. 1 \in 1 .. 2 /\ 2 \in 1 .. 2 /\ 5 + 1 = 6 /\ 5 + 2 = 7
      OBVIOUS
    <2> QED
      BY <1>7, <2>1 DEF Joined
  <1>9. t[1] = 126 /\ \A i \in 1 .. 4 : t[1 + i] = y[i]
    BY <1>6, <1>8
  <1>10. HeaderBytes(t, f)
    BY <1>3, <1>7, <1>8, <1>9 DEF HeaderBytes, y
  <1> QED
    BY <1>4, <1>10 DEF t

Fronts(F, f) ==
  /\ F[1] = Plain(126) /\ \A i \in 1 .. 7 : Octet(F[i])
  /\ Plen(F) = BodyLen(f)
  /\ SubSeq(F, 1, 7) = HeadOf(f) /\ F[8] = Crc8(HeadOf(f))
  /\ BytesOf(SubSeq(F, 2, 5)) = Bytes(f[3], 4)
Veiled(f, i) == Plain((Keystream(f[1], IvOf(f), i) - Said(f)[i]) % 256)
Bodies(F, f) ==
  /\ \A i \in 1 .. BodyLen(f) - 1 : F[8 + i] = Veiled(f, i)
  /\ BodyLen(f) > 0 => F[8 + BodyLen(f)] = BodyCrc(f)

LEMMA HeaderFronts ==
  ASSUME NEW f \in Packets, NEW F, NEW m, IsSeq(F, m), m \in Nat, m >= 8,
         \A i \in 1 .. 7 : F[i] = HeadOf(f)[i], F[8] = Crc8(HeadOf(f))
  PROVE  Fronts(F, f)
  <1>1. PICK h : HeaderBytes(h, f) /\ HeadOf(f) = OnWire(h)
    BY HeaderIs
  <1>2. h \in Seq(Byte) /\ Len(h) = 7
    BY <1>1 DEF HeaderBytes
  <1>3. IsSeq(OnWire(h), 7) /\ \A i \in 1 .. 7 : OnWire(h)[i] = Plain(h[i]) /\ h[i] \in Byte
    <2>1. /\ IsSeq(OnWire(h), Len(h))
          /\ \A i \in 1 .. Len(h) : OnWire(h)[i] = Plain(h[i]) /\ h[i] \in Byte
      BY <1>2, OnWireIs
    <2> QED
      BY <1>2, <2>1, Zenon
  <1>4. \A i \in 1 .. 7 : F[i] = Plain(h[i]) /\ h[i] \in Byte /\ F[i].byte = h[i]
    <2> SUFFICES ASSUME NEW i \in 1 .. 7 PROVE F[i] = Plain(h[i]) /\ h[i] \in Byte /\ F[i].byte = h[i]
      OBVIOUS
    <2>1. F[i] = Plain(h[i]) /\ h[i] \in Byte
      BY <1>1, <1>3, Zenon
    <2>2. Plain(h[i]).byte = h[i]
      BY DEF Plain
    <2> QED
      BY <2>1, <2>2
  <1>5. F[1] = Plain(126)
    BY <1>1, <1>4 DEF HeaderBytes
  <1>6. \A i \in 1 .. 7 : Octet(F[i])
    BY <1>4 DEF Octet
  <1>7. Plen(F) = BodyLen(f)
    BY <1>1, <1>4 DEF HeaderBytes, Plen
  <1>8. SubSeq(F, 1, 7) = HeadOf(f)
    <2> DEFINE t == SubSeq(F, 1, 7)
    <2>1. IsSeq(t, 7) /\ \A i \in 1 .. 7 : t[i] = F[i]
      <3>1. 1 \in 1 .. m + 1 /\ 7 \in 1 - 1 .. m
        OBVIOUS
      <3>2. IsSeq(t, (7 - 1) + 1) /\ \A i \in 1 .. (7 - 1) + 1 : t[i] = F[1 + i - 1]
        BY <3>1, SlicesThem
      <3>3. (7 - 1) + 1 = 7 /\ \A i \in 1 .. 7 : 1 + i - 1 = i
        OBVIOUS
      <3> QED
        BY <3>2, <3>3
    <2> HIDE DEF t
    <2>2. t = [i \in 1 .. 7 |-> t[i]] /\ OnWire(h) = [i \in 1 .. 7 |-> OnWire(h)[i]]
      BY <1>3, <2>1 DEF IsSeq
    <2>3. \A i \in 1 .. 7 : t[i] = OnWire(h)[i]
      BY <1>3, <1>4, <2>1
    <2> QED
      BY <1>1, <2>2, <2>3 DEF t
  <1>9. BytesOf(SubSeq(F, 2, 5)) = Bytes(f[3], 4)
    <2> DEFINE t == SubSeq(F, 2, 5)
               y == Bytes(f[3], 4)
    <2>1. IsSeq(t, 4) /\ \A i \in 1 .. 4 : t[i] = F[1 + i]
      <3>1. 2 \in 1 .. m + 1 /\ 5 \in 2 - 1 .. m
        OBVIOUS
      <3>2. IsSeq(t, (5 - 2) + 1) /\ \A i \in 1 .. (5 - 2) + 1 : t[i] = F[2 + i - 1]
        BY <3>1, SlicesThem
      <3>3. (5 - 2) + 1 = 4 /\ \A i \in 1 .. 4 : 2 + i - 1 = 1 + i
        OBVIOUS
      <3> QED
        BY <3>2, <3>3
    <2>2. y = [i \in 1 .. 4 |-> y[i]]
      <3>1. y \in Seq(Byte) /\ Len(y) = 4
        BY PacketsAre, BytesType
      <3> HIDE DEF y
      <3> QED
        BY <3>1
    <2>3. \A i \in 1 .. 4 : t[i].byte = y[i]
      <3>1. \A i \in 1 .. 4 : h[1 + i] = y[i]
        BY <1>1 DEF HeaderBytes
      <3> HIDE DEF t, y
      <3>2. \A i \in 1 .. 4 : 1 + i \in 1 .. 7
        OBVIOUS
      <3> QED
        BY <1>4, <2>1, <3>1, <3>2
    <2> HIDE DEF t, y
    <2>4. t = [i \in 1 .. 4 |-> t[i]]
      BY <2>1 DEF IsSeq
    <2>5. BytesOf(t) = [i \in 1 .. 4 |-> t[i].byte]
      BY <2>4 DEF BytesOf
    <2>6. BytesOf(t) = y
      BY <2>2, <2>3, <2>5
    <2> QED
      BY <2>6 DEF t, y
  <1> QED
    BY <1>5, <1>6, <1>7, <1>8, <1>9 DEF Fronts

LEMMA FrameShape ==
  ASSUME NEW f \in Packets
  PROVE  IsSeq(Frame[f], BodyLen(f) + 8) /\ Fronts(Frame[f], f) /\ Bodies(Frame[f], f)
  <1> DEFINE H == HeadOf(f)
             A == Append(H, Crc8(H))
             v == Said(f)
             n == BodyLen(f)
             W == Append(OnWire(v), Crc8(OnWire(v)))
             B == IF n = 0 THEN <<>> ELSE Aes128Ctr(f[1], IvOf(f), W)
             F == A \o B
  <1>1. Frame[f] = F
    BY FrameIs DEF EncryptPacket, HeadOf, Said, BodyLen, IvOf
  <1>2. IsSeq(H, 7)
    <2>1. PICK h : HeaderBytes(h, f) /\ HeadOf(f) = OnWire(h)
      BY HeaderIs
    <2>2. h \in Seq(Byte) /\ Len(h) = 7
      BY <2>1 DEF HeaderBytes
    <2>3. IsSeq(OnWire(h), Len(h))
      BY <2>2, OnWireIs
    <2> QED
      BY <2>1, <2>2, <2>3
  <1> HIDE DEF H
  <1>3. IsSeq(A, 8) /\ A[8] = Crc8(H) /\ \A i \in 1 .. 7 : A[i] = H[i]
    <2>0. PICK m, e : m = 7 /\ e = Crc8(H)
      OBVIOUS
    <2> DEFINE t == Append(H, e)
    <2>1. IsSeq(t, m + 1) /\ t[m + 1] = e /\ \A i \in 1 .. m : t[i] = H[i]
      <3>1. Grown(t, H, m, e)
        BY <1>2, <2>0, AppendsOne
      <3> QED
        BY <3>1 DEF Grown
    <2>2. m + 1 = 8 /\ A = t
      BY <2>0
    <2> HIDE DEF A, t
    <2> QED
      BY <2>0, <2>1, <2>2
  <1>4. v \in Seq(Byte) /\ Len(v) \in Nat /\ n \in Nat /\ (n > 0 => n = Len(v) + 1)
    <2>1. v \in Seq(Byte) /\ n \in 0 .. 127 /\ (n > 0 => n = Len(v) + 1)
      BY SaidIs
    <2>2. Len(v) \in Nat
      BY <2>1, LenProperties
    <2> HIDE DEF v, n
    <2> QED
      BY <2>1, <2>2
  <1>5. /\ IsSeq(W, Len(v) + 1) /\ W[Len(v) + 1] = Crc8(OnWire(v))
        /\ \A i \in 1 .. Len(v) : W[i] = Plain(v[i]) /\ v[i] \in Byte
    <2>1. IsSeq(OnWire(v), Len(v)) /\ \A i \in 1 .. Len(v) : OnWire(v)[i] = Plain(v[i]) /\ v[i] \in Byte
      BY <1>4, OnWireIs
    <2>0. PICK m, x, e : m = Len(v) /\ x = OnWire(v) /\ e = Crc8(OnWire(v))
      OBVIOUS
    <2> DEFINE t == Append(x, e)
    <2>2. IsSeq(t, m + 1) /\ t[m + 1] = e /\ \A i \in 1 .. m : t[i] = x[i]
      <3>1. Grown(t, x, m, e)
        BY <2>0, <2>1, AppendsOne
      <3> QED
        BY <3>1 DEF Grown
    <2>3. W = t
      BY <2>0
    <2> HIDE DEF W, t, v
    <2> QED
      BY <2>0, <2>1, <2>2, <2>3
  <1> HIDE DEF A, W
  <1>6. IsSeq(B, n) /\ (\A i \in 1 .. n - 1 : B[i] = Veiled(f, i)) /\ (n > 0 => B[n] = BodyCrc(f))
    <2>1. CASE n = 0
      <3>1. B = <<>>
        BY <2>1
      <3>2. \A i \in 1 .. n - 1 : FALSE
        BY <2>1
      <3> QED
        BY <2>1, <3>1, <3>2 DEF IsSeq
    <2>2. CASE n # 0
      <3>1. n > 0 /\ n = Len(v) + 1 /\ n - 1 = Len(v)
        BY <1>4, <2>2
      <3>2. B = [i \in 1 .. n |-> IF W[i].byte = None THEN [W[i] EXCEPT !.veil = SymDiff(@, {<<f[1], IvOf(f), i>>})]
                                  ELSE [W[i] EXCEPT !.byte = (Keystream(f[1], IvOf(f), i) - @) % 256]]
        <4>1. DOMAIN W = 1 .. n
          BY <1>5, <3>1 DEF IsSeq
        <4>2. B = Aes128Ctr(f[1], IvOf(f), W)
          BY <2>2
        <4> HIDE DEF B, n
        <4> QED
          BY <4>1, <4>2, Zenon DEF Aes128Ctr
      <3>3. ASSUME NEW i \in 1 .. n - 1 PROVE B[i] = Veiled(f, i)
        <4>1. i \in 1 .. n /\ W[i] = Plain(v[i]) /\ v[i] \in Byte
          BY <1>5, <3>1
        <4>2. W[i].byte = v[i] /\ v[i] # None
          <5> PICK b \in Byte : b = v[i]
            BY <4>1
          <5>1. b # None
            BY DEF Byte, None
          <5>2. Plain(b).byte = b
            BY DEF Plain
          <5> QED
            BY <4>1, <5>1, <5>2
        <4>3. B[i] = [W[i] EXCEPT !.byte = (Keystream(f[1], IvOf(f), i) - @) % 256]
          <5> HIDE DEF B, n, v
          <5> QED
            BY <3>2, <4>1, <4>2
        <4>4. B[i] = [W[i] EXCEPT !.byte = (Keystream(f[1], IvOf(f), i) - v[i]) % 256]
          BY <4>2, <4>3
        <4>5. \A b, c : [Plain(b) EXCEPT !.byte = c] = Plain(c)
          BY DEF Plain
        <4>6. PICK c : c = (Keystream(f[1], IvOf(f), i) - v[i]) % 256
          OBVIOUS
        <4>7. Veiled(f, i) = Plain(c)
          BY <4>6 DEF Veiled
        <4>8. B[i] = [W[i] EXCEPT !.byte = c]
          BY <4>4, <4>6
        <4> HIDE DEF B, n, v
        <4> QED
          <5>1. B[i] = [Plain(v[i]) EXCEPT !.byte = c]
            BY <4>1, <4>8
          <5> QED
            BY <4>5, <4>7, <5>1, Zenon
      <3>4. B[n] = BodyCrc(f)
        <4>1. n \in 1 .. n /\ W[n] = Crc8(OnWire(v))
          BY <1>4, <1>5, <3>1
        <4>2. W[n].byte = None /\ W[n].veil = {}
          BY <4>1 DEF Crc8
        <4>3. B[n] = [W[n] EXCEPT !.veil = SymDiff(@, {<<f[1], IvOf(f), n>>})]
          <5> HIDE DEF B, n, v
          <5> QED
            BY <3>2, <4>1, <4>2
        <4>4. SymDiff({}, {<<f[1], IvOf(f), n>>}) = {<<f[1], IvOf(f), n>>}
          BY Unveiled
        <4>5. B[n] = [W[n] EXCEPT !.veil = {<<f[1], IvOf(f), n>>}]
          BY <4>2, <4>3, <4>4
        <4> HIDE DEF B
        <4> QED
          BY <4>1, <4>5 DEF Crc8, BodyCrc
      <3>5. IsSeq(B, n)
        <4> HIDE DEF B
        <4> QED
          BY <1>4, <3>2 DEF IsSeq
      <3> QED
        BY <3>3, <3>4, <3>5
    <2> QED
      BY <2>1, <2>2
  <1> HIDE DEF B, n
  <1>7. IsSeq(F, 8 + n) /\ Joined(F, A, 8, B, n)
    BY <1>3, <1>6, JoinsThem
  <1> HIDE DEF F
  <1>8. IsSeq(F, n + 8) /\ n + 8 \in Nat /\ n + 8 >= 8
    <2>1. 8 + n = n + 8
      BY <1>4
    <2> QED
      BY <1>4, <1>7, <2>1
  <1>9. F[8] = Crc8(H) /\ \A i \in 1 .. 7 : F[i] = H[i]
    <2>1. \A i \in 1 .. 8 : F[i] = A[i]
      BY <1>7 DEF Joined
    <2> QED
      BY <1>3, <2>1
  <1>10. Fronts(F, f)
    BY <1>8, <1>9, HeaderFronts DEF H
  <1>11. Bodies(F, f)
    <2>1. \A i \in 1 .. n : F[8 + i] = B[i]
      BY <1>7 DEF Joined
    <2> QED
      BY <1>4, <1>6, <2>1 DEF Bodies, n
  <1> QED
    BY <1>1, <1>8, <1>10, <1>11 DEF n

-----------------------------------------------------------------------------
(* What is on the wire.                                                     *)

Elements == UNION {{Frame[f][o] : o \in 1 .. BodyLen(f) + 8} : f \in Packets}

\* An octet, a header's CRC or a body's.
ElementAt(x, f, o) ==
  \/ Octet(x)
  \/ x = Crc8(HeadOf(f)) /\ o = 8
  \/ x = BodyCrc(f) /\ o = BodyLen(f) + 8 /\ BodyLen(f) > 0

LEMMA ElementIs ==
  ASSUME NEW f \in Packets, NEW o \in 1 .. BodyLen(f) + 8
  PROVE  ElementAt(Frame[f][o], f, o)
  <1> DEFINE F == Frame[f]
             n == BodyLen(f)
  <1>1. Fronts(F, f) /\ Bodies(F, f) /\ n \in 0 .. 127
    BY FrameShape, SaidIs
  <1>2. CASE o \in 1 .. 7
    <2>1. Octet(F[o])
      BY <1>1, <1>2 DEF Fronts
    <2> QED
      BY <2>1 DEF ElementAt
  <1>3. CASE o = 8
    BY <1>1, <1>3 DEF Fronts, ElementAt
  <1>4. CASE o = n + 8 /\ n > 0
    <2>1. F[8 + n] = BodyCrc(f) /\ 8 + n = n + 8
      BY <1>1, <1>4 DEF Bodies
    <2> QED
      BY <1>4, <2>1 DEF ElementAt
  <1>5. CASE o \in 9 .. n + 7
    <2>1. PICK i \in 1 .. n - 1 : o = 8 + i
      <3>1. o - 8 \in 1 .. n - 1 /\ o = 8 + (o - 8)
        BY <1>1, <1>5
      <3> QED
        BY <3>1
    <2>2. F[o] = Veiled(f, i)
      BY <1>1, <2>1 DEF Bodies
    <2>3. Said(f)[i] \in Byte
      <3>1. Said(f) \in Seq(Byte) /\ n > 0 /\ n = Len(Said(f)) + 1
        <4>1. n > 0
          BY <1>1, <1>5
        <4> QED
          BY <4>1, SaidIs
      <3>2. i \in 1 .. Len(Said(f))
        <4> HIDE DEF n
        <4>1. PICK m \in Nat : m = Len(Said(f))
          BY <3>1
        <4> QED
          BY <3>1, <4>1
      <3> QED
        BY <3>1, <3>2
    <2>4. Keystream(f[1], IvOf(f), i) \in Byte
      <3>1. i \in 1 .. MAX_PAYLOAD + 1
        BY <1>1 DEF MAX_PAYLOAD
      <3> QED
        BY <3>1, PacketsAre, KeystreamAssumption DEF IvOf
    <2>5. (Keystream(f[1], IvOf(f), i) - Said(f)[i]) % 256 \in Byte
      BY <2>3, <2>4, Deciphered
    <2>6. Octet(Veiled(f, i))
      BY <2>5 DEF Octet, Veiled
    <2> QED
      BY <2>2, <2>6 DEF ElementAt
  <1>6. o \in 1 .. 7 \/ o = 8 \/ (o = n + 8 /\ n > 0) \/ o \in 9 .. n + 7
    BY <1>1
  <1> QED
    BY <1>2, <1>3, <1>4, <1>5, <1>6

LEMMA OctetsAre ==
  ASSUME NEW x, Octet(x)
  PROVE  x.byte \in Byte /\ x.byte # None /\ x.veil = {} /\ x.of = <<>>
  BY DEF Octet, Plain, Byte, None

LEMMA CrcsAre ==
  /\ \A e : Crc8(e).byte = None /\ Crc8(e).veil = {} /\ Crc8(e).of = e
  /\ \A e, g : Crc8(e) = Crc8(g) => e = g
  /\ \A f : BodyCrc(f).byte = None /\ BodyCrc(f).veil = {<<f[1], IvOf(f), BodyLen(f)>>} /\ BodyCrc(f).of = OnWire(Said(f))
  <1>1. \A e : Crc8(e).byte = None /\ Crc8(e).veil = {} /\ Crc8(e).of = e
    BY DEF Crc8
  <1>2. \A f : BodyCrc(f).byte = None /\ BodyCrc(f).veil = {<<f[1], IvOf(f), BodyLen(f)>>} /\ BodyCrc(f).of = OnWire(Said(f))
    BY DEF BodyCrc
  <1>3. \A e, g : Crc8(e) = Crc8(g) => e = g
    BY <1>1
  <1> QED
    BY <1>1, <1>2, <1>3

IsAt(x, f, o) == f \in Packets /\ o \in 1 .. BodyLen(f) + 8 /\ x = Frame[f][o] /\ ElementAt(x, f, o)

LEMMA ElementsAre ==
  ASSUME NEW x \in Elements
  PROVE  \E f, o : IsAt(x, f, o)
  <1>1. PICK f \in Packets : x \in {Frame[f][o] : o \in 1 .. BodyLen(f) + 8}
    BY DEF Elements
  <1>2. PICK o \in 1 .. BodyLen(f) + 8 : x = Frame[f][o]
    BY <1>1
  <1>3. ElementAt(x, f, o)
    BY <1>2, ElementIs
  <1> QED
    BY <1>2, <1>3 DEF IsAt

LEMMA Lengths ==
  ASSUME NEW f \in Packets
  PROVE  /\ BodyLen(f) \in 0 .. 127 /\ BodyLen(f) + 8 \in 8 .. 135
         /\ Len(Frame[f]) = BodyLen(f) + 8 /\ DOMAIN Frame[f] = 1 .. BodyLen(f) + 8
  <1>1. IsSeq(Frame[f], BodyLen(f) + 8)
    BY FrameShape
  <1>2. BodyLen(f) \in 0 .. 127
    BY SaidIs
  <1>3. PICK m \in Nat : m = BodyLen(f) + 8 /\ m \in 8 .. 135
    BY <1>2
  <1>4. Len(Frame[f]) = m /\ DOMAIN Frame[f] = 1 .. m
    BY <1>1, <1>3 DEF IsSeq
  <1> QED
    BY <1>2, <1>3, <1>4

LEMMA LargestFrame ==
  MaxFrame \in Nat /\ \A f \in Packets : BodyLen(f) + 8 <= MaxFrame
  <1> DEFINE L == {Len(Frame[f]) : f \in DOMAIN Frame}
             D == {135 - l : l \in L}
  <1>1. DOMAIN Frame = Packets
    BY DEF Frame, Packets
  <1>2. ASSUME NEW f \in Packets PROVE Len(Frame[f]) = BodyLen(f) + 8 /\ Len(Frame[f]) \in 8 .. 135
    BY Lengths
  <1>3. L \subseteq 8 .. 135
    <2>1. ASSUME NEW f \in Packets PROVE Len(Frame[f]) \in 8 .. 135
      BY <1>2
    <2> QED
      BY <1>1, <2>1
  <1>4. L # {}
    <2>1. MaxSessions \in 1 .. 255 /\ MaxFrames \in 1 .. 255 /\ \E kind : kind \in Kinds
      BY BoundsAssumption, KindsAssumption
    <2>2. PICK kind \in Kinds : TRUE
      BY <2>1
    <2>3. <<1, kind, 1>> \in Packets
      BY <2>1 DEF Packets, Sessions
    <2> QED
      BY <1>1, <2>3
  <1> HIDE DEF L
  <1>5. D \in SUBSET Nat /\ D # {}
    <2>1. \A l \in L : 135 - l \in Nat
      BY <1>3
    <2> QED
      BY <1>4, <2>1
  <1>6. PICK m \in D : \A y \in D : m <= y
    <2> HIDE DEF D
    <2> QED
      BY <1>5, Least
  <1>7. PICK l \in L : m = 135 - l
    BY <1>6
  <1>8. \A x \in L : l >= x
    <2> SUFFICES ASSUME NEW x \in L PROVE l >= x
      OBVIOUS
    <2>1. 135 - l <= 135 - x
      BY <1>6, <1>7
    <2> QED
      BY <1>3, <2>1
  <1>9. MaxFrame \in L /\ \A x \in L : MaxFrame >= x
    <2>1. MaxFrame = CHOOSE x \in L : \A y \in L : x >= y
      BY DEF MaxFrame, Max, L
    <2> QED
      BY <1>8, <2>1
  <1>10. MaxFrame \in Nat
    BY <1>3, <1>9
  <1>11. \A f \in Packets : Len(Frame[f]) \in L
    BY <1>1 DEF L
  <1> QED
    <2> SUFFICES ASSUME NEW f \in Packets PROVE BodyLen(f) + 8 <= MaxFrame
      BY <1>10
    <2>1. MaxFrame >= Len(Frame[f])
      BY <1>9, <1>11
    <2> QED
      BY <1>2, <1>10, <2>1

\* What a header says is no message.
LEMMA HeaderSaysNothing ==
  ASSUME NEW f \in Packets
  PROVE  DecodeAndDispatch(BytesOf(HeadOf(f))) = <<>>
  <1>1. PICK h : HeaderBytes(h, f) /\ HeadOf(f) = OnWire(h)
    BY HeaderIs
  <1>2. h \in Seq(Byte) /\ Len(h) = 7 /\ h[1] = 126
    BY <1>1 DEF HeaderBytes
  <1>3. BytesOf(HeadOf(f)) = h
    BY <1>1, <1>2, OnWireIs
  <1>4. h \in Seq(Int)
    BY <1>2, BytesAreInts
  <1>5. Tag(126, 15, 6)
    BY DEF Tag
  <1>6. ReadField(h, 1) = [field |-> None, value |-> Missing, next |-> Len(h) + 1]
    <2>1. 1 \in 1 .. Len(h) /\ 1 \in Nat
      BY <1>2
    <2>2. Tag(h[1], 15, 6)
      BY <1>2, <1>5
    <2> QED
      BY <1>4, <2>1, <2>2, ReadsNone
  <1>7. ParseFields(h) = <<>>
    <2>1. Len(h) > 0
      BY <1>2
    <2> QED
      BY <1>4, <1>6, <2>1, ParsedEnds
  <1>8. ParseMessage(h) = <<>>
    <2>1. First(<<>>, 2) = Missing
      BY FirstOfNone
    <2>2. ~IsBytes(Missing)
      BY DEF IsBytes, Missing, None
    <2> QED
      BY <1>7, <2>1, <2>2, Zenon DEF ParseMessage
  <1> QED
    BY <1>3, <1>8, DispatchesNone

LEMMA NothingSaysNothing == DecodeAndDispatch(<<>>) = <<>>
  <1>1. First(<<>>, 2) = Missing
    BY FirstOfNone
  <1>2. ~IsBytes(Missing)
    BY DEF IsBytes, Missing, None
  <1>3. ParseMessage(<<>>) = <<>>
    BY <1>1, <1>2, ParsedNone, Zenon DEF ParseMessage
  <1> QED
    BY <1>3, DispatchesNone

-----------------------------------------------------------------------------
(* The receiver, byte by byte.                                              *)

\* Of the packet f it has the first eight.
HasHeader(buf, f) == \A i \in 1 .. 8 : buf[i] = Frame[f][i]
Headed(buf, plen) == \E f \in Packets : BodyLen(f) = plen /\ plen > 0 /\ HasHeader(buf, f)

Bufs == Seq(Elements)

Fits(r) ==
  /\ r \in [state : {"READY", "GOT_PREAMBLE", "GOT_HEADER"}, buf : Bufs, plen : Nat]
  /\ r.state = "READY" => r = Ready
  /\ r.state = "GOT_PREAMBLE" => Len(r.buf) \in 1 .. 7 /\ r.buf[1] = Plain(PREAMBLE) /\ r.plen = 0
  /\ r.state = "GOT_HEADER" => Len(r.buf) \in 8 .. r.plen + 7 /\ Headed(r.buf, r.plen)

\* The payloads there are: what is said, and what is taken for it.
Payloads == UNION {{Said(f), BytesOf(HeadOf(f)), <<>>} : f \in Packets}

\* What may come out with the o-th byte of the packet f.
Hears(s, out, f, o) ==
  \/ out = Nothing
  \/ \E p \in Payloads : out = Received(p) /\ DecodeAndDispatch(p) = <<>>
  \/ out = Received(Said(f)) /\ f[1] = s /\ o = BodyLen(f) + 8 /\ BodyLen(f) > 0

LEMMA ReadyFits == Fits(Ready)
  <1>1. Ready \in [state : {"READY", "GOT_PREAMBLE", "GOT_HEADER"}, buf : Bufs, plen : Nat]
    BY DEF Ready, Bufs
  <1>2. Ready.state = "READY"
    BY DEF Ready
  <1> QED
    BY <1>1, <1>2 DEF Fits

\* A CRC that is its header's makes it a frame's.
LEMMA HeaderOfFrame ==
  ASSUME NEW buf \in Seq(Elements), Len(buf) = 8, Crc8(SubSeq(buf, 1, 7)) = buf[8]
  PROVE  \E f \in Packets : HasHeader(buf, f) /\ Plen(buf) = BodyLen(f)
  <1> DEFINE h == SubSeq(buf, 1, 7)
  <1>1. buf[8] \in Elements
    <2>1. 8 \in 1 .. Len(buf)
      OBVIOUS
    <2> QED
      BY <2>1, ElementOfSeq
  <1>2. PICK f, o : f \in Packets /\ ElementAt(buf[8], f, o)
    BY <1>1, ElementsAre DEF IsAt
  <1>3. buf[8] = Crc8(HeadOf(f))
    <2>1. buf[8].byte = None /\ buf[8].veil = {}
      BY CrcsAre
    <2>2. ~Octet(buf[8])
      BY <2>1, OctetsAre
    <2>3. buf[8] # BodyCrc(f)
      BY <2>1, CrcsAre
    <2> QED
      BY <1>2, <2>2, <2>3 DEF ElementAt
  <1>4. h = HeadOf(f)
    BY <1>3, CrcsAre
  <1> DEFINE F == Frame[f]
  <1>5. Fronts(F, f) /\ IsSeq(F, BodyLen(f) + 8)
    BY <1>2, FrameShape
  <1>6. \A i \in 1 .. 7 : buf[i] = F[i]
    <2>1. SubSeq(buf, 1, 7) = SubSeq(F, 1, 7)
      BY <1>4, <1>5 DEF Fronts
    <2>2. \A i \in 1 .. 7 : SubSeq(buf, 1, 7)[i] = buf[i]
      <3>1. 1 \in 1 .. 8 + 1 /\ 7 \in 1 - 1 .. 8 /\ IsSeq(buf, 8)
        <4>1. IsSeq(buf, Len(buf))
          BY SeqIsSeq
        <4> QED
          BY <4>1
      <3>2. \A i \in 1 .. (7 - 1) + 1 : SubSeq(buf, 1, 7)[i] = buf[1 + i - 1]
        BY <3>1, SlicesThem
      <3>3. (7 - 1) + 1 = 7 /\ \A i \in 1 .. 7 : 1 + i - 1 = i
        OBVIOUS
      <3> QED
        BY <3>2, <3>3
    <2>3. \A i \in 1 .. 7 : SubSeq(F, 1, 7)[i] = F[i]
      <3>0. PICK m \in Nat : m = BodyLen(f) + 8 /\ m >= 8
        <4>1. PICK n \in 0 .. 127 : n = BodyLen(f)
          BY <1>2, Lengths
        <4>2. n + 8 \in Nat /\ n + 8 >= 8
          OBVIOUS
        <4> QED
          BY <4>1, <4>2
      <3>1. 1 \in 1 .. m + 1 /\ 7 \in 1 - 1 .. m
        BY <3>0
      <3>2. \A i \in 1 .. (7 - 1) + 1 : SubSeq(F, 1, 7)[i] = F[1 + i - 1]
        BY <1>5, <3>0, <3>1, SlicesThem
      <3>3. (7 - 1) + 1 = 7 /\ \A i \in 1 .. 7 : 1 + i - 1 = i
        OBVIOUS
      <3> QED
        BY <3>2, <3>3
    <2> QED
      BY <2>1, <2>2, <2>3
  <1>7. buf[8] = F[8]
    BY <1>3, <1>5 DEF Fronts
  <1>8. HasHeader(buf, f)
    <2>1. \A i \in 1 .. 8 : i \in 1 .. 7 \/ i = 8
      OBVIOUS
    <2> QED
      BY <1>6, <1>7, <2>1 DEF HasHeader
  <1>9. Plen(buf) = BodyLen(f)
    <2>1. buf[6] = F[6] /\ buf[7] = F[7]
      BY <1>6
    <2> QED
      BY <1>5, <2>1 DEF Fronts, Plen
  <1> QED
    BY <1>2, <1>8, <1>9

\* The eighth byte: whether it is dropped or believed.
Outcome(h, s, f, o) == Fits(h.rx) /\ Hears(s, h.out, f, o)

LEMMA HeaderFits ==
  ASSUME NEW s, NEW f, NEW o, NEW buf \in Seq(Elements), Len(buf) = 8
  PROVE  Outcome(Header(buf), s, f, o)
  <1> DEFINE plen == Plen(buf)
  <1>1. CASE Crc8(SubSeq(buf, 1, 7)) # buf[8]
    <2>1. Header(buf) = [rx |-> Ready, out |-> Nothing]
      BY <1>1 DEF Header
    <2> QED
      BY <2>1, ReadyFits DEF Outcome, Hears
  <1>2. CASE Crc8(SubSeq(buf, 1, 7)) = buf[8]
    <2>1. PICK g \in Packets : HasHeader(buf, g) /\ plen = BodyLen(g)
      BY <1>2, HeaderOfFrame
    <2>2. plen \in 0 .. 127
      BY <2>1, SaidIs
    <2>3. CASE plen = 0
      <3>1. Header(buf) = [rx |-> Ready, out |-> Received(<<>>)]
        BY <1>2, <2>3 DEF Header
      <3> QED
        <4>1. <<>> \in Payloads
          BY <2>1 DEF Payloads
        <4> QED
          BY <3>1, <4>1, ReadyFits, NothingSaysNothing DEF Outcome, Hears
    <2>4. CASE plen # 0
      <3>1. PICK n \in 1 .. 127 : n = plen
        BY <2>2, <2>4
      <3> DEFINE r == [state |-> "GOT_HEADER", buf |-> buf, plen |-> n]
                 h == [rx |-> r, out |-> Nothing]
      <3>2. Header(buf) = h
        BY <1>2, <2>4, <3>1 DEF Header
      <3>3. r \in [state : {"READY", "GOT_PREAMBLE", "GOT_HEADER"}, buf : Bufs, plen : Nat]
        <4>1. buf \in Bufs
          BY DEF Bufs
        <4> QED
          BY <4>1
      <3>4. Len(r.buf) \in 8 .. r.plen + 7
        <4>1. r.buf = buf /\ r.plen = n
          OBVIOUS
        <4>2. 8 \in 8 .. n + 7
          OBVIOUS
        <4> HIDE DEF r
        <4> QED
          BY <4>1, <4>2
      <3>5. Headed(r.buf, r.plen)
        <4>1. BodyLen(g) = n
          BY <2>1, <3>1, Zenon
        <4>3. n > 0
          OBVIOUS
        <4>2. HasHeader(buf, g)
          BY <2>1
        <4> QED
          BY <4>1, <4>2, <4>3 DEF Headed
      <3>6. Fits(r)
        BY <3>3, <3>4, <3>5 DEF Fits
      <3>7. h.rx = r /\ h.out = Nothing
        OBVIOUS
      <3> HIDE DEF h, r
      <3> QED
        BY <3>2, <3>6, <3>7 DEF Outcome, Hears
    <2> QED
      BY <2>3, <2>4
  <1> QED
    BY <1>1, <1>2

\* A body's last element, deciphered or not.
Unciphered(s, iv, i, x) ==
  IF x.byte = None THEN [x EXCEPT !.veil = SymDiff(@, {<<s, iv, i>>})]
  ELSE [x EXCEPT !.byte = (Keystream(s, iv, i) - @) % 256]

\* A CRC that comes out of the cipher went into it, with this key.
LEMMA DecipheredCrc ==
  ASSUME NEW s, NEW iv, NEW i, NEW x, NEW f, NEW o, NEW e, ElementAt(x, f, o), f \in Packets,
         Keystream(s, iv, i) \in Byte, Unciphered(s, iv, i, x) = Crc8(e)
  PROVE  e = OnWire(Said(f)) /\ f[1] = s /\ o = BodyLen(f) + 8 /\ BodyLen(f) > 0
  <1> DEFINE t == <<s, iv, i>>
  <1>0. Crc8(e).byte = None /\ Crc8(e).veil = {} /\ Crc8(e).of = e
    BY CrcsAre
  <1>1. ~Octet(x)
    <2> SUFFICES ASSUME Octet(x) PROVE FALSE
      OBVIOUS
    <2>1. PICK b \in Byte : x = Plain(b)
      BY DEF Octet
    <2>2. x.byte = b /\ b # None
      BY <2>1 DEF Plain, Byte, None
    <2>3. PICK c : c = (Keystream(s, iv, i) - b) % 256 /\ c \in Byte
      BY Deciphered
    <2>4. Unciphered(s, iv, i, x) = [x EXCEPT !.byte = c]
      BY <2>2, <2>3, Zenon DEF Unciphered
    <2>5. [x EXCEPT !.byte = c].byte = c
      BY <2>1 DEF Plain
    <2>6. c # None
      BY <2>3 DEF Byte, None
    <2> QED
      BY <1>0, <2>4, <2>5, <2>6
  <1>2. x = Crc8(HeadOf(f)) \/ (x = BodyCrc(f) /\ o = BodyLen(f) + 8 /\ BodyLen(f) > 0)
    BY <1>1 DEF ElementAt
  <1>3. x.byte = None
    BY <1>2, CrcsAre
  <1>4. Unciphered(s, iv, i, x) = [x EXCEPT !.veil = SymDiff(@, {t})]
    BY <1>3 DEF Unciphered
  <1>5. SymDiff(x.veil, {t}) = {} /\ x.of = e
    <2>1. \A w : [x EXCEPT !.veil = w].veil = w /\ [x EXCEPT !.veil = w].of = x.of
      BY <1>2 DEF Crc8, BodyCrc
    <2> QED
      BY <1>0, <1>4, <2>1
  <1>6. x.veil = {t}
    BY <1>5, Unveiled
  <1>7. x = BodyCrc(f) /\ o = BodyLen(f) + 8 /\ BodyLen(f) > 0
    <2>1. Crc8(HeadOf(f)).veil = {}
      BY CrcsAre
    <2> QED
      BY <1>2, <1>6, <2>1
  <1>8. x.veil = {<<f[1], IvOf(f), BodyLen(f)>>} /\ x.of = OnWire(Said(f))
    BY <1>7, CrcsAre
  <1>9. f[1] = s
    <2>1. <<f[1], IvOf(f), BodyLen(f)>> \in {t}
      BY <1>6, <1>8
    <2>2. <<f[1], IvOf(f), BodyLen(f)>> = <<s, iv, i>>
      BY <2>1
    <2> QED
      BY <2>2
  <1> QED
    BY <1>5, <1>7, <1>8, <1>9

\* A packet's body, as it is decrypted.
LEMMA BodyHears ==
  ASSUME NEW s \in Sessions, NEW buf \in Seq(Elements), NEW plen \in 1 .. 127, Headed(buf, plen),
         Len(buf) = plen + 8, NEW f, NEW o, IsAt(buf[plen + 8], f, o)
  PROVE  Hears(s, Body(Decrypted(s, buf)), f, o)
  <1> DEFINE body == SubSeq(buf, 9, Len(buf))
             iv == MakeIv(BytesOf(SubSeq(buf, 2, 5)), PeerSalt, Salt(s))
             x == buf[plen + 8]
             plain == Decrypted(s, buf)
  <1>1. IsSeq(body, plen) /\ body[plen] = x
    <2>1. 9 \in 1 .. Len(buf) + 1 /\ Len(buf) \in 9 - 1 .. Len(buf) /\ (Len(buf) - 9) + 1 = plen
      OBVIOUS
    <2>2. IsSeq(buf, Len(buf))
      BY SeqIsSeq
    <2>3. IsSeq(body, (Len(buf) - 9) + 1) /\ \A i \in 1 .. (Len(buf) - 9) + 1 : body[i] = buf[9 + i - 1]
      BY <2>1, <2>2, SlicesThem
    <2>4. plen \in 1 .. plen /\ 9 + plen - 1 = plen + 8
      OBVIOUS
    <2> HIDE DEF body
    <2> QED
      BY <2>1, <2>3, <2>4
  <1>2. Keystream(s, iv, plen) \in Byte
    <2>1. PICK g \in Packets : HasHeader(buf, g)
      BY DEF Headed
    <2>2. BytesOf(SubSeq(buf, 2, 5)) = Bytes(g[3], 4)
      <3>0. PICK F : F = Frame[g]
        OBVIOUS
      <3>1. BytesOf(SubSeq(F, 2, 5)) = Bytes(g[3], 4) /\ IsSeq(F, BodyLen(g) + 8)
        BY <3>0, FrameShape DEF Fronts
      <3>2. PICK m \in Nat : m = BodyLen(g) + 8 /\ m >= 8
        <4>1. PICK n \in 0 .. 127 : n = BodyLen(g)
          BY Lengths
        <4>2. n + 8 \in Nat /\ n + 8 >= 8
          OBVIOUS
        <4> QED
          BY <4>1, <4>2
      <3> DEFINE p == SubSeq(F, 2, 5)
                 q == SubSeq(buf, 2, 5)
      <3>3. IsSeq(p, (5 - 2) + 1) /\ \A i \in 1 .. (5 - 2) + 1 : p[i] = F[2 + i - 1]
        <4>1. 2 \in 1 .. m + 1 /\ 5 \in 2 - 1 .. m
          BY <3>2
        <4>2. IsSeq(F, m)
          BY <3>1, <3>2
        <4> QED
          BY <4>1, <4>2, SlicesThem
      <3>4. IsSeq(q, (5 - 2) + 1) /\ \A i \in 1 .. (5 - 2) + 1 : q[i] = buf[2 + i - 1]
        <4>1. 2 \in 1 .. Len(buf) + 1 /\ 5 \in 2 - 1 .. Len(buf)
          OBVIOUS
        <4>2. IsSeq(buf, Len(buf))
          BY SeqIsSeq
        <4> QED
          BY <4>1, <4>2, SlicesThem
      <3> HIDE DEF p, q
      <3>5. \A i \in 1 .. (5 - 2) + 1 : p[i] = q[i]
        <4>1. \A i \in 1 .. (5 - 2) + 1 : 2 + i - 1 \in 1 .. 8
          OBVIOUS
        <4> QED
          BY <2>1, <3>0, <3>3, <3>4, <4>1 DEF HasHeader
      <3>6. p = q
        BY <3>3, <3>4, <3>5 DEF IsSeq
      <3> QED
        BY <3>1, <3>6 DEF p, q
    <2>3. iv = MakeIv(Bytes(g[3], 4), PeerSalt, Salt(s))
      BY <2>2
    <2>4. g[3] \in 1 .. MaxFrames /\ plen \in 1 .. MAX_PAYLOAD + 1
      BY PacketsAre DEF MAX_PAYLOAD
    <2> QED
      BY <2>3, <2>4, KeystreamAssumption
  <1> HIDE DEF body, iv
  <1>3. \/ plain = body
        \/ plain = Aes128Ctr(s, iv, body)
    BY DEF Decrypted, body, iv
  <1>4. IsSeq(plain, plen) /\ plain[plen] \in {x, Unciphered(s, iv, plen, x)}
    <2>1. CASE plain = body
      BY <1>1, <2>1
    <2>2. CASE plain = Aes128Ctr(s, iv, body)
      <3>1. DOMAIN body = 1 .. plen
        BY <1>1 DEF IsSeq
      <3>2. plain = [i \in 1 .. plen |-> Unciphered(s, iv, i, body[i])]
        BY <2>2, <3>1, Zenon DEF Aes128Ctr, Unciphered
      <3> HIDE DEF plain, x
      <3>3. plen \in 1 .. plen
        OBVIOUS
      <3>4. plain[plen] = Unciphered(s, iv, plen, body[plen])
        BY <3>2, <3>3
      <3>5. IsSeq(plain, plen)
        BY <3>2 DEF IsSeq
      <3> QED
        BY <1>1, <3>4, <3>5
    <2> QED
      BY <1>3, <2>1, <2>2
  <1>5. f \in Packets /\ ElementAt(x, f, o)
    BY DEF IsAt
  <1> HIDE DEF plain, x
  <1>6. Last(plain) = plain[plen]
    BY <1>4 DEF Last, IsSeq
  <1>7. CASE Crc8(Front(plain)) # Last(plain)
    BY <1>7 DEF Body, Hears, plain
  <1>8. CASE Crc8(Front(plain)) = Last(plain)
    <2>1. Body(plain) = Received(BytesOf(Front(plain)))
      BY <1>8 DEF Body
    <2>2. CASE plain[plen] = x
      <3>1. x.byte = None /\ x.veil = {} /\ x = Crc8(Front(plain))
        BY <1>6, <1>8, <2>2, CrcsAre
      <3>2. ~Octet(x)
        BY <3>1, OctetsAre
      <3>3. x # BodyCrc(f)
        <4>1. BodyCrc(f).veil # {}
          BY CrcsAre
        <4> QED
          BY <3>1, <4>1
      <3>4. x = Crc8(HeadOf(f))
        BY <1>5, <3>2, <3>3 DEF ElementAt
      <3>5. Front(plain) = HeadOf(f)
        BY <3>1, <3>4, CrcsAre
      <3>6. DecodeAndDispatch(BytesOf(HeadOf(f))) = <<>>
        BY <1>5, HeaderSaysNothing
      <3>7. BytesOf(HeadOf(f)) \in Payloads
        BY <1>5 DEF Payloads
      <3> QED
        BY <2>1, <3>5, <3>6, <3>7 DEF Hears, plain
    <2>3. CASE plain[plen] = Unciphered(s, iv, plen, x)
      <3>1. Unciphered(s, iv, plen, x) = Crc8(Front(plain))
        BY <1>6, <1>8, <2>3
      <3>2. Front(plain) = OnWire(Said(f)) /\ f[1] = s /\ o = BodyLen(f) + 8 /\ BodyLen(f) > 0
        BY <1>2, <1>5, <3>1, DecipheredCrc
      <3>3. BytesOf(OnWire(Said(f))) = Said(f)
        <4>1. Said(f) \in Seq(Byte)
          BY <1>5, SaidIs
        <4> QED
          BY <4>1, OnWireIs
      <3> QED
        BY <2>1, <3>2, <3>3 DEF Hears, plain
    <2> QED
      BY <1>4, <2>2, <2>3
  <1> QED
    BY <1>7, <1>8

\* What one byte does.
Waits(r, b) ==
  \/ r.state = "GOT_PREAMBLE" /\ ~(Len(Append(r.buf, b)) >= 8)
  \/ r.state = "GOT_HEADER" /\ ~(Len(Append(r.buf, b)) >= r.plen + 8)

LEMMA FeedByteIs ==
  ASSUME NEW s, NEW r, NEW b
  PROVE  /\ r.state = "READY" /\ b = Plain(PREAMBLE) =>
              FeedByte(s, r, b) = [rx |-> [state |-> "GOT_PREAMBLE", buf |-> <<b>>, plen |-> 0], out |-> Nothing]
         /\ r.state = "READY" /\ b # Plain(PREAMBLE) => FeedByte(s, r, b) = [rx |-> Ready, out |-> Nothing]
         /\ r.state = "GOT_PREAMBLE" /\ Len(Append(r.buf, b)) >= 8 => FeedByte(s, r, b) = Header(Append(r.buf, b))
         /\ r.state = "GOT_HEADER" /\ Len(Append(r.buf, b)) >= r.plen + 8 =>
              FeedByte(s, r, b) = [rx |-> Ready, out |-> Body(Decrypted(s, Append(r.buf, b)))]
         /\ Waits(r, b) => FeedByte(s, r, b) = [rx |-> [r EXCEPT !.buf = Append(r.buf, b)], out |-> Nothing]
  <1> DEFINE buf == Append(r.buf, b)
             P == Len(buf) >= 8
             Q == Len(buf) >= r.plen + 8
  <1>1. FeedByte(s, r, b) =
          CASE r.state = "READY" ->
                 [rx |-> IF b = Plain(PREAMBLE) THEN [state |-> "GOT_PREAMBLE", buf |-> <<b>>, plen |-> 0] ELSE Ready,
                  out |-> Nothing]
            [] r.state = "GOT_PREAMBLE" /\ P -> Header(buf)
            [] r.state = "GOT_HEADER" /\ Q -> [rx |-> Ready, out |-> Body(Decrypted(s, buf))]
            [] OTHER -> [rx |-> [r EXCEPT !.buf = buf], out |-> Nothing]
    BY DEF FeedByte
  <1>3. Waits(r, b) <=> (r.state = "GOT_PREAMBLE" /\ ~P) \/ (r.state = "GOT_HEADER" /\ ~Q)
    BY DEF Waits
  <1> HIDE DEF P, Q, buf
  <1>4. ASSUME r.state = "READY", b = Plain(PREAMBLE)
        PROVE  FeedByte(s, r, b) = [rx |-> [state |-> "GOT_PREAMBLE", buf |-> <<b>>, plen |-> 0], out |-> Nothing]
    BY <1>1, <1>4
  <1>5. ASSUME r.state = "READY", b # Plain(PREAMBLE)
        PROVE  FeedByte(s, r, b) = [rx |-> Ready, out |-> Nothing]
    BY <1>1, <1>5
  <1>6. ASSUME r.state = "GOT_PREAMBLE", P PROVE FeedByte(s, r, b) = Header(buf)
    BY <1>1, <1>6
  <1>7. ASSUME r.state = "GOT_HEADER", Q PROVE FeedByte(s, r, b) = [rx |-> Ready, out |-> Body(Decrypted(s, buf))]
    BY <1>1, <1>7
  <1>8. ASSUME Waits(r, b) PROVE FeedByte(s, r, b) = [rx |-> [r EXCEPT !.buf = buf], out |-> Nothing]
    BY <1>1, <1>3, <1>8
  <1> QED
    BY <1>4, <1>5, <1>6, <1>7, <1>8 DEF P, Q, buf

LEMMA FeedsPreamble ==
  ASSUME NEW s, NEW r, NEW b, r.state = "READY", b = Plain(PREAMBLE)
  PROVE  FeedByte(s, r, b) = [rx |-> [state |-> "GOT_PREAMBLE", buf |-> <<b>>, plen |-> 0], out |-> Nothing]
  BY FeedByteIs

LEMMA FeedsOn ==
  ASSUME NEW s, NEW r, NEW b, Waits(r, b)
  PROVE  FeedByte(s, r, b) = [rx |-> [r EXCEPT !.buf = Append(r.buf, b)], out |-> Nothing]
  BY FeedByteIs

LEMMA FeedByteFits ==
  ASSUME NEW s \in Sessions, NEW r, Fits(r), NEW x, NEW f, NEW o, IsAt(x, f, o)
  PROVE  Outcome(FeedByte(s, r, x), s, f, o)
  <1> DEFINE buf == Append(r.buf, x)
  <1>1. x \in Elements
    BY DEF IsAt, Elements
  <1>2. /\ r.state \in {"READY", "GOT_PREAMBLE", "GOT_HEADER"} /\ r.buf \in Seq(Elements) /\ r.plen \in Nat
        /\ r = [state |-> r.state, buf |-> r.buf, plen |-> r.plen]
    BY DEF Fits, Bufs
  <1>3. PICK n \in Nat : n = Len(r.buf)
    BY <1>2, LenProperties
  <1>4. /\ buf \in Seq(Elements) /\ Len(buf) = n + 1 /\ buf[n + 1] = x
        /\ \A i \in 1 .. n : buf[i] = r.buf[i]
    BY <1>1, <1>2, <1>3, AppendProperties
  <1>5. CASE r.state = "READY"
    <2>1. CASE x = Plain(PREAMBLE)
      <3> DEFINE t == [state |-> "GOT_PREAMBLE", buf |-> <<x>>, plen |-> 0]
      <3>1. FeedByte(s, r, x) = [rx |-> t, out |-> Nothing]
        BY <1>5, <2>1, FeedsPreamble
      <3>2. <<x>> \in Bufs /\ Len(<<x>>) \in 1 .. 7 /\ <<x>>[1] = x
        BY <1>1 DEF Bufs
      <3>3. t \in [state : {"READY", "GOT_PREAMBLE", "GOT_HEADER"}, buf : Bufs, plen : Nat]
        BY <3>2
      <3>4. Fits(t)
        BY <2>1, <3>2, <3>3 DEF Fits
      <3> HIDE DEF t
      <3> QED
        BY <3>1, <3>4 DEF Outcome, Hears
    <2>2. CASE x # Plain(PREAMBLE)
      <3>1. FeedByte(s, r, x) = [rx |-> Ready, out |-> Nothing]
        BY <1>5, <2>2, FeedByteIs, Zenon
      <3> QED
        BY <3>1, ReadyFits DEF Outcome, Hears
    <2> QED
      BY <2>1, <2>2
  <1> DEFINE kept == [r EXCEPT !.buf = buf]
  <1>6. kept = [state |-> r.state, buf |-> buf, plen |-> r.plen]
    BY <1>2
  <1>7. kept \in [state : {"READY", "GOT_PREAMBLE", "GOT_HEADER"}, buf : Bufs, plen : Nat]
    <2>1. buf \in Bufs
      BY <1>4 DEF Bufs
    <2> HIDE DEF buf, kept
    <2> QED
      BY <1>2, <1>6, <2>1
  <1>8. kept.state = r.state /\ kept.buf = buf /\ kept.plen = r.plen
    BY <1>6
  <1>9. ASSUME Waits(r, x), Fits(kept) PROVE Outcome(FeedByte(s, r, x), s, f, o)
    <2>1. FeedByte(s, r, x) = [rx |-> kept, out |-> Nothing]
      BY <1>9, FeedsOn
    <2> HIDE DEF kept
    <2> QED
      BY <1>9, <2>1 DEF Outcome, Hears
  <1> HIDE DEF buf, kept
  <1>10. CASE r.state = "GOT_PREAMBLE"
    <2>1. n \in 1 .. 7 /\ r.buf[1] = Plain(PREAMBLE) /\ r.plen = 0
      BY <1>3, <1>10 DEF Fits
    <2>2. CASE n = 7
      <3>1. Len(buf) = 8 /\ Len(buf) >= 8
        BY <1>4, <2>2
      <3>2. FeedByte(s, r, x) = Header(buf)
        BY <1>10, <3>1, FeedByteIs, Zenon DEF buf
      <3> QED
        BY <1>4, <3>1, <3>2, HeaderFits
    <2>3. CASE n # 7
      <3>1. Len(buf) \in 1 .. 7 /\ ~(Len(buf) >= 8)
        BY <1>4, <2>1, <2>3
      <3>2. Waits(r, x)
        BY <1>10, <3>1 DEF Waits, buf
      <3>3. buf[1] = Plain(PREAMBLE)
        <4>1. 1 \in 1 .. n
          BY <2>1
        <4> QED
          BY <1>4, <2>1, <4>1
      <3>4. Fits(kept)
        BY <1>7, <1>8, <1>10, <2>1, <3>1, <3>3 DEF Fits
      <3> QED
        BY <1>9, <3>2, <3>4
    <2> QED
      BY <2>2, <2>3
  <1>11. CASE r.state = "GOT_HEADER"
    <2>1. n \in 8 .. r.plen + 7 /\ Headed(r.buf, r.plen)
      BY <1>3, <1>11 DEF Fits
    <2>2. PICK plen \in 1 .. 127 : plen = r.plen
      <3>1. PICK g \in Packets : BodyLen(g) = r.plen /\ r.plen > 0
        BY <2>1 DEF Headed
      <3>2. BodyLen(g) \in 0 .. 127
        BY Lengths
      <3> QED
        BY <3>1, <3>2
    <2>3. Headed(buf, plen)
      <3>1. PICK g \in Packets : BodyLen(g) = r.plen /\ r.plen > 0 /\ HasHeader(r.buf, g)
        BY <2>1 DEF Headed
      <3>2. \A i \in 1 .. 8 : i \in 1 .. n
        BY <2>1
      <3>3. HasHeader(buf, g)
        BY <1>4, <3>1, <3>2 DEF HasHeader
      <3> QED
        BY <2>2, <3>1, <3>3 DEF Headed
    <2>4. CASE n = plen + 7
      <3>1. Len(buf) = plen + 8 /\ Len(buf) >= r.plen + 8 /\ n + 1 = plen + 8
        BY <1>4, <2>2, <2>4
      <3>2. FeedByte(s, r, x) = [rx |-> Ready, out |-> Body(Decrypted(s, buf))]
        BY <1>11, <3>1, FeedByteIs, Zenon DEF buf
      <3>3. IsAt(buf[plen + 8], f, o)
        BY <1>4, <3>1
      <3>4. Hears(s, Body(Decrypted(s, buf)), f, o)
        BY <1>4, <2>3, <3>1, <3>3, BodyHears
      <3> QED
        BY <3>2, <3>4, ReadyFits DEF Outcome
    <2>5. CASE n # plen + 7
      <3>1. n + 1 \in 8 .. plen + 7 /\ ~(n + 1 >= plen + 8)
        BY <2>1, <2>2, <2>5
      <3>2. Waits(r, x)
        BY <1>4, <1>11, <2>2, <3>1 DEF Waits, buf
      <3>3. Fits(kept)
        BY <1>4, <1>7, <1>8, <1>11, <2>2, <2>3, <3>1 DEF Fits
      <3> QED
        BY <1>9, <3>2, <3>3
    <2> QED
      BY <2>4, <2>5
  <1> QED
    BY <1>2, <1>5, <1>10, <1>11

-----------------------------------------------------------------------------
(* What a receiver makes of an indication.                                  *)

Meanings == {EventOf(f[2], f[3]) : f \in Packets}
Outs     == Seq(Payloads)
Rxs      == {r \in [state : {"READY", "GOT_PREAMBLE", "GOT_HEADER"}, buf : Bufs, plen : Nat] : Fits(r)}
Accs     == [rx : Rxs, out : Outs]

Fed1(s, acc, b) ==
  LET f == FeedByte(s, acc.rx, b)
  IN  [rx |-> f.rx, out |-> IF f.out.payload THEN Append(acc.out, f.out.bytes) ELSE acc.out]

LEMMA RxsAre == \A r : r \in Rxs <=> Fits(r)
  BY DEF Rxs, Fits

\* What comes out with one more byte: nothing, or a payload.
LEMMA OneMore ==
  ASSUME NEW s \in Sessions, NEW acc \in Accs, NEW b, NEW f, NEW o, IsAt(b, f, o)
  PROVE  /\ Fed1(s, acc, b) \in Accs
         /\ Fed1(s, acc, b).rx = FeedByte(s, acc.rx, b).rx
         /\ \/ Fed1(s, acc, b).out = acc.out /\ FeedByte(s, acc.rx, b).out = Nothing
            \/ \E p \in Payloads :
                 /\ Fed1(s, acc, b).out = Append(acc.out, p) /\ FeedByte(s, acc.rx, b).out = Received(p)
                 /\ \/ DecodeAndDispatch(p) = <<>>
                    \/ p = Said(f) /\ f[1] = s /\ o = BodyLen(f) + 8 /\ BodyLen(f) > 0
  <1> DEFINE h == FeedByte(s, acc.rx, b)
             next == Fed1(s, acc, b)
  <1>1. Fits(acc.rx) /\ acc.out \in Outs
    BY RxsAre DEF Accs
  <1>2. Outcome(h, s, f, o)
    BY <1>1, FeedByteFits
  <1>3. Fits(h.rx) /\ Hears(s, h.out, f, o)
    BY <1>2 DEF Outcome
  <1>4. next = [rx |-> h.rx, out |-> IF h.out.payload THEN Append(acc.out, h.out.bytes) ELSE acc.out]
    BY DEF Fed1
  <1>5. h.rx \in Rxs
    BY <1>3, RxsAre
  <1>6. \A p : Received(p).payload = TRUE /\ Received(p).bytes = p
    BY DEF Received
  <1>7. Nothing.payload = FALSE
    BY DEF Nothing
  <1>8. \A p \in Payloads : Append(acc.out, p) \in Outs
    BY <1>1, AppendProperties DEF Outs
  <1>9. CASE h.out = Nothing
    <2>1. next = [rx |-> h.rx, out |-> acc.out]
      <3> HIDE DEF h, next
      <3> QED
        BY <1>4, <1>7, <1>9
    <2> HIDE DEF h, next
    <2>2. next \in Accs /\ next.rx = h.rx /\ next.out = acc.out
      BY <1>1, <1>5, <2>1 DEF Accs
    <2> QED
      BY <1>9, <2>2 DEF h, next
  <1>10. ASSUME NEW p \in Payloads, h.out = Received(p),
                DecodeAndDispatch(p) = <<>> \/ (p = Said(f) /\ f[1] = s /\ o = BodyLen(f) + 8 /\ BodyLen(f) > 0)
         PROVE  /\ next \in Accs /\ next.rx = h.rx
                /\ next.out = Append(acc.out, p)
    <2>1. h.out.payload = TRUE /\ h.out.bytes = p
      <3> HIDE DEF h
      <3> QED
        BY <1>6, <1>10
    <2>2. PICK t : t = Append(acc.out, p) /\ t \in Outs
      BY <1>8, <1>10
    <2>3. next = [rx |-> h.rx, out |-> t]
      <3> HIDE DEF h, next
      <3> QED
        BY <1>4, <2>1, <2>2, Zenon
    <2> HIDE DEF h, next
    <2>4. next \in Accs /\ next.rx = h.rx /\ next.out = t
      BY <1>5, <2>2, <2>3 DEF Accs
    <2> QED
      BY <2>2, <2>4
  <1>11. f \in Packets
    BY DEF IsAt
  <1>12. Said(f) \in Payloads
    BY <1>11 DEF Payloads
  <1> HIDE DEF h, next
  <1>13. \/ h.out = Nothing
         \/ \E p \in Payloads :
              /\ h.out = Received(p)
              /\ DecodeAndDispatch(p) = <<>> \/ (p = Said(f) /\ f[1] = s /\ o = BodyLen(f) + 8 /\ BodyLen(f) > 0)
    BY <1>3, <1>12 DEF Hears
  <1> QED
    BY <1>9, <1>10, <1>13 DEF h, next

\* The indication's bytes, one after the other.
Feeds(fed, s, first, bytes, n) ==
  /\ fed[0] = first /\ \A i \in 0 .. n : fed[i] \in Accs
  /\ \A i \in 0 .. n - 1 : fed[i + 1] = Fed1(s, fed[i], bytes[i + 1])

LEMMA FeedIs ==
  ASSUME NEW s \in Sessions, Fits(rx[s]), NEW n \in Nat, NEW bytes, Len(bytes) = n,
         \A i \in 1 .. n : \E f, o : IsAt(bytes[i], f, o)
  PROVE  \E fed : Feeds(fed, s, [rx |-> rx[s], out |-> <<>>], bytes, n) /\ Feed(s, bytes) = fed[n]
  <1> DEFINE first == [rx |-> rx[s], out |-> <<>>]
             step == [x \in Nat \X Accs |-> IF x[1] + 1 \in 1 .. n THEN Fed1(s, x[2], bytes[x[1] + 1]) ELSE x[2]]
  <1>1. first \in Accs
    <2>1. <<>> \in Outs
      BY DEF Outs
    <2>2. rx[s] \in Rxs
      BY RxsAre
    <2> QED
      BY <2>1, <2>2 DEF Accs
  <1>2. step \in [Nat \X Accs -> Accs]
    <2>1. ASSUME NEW x \in Nat \X Accs PROVE step[x] \in Accs
      <3>1. x[1] \in Nat /\ x[2] \in Accs
        OBVIOUS
      <3>2. CASE x[1] + 1 \in 1 .. n
        <4>1. PICK f, o : IsAt(bytes[x[1] + 1], f, o)
          BY <3>2
        <4>2. Fed1(s, x[2], bytes[x[1] + 1]) \in Accs
          BY <3>1, <4>1, OneMore
        <4> QED
          BY <3>2, <4>2
      <3>3. CASE x[1] + 1 \notin 1 .. n
        BY <3>1, <3>3
      <3> QED
        BY <3>2, <3>3
    <2> HIDE DEF step
    <2>2. step = [x \in Nat \X Accs |-> step[x]]
      BY DEF step
    <2> QED
      BY <2>1, <2>2
  <1>3. PICK F : Steps(F, Accs, first, step)
    <2> HIDE DEF first, step
    <2> QED
      BY <1>1, <1>2, Recursion
  <1>4. F \in [Nat -> Accs] /\ F[0] = first /\ \A k \in Nat : F[k + 1] = step[<<k, F[k]>>]
    <2> HIDE DEF first, step
    <2> QED
      BY <1>3 DEF Steps
  <1>5. ASSUME NEW i \in 0 .. n - 1 PROVE F[i + 1] = Fed1(s, F[i], bytes[i + 1])
    <2>1. <<i, F[i]>> \in Nat \X Accs /\ <<i, F[i]>>[1] = i /\ <<i, F[i]>>[2] = F[i] /\ i + 1 \in 1 .. n
      BY <1>4
    <2>2. step[<<i, F[i]>>] = Fed1(s, F[i], bytes[i + 1])
      BY <2>1
    <2> HIDE DEF step
    <2> QED
      BY <1>4, <2>2
  <1> DEFINE g == [i \in 0 .. n |-> F[i]]
  <1>6. \E fed : fed = [i \in 0 .. n |-> IF i = 0 THEN [rx |-> rx[s], out |-> <<>>]
                                         ELSE Fed1(s, fed[i - 1], bytes[i])]
    <2>1. ASSUME NEW i \in 0 .. n PROVE g[i] = IF i = 0 THEN first ELSE Fed1(s, g[i - 1], bytes[i])
      <3>1. CASE i = 0
        BY <1>4, <3>1
      <3>2. CASE i # 0
        <4>1. PICK m \in 0 .. n - 1 : m = i - 1 /\ i = m + 1
          <5>1. i - 1 \in 0 .. n - 1 /\ i = (i - 1) + 1
            BY <3>2
          <5> QED
            BY <5>1
        <4>2. F[m + 1] = Fed1(s, F[m], bytes[m + 1])
          BY <1>5
        <4>3. g[i] = F[i] /\ g[i - 1] = F[m]
          BY <4>1
        <4> HIDE DEF g
        <4> QED
          BY <3>2, <4>1, <4>2, <4>3
      <3> QED
        BY <3>1, <3>2
    <2>2. g = [i \in 0 .. n |-> g[i]]
      OBVIOUS
    <2> HIDE DEF g
    <2> QED
      BY <2>1, <2>2
  <1>7. PICK fed : /\ fed = [i \in 0 .. n |-> IF i = 0 THEN first ELSE Fed1(s, fed[i - 1], bytes[i])]
                   /\ Feed(s, bytes) = fed[n]
    BY <1>6 DEF Feed, Fed1
  <1>8. fed[0] = first /\ \A i \in 0 .. n - 1 : fed[i + 1] = Fed1(s, fed[i], bytes[i + 1])
    <2>1. \A i \in 0 .. n : fed[i] = IF i = 0 THEN first ELSE Fed1(s, fed[i - 1], bytes[i])
      BY <1>7
    <2>2. fed[0] = first
      BY <2>1
    <2>3. ASSUME NEW i \in 0 .. n - 1 PROVE fed[i + 1] = Fed1(s, fed[i], bytes[i + 1])
      <3>1. i + 1 \in 0 .. n /\ i + 1 # 0 /\ (i + 1) - 1 = i
        OBVIOUS
      <3> QED
        BY <2>1, <3>1
    <2> QED
      BY <2>2, <2>3
  <1>9. \A i \in 0 .. n : fed[i] \in Accs
    <2> DEFINE P == {i \in 0 .. n : fed[i] \in Accs}
    <2>1. 0 \in P
      BY <1>1, <1>8
    <2>2. ASSUME NEW i \in 0 .. n - 1, i \in P PROVE i + 1 \in P
      <3>1. PICK f, o : IsAt(bytes[i + 1], f, o)
        OBVIOUS
      <3>2. fed[i] \in Accs
        BY <2>2
      <3>3. Fed1(s, fed[i], bytes[i + 1]) \in Accs
        BY <3>1, <3>2, OneMore
      <3> QED
        BY <1>8, <3>3
    <2>3. \A i \in 0 .. n : i \in P
      <3> HIDE DEF P
      <3> QED
        BY <2>1, <2>2, Upward
    <2> QED
      BY <2>3
  <1> QED
    BY <1>7, <1>8, <1>9 DEF Feeds

-----------------------------------------------------------------------------
(* Types, and what the receivers wait for.                                  *)

Sent == [session : Sessions, kind : Kinds, count : 1 .. MaxFrames, from : Nat]

Types ==
  /\ active \in BOOLEAN
  /\ app \in [Sessions -> {"none", "reading", "writing", "up", "over"}]
  /\ rx \in [Sessions -> Rxs]
  /\ keyed \in 0 .. MaxSessions /\ count \in 0 .. MaxFrames
  /\ wire \in Seq(Elements) /\ sent \in Seq(Sent) /\ total \in Nat /\ clean \in Nat

\* How an indication is cut off.
CutOff(t, u, w, m) ==
  /\ Len(t) = m /\ \A i \in 1 .. m : t[i] = w[i]
  /\ Len(u) = Len(w) - m /\ \A i \in 1 .. Len(w) - m : u[i] = w[m + i]

LEMMA Cuttings ==
  ASSUME NEW S, NEW w \in Seq(S), NEW n \in Cuts
  PROVE  /\ Slice(w, 0, n) \in Seq(S) /\ Slice(w, n, Len(w)) \in Seq(S)
         /\ \E m \in 0 .. Len(w) : (Len(w) > 0 => m > 0) /\ CutOff(Slice(w, 0, n), Slice(w, n, Len(w)), w, m)
  <1>0. n \in Nat /\ n > 0
    BY CutsAssumption
  <1>1. PICK l \in Nat : l = Len(w)
    BY LenProperties
  <1>2. PICK m \in 0 .. l : m = IF n < l THEN n ELSE l
    BY <1>0
  <1>3. Slice(w, 0, n) = SubSeq(w, 1, m) /\ Slice(w, n, Len(w)) = SubSeq(w, n + 1, l)
    <2>1. 0 + 1 = 1 /\ ~(l < l)
      OBVIOUS
    <2>2. Slice(w, 0, n) = SubSeq(w, 0 + 1, IF n < Len(w) THEN n ELSE Len(w))
      BY DEF Slice
    <2>3. Slice(w, n, Len(w)) = SubSeq(w, n + 1, IF Len(w) < Len(w) THEN Len(w) ELSE Len(w))
      BY DEF Slice
    <2> QED
      BY <1>1, <1>2, <2>1, <2>2, <2>3
  <1> DEFINE t == SubSeq(w, 1, m)
             u == SubSeq(w, n + 1, l)
  <1>4. t \in Seq(S) /\ Len(t) = m /\ \A i \in 1 .. m : t[i] = w[i]
    <2>1. 1 \in 1 .. Len(w) + 1 /\ m \in 1 - 1 .. Len(w) /\ (m - 1) + 1 = m
      BY <1>1
    <2>2. \A i \in 1 .. m : w[i] \in S
      BY <1>1
    <2>3. t = [i \in 1 .. m |-> w[i]]
      BY <1>1
    <2> QED
      BY <2>2, <2>3
  <1>5. u \in Seq(S) /\ Len(u) = l - m /\ \A i \in 1 .. l - m : u[i] = w[m + i]
    <2>1. CASE n < l
      <3>1. m = n /\ l - n \in Nat
        BY <1>0, <1>2, <2>1
      <3>2. u = [i \in 1 .. l - n |-> w[n + i]]
        BY <1>0, <1>1, <3>1
      <3>3. \A i \in 1 .. l - n : w[n + i] \in S
        BY <1>0, <1>1
      <3>4. PICK k \in Nat : k = l - n
        BY <3>1
      <3>5. u \in Seq(S) /\ Len(u) = k /\ \A i \in 1 .. k : u[i] = w[n + i]
        <4> HIDE DEF u
        <4> QED
          BY <3>2, <3>3, <3>4
      <3> HIDE DEF u
      <3> QED
        BY <3>1, <3>4, <3>5
    <2>2. CASE ~(n < l)
      <3>1. m = l /\ l - m = 0
        BY <1>0, <1>2, <2>2
      <3>2. u = <<>>
        BY <1>0, <1>1, <2>2
      <3>3. <<>> \in Seq(S) /\ Len(<<>>) = 0
        OBVIOUS
      <3>4. \A i \in 1 .. l - m : FALSE
        BY <3>1
      <3> HIDE DEF u
      <3> QED
        BY <3>1, <3>2, <3>3, <3>4
    <2> QED
      BY <2>1, <2>2
  <1>6. (l > 0 => m > 0) /\ m \in 0 .. Len(w)
    BY <1>0, <1>1, <1>2
  <1> HIDE DEF t, u
  <1>7. CutOff(t, u, w, m)
    BY <1>1, <1>4, <1>5 DEF CutOff
  <1> QED
    BY <1>1, <1>3, <1>4, <1>5, <1>6, <1>7 DEF t, u

LEMMA ElementsCome ==
  ASSUME NEW x \in Elements
  PROVE  \E f, o : IsAt(x, f, o)
  BY ElementsAre

LEMMA FeedFits ==
  ASSUME NEW s \in Sessions, Fits(rx[s]), NEW bytes \in Seq(Elements)
  PROVE  Feed(s, bytes).rx \in Rxs
  <1>1. PICK n \in Nat : n = Len(bytes)
    BY LenProperties
  <1>2. \A i \in 1 .. n : bytes[i] \in Elements
    BY <1>1, ElementOfSeq
  <1>3. \A i \in 1 .. n : \E f, o : IsAt(bytes[i], f, o)
    BY <1>2, ElementsCome
  <1>4. PICK fed : Feeds(fed, s, [rx |-> rx[s], out |-> <<>>], bytes, n) /\ Feed(s, bytes) = fed[n]
    BY <1>1, <1>3, FeedIs
  <1>5. n \in 0 .. n
    OBVIOUS
  <1>6. fed[n] \in Accs
    BY <1>4, <1>5 DEF Feeds
  <1> QED
    BY <1>4, <1>6 DEF Accs

\* What a frame adds to the wire.
LEMMA FrameComes ==
  ASSUME NEW f \in Packets
  PROVE  Frame[f] \in Seq(Elements)
  <1>1. IsSeq(Frame[f], BodyLen(f) + 8)
    BY FrameShape
  <1>2. \A i \in 1 .. BodyLen(f) + 8 : Frame[f][i] \in Elements
    BY DEF Elements
  <1> QED
    BY <1>1, <1>2, SeqOfThem

LEMMA NoneIsSeq == \A S : <<>> \in Seq(S)
  OBVIOUS

LEMMA LargerOf ==
  ASSUME NEW a \in Int, NEW b \in Int
  PROVE  Max({a, b}) \in {a, b} /\ Max({a, b}) >= a /\ Max({a, b}) >= b
  <1>1. \E x \in {a, b} : \A y \in {a, b} : x >= y
    <2>1. a >= b \/ b >= a
      OBVIOUS
    <2> QED
      BY <2>1
  <1>2. Max({a, b}) = CHOOSE x \in {a, b} : \A y \in {a, b} : x >= y
    BY DEF Max
  <1> QED
    BY <1>1, <1>2

LEMMA TypesInitially == Init => Types
  <1> SUFFICES ASSUME Init PROVE Types
    OBVIOUS
  <1>1. Ready \in Rxs
    BY ReadyFits, RxsAre
  <1>2. MaxSessions \in Nat /\ MaxFrames \in Nat
    BY BoundsAssumption
  <1>3. wire \in Seq(Elements) /\ sent \in Seq(Sent)
    BY NoneIsSeq DEF Init
  <1>4. rx \in [Sessions -> Rxs] /\ app \in [Sessions -> {"none", "reading", "writing", "up", "over"}]
    BY <1>1 DEF Init
  <1>5. active \in BOOLEAN /\ total \in Nat /\ clean \in Nat
    BY DEF Init
  <1>6. keyed \in 0 .. MaxSessions /\ count \in 0 .. MaxFrames
    <2>1. keyed = 0 /\ count = 0
      BY DEF Init
    <2> QED
      BY <1>2, <2>1
  <1> QED
    BY <1>3, <1>4, <1>5, <1>6 DEF Types

LEMMA OverTypes ==
  ASSUME Types, NEW sessions, Over(sessions)
  PROVE  /\ app' \in [Sessions -> {"none", "reading", "writing", "up", "over"}]
         /\ rx' \in [Sessions -> Rxs]
  <1>1. Ready \in Rxs
    BY ReadyFits, RxsAre
  <1> QED
    BY <1>1 DEF Types, Over

LEMMA StoppedTypes ==
  ASSUME Stopped
  PROVE  /\ active' \in BOOLEAN /\ wire' \in Seq(Elements) /\ sent' \in Seq(Sent)
         /\ total' \in Nat /\ clean' \in Nat
  <1>1. wire' \in Seq(Elements) /\ sent' \in Seq(Sent)
    BY NoneIsSeq DEF Stopped
  <1>2. active' \in BOOLEAN /\ total' \in Nat /\ clean' \in Nat
    BY DEF Stopped
  <1> QED
    BY <1>1, <1>2

LEMMA TypesPreserved == Types /\ [Next]_vars => Types'
  <1> SUFFICES ASSUME Types, [Next]_vars PROVE Types'
    OBVIOUS
  <1>0. MaxSessions \in Nat /\ MaxFrames \in Nat /\ Sessions = 1 .. MaxSessions /\ MaxFrame \in Nat
    BY BoundsAssumption, LargestFrame DEF Sessions
  <1>1. CASE Stop
    BY <1>1, OverTypes, StoppedTypes DEF Stop, Types
  <1>2. ASSUME NEW s \in Sessions, RunMpidSession(s) PROVE Types'
    BY <1>2 DEF RunMpidSession, Types, portal
  <1>3. ASSUME NEW s \in Sessions, StartSession(s) PROVE Types'
    BY <1>3 DEF StartSession, Types, portal
  <1>4. ASSUME NEW s \in Sessions, PortalAccepts(s) PROVE Types'
    <2>1. clean' \in Nat
      <3>1. total \in Nat /\ total + MaxFrame \in Nat
        BY <1>0 DEF Types
      <3> QED
        BY <1>4, <3>1 DEF PortalAccepts
    <2>2. keyed' \in 0 .. MaxSessions
      BY <1>0, <1>4 DEF PortalAccepts
    <2>3. UNCHANGED <<active, app, rx, count, wire, sent, total>>
      BY <1>4 DEF PortalAccepts
    <2> QED
      BY <2>1, <2>2, <2>3 DEF Types
  <1>5. ASSUME NEW s \in Sessions, Established(s) PROVE Types'
    <2>1. UNCHANGED <<active, keyed, count, wire, sent, total, clean>>
      BY <1>5 DEF Established, portal
    <2>2. CASE active
      <3>1. app' = [app EXCEPT ![s] = "up"] /\ rx' = rx
        BY <1>5, <2>2 DEF Established
      <3> QED
        BY <2>1, <3>1 DEF Types
    <2>3. CASE ~active
      <3>1. Over({s})
        BY <1>5, <2>3 DEF Established
      <3>2. app' \in [Sessions -> {"none", "reading", "writing", "up", "over"}] /\ rx' \in [Sessions -> Rxs]
        BY <3>1, OverTypes
      <3> QED
        BY <2>1, <3>2 DEF Types
    <2> QED
      BY <2>2, <2>3
  <1>6. ASSUME NEW s \in Sessions, HandshakeFails(s) PROVE Types'
    <2>1. Over({s} \cup {t \in Sessions : active /\ app[t] = "up"}) /\ UNCHANGED <<keyed, count>>
      BY <1>6 DEF HandshakeFails
    <2>2. app' \in [Sessions -> {"none", "reading", "writing", "up", "over"}] /\ rx' \in [Sessions -> Rxs]
      BY <2>1, OverTypes
    <2>3. CASE active
      <3>1. Stopped
        BY <1>6, <2>3 DEF HandshakeFails
      <3> QED
        BY <2>1, <2>2, <3>1, StoppedTypes DEF Types
    <2>4. CASE ~active
      <3>1. UNCHANGED <<active, wire, sent, total, clean>>
        BY <1>6, <2>4 DEF HandshakeFails
      <3> QED
        BY <2>1, <2>2, <3>1 DEF Types
    <2> QED
      BY <2>3, <2>4
  <1>7. ASSUME NEW kind \in Kinds, PortalSends(kind) PROVE Types'
    <2> DEFINE k == count + 1
               f == <<keyed, kind, k>>
               p == [session |-> keyed, kind |-> kind, count |-> k, from |-> total]
    <2>1. k \in 1 .. MaxFrames /\ keyed \in Sessions
      BY <1>0, <1>7 DEF PortalSends, Types
    <2>2. f \in Packets
      BY <2>1 DEF Packets
    <2>3. count' = k /\ wire' = wire \o Frame[f] /\ sent' = Append(sent, p) /\ total' = total + Len(Frame[f])
      BY <1>7 DEF PortalSends
    <2>4. UNCHANGED <<active, app, rx, keyed, clean>>
      BY <1>7 DEF PortalSends
    <2>5. p \in Sent
      BY <2>1 DEF Types, Sent
    <2>6. Len(Frame[f]) \in Nat
      <3> HIDE DEF f
      <3>1. Frame[f] \in Seq(Elements)
        BY <2>2, FrameComes
      <3> QED
        BY <3>1, LenProperties
    <2> HIDE DEF k, f, p
    <2>7. wire' \in Seq(Elements)
      <3>1. Frame[f] \in Seq(Elements) /\ wire \in Seq(Elements)
        BY <2>2, FrameComes DEF Types
      <3> QED
        BY <2>3, <3>1, ConcatProperties
    <2>8. sent' \in Seq(Sent)
      <3>1. sent \in Seq(Sent)
        BY DEF Types
      <3> QED
        BY <2>3, <2>5, <3>1, AppendProperties
    <2>9. total' \in Nat
      BY <2>3, <2>6 DEF Types
    <2>10. count' \in 0 .. MaxFrames
      BY <1>0, <2>1, <2>3
    <2> QED
      BY <2>4, <2>7, <2>8, <2>9, <2>10 DEF Types
  <1>8. ASSUME NEW n \in Cuts, OnTxRx(n) PROVE Types'
    <2>0. wire \in Seq(Elements)
      BY DEF Types
    <2>1. Slice(wire, 0, n) \in Seq(Elements) /\ Slice(wire, n, Len(wire)) \in Seq(Elements)
      BY <2>0, Cuttings
    <2>2. wire' \in Seq(Elements)
      BY <1>8, <2>1 DEF OnTxRx
    <2>3. rx' \in [Sessions -> Rxs]
      <3> DEFINE fed == [s \in Sessions |-> IF Monitored(s) THEN Feed(s, Slice(wire, 0, n)) ELSE [rx |-> rx[s], out |-> <<>>]]
      <3>1. rx' = [s \in Sessions |-> fed[s].rx]
        BY <1>8 DEF OnTxRx
      <3>2. ASSUME NEW s \in Sessions PROVE fed[s].rx \in Rxs
        <4>1. rx[s] \in Rxs
          BY DEF Types
        <4>2. Feed(s, Slice(wire, 0, n)).rx \in Rxs
          BY <2>1, <4>1, FeedFits, RxsAre
        <4> QED
          BY <4>1, <4>2
      <3> HIDE DEF fed
      <3> QED
        BY <3>1, <3>2
    <2>4. UNCHANGED <<active, app, keyed, count, sent, total, clean>>
      BY <1>8 DEF OnTxRx
    <2> QED
      BY <2>2, <2>3, <2>4 DEF Types
  <1>9. ASSUME NEW n \in Cuts, Lost(n) PROVE Types'
    <2>0. wire \in Seq(Elements)
      BY DEF Types
    <2>1. Slice(wire, n, Len(wire)) \in Seq(Elements)
      BY <2>0, Cuttings
    <2>2. wire' \in Seq(Elements) /\ UNCHANGED <<active, app, rx, keyed, count, sent, total>>
      BY <1>9, <2>1 DEF Lost
    <2>3. clean' \in Nat
      <3> DEFINE b == total - Len(wire') + MaxFrame
      <3>1. b \in Int
        <4>1. Len(wire') \in Nat
          BY <2>2, LenProperties
        <4> QED
          BY <1>0, <4>1 DEF Types
      <3>2. clean' = Max({clean, b})
        BY <1>9 DEF Lost
      <3> HIDE DEF b
      <3>3. clean \in Nat
        BY DEF Types
      <3>4. clean' \in {clean, b} /\ clean' >= clean
        BY <3>1, <3>2, <3>3, LargerOf
      <3> QED
        BY <3>1, <3>3, <3>4
    <2> QED
      BY <2>2, <2>3 DEF Types
  <1>10. CASE UNCHANGED vars
    BY <1>10 DEF vars, portal, Types
  <1> QED
    BY <1>1, <1>2, <1>3, <1>4, <1>5, <1>6, <1>7, <1>8, <1>9, <1>10 DEF Next

LEMMA Bounded ==
  Types => ReceiverIsBounded
  <1> SUFFICES ASSUME Types, NEW s \in Sessions
               PROVE  /\ rx[s].state = "READY" => rx[s] = Ready
                      /\ rx[s].state = "GOT_PREAMBLE" => Len(rx[s].buf) < 8 /\ rx[s].buf[1].byte = PREAMBLE
                      /\ rx[s].state = "GOT_HEADER" => Len(rx[s].buf) < rx[s].plen + 8 /\ rx[s].plen + 8 <= MaxFrame
    BY DEF ReceiverIsBounded
  <1>1. PICK r : r = rx[s] /\ Fits(r)
    BY RxsAre DEF Types
  <1>2. r.state = "READY" => r = Ready
    BY <1>1 DEF Fits
  <1>3. ASSUME r.state = "GOT_PREAMBLE" PROVE Len(r.buf) < 8 /\ r.buf[1].byte = PREAMBLE
    <2>1. Len(r.buf) \in 1 .. 7 /\ r.buf[1] = Plain(PREAMBLE)
      BY <1>1, <1>3 DEF Fits
    <2>2. Plain(PREAMBLE).byte = PREAMBLE
      BY DEF Plain
    <2>3. PICK l \in 1 .. 7 : l = Len(r.buf)
      BY <2>1
    <2>5. l < 8
      OBVIOUS
    <2>4. Len(r.buf) < 8
      BY <2>3, <2>5, Zenon
    <2> QED
      BY <2>1, <2>2, <2>4
  <1>4. ASSUME r.state = "GOT_HEADER" PROVE Len(r.buf) < r.plen + 8 /\ r.plen + 8 <= MaxFrame
    <2>1. Len(r.buf) \in 8 .. r.plen + 7 /\ Headed(r.buf, r.plen)
      BY <1>1, <1>4 DEF Fits
    <2>2. PICK g \in Packets : BodyLen(g) = r.plen
      BY <2>1 DEF Headed
    <2>3. BodyLen(g) \in 0 .. 127 /\ BodyLen(g) + 8 <= MaxFrame
      BY Lengths, LargestFrame
    <2>4. PICK m \in 0 .. 127 : m = r.plen
      BY <2>2, <2>3
    <2> QED
      BY <2>1, <2>2, <2>3, <2>4
  <1> QED
    BY <1>1, <1>2, <1>3, <1>4

\* The receivers are one of three: they wait for a preamble, for a header or for
\* the body of a header of a frame, with what they hold a part of the wire's.
THEOREM TypeCorrect == Spec => []Types
  <1> QED
    BY TypesInitially, TypesPreserved, PTL DEF Spec

\* feedByte() waits for no more than the largest frame, whatever is lost.
THEOREM ReceiverBounded == Spec => []ReceiverIsBounded
  <1> QED
    BY TypeCorrect, Bounded, PTL

-----------------------------------------------------------------------------
(* What was sent, and the events that tell of it.                           *)

PacketOf(p) == <<p.session, p.kind, p.count>>

LEMMA SentIs ==
  ASSUME NEW p \in Sent
  PROVE  /\ PacketOf(p) \in Packets /\ Packet(p) = Frame[PacketOf(p)]
         /\ p.from \in Nat /\ p.count \in Nat /\ p.session \in Sessions
         /\ To(p) \in Nat /\ To(p) = p.from + (BodyLen(PacketOf(p)) + 8) /\ To(p) > p.from
         /\ Len(Packet(p)) = BodyLen(PacketOf(p)) + 8
  <1>1. p.session \in Sessions /\ p.kind \in Kinds /\ p.count \in 1 .. MaxFrames /\ p.from \in Nat
    BY DEF Sent
  <1>2. PacketOf(p) \in Packets
    BY <1>1 DEF PacketOf, Packets
  <1>3. Packet(p) = Frame[PacketOf(p)]
    BY DEF Packet, PacketOf
  <1>4. PICK n \in 0 .. 127 : n = BodyLen(PacketOf(p))
    BY <1>2, Lengths
  <1>5. Len(Packet(p)) = n + 8
    BY <1>2, <1>3, <1>4, Lengths
  <1>6. To(p) = p.from + (n + 8)
    BY <1>5 DEF To
  <1>7. p.from + (n + 8) \in Nat /\ p.from + (n + 8) > p.from
    BY <1>1
  <1>8. p.count \in Nat
    <2>1. MaxFrames \in Nat
      BY BoundsAssumption
    <2> QED
      BY <1>1, <2>1
  <1> QED
    BY <1>1, <1>2, <1>3, <1>4, <1>5, <1>6, <1>7, <1>8

\* A packet that means something says so.
LEMMA MeansWhatItSays ==
  ASSUME NEW p \in Sent
  PROVE  \/ Means(p) = <<>> /\ BodyLen(PacketOf(p)) = 0
         \/ /\ Means(p) = <<EventOf(p.kind, p.count)>> /\ BodyLen(PacketOf(p)) > 0
            /\ DecodeAndDispatch(Said(PacketOf(p))) = <<EventOf(p.kind, p.count)>>
            /\ EventOf(p.kind, p.count) \in Meanings
  <1> DEFINE f == PacketOf(p)
             e == EventOf(p.kind, p.count)
  <1>1. p.kind \in Kinds /\ p.count \in 1 .. MaxFrames /\ f \in Packets
    BY SentIs DEF Sent
  <1>2. Said(f) = Payload(p.kind, p.count) /\ Means(p) = Says(p.kind, p.count).means
    BY DEF Said, PacketOf, Means
  <1>3. e \in Meanings
    <2>1. f[2] = p.kind /\ f[3] = p.count
      BY DEF PacketOf
    <2> QED
      BY <1>1, <2>1 DEF Meanings
  <1> HIDE DEF e, f
  <1>4. \/ Said(f) = <<>> /\ Means(p) = <<>>
        \/ Told(Said(f), e) /\ Means(p) = <<e>>
    BY <1>1, <1>2, SaysWhatItMeans DEF e
  <1>5. CASE Said(f) = <<>> /\ Means(p) = <<>>
    <2>1. BodyLen(f) = 0
      BY <1>5 DEF BodyLen
    <2>2. Means(p) = <<>>
      BY <1>5
    <2>3. BodyLen(PacketOf(p)) = 0
      BY <2>1 DEF f
    <2> QED
      BY <2>2, <2>3
  <1>6. CASE Told(Said(f), e) /\ Means(p) = <<e>>
    <2>1. Said(f) # <<>> /\ DecodeAndDispatch(Said(f)) = <<e>>
      <3>1. Len(Said(f)) \in 1 .. 126 /\ DecodeAndDispatch(Said(f)) = <<e>>
        BY <1>6 DEF Told
      <3>2. Len(<<>>) \notin 1 .. 126
        OBVIOUS
      <3> QED
        BY <3>1, <3>2, Zenon
    <2>2. PICK n \in 0 .. 127 : n = BodyLen(f)
      BY <1>1, Lengths
    <2>3. n # 0
      BY <1>1, <2>1, <2>2, SaidIs
    <2>4. BodyLen(f) > 0
      BY <2>2, <2>3
    <2> QED
      BY <1>3, <1>6, <2>1, <2>4 DEF f, e
  <1> QED
    BY <1>4, <1>5, <1>6

\* The packets follow one another, with rising counts and sessions.
Sends(q, tot) ==
  /\ q \in Seq(Sent) /\ tot \in Nat
  /\ \A i \in DOMAIN q : To(q[i]) <= tot
  /\ \A i, j \in DOMAIN q : i < j => To(q[i]) <= q[j].from /\ q[i].count < q[j].count /\ q[i].session <= q[j].session

IsFrom(q, e, k) == k \in DOMAIN q /\ Means(q[k]) = <<e>>

\* These are events of packets of this set, each once and in order.
Tells(q, t, I) ==
  /\ t \in Seq(Meanings)
  /\ \A x \in DOMAIN t : \E k \in I : IsFrom(q, t[x], k)
  /\ \A x, y \in DOMAIN t : x < y => \A i, j : IsFrom(q, t[x], i) /\ IsFrom(q, t[y], j) => i < j

LEMMA SentAre ==
  ASSUME NEW q \in Seq(Sent), NEW k \in DOMAIN q
  PROVE  q[k] \in Sent /\ k \in Nat /\ k \in 1 .. Len(q)
  <1>1. DOMAIN q = 1 .. Len(q) /\ Len(q) \in Nat
    BY LenProperties
  <1>2. k \in 1 .. Len(q)
    BY <1>1
  <1> QED
    BY <1>1, <1>2, ElementOfSeq

LEMMA FromOne ==
  ASSUME NEW q, NEW tot, Sends(q, tot), NEW e, NEW i, NEW j, IsFrom(q, e, i), IsFrom(q, e, j)
  PROVE  i = j
  <1>1. q \in Seq(Sent) /\ i \in DOMAIN q /\ j \in DOMAIN q
    BY DEF Sends, IsFrom
  <1>2. q[i] \in Sent /\ q[j] \in Sent /\ i \in Nat /\ j \in Nat
    BY <1>1, SentAre
  <1>3. Means(q[i]) = <<e>> /\ Means(q[j]) = <<e>>
    BY DEF IsFrom
  <1>4. e = EventOf(q[i].kind, q[i].count) /\ e = EventOf(q[j].kind, q[j].count)
    <2>1. \A p \in Sent : Means(p) = <<e>> => e = EventOf(p.kind, p.count)
      <3> SUFFICES ASSUME NEW p \in Sent, Means(p) = <<e>> PROVE e = EventOf(p.kind, p.count)
        OBVIOUS
      <3>1. Means(p) # <<>>
        OBVIOUS
      <3>2. <<e>> = <<EventOf(p.kind, p.count)>>
        BY <3>1, MeansWhatItSays
      <3> QED
        BY <3>2
    <2> QED
      BY <1>2, <1>3, <2>1
  <1>5. q[i].count \in Nat /\ q[j].count \in Nat
    BY <1>2, SentIs
  <1>6. q[i].count = q[j].count
    <2>1. q[i].count \in Int /\ q[j].count \in Int
      BY <1>5
    <2> QED
      BY <1>4, <2>1, EventsDiffer
  <1>7. ~(i < j) /\ ~(j < i)
    <2>1. \A a, b \in DOMAIN q : a < b => q[a].count < q[b].count
      BY DEF Sends
    <2> QED
      BY <1>1, <1>5, <1>6, <2>1
  <1> QED
    BY <1>2, <1>7

LEMMA TellsNone == \A q, I : Tells(q, <<>>, I)
  BY NoneIsSeq DEF Tells

LEMMA TellsMore ==
  ASSUME NEW q, NEW t, NEW I, NEW J, Tells(q, t, I), I \subseteq J
  PROVE  Tells(q, t, J)
  BY DEF Tells

LEMMA TellsOne ==
  ASSUME NEW q, NEW e \in Meanings, NEW k, NEW tot, Sends(q, tot), IsFrom(q, e, k)
  PROVE  Tells(q, <<e>>, {k})
  <1> DEFINE t == <<e>>
  <1>1. t \in Seq(Meanings) /\ DOMAIN t = {1} /\ t[1] = e
    OBVIOUS
  <1> HIDE DEF t
  <1> QED
    <2>1. \A x \in DOMAIN t : \E i \in {k} : IsFrom(q, t[x], i)
      BY <1>1
    <2>2. \A x, y \in DOMAIN t : ~(x < y)
      BY <1>1
    <2>3. Tells(q, t, {k})
      BY <1>1, <2>1, <2>2 DEF Tells
    <2> QED
      BY <2>3 DEF t

LEMMA TellsBoth ==
  ASSUME NEW q, NEW tot, Sends(q, tot), NEW t, NEW u, NEW I, NEW J, Tells(q, t, I), Tells(q, u, J),
         \A i \in I, j \in J : i < j
  PROVE  Tells(q, t \o u, I \cup J)
  <1> DEFINE w == t \o u
  <1>1. t \in Seq(Meanings) /\ u \in Seq(Meanings)
    BY DEF Tells
  <1>2. PICK m \in Nat, n \in Nat : m = Len(t) /\ n = Len(u)
    BY <1>1, LenProperties
  <1>3. w \in Seq(Meanings) /\ Joined(w, t, Len(t), u, Len(u))
    BY <1>1, Joins
  <1> HIDE DEF w
  <1>4. Joined(w, t, m, u, n)
    BY <1>2, <1>3, Zenon
  <1>5. Len(w) = m + n /\ (\A x \in 1 .. m : w[x] = t[x]) /\ (\A x \in 1 .. n : w[m + x] = u[x])
    BY <1>4 DEF Joined
  <1>6. DOMAIN t = 1 .. m /\ DOMAIN u = 1 .. n /\ DOMAIN w = 1 .. m + n
    BY <1>1, <1>2, <1>3, <1>5, LenProperties
  <1>7. \A x \in 1 .. m + n : x \in 1 .. m \/ \E y \in 1 .. n : x = m + y
    <2> SUFFICES ASSUME NEW x \in 1 .. m + n, x \notin 1 .. m PROVE \E y \in 1 .. n : x = m + y
      OBVIOUS
    <2>1. x - m \in 1 .. n /\ x = m + (x - m)
      OBVIOUS
    <2> QED
      BY <2>1
  <1>8. \A x \in DOMAIN t : \E k \in I : IsFrom(q, t[x], k)
    BY DEF Tells
  <1>9. \A x \in DOMAIN u : \E k \in J : IsFrom(q, u[x], k)
    BY DEF Tells
  <1>10. ASSUME NEW x \in DOMAIN w PROVE \E k \in I \cup J : IsFrom(q, w[x], k)
    <2>1. CASE x \in 1 .. m
      BY <1>5, <1>6, <1>8, <2>1
    <2>2. CASE x \notin 1 .. m
      <3>1. PICK y \in 1 .. n : x = m + y
        BY <1>6, <1>7, <2>2
      <3> QED
        BY <1>5, <1>6, <1>9, <3>1
    <2> QED
      BY <2>1, <2>2
  <1>11. ASSUME NEW x \in DOMAIN w, NEW y \in DOMAIN w, x < y, NEW i, NEW j, IsFrom(q, w[x], i), IsFrom(q, w[y], j)
         PROVE  i < j
    <2>1. CASE x \in 1 .. m /\ y \in 1 .. m
      <3>1. w[x] = t[x] /\ w[y] = t[y] /\ x \in DOMAIN t /\ y \in DOMAIN t
        BY <1>5, <1>6, <2>1
      <3>2. IsFrom(q, t[x], i) /\ IsFrom(q, t[y], j)
        BY <1>11, <3>1
      <3> QED
        BY <1>11, <3>1, <3>2 DEF Tells
    <2>2. CASE x \in 1 .. m /\ y \notin 1 .. m
      <3>1. PICK b \in 1 .. n : y = m + b
        BY <1>6, <1>7, <2>2
      <3>2. w[x] = t[x] /\ w[y] = u[b] /\ x \in DOMAIN t /\ b \in DOMAIN u
        BY <1>5, <1>6, <2>2, <3>1
      <3>3. PICK k \in I : IsFrom(q, w[x], k)
        BY <1>8, <3>2
      <3>4. PICK l \in J : IsFrom(q, w[y], l)
        BY <1>9, <3>2
      <3>5. k = i /\ l = j
        BY <1>11, <3>3, <3>4, FromOne
      <3>6. k < l
        OBVIOUS
      <3> QED
        BY <3>5, <3>6
    <2>3. CASE x \notin 1 .. m
      <3>1. PICK a \in 1 .. n : x = m + a
        BY <1>6, <1>7, <2>3
      <3>2. y \notin 1 .. m
        BY <1>6, <1>11, <3>1
      <3>3. PICK b \in 1 .. n : y = m + b
        BY <1>6, <1>7, <3>2
      <3>4. a < b
        BY <1>11, <3>1, <3>3
      <3>5. w[x] = u[a] /\ w[y] = u[b] /\ a \in DOMAIN u /\ b \in DOMAIN u
        BY <1>5, <1>6, <3>1, <3>3
      <3>6. IsFrom(q, u[a], i) /\ IsFrom(q, u[b], j)
        BY <1>11, <3>5
      <3> QED
        BY <3>4, <3>5, <3>6 DEF Tells
    <2> QED
      BY <2>1, <2>2, <2>3
  <1> QED
    BY <1>3, <1>10, <1>11 DEF Tells, w

-----------------------------------------------------------------------------
(* What is under way: the last bytes of what was sent.                      *)

Within(x, p, o, at) == IsAt(x, PacketOf(p), o) /\ at = p.from + o
Arriving(w, q, a) == \A x \in 1 .. Len(w) : \E k \in DOMAIN q : \E o : Within(w[x], q[k], o, a + x)

Streams ==
  /\ Sends(sent, total) /\ Len(wire) <= total /\ Arriving(wire, sent, total - Len(wire))
  /\ \A i \in DOMAIN sent : sent[i].count <= count /\ sent[i].session <= keyed
  /\ keyed > 0 => app[keyed] # "none"

LEMMA NoneSent == Sends(<<>>, 0) /\ Arriving(<<>>, <<>>, 0)
  <1>1. <<>> \in Seq(Sent) /\ DOMAIN <<>> = {} /\ Len(<<>>) = 0
    BY NoneIsSeq
  <1>2. Sends(<<>>, 0)
    BY <1>1 DEF Sends
  <1>3. Arriving(<<>>, <<>>, 0)
    BY <1>1 DEF Arriving
  <1> QED
    BY <1>1, <1>2, <1>3

\* One packet more.
OneSent(r, q, p, n) ==
  /\ r \in Seq(Sent) /\ DOMAIN r = 1 .. n + 1 /\ DOMAIN q = 1 .. n /\ n \in Nat
  /\ r[n + 1] = p /\ \A i \in 1 .. n : r[i] = q[i]

LEMMA AppendsSent ==
  ASSUME NEW q \in Seq(Sent), NEW p \in Sent
  PROVE  OneSent(Append(q, p), q, p, Len(q))
  <1>1. PICK n \in Nat : n = Len(q)
    BY LenProperties
  <1>2. IsSeq(q, n) /\ DOMAIN q = 1 .. n
    BY <1>1, SeqIsSeq, LenProperties
  <1>3. Grown(Append(q, p), q, n, p)
    BY <1>2, AppendsOne
  <1>4. Append(q, p) \in Seq(Sent)
    BY AppendProperties
  <1>5. DOMAIN Append(q, p) = 1 .. n + 1
    <2>1. IsSeq(Append(q, p), n + 1)
      BY <1>3 DEF Grown
    <2> QED
      BY <2>1 DEF IsSeq
  <1> QED
    BY <1>1, <1>2, <1>3, <1>4, <1>5 DEF OneSent, Grown

LEMMA SendsOne ==
  ASSUME NEW q, NEW tot, NEW p \in Sent, NEW r, NEW n, Sends(q, tot), OneSent(r, q, p, n), p.from = tot,
         \A i \in DOMAIN q : q[i].count < p.count /\ q[i].session <= p.session
  PROVE  Sends(r, To(p))
  <1>1. q \in Seq(Sent) /\ tot \in Nat /\ (\A i \in DOMAIN q : To(q[i]) <= tot)
    BY DEF Sends
  <1>2. \A i, j \in DOMAIN q : i < j => To(q[i]) <= q[j].from /\ q[i].count < q[j].count /\ q[i].session <= q[j].session
    BY DEF Sends
  <1>3. r \in Seq(Sent) /\ DOMAIN r = 1 .. n + 1 /\ DOMAIN q = 1 .. n /\ n \in Nat
    BY DEF OneSent
  <1>4. r[n + 1] = p /\ \A i \in 1 .. n : r[i] = q[i]
    BY DEF OneSent
  <1>5. To(p) \in Nat /\ To(p) > tot
    BY SentIs
  <1>6. \A i \in DOMAIN r : i \in 1 .. n \/ i = n + 1
    BY <1>3
  <1>7. \A i \in 1 .. n : To(q[i]) \in Nat
    <2>1. \A x \in Sent : To(x) \in Nat
      BY SentIs
    <2>2. \A i \in 1 .. n : q[i] \in Sent
      BY <1>1, <1>3, ElementOfSeq, LenProperties
    <2> QED
      BY <2>1, <2>2
  <1>8. ASSUME NEW i \in DOMAIN r PROVE To(r[i]) <= To(p)
    <2>1. CASE i \in 1 .. n
      <3>1. To(r[i]) = To(q[i]) /\ To(q[i]) <= tot /\ To(q[i]) \in Nat
        BY <1>1, <1>3, <1>4, <1>7, <2>1
      <3> QED
        BY <1>1, <1>5, <3>1
    <2>2. CASE i = n + 1
      BY <1>4, <1>5, <2>2
    <2> QED
      BY <1>6, <2>1, <2>2
  <1>9. ASSUME NEW i \in DOMAIN r, NEW j \in DOMAIN r, i < j
        PROVE  To(r[i]) <= r[j].from /\ r[i].count < r[j].count /\ r[i].session <= r[j].session
    <2>1. i \in 1 .. n
      BY <1>3, <1>9
    <2>2. r[i] = q[i] /\ i \in DOMAIN q
      BY <1>3, <1>4, <2>1
    <2>3. CASE j \in 1 .. n
      <3>1. r[j] = q[j] /\ j \in DOMAIN q
        BY <1>3, <1>4, <2>3
      <3> QED
        BY <1>2, <1>9, <2>2, <3>1
    <2>4. CASE j = n + 1
      <3>1. r[j] = p
        BY <1>4, <2>4
      <3>2. To(q[i]) <= p.from
        BY <1>1, <2>2
      <3> QED
        BY <2>2, <3>1, <3>2
    <2> QED
      BY <1>6, <2>3, <2>4
  <1> QED
    BY <1>3, <1>5, <1>8, <1>9 DEF Sends

LEMMA ArrivesMore ==
  ASSUME NEW w \in Seq(Elements), NEW q, NEW a \in Nat, NEW p \in Sent, NEW r, NEW n, OneSent(r, q, p, n),
         Arriving(w, q, a), p.from = a + Len(w)
  PROVE  Arriving(w \o Packet(p), r, a)
  <1> DEFINE F == Packet(p)
             v == w \o F
  <1>1. PICK l \in Nat : l = Len(w)
    BY LenProperties
  <1>2. F \in Seq(Elements)
    BY SentIs, FrameComes
  <1>3. PICK m \in Nat : m = Len(F)
    BY <1>2, LenProperties
  <1>4. PacketOf(p) \in Packets /\ F = Frame[PacketOf(p)]
    BY SentIs
  <1>5. m = BodyLen(PacketOf(p)) + 8
    BY <1>3, SentIs
  <1> HIDE DEF F
  <1>6. Joined(v, w, Len(w), F, Len(F))
    BY <1>2, Joins
  <1> HIDE DEF v
  <1>7. Joined(v, w, l, F, m)
    BY <1>1, <1>3, <1>6, Zenon
  <1>8. Len(v) = l + m /\ (\A i \in 1 .. l : v[i] = w[i]) /\ (\A i \in 1 .. m : v[l + i] = F[i])
    BY <1>7 DEF Joined
  <1>9. DOMAIN r = 1 .. n + 1 /\ DOMAIN q = 1 .. n /\ n \in Nat /\ r[n + 1] = p /\ \A i \in 1 .. n : r[i] = q[i]
    BY DEF OneSent
  <1>10. ASSUME NEW x \in 1 .. l + m PROVE \E k \in DOMAIN r : \E o : Within(v[x], r[k], o, a + x)
    <2>1. CASE x \in 1 .. l
      <3>1. PICK k \in DOMAIN q : \E o : Within(w[x], q[k], o, a + x)
        BY <1>1, <2>1 DEF Arriving
      <3>2. v[x] = w[x] /\ r[k] = q[k] /\ k \in DOMAIN r
        BY <1>8, <1>9, <2>1, <3>1
      <3> QED
        BY <3>1, <3>2
    <2>2. CASE x \notin 1 .. l
      <3>1. PICK o \in 1 .. m : x = l + o
        <4>1. x - l \in 1 .. m /\ x = l + (x - l)
          BY <2>2
        <4> QED
          BY <4>1
      <3>2. v[x] = F[o]
        BY <1>8, <3>1
      <3>3. o \in 1 .. BodyLen(PacketOf(p)) + 8
        BY <1>5
      <3>4. IsAt(v[x], PacketOf(p), o)
        <4>1. ElementAt(Frame[PacketOf(p)][o], PacketOf(p), o)
          BY <1>4, <3>3, ElementIs
        <4> QED
          BY <1>4, <3>2, <3>3, <4>1 DEF IsAt
      <3>5. a + x = p.from + o
        BY <1>1, <3>1
      <3>6. n + 1 \in DOMAIN r /\ r[n + 1] = p
        BY <1>9
      <3>7. Within(v[x], p, o, a + x)
        BY <3>4, <3>5 DEF Within
      <3> QED
        BY <3>6, <3>7
    <2> QED
      BY <2>1, <2>2
  <1>11. Arriving(v, r, a)
    BY <1>8, <1>10 DEF Arriving
  <1> QED
    BY <1>11 DEF v, F

LEMMA ArrivesLess ==
  ASSUME NEW w \in Seq(Elements), NEW q, NEW a \in Nat, Arriving(w, q, a), NEW t, NEW u, NEW m \in 0 .. Len(w), CutOff(t, u, w, m)
  PROVE  Arriving(u, q, a + m) /\ Len(u) = Len(w) - m
  <1>1. PICK l \in Nat : l = Len(w)
    BY LenProperties
  <1>2. Len(u) = l - m /\ \A i \in 1 .. l - m : u[i] = w[m + i]
    BY <1>1 DEF CutOff
  <1>3. ASSUME NEW x \in 1 .. l - m PROVE \E k \in DOMAIN q : \E o : Within(u[x], q[k], o, (a + m) + x)
    <2>1. m + x \in 1 .. l
      BY <1>1
    <2>2. PICK k \in DOMAIN q : \E o : Within(w[m + x], q[k], o, a + (m + x))
      BY <1>1, <2>1 DEF Arriving
    <2>3. a + (m + x) = (a + m) + x
      BY <1>1
    <2>4. u[x] = w[m + x]
      BY <1>2
    <2> QED
      BY <2>2, <2>3, <2>4, Zenon
  <1> QED
    BY <1>1, <1>2, <1>3 DEF Arriving

LEMMA StreamsInitially == Init => Streams
  <1> SUFFICES ASSUME Init PROVE Streams
    OBVIOUS
  <1>1. wire = <<>> /\ sent = <<>> /\ total = 0 /\ keyed = 0
    BY DEF Init
  <1>2. Sends(<<>>, 0) /\ Arriving(<<>>, <<>>, 0)
    BY NoneSent
  <1>3. 0 - Len(<<>>) = 0 /\ Len(<<>>) = 0 /\ DOMAIN <<>> = {}
    <2>1. Len(<<>>) = 0
      OBVIOUS
    <2>2. DOMAIN <<>> = {}
      OBVIOUS
    <2>3. 0 - 0 = 0
      OBVIOUS
    <2> QED
      BY <2>1, <2>2, <2>3, Zenon
  <1>4. Sends(sent, total) /\ Len(wire) <= total
    BY <1>1, <1>2, <1>3
  <1>5. Arriving(wire, sent, total - Len(wire))
    BY <1>1, <1>2, <1>3
  <1> QED
    BY <1>1, <1>3, <1>4, <1>5 DEF Streams

\* Nothing of the stream is left.
LEMMA StreamsStop ==
  ASSUME Types, Stopped, keyed' = keyed, keyed' > 0 => app'[keyed'] # "none"
  PROVE  Streams'
  <1>1. wire' = <<>> /\ sent' = <<>> /\ total' = 0
    BY DEF Stopped
  <1>2. Sends(<<>>, 0) /\ Arriving(<<>>, <<>>, 0)
    BY NoneSent
  <1>3. 0 - Len(<<>>) = 0 /\ Len(<<>>) = 0 /\ DOMAIN <<>> = {}
    <2>1. Len(<<>>) = 0
      OBVIOUS
    <2>2. DOMAIN <<>> = {}
      OBVIOUS
    <2>3. 0 - 0 = 0
      OBVIOUS
    <2> QED
      BY <2>1, <2>2, <2>3, Zenon
  <1>4. Sends(sent', total') /\ Len(wire') <= total'
    BY <1>1, <1>2, <1>3
  <1>5. Arriving(wire', sent', total' - Len(wire'))
    BY <1>1, <1>2, <1>3
  <1> QED
    BY <1>1, <1>3, <1>4, <1>5 DEF Streams

\* The stream is as it was.
LEMMA StreamsStay ==
  ASSUME Streams, UNCHANGED <<count, wire, sent, total>>, keyed' >= keyed, keyed \in Nat, keyed' \in Nat,
         keyed' > 0 => app'[keyed'] # "none", sent \in Seq(Sent)
  PROVE  Streams'
  <1>1. Sends(sent', total') /\ Len(wire') <= total' /\ Arriving(wire', sent', total' - Len(wire'))
    BY DEF Streams
  <1>2. ASSUME NEW i \in DOMAIN sent' PROVE sent'[i].count <= count' /\ sent'[i].session <= keyed'
    <2>1. sent[i].count <= count /\ sent[i].session <= keyed
      BY <1>2 DEF Streams
    <2>2. sent[i].session \in Nat
      <3>1. sent[i] \in Sent
        BY <1>2, SentAre
      <3> QED
        BY <3>1 DEF Sent, Sessions
    <2> QED
      BY <2>1, <2>2
  <1> QED
    BY <1>1, <1>2 DEF Streams

LEMMA KeepsApp ==
  ASSUME Types, NEW s \in Sessions, keyed > 0 => app[keyed] # "none",
         \/ \E x \in {"reading", "writing", "up"} : app' = [app EXCEPT ![s] = x]
         \/ \E S : Over(S)
         \/ app' = app
  PROVE  keyed > 0 => app'[keyed] # "none"
  <1> SUFFICES ASSUME keyed > 0 PROVE app'[keyed] # "none"
    OBVIOUS
  <1>1. keyed \in Sessions
    BY BoundsAssumption DEF Types, Sessions
  <1>2. app[keyed] # "none" /\ app \in [Sessions -> {"none", "reading", "writing", "up", "over"}]
    BY DEF Types
  <1>3. ASSUME NEW x \in {"reading", "writing", "up"}, app' = [app EXCEPT ![s] = x] PROVE app'[keyed] # "none"
    BY <1>1, <1>2, <1>3
  <1>4. ASSUME NEW S, Over(S) PROVE app'[keyed] # "none"
    BY <1>1, <1>2, <1>4 DEF Over
  <1> QED
    BY <1>2, <1>3, <1>4

LEMMA StreamsPreserved == Types /\ Streams /\ [Next]_vars => Streams'
  <1> SUFFICES ASSUME Types, Streams, [Next]_vars PROVE Streams'
    OBVIOUS
  <1>0. /\ MaxSessions \in Nat /\ MaxFrames \in Nat /\ Sessions = 1 .. MaxSessions
        /\ keyed \in Nat /\ sent \in Seq(Sent) /\ wire \in Seq(Elements) /\ total \in Nat /\ count \in Nat
        /\ keyed > 0 => app[keyed] # "none"
    <2>1. MaxSessions \in Nat /\ MaxFrames \in Nat /\ Sessions = 1 .. MaxSessions
      BY BoundsAssumption DEF Sessions
    <2>2. sent \in Seq(Sent)
      BY DEF Types
    <2>3. wire \in Seq(Elements)
      BY DEF Types
    <2>4. keyed \in 0 .. MaxSessions /\ count \in 0 .. MaxFrames /\ total \in Nat
      BY DEF Types
    <2>5. keyed > 0 => app[keyed] # "none"
      BY DEF Streams
    <2> QED
      BY <2>1, <2>2, <2>3, <2>4, <2>5
  <1>1. CASE Stop
    <2>1. Stopped /\ (\E S : Over(S)) /\ keyed' = keyed
      BY <1>1 DEF Stop
    <2>2. 1 \in Sessions
      BY <1>0, BoundsAssumption
    <2>3. keyed > 0 => app'[keyed] # "none"
      BY <1>0, <2>1, <2>2, KeepsApp
    <2> QED
      BY <2>1, <2>3, StreamsStop
  <1>2. ASSUME NEW s \in Sessions, RunMpidSession(s) PROVE Streams'
    <2>1. app' = [app EXCEPT ![s] = "reading"] /\ UNCHANGED <<keyed, count, wire, sent, total>>
      BY <1>2 DEF RunMpidSession, portal
    <2>2. keyed > 0 => app'[keyed] # "none"
      BY <1>0, <2>1, KeepsApp
    <2> QED
      BY <1>0, <2>1, <2>2, StreamsStay
  <1>3. ASSUME NEW s \in Sessions, StartSession(s) PROVE Streams'
    <2>1. app' = [app EXCEPT ![s] = "writing"] /\ UNCHANGED <<keyed, count, wire, sent, total>>
      BY <1>3 DEF StartSession, portal
    <2>2. keyed > 0 => app'[keyed] # "none"
      BY <1>0, <2>1, KeepsApp
    <2> QED
      BY <1>0, <2>1, <2>2, StreamsStay
  <1>4. ASSUME NEW s \in Sessions, PortalAccepts(s) PROVE Streams'
    <2>1. Latest(s) /\ app[s] = "writing" /\ keyed' = s /\ UNCHANGED <<app, count, wire, sent, total>>
      BY <1>4 DEF PortalAccepts
    <2>2. s \in Nat /\ keyed <= s
      <3>1. CASE keyed > s
        <4>1. keyed \in s + 1 .. MaxSessions
          BY <1>0, <3>1 DEF Types
        <4> QED
          BY <1>0, <2>1, <3>1, <4>1 DEF Latest
      <3>2. CASE ~(keyed > s)
        BY <1>0, <3>2
      <3> QED
        BY <3>1, <3>2
    <2>3. app'[keyed'] # "none"
      BY <2>1
    <2> QED
      BY <1>0, <2>1, <2>2, <2>3, StreamsStay
  <1>5. ASSUME NEW s \in Sessions, Established(s) PROVE Streams'
    <2>1. UNCHANGED <<keyed, count, wire, sent, total>>
      BY <1>5 DEF Established, portal
    <2>2. app' = [app EXCEPT ![s] = "up"] \/ \E S : Over(S)
      BY <1>5 DEF Established
    <2>3. keyed > 0 => app'[keyed] # "none"
      BY <1>0, <2>2, KeepsApp
    <2> QED
      BY <1>0, <2>1, <2>3, StreamsStay
  <1>6. ASSUME NEW s \in Sessions, HandshakeFails(s) PROVE Streams'
    <2>1. (\E S : Over(S)) /\ UNCHANGED <<keyed, count>>
      BY <1>6 DEF HandshakeFails
    <2>2. keyed > 0 => app'[keyed] # "none"
      BY <1>0, <2>1, KeepsApp
    <2>3. CASE active
      <3>1. Stopped
        BY <1>6, <2>3 DEF HandshakeFails
      <3> QED
        BY <2>1, <2>2, <3>1, StreamsStop
    <2>4. CASE ~active
      <3>1. UNCHANGED <<wire, sent, total>>
        BY <1>6, <2>4 DEF HandshakeFails
      <3> QED
        BY <1>0, <2>1, <2>2, <3>1, StreamsStay
    <2> QED
      BY <2>3, <2>4
  <1>7. ASSUME NEW kind \in Kinds, PortalSends(kind) PROVE Streams'
    <2> DEFINE p == [session |-> keyed, kind |-> kind, count |-> count + 1, from |-> total]
    <2>1. /\ keyed > 0 /\ count + 1 <= MaxFrames /\ count' = count + 1
          /\ sent' = Append(sent, p) /\ UNCHANGED <<app, keyed>>
      BY <1>7 DEF PortalSends
    <2>2. p \in Sent /\ p.from = total /\ p.count = count + 1 /\ p.session = keyed
      BY <1>0, <2>1 DEF Sent, Types
    <2>3. Packet(p) = Frame[<<keyed, kind, count + 1>>]
      BY DEF Packet
    <2>4. wire' = wire \o Packet(p) /\ total' = total + Len(Packet(p))
      BY <1>7, <2>3 DEF PortalSends
    <2> HIDE DEF p
    <2>5. PICK n \in Nat : n = Len(sent)
      BY <1>0, LenProperties
    <2>6. OneSent(sent', sent, p, n)
      BY <1>0, <2>1, <2>2, <2>5, AppendsSent
    <2>7. total' = To(p)
      BY <2>2, <2>4 DEF To
    <2>8. ASSUME NEW i \in DOMAIN sent PROVE sent[i].count < p.count /\ sent[i].session <= p.session /\ sent[i].count \in Nat
      <3>1. sent[i].count <= count /\ sent[i].session <= keyed
        BY DEF Streams
      <3>2. sent[i].count \in Nat
        BY <1>0, SentAre, SentIs
      <3> QED
        BY <1>0, <2>2, <3>1, <3>2
    <2>9. Sends(sent', total')
      <3>1. Sends(sent, total)
        BY DEF Streams
      <3> QED
        BY <2>2, <2>6, <2>7, <2>8, <3>1, SendsOne
    <2>10. PICK l \in Nat, m \in Nat : l = Len(wire) /\ m = Len(Packet(p)) /\ l <= total
      <3>1. Packet(p) \in Seq(Elements)
        BY <2>2, SentIs, FrameComes
      <3> QED
        BY <1>0, <3>1, LenProperties DEF Streams
    <2>11. Len(wire') = l + m
      <3>1. Packet(p) \in Seq(Elements)
        BY <2>2, SentIs, FrameComes
      <3>2. Joined(wire \o Packet(p), wire, Len(wire), Packet(p), Len(Packet(p)))
        BY <1>0, <3>1, Joins
      <3> QED
        BY <2>4, <2>10, <3>2 DEF Joined
    <2>12. total' = total + m /\ Len(wire') <= total' /\ total' - Len(wire') = total - l
      BY <1>0, <2>4, <2>10, <2>11
    <2>13. Arriving(wire', sent', total' - Len(wire'))
      <3>1. Arriving(wire, sent, total - l)
        BY <2>10 DEF Streams
      <3>2. total - l \in Nat /\ p.from = (total - l) + Len(wire)
        BY <1>0, <2>2, <2>10
      <3>3. PICK a \in Nat : a = total - l
        BY <3>2
      <3>4. Arriving(wire \o Packet(p), sent', a)
        BY <1>0, <2>2, <2>6, <3>1, <3>2, <3>3, ArrivesMore
      <3> QED
        BY <2>4, <2>12, <3>3, <3>4
    <2>14. ASSUME NEW i \in DOMAIN sent' PROVE sent'[i].count <= count' /\ sent'[i].session <= keyed'
      <3>1. DOMAIN sent' = 1 .. n + 1 /\ DOMAIN sent = 1 .. n /\ sent'[n + 1] = p /\ \A j \in 1 .. n : sent'[j] = sent[j]
        BY <2>6 DEF OneSent
      <3>2. CASE i \in 1 .. n
        <4>1. sent'[i] = sent[i] /\ i \in DOMAIN sent
          BY <3>1, <3>2
        <4>2. sent[i].count < p.count /\ sent[i].session <= p.session /\ sent[i].count \in Nat
          BY <2>8, <4>1
        <4> QED
          BY <1>0, <2>1, <2>2, <4>1, <4>2
      <3>3. CASE i = n + 1
        BY <1>0, <2>1, <2>2, <3>1, <3>3
      <3> QED
        BY <3>1, <3>2, <3>3
    <2> QED
      BY <1>0, <2>1, <2>9, <2>12, <2>13, <2>14 DEF Streams
  <1>8. ASSUME NEW n \in Cuts, wire' = Slice(wire, n, Len(wire)), UNCHANGED <<app, keyed, count, sent, total>> PROVE Streams'
    <2>1. PICK l \in Nat : l = Len(wire) /\ l <= total
      BY <1>0, LenProperties DEF Streams
    <2>2. PICK m \in 0 .. Len(wire) : CutOff(Slice(wire, 0, n), wire', wire, m)
      BY <1>0, <1>8, Cuttings
    <2>3. PICK a \in Nat : a = total - l
      BY <1>0, <2>1
    <2>4. Arriving(wire, sent, a)
      BY <2>1, <2>3 DEF Streams
    <2>5. Arriving(wire', sent, a + m) /\ Len(wire') = Len(wire) - m
      BY <1>0, <2>2, <2>3, <2>4, ArrivesLess
    <2>6. Len(wire') <= total' /\ total' - Len(wire') = a + m
      BY <1>0, <1>8, <2>1, <2>2, <2>3, <2>5
    <2>7. Arriving(wire', sent', total' - Len(wire'))
      BY <1>8, <2>5, <2>6
    <2>8. Sends(sent', total') /\ (\A i \in DOMAIN sent' : sent'[i].count <= count' /\ sent'[i].session <= keyed')
      BY <1>8 DEF Streams
    <2> QED
      BY <1>0, <1>8, <2>6, <2>7, <2>8 DEF Streams
  <1>9. ASSUME NEW n \in Cuts, OnTxRx(n) \/ Lost(n) PROVE Streams'
    <2>1. wire' = Slice(wire, n, Len(wire)) /\ UNCHANGED <<app, keyed, count, sent, total>>
      BY <1>9 DEF OnTxRx, Lost
    <2> QED
      BY <1>8, <2>1
  <1>10. CASE UNCHANGED vars
    <2>1. UNCHANGED <<app, keyed, count, wire, sent, total>>
      BY <1>10 DEF vars, portal
    <2> QED
      BY <1>0, <2>1, StreamsStay
  <1> QED
    BY <1>1, <1>2, <1>3, <1>4, <1>5, <1>6, <1>7, <1>9, <1>10 DEF Next

-----------------------------------------------------------------------------
(* The events that come out of what is under way.                           *)

LEMMA SaidDecodes ==
  ASSUME NEW f \in Packets
  PROVE  DecodeAndDispatch(Said(f)) \in Seq(Meanings)
  <1>1. f[2] \in Kinds /\ f[3] \in 1 .. MaxFrames
    BY PacketsAre
  <1>2. \/ Said(f) = <<>> /\ Says(f[2], f[3]).means = <<>>
        \/ Told(Said(f), EventOf(f[2], f[3])) /\ Says(f[2], f[3]).means = <<EventOf(f[2], f[3])>>
    BY <1>1, SaysWhatItMeans DEF Said
  <1>3. PICK e : e = EventOf(f[2], f[3]) /\ e \in Meanings
    BY DEF Meanings
  <1>4. CASE Said(f) = <<>>
    <2>1. DecodeAndDispatch(Said(f)) = <<>>
      BY <1>4, NothingSaysNothing
    <2> QED
      BY <2>1, NoneIsSeq
  <1>5. CASE Told(Said(f), e)
    <2>1. DecodeAndDispatch(Said(f)) = <<e>>
      BY <1>5 DEF Told
    <2>2. <<e>> \in Seq(Meanings)
      BY <1>3
    <2> QED
      BY <2>1, <2>2
  <1> QED
    BY <1>2, <1>3, <1>4, <1>5

LEMMA Decodes ==
  ASSUME NEW p \in Payloads
  PROVE  DecodeAndDispatch(p) \in Seq(Meanings)
  <1>1. PICK f \in Packets : p = Said(f) \/ p = BytesOf(HeadOf(f)) \/ p = <<>>
    BY DEF Payloads
  <1>2. DecodeAndDispatch(BytesOf(HeadOf(f))) = <<>> /\ DecodeAndDispatch(<<>>) = <<>>
    BY HeaderSaysNothing, NothingSaysNothing
  <1> QED
    BY <1>1, <1>2, SaidDecodes, NoneIsSeq

\* Of payloads.
Decoded(out)  == [j \in DOMAIN out |-> DecodeAndDispatch(out[j])]
EventsIn(out) == FlattenSeq(Decoded(out))

LEMMA DecodedIs ==
  ASSUME NEW out \in Outs
  PROVE  Decoded(out) \in Seq(Seq(Meanings)) /\ IsSeq(Decoded(out), Len(out))
  <1>1. PICK n \in Nat : n = Len(out) /\ DOMAIN out = 1 .. n
    BY LenProperties DEF Outs
  <1>2. \A j \in 1 .. n : DecodeAndDispatch(out[j]) \in Seq(Meanings)
    <2>1. \A j \in 1 .. n : out[j] \in Payloads
      BY <1>1, ElementOfSeq DEF Outs
    <2> QED
      BY <2>1, Decodes
  <1>3. Decoded(out) = [j \in 1 .. n |-> DecodeAndDispatch(out[j])]
    BY <1>1 DEF Decoded
  <1>4. PICK x : x = Decoded(out)
    OBVIOUS
  <1>5. \A j \in 1 .. n : x[j] = DecodeAndDispatch(out[j])
    BY <1>3, <1>4
  <1>6. x = [j \in 1 .. n |-> x[j]]
    BY <1>3, <1>4
  <1>7. IsSeq(x, n)
    BY <1>6 DEF IsSeq
  <1>8. \A j \in 1 .. n : x[j] \in Seq(Meanings)
    BY <1>2, <1>5
  <1>9. x \in Seq(Seq(Meanings))
    BY <1>7, <1>8, SeqOfThem
  <1> QED
    BY <1>1, <1>4, <1>7, <1>9

LEMMA DecodedMore ==
  ASSUME NEW out \in Outs, NEW p \in Payloads
  PROVE  Decoded(Append(out, p)) = Append(Decoded(out), DecodeAndDispatch(p))
  <1>1. PICK n \in Nat : n = Len(out) /\ DOMAIN out = 1 .. n
    BY LenProperties DEF Outs
  <1>2. PICK o2 : o2 = Append(out, p)
    OBVIOUS
  <1>3. IsSeq(out, n)
    BY <1>1, SeqIsSeq DEF Outs
  <1>4. Grown(o2, out, n, p)
    BY <1>2, <1>3, AppendsOne
  <1>5. DOMAIN o2 = 1 .. n + 1 /\ o2[n + 1] = p /\ \A i \in 1 .. n : o2[i] = out[i]
    <2>1. o2 = [i \in 1 .. n + 1 |-> o2[i]]
      BY <1>4 DEF Grown, IsSeq
    <2> QED
      BY <1>4, <2>1 DEF Grown
  <1>6. PICK d : d = Decoded(out)
    OBVIOUS
  <1>7. IsSeq(d, n) /\ \A i \in 1 .. n : d[i] = DecodeAndDispatch(out[i])
    BY <1>1, <1>6, DecodedIs DEF Decoded
  <1>8. PICK e : e = DecodeAndDispatch(p)
    OBVIOUS
  <1>9. PICK d2 : d2 = Append(d, e)
    OBVIOUS
  <1>10. Grown(d2, d, n, e)
    BY <1>7, <1>9, AppendsOne
  <1>11. d2 = [i \in 1 .. n + 1 |-> d2[i]] /\ d2[n + 1] = e /\ \A i \in 1 .. n : d2[i] = d[i]
    BY <1>10 DEF Grown, IsSeq
  <1>12. \A i \in 1 .. n + 1 : d2[i] = DecodeAndDispatch(o2[i])
    <2>1. \A i \in 1 .. n + 1 : i \in 1 .. n \/ i = n + 1
      BY <1>1
    <2>2. \A i \in 1 .. n : d2[i] = DecodeAndDispatch(o2[i])
      BY <1>5, <1>7, <1>11
    <2>3. d2[n + 1] = DecodeAndDispatch(o2[n + 1])
      BY <1>5, <1>8, <1>11
    <2> QED
      BY <2>1, <2>2, <2>3
  <1>13. Decoded(o2) = [i \in 1 .. n + 1 |-> DecodeAndDispatch(o2[i])]
    BY <1>5 DEF Decoded
  <1>14. Decoded(o2) = d2
    BY <1>11, <1>12, <1>13
  <1> QED
    BY <1>2, <1>6, <1>8, <1>9, <1>14

LEMMA NothingIn == EventsIn(<<>>) = <<>>
  <1>1. DOMAIN <<>> = {}
    OBVIOUS
  <1>2. Decoded(<<>>) = [j \in {} |-> DecodeAndDispatch(<<>>[j])]
    BY <1>1 DEF Decoded
  <1>3. Decoded(<<>>) = <<>>
    BY <1>2
  <1> QED
    BY <1>3, FlattenNone DEF EventsIn

LEMMA MoreIn ==
  ASSUME NEW out \in Outs, NEW p \in Payloads
  PROVE  EventsIn(Append(out, p)) = EventsIn(out) \o DecodeAndDispatch(p)
  <1>1. Decoded(out) \in Seq(Seq(Meanings)) /\ DecodeAndDispatch(p) \in Seq(Meanings)
    BY DecodedIs, Decodes
  <1>2. Decoded(Append(out, p)) = Append(Decoded(out), DecodeAndDispatch(p))
    BY DecodedMore
  <1>3. FlattenSeq(Append(Decoded(out), DecodeAndDispatch(p))) = FlattenSeq(Decoded(out)) \o DecodeAndDispatch(p)
    BY <1>1, FlattenAppend
  <1> QED
    BY <1>2, <1>3 DEF EventsIn

LEMMA EndsLater ==
  ASSUME NEW q, NEW tot, Sends(q, tot), NEW j \in DOMAIN q, NEW k \in DOMAIN q, To(q[j]) < To(q[k])
  PROVE  j < k
  <1>1. q \in Seq(Sent)
    BY DEF Sends
  <1>2. q[j] \in Sent /\ q[k] \in Sent /\ j \in Nat /\ k \in Nat
    BY <1>1, SentAre
  <1>3. To(q[j]) \in Nat /\ To(q[k]) \in Nat /\ q[j].from \in Nat /\ To(q[j]) > q[j].from
    BY <1>2, SentIs
  <1>4. j # k
    BY <1>3
  <1>5. ~(k < j)
    <2> SUFFICES ASSUME k < j PROVE FALSE
      OBVIOUS
    <2>1. To(q[k]) <= q[j].from
      BY DEF Sends
    <2> QED
      BY <1>3, <2>1
  <1> QED
    BY <1>2, <1>4, <1>5

\* The packets of this session that end there.
Ended(q, s, a, b) == {k \in DOMAIN q : q[k].session = s /\ a < To(q[k]) /\ To(q[k]) <= b}

\* One byte: the packet's event, or none.
LEMMA ByteTells ==
  ASSUME NEW s \in Sessions, NEW q, NEW tot, Sends(q, tot), NEW a \in Nat, NEW i \in Nat,
         NEW acc \in Accs, Tells(q, EventsIn(acc.out), Ended(q, s, a, a + i)),
         NEW b, NEW k \in DOMAIN q, NEW o, Within(b, q[k], o, a + (i + 1))
  PROVE  Tells(q, EventsIn(Fed1(s, acc, b).out), Ended(q, s, a, a + (i + 1)))
  <1> DEFINE f    == PacketOf(q[k])
             old  == EventsIn(acc.out)
             new  == EventsIn(Fed1(s, acc, b).out)
             I    == Ended(q, s, a, a + i)
             J    == Ended(q, s, a, a + (i + 1))
  <1>1. q \in Seq(Sent)
    BY DEF Sends
  <1>2. q[k] \in Sent /\ k \in Nat
    BY <1>1, SentAre
  <1>3. IsAt(b, f, o) /\ a + (i + 1) = q[k].from + o
    BY DEF Within
  <1>4. \A j \in DOMAIN q : To(q[j]) \in Nat
    BY <1>1, SentAre, SentIs
  <1>5. I \subseteq J
    <2>1. ASSUME NEW j \in I PROVE j \in J
      <3>1. j \in DOMAIN q /\ q[j].session = s /\ a < To(q[j]) /\ To(q[j]) <= a + i
        BY DEF Ended
      <3>2. To(q[j]) \in Nat
        BY <1>4, <3>1
      <3>3. To(q[j]) <= a + (i + 1)
        BY <3>1, <3>2
      <3> QED
        BY <3>1, <3>3 DEF Ended
    <2> HIDE DEF I, J
    <2> QED
      BY <2>1
  <1>6. Tells(q, old, J)
    <2>1. Tells(q, old, I)
      OBVIOUS
    <2> HIDE DEF old, I, J
    <2> QED
      BY <1>5, <2>1, TellsMore
  <1>7. \/ Fed1(s, acc, b).out = acc.out
        \/ \E p \in Payloads :
             /\ Fed1(s, acc, b).out = Append(acc.out, p)
             /\ \/ DecodeAndDispatch(p) = <<>>
                \/ p = Said(f) /\ f[1] = s /\ o = BodyLen(f) + 8 /\ BodyLen(f) > 0
    <2> HIDE DEF f
    <2> QED
      BY <1>3, OneMore
  <1>8. CASE Fed1(s, acc, b).out = acc.out
    BY <1>6, <1>8
  <1>9. ASSUME NEW p \in Payloads, Fed1(s, acc, b).out = Append(acc.out, p)
        PROVE  new = old \o DecodeAndDispatch(p)
    <2>1. acc.out \in Outs
      BY DEF Accs
    <2> QED
      BY <1>9, <2>1, MoreIn
  <1>10. ASSUME NEW p \in Payloads, Fed1(s, acc, b).out = Append(acc.out, p), DecodeAndDispatch(p) = <<>>
         PROVE  Tells(q, new, J)
    <2>1. new = old \o <<>>
      BY <1>9, <1>10
    <2>2. old \in Seq(Meanings)
      BY <1>6 DEF Tells
    <2>3. new = old
      <3> HIDE DEF old, new
      <3> QED
        BY <2>1, <2>2, ConcatEmptySeq
    <2> HIDE DEF old, new, J
    <2> QED
      BY <1>6, <2>3
  <1>11. ASSUME NEW p \in Payloads, Fed1(s, acc, b).out = Append(acc.out, p),
                p = Said(f), f[1] = s, o = BodyLen(f) + 8, BodyLen(f) > 0
         PROVE  Tells(q, new, J)
    <2>1. PICK e : e = EventOf(q[k].kind, q[k].count)
      OBVIOUS
    <2>2. BodyLen(f) # 0
      <3>1. PICK n \in 0 .. 127 : n = BodyLen(f)
        BY <1>2, SentIs, Lengths
      <3>2. n > 0
        BY <1>11, <3>1
      <3>3. n # 0
        BY <3>2
      <3> QED
        BY <3>1, <3>3
    <2>3. Means(q[k]) = <<e>> /\ DecodeAndDispatch(Said(f)) = <<e>> /\ e \in Meanings
      BY <1>2, <2>1, <2>2, MeansWhatItSays
    <2>4. IsFrom(q, e, k)
      BY <2>3 DEF IsFrom
    <2>5. new = old \o <<e>>
      BY <1>9, <1>11, <2>3
    <2>6. To(q[k]) = a + (i + 1)
      BY <1>2, <1>3, <1>11, SentIs
    <2>7. q[k].session = s
      BY <1>11 DEF PacketOf
    <2>8. k \in J
      <3>1. a < a + (i + 1) /\ a + (i + 1) <= a + (i + 1)
        OBVIOUS
      <3> QED
        BY <2>6, <2>7, <3>1 DEF Ended
    <2>9. \A j \in I, l \in {k} : j < l
      <3> SUFFICES ASSUME NEW j \in I PROVE j < k
        OBVIOUS
      <3>1. j \in DOMAIN q /\ To(q[j]) <= a + i
        BY DEF Ended
      <3>2. To(q[j]) \in Nat
        BY <1>4, <3>1
      <3>3. To(q[j]) < To(q[k])
        BY <2>6, <3>1, <3>2
      <3> QED
        BY <3>1, <3>3, EndsLater
    <2>10. Tells(q, <<e>>, {k})
      BY <2>3, <2>4, TellsOne
    <2>11. Tells(q, old, I)
      OBVIOUS
    <2> HIDE DEF old, new, I, J
    <2>12. Tells(q, old \o <<e>>, I \cup {k})
      BY <2>9, <2>10, <2>11, TellsBoth
    <2>13. I \cup {k} \subseteq J
      BY <1>5, <2>8
    <2>14. Tells(q, old \o <<e>>, J)
      BY <2>12, <2>13, TellsMore
    <2> QED
      BY <2>5, <2>14
  <1> HIDE DEF new, old, J, I, f
  <1>12. Tells(q, new, J) \/ Fed1(s, acc, b).out = acc.out
    BY <1>7, <1>10, <1>11
  <1> QED
    BY <1>8, <1>12 DEF new, J

\* An indication: the events of the packets that end in it.
LEMMA FeedTells ==
  ASSUME NEW s \in Sessions, Fits(rx[s]), NEW q, NEW tot, Sends(q, tot), NEW a \in Nat,
         NEW bytes \in Seq(Elements), Arriving(bytes, q, a)
  PROVE  Tells(q, EventsIn(Feed(s, bytes).out), Ended(q, s, a, a + Len(bytes)))
  <1>1. PICK n \in Nat : n = Len(bytes)
    BY LenProperties
  <1>2. \A i \in 1 .. n : bytes[i] \in Elements
    BY <1>1, ElementOfSeq
  <1>3. \A i \in 1 .. n : \E f, o : IsAt(bytes[i], f, o)
    BY <1>2, ElementsCome
  <1>4. PICK fed : Feeds(fed, s, [rx |-> rx[s], out |-> <<>>], bytes, n) /\ Feed(s, bytes) = fed[n]
    BY <1>1, <1>3, FeedIs
  <1>5. fed[0].out = <<>> /\ (\A i \in 0 .. n : fed[i] \in Accs)
    BY <1>4 DEF Feeds
  <1>6. \A i \in 0 .. n - 1 : fed[i + 1] = Fed1(s, fed[i], bytes[i + 1])
    BY <1>4 DEF Feeds
  <1> DEFINE P == {i \in 0 .. n : Tells(q, EventsIn(fed[i].out), Ended(q, s, a, a + i))}
  <1>7. 0 \in P
    <2>1. EventsIn(fed[0].out) = <<>>
      BY <1>5, NothingIn
    <2>2. Tells(q, EventsIn(fed[0].out), Ended(q, s, a, a + 0))
      BY <2>1, TellsNone
    <2> QED
      BY <2>2
  <1>8. ASSUME NEW i \in 0 .. n - 1, i \in P PROVE i + 1 \in P
    <2>1. i + 1 \in 1 .. n /\ i + 1 \in 0 .. n /\ i \in 0 .. n /\ i \in Nat
      OBVIOUS
    <2>2. PICK k \in DOMAIN q : \E o : Within(bytes[i + 1], q[k], o, a + (i + 1))
      BY <1>1, <2>1 DEF Arriving
    <2>3. fed[i] \in Accs /\ Tells(q, EventsIn(fed[i].out), Ended(q, s, a, a + i))
      BY <1>5, <1>8, <2>1
    <2>4. Tells(q, EventsIn(Fed1(s, fed[i], bytes[i + 1]).out), Ended(q, s, a, a + (i + 1)))
      BY <2>1, <2>2, <2>3, ByteTells
    <2>5. fed[i + 1] = Fed1(s, fed[i], bytes[i + 1])
      BY <1>6
    <2>6. Tells(q, EventsIn(fed[i + 1].out), Ended(q, s, a, a + (i + 1)))
      BY <2>4, <2>5
    <2> QED
      BY <2>1, <2>6
  <1>9. \A i \in 0 .. n : i \in P
    <2> HIDE DEF P
    <2> QED
      BY <1>7, <1>8, Upward
  <1>10. n \in P
    BY <1>9
  <1> QED
    BY <1>1, <1>4, <1>10

\* The sessions one after the other: later packets are of later sessions.
Between(q, a, b) == {k \in DOMAIN q : a < To(q[k]) /\ To(q[k]) <= b}

LEMMA SessionsTell ==
  ASSUME NEW q, NEW tot, Sends(q, tot), NEW a, NEW b, NEW seqs, IsSeq(seqs, MaxSessions),
         \A s \in Sessions : Tells(q, seqs[s], Ended(q, s, a, b))
  PROVE  Tells(q, FlattenSeq(seqs), Between(q, a, b))
  <1> DEFINE Upto(s) == {k \in Between(q, a, b) : q[k].session <= s}
  <1>0. MaxSessions \in Nat /\ Sessions = 1 .. MaxSessions
    BY BoundsAssumption DEF Sessions
  <1>1. \A s \in 1 .. MaxSessions : seqs[s] \in Seq(Meanings)
    BY <1>0 DEF Tells
  <1>2. seqs \in Seq(Seq(Meanings)) /\ Len(seqs) = MaxSessions
    BY <1>1, SeqOfThem
  <1>3. PICK g : Flat(Meanings, seqs, g) /\ FlattenSeq(seqs) = g[Len(seqs)]
    BY <1>2, FlattenIs
  <1>4. g[0] = <<>> /\ \A k \in 1 .. MaxSessions : g[k] = g[k - 1] \o seqs[k]
    BY <1>2, <1>3 DEF Flat
  <1>5. q \in Seq(Sent)
    BY DEF Sends
  <1>6. \A k \in DOMAIN q : q[k] \in Sent /\ k \in Nat
    BY <1>5, SentAre
  <1>7. \A k \in DOMAIN q : q[k].session \in Sessions
    BY <1>6, SentIs
  <1> DEFINE P == {s \in 0 .. MaxSessions : Tells(q, g[s], Upto(s))}
  <1>8. 0 \in P
    <2>1. Tells(q, <<>>, Upto(0))
      <3> HIDE DEF Upto
      <3> QED
        BY TellsNone
    <2> QED
      BY <1>0, <1>4, <2>1
  <1>9. ASSUME NEW s \in 0 .. MaxSessions - 1, s \in P PROVE s + 1 \in P
    <2>1. PICK t \in Sessions : t = s + 1 /\ s = t - 1
      <3>1. s + 1 \in Sessions /\ s = (s + 1) - 1
        BY <1>0
      <3> QED
        BY <3>1
    <2>2. g[t] = g[s] \o seqs[t]
      BY <1>0, <1>4, <2>1
    <2>3. Tells(q, g[s], Upto(s)) /\ Tells(q, seqs[t], Ended(q, t, a, b))
      BY <1>9
    <2>4. ASSUME NEW i \in Upto(s), NEW j \in Ended(q, t, a, b) PROVE i < j
      <3>1. i \in DOMAIN q /\ q[i].session <= s /\ j \in DOMAIN q /\ q[j].session = s + 1
        BY <2>1 DEF Between, Ended
      <3>2. i \in Nat /\ j \in Nat /\ q[i].session \in Nat
        BY <1>0, <1>6, <1>7, <3>1
      <3>3. i # j
        BY <3>1, <3>2
      <3>4. ~(j < i)
        <4> SUFFICES ASSUME j < i PROVE FALSE
          OBVIOUS
        <4>1. q[j].session <= q[i].session
          BY <3>1 DEF Sends
        <4> QED
          BY <3>1, <3>2, <4>1
      <3> QED
        BY <3>2, <3>3, <3>4
    <2>5. Tells(q, g[s] \o seqs[t], Upto(s) \cup Ended(q, t, a, b))
      <3>1. PICK I : I = Upto(s)
        OBVIOUS
      <3>2. PICK J : J = Ended(q, t, a, b)
        OBVIOUS
      <3> HIDE DEF Upto
      <3>3. Tells(q, g[s], I) /\ Tells(q, seqs[t], J) /\ \A i \in I, j \in J : i < j
        BY <2>3, <2>4, <3>1, <3>2
      <3>4. Tells(q, g[s] \o seqs[t], I \cup J)
        BY <3>3, TellsBoth
      <3> QED
        BY <3>1, <3>2, <3>4
    <2>6. Upto(s) \cup Ended(q, t, a, b) \subseteq Upto(t)
      <3>1. ASSUME NEW k \in Upto(s) PROVE k \in Upto(t)
        <4>1. k \in Between(q, a, b) /\ q[k].session <= s /\ k \in DOMAIN q
          BY DEF Between
        <4>2. q[k].session <= t
          BY <1>0, <1>7, <2>1, <4>1
        <4> QED
          BY <4>1, <4>2
      <3>2. ASSUME NEW k \in Ended(q, t, a, b) PROVE k \in Upto(t)
        <4>1. k \in Between(q, a, b) /\ q[k].session = t
          BY DEF Between, Ended
        <4>2. q[k].session <= t
          BY <1>0, <2>1, <4>1
        <4> QED
          BY <4>1, <4>2
      <3> HIDE DEF Upto
      <3> QED
        BY <3>1, <3>2
    <2>7. Tells(q, g[t], Upto(t))
      <3> HIDE DEF Upto
      <3> QED
        BY <2>2, <2>5, <2>6, TellsMore
    <2>8. t \in 0 .. MaxSessions
      BY <1>0
    <2>9. t \in P
      <3> HIDE DEF Upto
      <3> QED
        BY <2>7, <2>8
    <2> HIDE DEF P
    <2> QED
      BY <2>1, <2>9
  <1>10. \A s \in 0 .. MaxSessions : s \in P
    <2>1. PICK n \in Nat : n = MaxSessions
      BY <1>0
    <2>2. \A s \in 0 .. n - 1 : s \in P => s + 1 \in P
      <3> HIDE DEF P
      <3> QED
        BY <1>9, <2>1
    <2>3. \A s \in 0 .. n : s \in P
      <3> HIDE DEF P
      <3> QED
        BY <1>8, <2>2, Upward
    <2> HIDE DEF P
    <2> QED
      BY <2>1, <2>3, Zenon
  <1>11. Tells(q, g[MaxSessions], Upto(MaxSessions))
    <2>1. MaxSessions \in P
      <3>1. MaxSessions \in 0 .. MaxSessions
        BY <1>0
      <3> HIDE DEF P
      <3> QED
        BY <1>10, <3>1
    <2> HIDE DEF Upto
    <2> QED
      BY <2>1
  <1>12. Upto(MaxSessions) \subseteq Between(q, a, b)
    OBVIOUS
  <1> HIDE DEF Upto
  <1> QED
    BY <1>2, <1>3, <1>11, <1>12, TellsMore

\* The packets that have arrived.
Here(q, a) == {k \in DOMAIN q : To(q[k]) <= a}

LEMMA HereAndThere ==
  ASSUME NEW q, NEW tot, Sends(q, tot), NEW a \in Nat, NEW b \in Nat, a <= b, NEW t, NEW u,
         Tells(q, t, Here(q, a)), Tells(q, u, Between(q, a, b))
  PROVE  Tells(q, t \o u, Here(q, b))
  <1>1. q \in Seq(Sent)
    BY DEF Sends
  <1>2. \A j \in DOMAIN q : To(q[j]) \in Nat
    BY <1>1, SentAre, SentIs
  <1>3. ASSUME NEW i \in Here(q, a), NEW j \in Between(q, a, b) PROVE i < j
    <2>1. i \in DOMAIN q /\ j \in DOMAIN q /\ To(q[i]) <= a /\ a < To(q[j])
      BY DEF Here, Between
    <2>2. To(q[i]) < To(q[j])
      BY <1>2, <2>1
    <2> QED
      BY <2>1, <2>2, EndsLater
  <1>4. Tells(q, t \o u, Here(q, a) \cup Between(q, a, b))
    BY <1>3, TellsBoth
  <1>5. Here(q, a) \cup Between(q, a, b) \subseteq Here(q, b)
    <2>1. ASSUME NEW k \in Here(q, a) PROVE k \in Here(q, b)
      <3>1. k \in DOMAIN q /\ To(q[k]) <= a
        BY DEF Here
      <3>2. To(q[k]) <= b
        BY <1>2, <3>1
      <3> QED
        BY <3>1, <3>2 DEF Here
    <2>2. Between(q, a, b) \subseteq Here(q, b)
      BY DEF Here, Between
    <2> QED
      BY <2>1, <2>2
  <1> QED
    BY <1>4, <1>5, TellsMore

\* More that is sent changes nothing of what was told.
LEMMA StillTells ==
  ASSUME NEW q, NEW r, NEW n, NEW p, NEW tot, OneSent(r, q, p, n), Sends(r, tot), NEW t, NEW I, Tells(q, t, I)
  PROVE  Tells(r, t, I)
  <1>1. DOMAIN r = 1 .. n + 1 /\ DOMAIN q = 1 .. n /\ n \in Nat /\ \A i \in 1 .. n : r[i] = q[i]
    BY DEF OneSent
  <1>2. \A e, k : IsFrom(q, e, k) => IsFrom(r, e, k)
    <2> SUFFICES ASSUME NEW e, NEW k, IsFrom(q, e, k) PROVE IsFrom(r, e, k)
      OBVIOUS
    <2>1. k \in DOMAIN q /\ Means(q[k]) = <<e>>
      BY DEF IsFrom
    <2>2. k \in DOMAIN r /\ r[k] = q[k]
      BY <1>1, <2>1
    <2> QED
      BY <2>1, <2>2 DEF IsFrom
  <1>3. t \in Seq(Meanings) /\ \A x \in DOMAIN t : \E k \in I : IsFrom(q, t[x], k)
    BY DEF Tells
  <1>4. \A x \in DOMAIN t : \E k \in I : IsFrom(r, t[x], k)
    BY <1>2, <1>3
  <1>5. ASSUME NEW x \in DOMAIN t, NEW y \in DOMAIN t, x < y, NEW i, NEW j, IsFrom(r, t[x], i), IsFrom(r, t[y], j)
        PROVE  i < j
    <2>1. PICK k, l : IsFrom(q, t[x], k) /\ IsFrom(q, t[y], l)
      BY <1>3
    <2>2. IsFrom(r, t[x], k) /\ IsFrom(r, t[y], l)
      BY <1>2, <2>1
    <2>3. k = i /\ l = j
      BY <1>5, <2>2, FromOne
    <2>4. k < l
      BY <1>5, <2>1 DEF Tells
    <2> QED
      BY <2>3, <2>4
  <1> QED
    BY <1>3, <1>4, <1>5 DEF Tells

-----------------------------------------------------------------------------
(* What was dispatched.                                                     *)

TellsSo == Tells(sent, got, Here(sent, Arrived))

LEMMA TellsInitially == Init => TellsSo
  BY TellsNone DEF Init, TellsSo

LEMMA TellsAfterStop == Stopped => TellsSo'
  BY TellsNone DEF Stopped, TellsSo

LEMMA ReceivesTrue ==
  ASSUME Types, Streams, TellsSo, NEW n \in Cuts, OnTxRx(n)
  PROVE  TellsSo'
  <1>0. MaxSessions \in Nat /\ Sessions = 1 .. MaxSessions
    <2>1. MaxSessions \in 1 .. 255
      BY BoundsAssumption
    <2> QED
      BY <2>1 DEF Sessions
  <1> DEFINE fed == [s \in Sessions |-> IF Monitored(s) THEN Feed(s, Slice(wire, 0, n)) ELSE [rx |-> rx[s], out |-> <<>>]]
             seqs == [s \in Sessions |-> EventsIn(fed[s].out)]
  <1>1. wire' = Slice(wire, n, Len(wire)) /\ UNCHANGED <<sent, total>> /\ got' = got \o FlattenSeq(seqs)
    BY DEF OnTxRx, EventsIn, Decoded
  <1>2. wire \in Seq(Elements)
    BY DEF Types
  <1>3. PICK l \in Nat : l = Len(wire) /\ l <= total
    BY <1>2, LenProperties DEF Streams
  <1>4. total \in Nat
    BY DEF Types
  <1>5. PICK bytes : bytes = Slice(wire, 0, n)
    OBVIOUS
  <1>6. bytes \in Seq(Elements)
    BY <1>2, <1>5, Cuttings
  <1>7. PICK m \in 0 .. Len(wire) : CutOff(bytes, wire', wire, m)
    BY <1>1, <1>2, <1>5, Cuttings
  <1>8. Len(bytes) = m /\ (\A i \in 1 .. m : bytes[i] = wire[i]) /\ Len(wire') = l - m
    BY <1>3, <1>7 DEF CutOff
  <1>9. PICK a \in Nat : a = Arrived
    BY <1>3, <1>4 DEF Arrived
  <1>10. Arrived' = a + m
    BY <1>1, <1>3, <1>4, <1>7, <1>8, <1>9 DEF Arrived
  <1>11. Sends(sent, total)
    BY DEF Streams
  <1>12. Arriving(bytes, sent, a)
    <2>1. Arriving(wire, sent, a)
      BY <1>9 DEF Streams, Arrived
    <2>2. ASSUME NEW x \in 1 .. m PROVE \E k \in DOMAIN sent : \E o : Within(bytes[x], sent[k], o, a + x)
      <3>1. x \in 1 .. Len(wire)
        BY <1>3, <1>7
      <3>2. PICK k \in DOMAIN sent : \E o : Within(wire[x], sent[k], o, a + x)
        BY <2>1, <3>1 DEF Arriving
      <3>3. bytes[x] = wire[x]
        BY <1>8
      <3> QED
        BY <3>2, <3>3
    <2> QED
      BY <1>8, <2>2 DEF Arriving
  <1>13. ASSUME NEW s \in Sessions PROVE Tells(sent, seqs[s], Ended(sent, s, a, a + m))
    <2>1. CASE Monitored(s)
      <3>1. seqs[s] = EventsIn(Feed(s, bytes).out)
        BY <1>5, <2>1
      <3>2. Fits(rx[s])
        BY RxsAre DEF Types
      <3>3. Tells(sent, EventsIn(Feed(s, bytes).out), Ended(sent, s, a, a + Len(bytes)))
        BY <1>6, <1>11, <1>12, <3>2, FeedTells
      <3> HIDE DEF seqs
      <3> QED
        BY <1>8, <3>1, <3>3
    <2>2. CASE ~Monitored(s)
      <3>1. seqs[s] = EventsIn(<<>>)
        BY <2>2
      <3>2. seqs[s] = <<>>
        <4> HIDE DEF seqs
        <4> QED
          BY <3>1, NothingIn
      <3> HIDE DEF seqs
      <3> QED
        BY <3>2, TellsNone
    <2> HIDE DEF seqs
    <2> QED
      BY <2>1, <2>2
  <1>14. IsSeq(seqs, MaxSessions)
    <2>1. MaxSessions \in Nat /\ Sessions = 1 .. MaxSessions
      BY <1>0
    <2>2. seqs = [s \in Sessions |-> seqs[s]]
      OBVIOUS
    <2> HIDE DEF seqs
    <2> QED
      BY <2>1, <2>2 DEF IsSeq
  <1> HIDE DEF seqs
  <1>15. PICK b \in Nat : b = a + m /\ a <= b
    <2>1. a + m \in Nat /\ a <= a + m
      BY <1>3, <1>7
    <2> QED
      BY <2>1
  <1>16. Tells(sent, FlattenSeq(seqs), Between(sent, a, b))
    <2>1. \A s \in Sessions : Tells(sent, seqs[s], Ended(sent, s, a, b))
      BY <1>13, <1>15
    <2> QED
      BY <1>11, <1>14, <2>1, SessionsTell
  <1>17. Tells(sent, got, Here(sent, a))
    BY <1>9 DEF TellsSo
  <1>18. Tells(sent, got \o FlattenSeq(seqs), Here(sent, b))
    BY <1>11, <1>15, <1>16, <1>17, HereAndThere
  <1>19. sent' = sent /\ got' = got \o FlattenSeq(seqs) /\ Arrived' = b
    BY <1>1, <1>10, <1>15
  <1> QED
    BY <1>18, <1>19 DEF TellsSo

LEMMA TellsPreserved == Types /\ Streams /\ Streams' /\ TellsSo /\ [Next]_vars => TellsSo'
  <1> SUFFICES ASSUME Types, Streams, Streams', TellsSo, [Next]_vars PROVE TellsSo'
    OBVIOUS
  <1>1. CASE UNCHANGED <<got, sent, wire, total>>
    BY <1>1 DEF TellsSo, Arrived
  <1>2. CASE Stop
    BY <1>2, TellsAfterStop DEF Stop
  <1>3. ASSUME NEW s \in Sessions, RunMpidSession(s) PROVE TellsSo'
    BY <1>1, <1>3 DEF RunMpidSession, portal
  <1>4. ASSUME NEW s \in Sessions, StartSession(s) PROVE TellsSo'
    BY <1>1, <1>4 DEF StartSession, portal
  <1>5. ASSUME NEW s \in Sessions, PortalAccepts(s) PROVE TellsSo'
    BY <1>1, <1>5 DEF PortalAccepts
  <1>6. ASSUME NEW s \in Sessions, Established(s) PROVE TellsSo'
    BY <1>1, <1>6 DEF Established, portal
  <1>7. ASSUME NEW s \in Sessions, HandshakeFails(s) PROVE TellsSo'
    BY <1>1, <1>7, TellsAfterStop DEF HandshakeFails
  <1>8. ASSUME NEW kind \in Kinds, PortalSends(kind) PROVE TellsSo'
    <2> DEFINE p == [session |-> keyed, kind |-> kind, count |-> count + 1, from |-> total]
    <2>1. sent' = Append(sent, p) /\ got' = got /\ count + 1 <= MaxFrames /\ keyed > 0
      BY <1>8 DEF PortalSends
    <2>2. sent \in Seq(Sent)
      BY DEF Types
    <2>3. p \in Sent
      <3>1. keyed \in 0 .. MaxSessions /\ count \in 0 .. MaxFrames /\ total \in Nat
        BY DEF Types
      <3>2. keyed \in Sessions /\ count + 1 \in 1 .. MaxFrames
        BY <2>1, <3>1, BoundsAssumption DEF Sessions
      <3> QED
        BY <3>1, <3>2 DEF Sent
    <2> HIDE DEF p
    <2>4. OneSent(sent', sent, p, Len(sent))
      BY <2>1, <2>2, <2>3, AppendsSent
    <2>5. Sends(sent', total')
      BY DEF Streams
    <2>6. Tells(sent', got, Here(sent, Arrived))
      <3>1. Tells(sent, got, Here(sent, Arrived))
        BY DEF TellsSo
      <3> QED
        BY <2>4, <2>5, <3>1, StillTells
    <2>7. Arrived' = Arrived
      <3>1. PICK F : F = Frame[<<keyed, kind, count + 1>>] /\ F \in Seq(Elements)
        <4>1. <<keyed, kind, count + 1>> \in Packets
          <5>1. keyed \in 0 .. MaxSessions /\ count \in 0 .. MaxFrames
            BY DEF Types
          <5>2. keyed \in Sessions /\ count + 1 \in 1 .. MaxFrames
            BY <2>1, <5>1, BoundsAssumption DEF Sessions
          <5> QED
            BY <5>2 DEF Packets
        <4> QED
          BY <4>1, FrameComes
      <3>2. wire' = wire \o F /\ total' = total + Len(F)
        BY <1>8, <3>1 DEF PortalSends
      <3>3. wire \in Seq(Elements)
        BY DEF Types
      <3>4. PICK l \in Nat, m \in Nat : l = Len(wire) /\ m = Len(F)
        BY <3>1, <3>3, LenProperties
      <3>5. Len(wire') = l + m
        <4>1. Joined(wire \o F, wire, Len(wire), F, Len(F))
          BY <3>1, <3>3, Joins
        <4> QED
          BY <3>2, <3>4, <4>1 DEF Joined
      <3>6. total \in Nat
        BY DEF Types
      <3>7. (total + m) - (l + m) = total - l
        BY <3>6
      <3> QED
        BY <3>2, <3>4, <3>5, <3>7 DEF Arrived
    <2>8. Here(sent, Arrived) \subseteq Here(sent', Arrived)
      <3>1. ASSUME NEW k \in Here(sent, Arrived) PROVE k \in Here(sent', Arrived)
        <4>1. k \in DOMAIN sent /\ To(sent[k]) <= Arrived
          BY DEF Here
        <4>2. k \in DOMAIN sent' /\ sent'[k] = sent[k]
          BY <2>4, <4>1 DEF OneSent
        <4> QED
          BY <4>1, <4>2 DEF Here
      <3> QED
        BY <3>1
    <2>9. Tells(sent', got, Here(sent', Arrived))
      BY <2>6, <2>8, TellsMore
    <2> QED
      BY <2>1, <2>7, <2>9 DEF TellsSo
  <1>9. ASSUME NEW n \in Cuts, OnTxRx(n) PROVE TellsSo'
    BY <1>9, ReceivesTrue
  <1>10. ASSUME NEW n \in Cuts, Lost(n) PROVE TellsSo'
    <2>1. wire' = Slice(wire, n, Len(wire)) /\ UNCHANGED <<sent, total, got>>
      BY <1>10 DEF Lost
    <2>2. wire \in Seq(Elements) /\ total \in Nat
      BY DEF Types
    <2>3. PICK l \in Nat : l = Len(wire) /\ l <= total
      BY <2>2, LenProperties DEF Streams
    <2>4. PICK m \in 0 .. Len(wire) : CutOff(Slice(wire, 0, n), wire', wire, m)
      BY <2>1, <2>2, Cuttings
    <2>5. Len(wire') = l - m
      BY <2>3, <2>4 DEF CutOff
    <2>6. PICK a \in Nat, b \in Nat : a = Arrived /\ b = Arrived' /\ a <= b
      <3>1. total - l \in Nat /\ total - (l - m) \in Nat /\ total - l <= total - (l - m)
        BY <2>2, <2>3, <2>4
      <3> QED
        BY <2>1, <2>3, <2>5, <3>1 DEF Arrived
    <2>7. Sends(sent, total) /\ Tells(sent, got, Here(sent, a))
      BY <2>6 DEF Streams, TellsSo
    <2>8. Tells(sent, <<>>, Between(sent, a, b))
      BY TellsNone
    <2>9. Tells(sent, got \o <<>>, Here(sent, b))
      BY <2>6, <2>7, <2>8, HereAndThere
    <2>10. got \o <<>> = got
      <3>1. got \in Seq(Meanings)
        BY <2>7 DEF Tells
      <3> QED
        BY <3>1, ConcatEmptySeq
    <2> QED
      BY <2>1, <2>6, <2>9, <2>10 DEF TellsSo
  <1>11. CASE UNCHANGED vars
    BY <1>1, <1>11 DEF vars, portal
  <1> QED
    BY <1>2, <1>3, <1>4, <1>5, <1>6, <1>7, <1>8, <1>9, <1>10, <1>11 DEF Next

\* What was meant: the events of all packets, in their order.
LEMMA MeantTells ==
  ASSUME NEW q, NEW tot, Sends(q, tot), NEW meant, meant = FlattenSeq([k \in DOMAIN q |-> Means(q[k])])
  PROVE  Tells(q, meant, DOMAIN q) /\ \A e, k : IsFrom(q, e, k) => \E x \in DOMAIN meant : meant[x] = e
  <1> DEFINE seqs == [k \in DOMAIN q |-> Means(q[k])]
  <1>1. q \in Seq(Sent)
    BY DEF Sends
  <1>2. PICK n \in Nat : n = Len(q) /\ DOMAIN q = 1 .. n
    BY <1>1, LenProperties
  <1>3. \A k \in 1 .. n : q[k] \in Sent
    BY <1>1, <1>2, ElementOfSeq
  <1>4. \A k \in 1 .. n : Means(q[k]) = <<>> \/ \E e \in Meanings : Means(q[k]) = <<e>> /\ IsFrom(q, e, k)
    <2> SUFFICES ASSUME NEW k \in 1 .. n, Means(q[k]) # <<>> PROVE \E e \in Meanings : Means(q[k]) = <<e>> /\ IsFrom(q, e, k)
      OBVIOUS
    <2>1. PICK e : e = EventOf(q[k].kind, q[k].count)
      OBVIOUS
    <2>2. Means(q[k]) = <<e>> /\ e \in Meanings
      BY <1>3, <2>1, MeansWhatItSays
    <2>3. IsFrom(q, e, k)
      BY <1>2, <2>2 DEF IsFrom
    <2> QED
      BY <2>2, <2>3
  <1>5. PICK s : s = seqs
    OBVIOUS
  <1>6. IsSeq(s, n) /\ \A k \in 1 .. n : s[k] = Means(q[k])
    <2>1. s = [k \in 1 .. n |-> Means(q[k])]
      BY <1>2, <1>5
    <2>2. \A k \in 1 .. n : s[k] = Means(q[k])
      BY <2>1
    <2>3. s = [k \in 1 .. n |-> s[k]]
      BY <2>1
    <2> QED
      BY <2>2, <2>3 DEF IsSeq
  <1>7. \A k \in 1 .. n : s[k] \in Seq(Meanings)
    <2>1. \A e \in Meanings : <<e>> \in Seq(Meanings)
      OBVIOUS
    <2>2. <<>> \in Seq(Meanings)
      BY NoneIsSeq
    <2> QED
      BY <1>4, <1>6, <2>1, <2>2
  <1>8. s \in Seq(Seq(Meanings)) /\ Len(s) = n
    BY <1>6, <1>7, SeqOfThem
  <1>9. PICK g : Flat(Meanings, s, g) /\ FlattenSeq(s) = g[Len(s)]
    BY <1>8, FlattenIs
  <1>10. g[0] = <<>> /\ (\A k \in 1 .. n : g[k] = g[k - 1] \o s[k])
    BY <1>8, <1>9 DEF Flat
  <1> DEFINE Has(t, i) == \A e, k : IsFrom(q, e, k) /\ k <= i => \E x \in DOMAIN t : t[x] = e
             P == {i \in 0 .. n : Tells(q, g[i], 1 .. i) /\ Has(g[i], i)}
  <1> HIDE DEF seqs
  <1>11. 0 \in P
    <2>1. Tells(q, g[0], 1 .. 0)
      BY <1>10, TellsNone
    <2>2. Has(g[0], 0)
      <3>1. \A e, k : IsFrom(q, e, k) => k \in 1 .. n
        BY <1>2 DEF IsFrom
      <3>2. \A k \in 1 .. n : ~(k <= 0)
        OBVIOUS
      <3> QED
        BY <3>1, <3>2
    <2> HIDE DEF Has
    <2> QED
      BY <2>1, <2>2
  <1>12. ASSUME NEW i \in 0 .. n - 1, i \in P PROVE i + 1 \in P
    <2>1. PICK k \in 1 .. n : k = i + 1 /\ i = k - 1
      <3>1. i + 1 \in 1 .. n /\ i = (i + 1) - 1
        OBVIOUS
      <3> QED
        BY <3>1
    <2>2. g[k] = g[i] \o s[k]
      BY <1>10, <2>1
    <2>3. Tells(q, g[i], 1 .. i) /\ Has(g[i], i)
      BY <1>12
    <2>4. 1 .. i \subseteq 1 .. k /\ (1 .. i) \cup {k} \subseteq 1 .. k /\ (\A x \in 1 .. i, y \in {k} : x < y)
      BY <2>1
    <2>5. \A x \in 1 .. n : x <= k <=> x <= i \/ x = k
      BY <2>1
    <2>6. \A e, x : IsFrom(q, e, x) => x \in 1 .. n
      BY <1>2 DEF IsFrom
    <2>7. g[i] \in Seq(Meanings)
      BY <2>3 DEF Tells
    <2>8. CASE Means(q[k]) = <<>>
      <3>1. g[k] = g[i]
        BY <1>6, <2>2, <2>7, <2>8, ConcatEmptySeq
      <3>2. Tells(q, g[k], 1 .. k)
        BY <2>3, <2>4, <3>1, TellsMore
      <3>3. \A e : ~IsFrom(q, e, k)
        BY <2>8 DEF IsFrom
      <3>4. Has(g[k], k)
        <4>1. Has(g[i], i)
          BY <2>3
        <4> QED
          BY <2>5, <2>6, <3>1, <3>3, <4>1
      <3> HIDE DEF Has
      <3> QED
        BY <2>1, <3>2, <3>4
    <2>9. ASSUME NEW e \in Meanings, Means(q[k]) = <<e>>, IsFrom(q, e, k) PROVE i + 1 \in P
      <3>1. g[k] = g[i] \o <<e>>
        BY <1>6, <2>2, <2>9
      <3>2. Tells(q, <<e>>, {k})
        BY <2>9, TellsOne
      <3>3. Tells(q, g[i] \o <<e>>, (1 .. i) \cup {k})
        BY <2>3, <2>4, <3>2, TellsBoth
      <3>4. Tells(q, g[k], 1 .. k)
        BY <2>4, <3>1, <3>3, TellsMore
      <3>5. PICK l \in Nat : l = Len(g[i]) /\ DOMAIN g[i] = 1 .. l
        BY <2>7, LenProperties
      <3>6. <<e>> \in Seq(Meanings) /\ Len(<<e>>) = 1 /\ <<e>>[1] = e
        OBVIOUS
      <3>7. Joined(g[k], g[i], l, <<e>>, 1) /\ g[k] \in Seq(Meanings)
        BY <2>7, <3>1, <3>5, <3>6, Joins
      <3>8. DOMAIN g[k] = 1 .. l + 1 /\ g[k][l + 1] = e /\ \A x \in 1 .. l : g[k][x] = g[i][x]
        <4>1. Len(g[k]) = l + 1 /\ (\A x \in 1 .. l : g[k][x] = g[i][x]) /\ (\A x \in 1 .. 1 : g[k][l + x] = <<e>>[x])
          BY <3>7 DEF Joined
        <4>2. DOMAIN g[k] = 1 .. Len(g[k])
          BY <3>7, LenProperties
        <4>3. 1 \in 1 .. 1
          OBVIOUS
        <4> QED
          BY <3>6, <4>1, <4>2, <4>3
      <3>9. \A d : IsFrom(q, d, k) => d = e
        <4>1. \A d : <<d>> = <<e>> => d = e
          OBVIOUS
        <4> QED
          BY <2>9, <4>1 DEF IsFrom
      <3>10. Has(g[k], k)
        <4> SUFFICES ASSUME NEW d, NEW x, IsFrom(q, d, x), x <= k PROVE \E y \in DOMAIN g[k] : g[k][y] = d
          OBVIOUS
        <4>1. x <= i \/ x = k
          BY <2>5, <2>6
        <4>2. CASE x <= i
          <5>1. PICK y \in DOMAIN g[i] : g[i][y] = d
            BY <2>3, <4>2
          <5>2. y \in DOMAIN g[k] /\ g[k][y] = d
            BY <3>5, <3>8, <5>1
          <5> QED
            BY <5>2
        <4>3. CASE x = k
          <5>1. d = e
            BY <3>9, <4>3
          <5>2. l + 1 \in DOMAIN g[k]
            BY <3>8
          <5> QED
            BY <3>8, <5>1, <5>2
        <4> QED
          BY <4>1, <4>2, <4>3
      <3> HIDE DEF Has
      <3> QED
        BY <2>1, <3>4, <3>10
    <2> QED
      BY <1>4, <2>8, <2>9
  <1>13. \A i \in 0 .. n : i \in P
    <2> HIDE DEF P
    <2> QED
      BY <1>11, <1>12, Upward
  <1>14. n \in P
    BY <1>13
  <1>15. Tells(q, g[n], 1 .. n) /\ Has(g[n], n)
    BY <1>14
  <1>16. meant = g[n]
    BY <1>5, <1>8, <1>9 DEF seqs
  <1>17. \A e, k : IsFrom(q, e, k) => k <= n
    BY <1>2 DEF IsFrom
  <1> QED
    BY <1>2, <1>15, <1>16, <1>17

\* The place of the first.
LEMMA FirstPlace ==
  ASSUME NEW t \in Seq(Meanings), NEW e, \E x \in DOMAIN t : t[x] = e
  PROVE  SelectInSeq(t, LAMBDA d : d = e) \in DOMAIN t /\ t[SelectInSeq(t, LAMBDA d : d = e)] = e
  <1> DEFINE I == {x \in 1 .. Len(t) : t[x] = e}
  <1>1. DOMAIN t = 1 .. Len(t) /\ Len(t) \in Nat
    BY LenProperties
  <1>2. I # {} /\ I \in SUBSET Nat /\ I \in SUBSET Int
    BY <1>1
  <1>3. SelectInSeq(t, LAMBDA d : d = e) = Min(I)
    BY <1>2 DEF SelectInSeq
  <1>4. PICK m \in I : \A y \in I : m <= y
    <2> HIDE DEF I
    <2> QED
      BY <1>2, Least
  <1>5. Min(I) = m
    <2> HIDE DEF I
    <2> QED
      BY <1>2, <1>4, MinIs
  <1> QED
    BY <1>1, <1>3, <1>4, <1>5

LEMMA AllTrue ==
  ASSUME Types, Streams, TellsSo
  PROVE  EventsAreTrue
  <1>1. Sends(sent, total)
    BY DEF Streams
  <1>2. PICK meant : meant = Meant
    OBVIOUS
  <1>3. Tells(sent, meant, DOMAIN sent) /\ \A e, k : IsFrom(sent, e, k) => \E x \in DOMAIN meant : meant[x] = e
    BY <1>1, <1>2, MeantTells DEF Meant
  <1>4. Tells(sent, got, Here(sent, Arrived))
    BY DEF TellsSo
  <1>5. \A x \in DOMAIN got : \E k : IsFrom(sent, got[x], k)
    BY <1>4 DEF Tells
  <1>6. ToSet(got) \subseteq ToSet(meant)
    BY <1>3, <1>5 DEF ToSet
  <1>7. ASSUME NEW i \in DOMAIN got, NEW j \in DOMAIN got, i < j
        PROVE  SelectInSeq(meant, LAMBDA e : e = got[i]) < SelectInSeq(meant, LAMBDA e : e = got[j])
    <2>1. PICK k, l : IsFrom(sent, got[i], k) /\ IsFrom(sent, got[j], l)
      BY <1>5
    <2>2. k < l
      BY <1>4, <1>7, <2>1 DEF Tells
    <2>3. k \in Nat /\ l \in Nat
      <3>1. sent \in Seq(Sent)
        BY DEF Types
      <3> QED
        BY <2>1, <3>1, SentAre DEF IsFrom
    <2>4. meant \in Seq(Meanings)
      BY <1>3 DEF Tells
    <2>5. (\E x \in DOMAIN meant : meant[x] = got[i]) /\ (\E x \in DOMAIN meant : meant[x] = got[j])
      BY <1>3, <2>1
    <2>6. PICK x : x = SelectInSeq(meant, LAMBDA e : e = got[i]) /\ x \in DOMAIN meant /\ meant[x] = got[i]
      BY <2>4, <2>5, FirstPlace
    <2>7. PICK y : y = SelectInSeq(meant, LAMBDA e : e = got[j]) /\ y \in DOMAIN meant /\ meant[y] = got[j]
      BY <2>4, <2>5, FirstPlace
    <2>8. x \in Nat /\ y \in Nat
      BY <2>4, <2>6, <2>7, LenProperties
    <2>9. x # y
      <3> SUFFICES ASSUME x = y PROVE FALSE
        OBVIOUS
      <3>1. IsFrom(sent, got[i], l)
        BY <2>1, <2>6, <2>7
      <3>2. k = l
        BY <1>1, <2>1, <3>1, FromOne
      <3> QED
        BY <2>2, <2>3, <3>2
    <2>10. ~(y < x)
      <3> SUFFICES ASSUME y < x PROVE FALSE
        OBVIOUS
      <3>1. IsFrom(sent, meant[x], k) /\ IsFrom(sent, meant[y], l)
        BY <2>1, <2>6, <2>7
      <3>2. l < k
        BY <1>3, <2>6, <2>7, <3>1 DEF Tells
      <3> QED
        BY <2>2, <2>3, <3>2
    <2>11. x < y
      BY <2>8, <2>9, <2>10
    <2> QED
      BY <2>6, <2>7, <2>11
  <1> QED
    BY <1>2, <1>6, <1>7 DEF EventsAreTrue

\* Every byte under way is one of a packet that was sent, at its place in the
\* stream, and no packet is under a key the portal does not have yet.
LEMMA StreamsRight == Spec => []Streams
  <1> QED
    BY TypeCorrect, StreamsInitially, StreamsPreserved, PTL DEF Spec

\* Every event that is dispatched is one a packet meant, in the order of the
\* packets and once: onTxRx() of several receivers, of lost indications and of
\* packets under another session's key included.
THEOREM EventsTrue == Spec => []EventsAreTrue
  <1>1. Init => TellsSo
    BY TellsInitially
  <1>2. Types /\ Streams /\ Streams' /\ TellsSo /\ [Next]_vars => TellsSo'
    BY TellsPreserved
  <1>3. Types /\ Streams /\ TellsSo => EventsAreTrue
    BY AllTrue
  <1> QED
    BY <1>1, <1>2, <1>3, TypeCorrect, StreamsRight, PTL DEF Spec

-----------------------------------------------------------------------------
(* A receiver that is in step.                                              *)

\* What was enciphered for this session comes out of it as it was.
LEMMA Uncovers ==
  ASSUME NEW f \in Packets, NEW n \in 1 .. 127, n = BodyLen(f), NEW i \in 1 .. n, NEW x, x = Frame[f][8 + i]
  PROVE  /\ i < n => Unciphered(f[1], IvOf(f), i, x) = OnWire(Said(f))[i]
         /\ i = n => Unciphered(f[1], IvOf(f), i, x) = Crc8(OnWire(Said(f)))
  <1>1. Bodies(Frame[f], f)
    BY FrameShape
  <1>2. Said(f) \in Seq(Byte) /\ n = Len(Said(f)) + 1
    <2>1. BodyLen(f) > 0 => BodyLen(f) = Len(Said(f)) + 1
      BY SaidIs
    <2>2. Said(f) \in Seq(Byte)
      BY SaidIs
    <2>3. PICK l \in Nat : l = Len(Said(f))
      BY <2>2, LenProperties
    <2>4. n > 0
      OBVIOUS
    <2>5. BodyLen(f) = l + 1
      BY <2>1, <2>3, <2>4
    <2> QED
      BY <2>2, <2>3, <2>5
  <1>3. PICK k : k = Keystream(f[1], IvOf(f), i) /\ k \in Byte
    <2>1. f[1] \in Sessions /\ f[3] \in 1 .. MaxFrames /\ i \in 1 .. MAX_PAYLOAD + 1
      BY PacketsAre DEF MAX_PAYLOAD
    <2> QED
      BY <2>1, KeystreamAssumption DEF IvOf
  <1>4. ASSUME i < n PROVE Unciphered(f[1], IvOf(f), i, x) = OnWire(Said(f))[i]
    <2>1. i \in 1 .. Len(Said(f))
      <3>1. PICK m \in Nat : m = Len(Said(f))
        BY <1>2, LenProperties
      <3> QED
        BY <1>2, <1>4, <3>1
    <2>2. PICK b \in Byte : b = Said(f)[i]
      BY <1>2, <2>1, ElementOfSeq
    <2>3. OnWire(Said(f))[i] = Plain(b)
      BY <1>2, <2>1, <2>2, OnWireIs
    <2>4. x = Veiled(f, i)
      <3>1. \A j \in 1 .. n - 1 : Frame[f][8 + j] = Veiled(f, j)
        BY <1>1 DEF Bodies
      <3>2. i \in 1 .. n - 1
        BY <1>4
      <3> QED
        BY <3>1, <3>2
    <2>5. PICK c : c = (k - b) % 256 /\ c \in Byte /\ (k - c) % 256 = b
      BY <1>3, Deciphered
    <2>6. x = Plain(c)
      BY <1>3, <2>2, <2>4, <2>5 DEF Veiled
    <2>7. x.byte = c /\ x = [byte |-> c, of |-> <<>>, veil |-> {}]
      BY <2>6 DEF Plain
    <2>8. c # None
      BY <2>5 DEF Byte, None
    <2>9. Unciphered(f[1], IvOf(f), i, x) = [x EXCEPT !.byte = (k - @) % 256]
      BY <1>3, <2>7, <2>8, Zenon DEF Unciphered
    <2>10. [x EXCEPT !.byte = (k - @) % 256] = [byte |-> b, of |-> <<>>, veil |-> {}]
      <3>1. PICK e : e = (k - x.byte) % 256
        OBVIOUS
      <3>2. [x EXCEPT !.byte = (k - @) % 256] = [x EXCEPT !.byte = e]
        BY <3>1
      <3>3. [x EXCEPT !.byte = e] = [byte |-> e, of |-> <<>>, veil |-> {}]
        <4>1. PICK o, v : o = <<>> /\ v = {}
          OBVIOUS
        <4>2. x = [byte |-> c, of |-> o, veil |-> v]
          BY <2>7, <4>1, Zenon
        <4>3. [x EXCEPT !.byte = e] = [byte |-> e, of |-> o, veil |-> v]
          BY <4>2
        <4> QED
          BY <4>1, <4>3, Zenon
      <3>4. e = b
        BY <2>5, <2>7, <3>1
      <3> QED
        BY <3>2, <3>3, <3>4, Zenon
    <2> QED
      BY <2>3, <2>9, <2>10 DEF Plain
  <1>5. ASSUME i = n PROVE Unciphered(f[1], IvOf(f), i, x) = Crc8(OnWire(Said(f)))
    <2>1. x = BodyCrc(f)
      <3>1. BodyLen(f) > 0 => Frame[f][8 + BodyLen(f)] = BodyCrc(f)
        BY <1>1 DEF Bodies
      <3>2. n > 0
        OBVIOUS
      <3> QED
        BY <1>5, <3>1, <3>2
    <2>2. PICK v : v = <<f[1], IvOf(f), i>>
      OBVIOUS
    <2>3. x = [byte |-> None, of |-> OnWire(Said(f)), veil |-> {v}]
      BY <1>5, <2>1, <2>2 DEF BodyCrc
    <2>4. x.byte = None
      BY <2>3
    <2>5. Unciphered(f[1], IvOf(f), i, x) = [x EXCEPT !.veil = SymDiff(@, {v})]
      BY <2>2, <2>4, Zenon DEF Unciphered
    <2>6. PICK w : w = OnWire(Said(f))
      OBVIOUS
    <2>7. [x EXCEPT !.veil = SymDiff(@, {v})] = [byte |-> None, of |-> w, veil |-> SymDiff({v}, {v})]
      BY <2>3, <2>6
    <2>8. SymDiff({v}, {v}) = {}
      BY Unveiled
    <2> QED
      BY <2>5, <2>6, <2>7, <2>8 DEF Crc8
  <1> QED
    BY <1>4, <1>5

LEMMA BodySaid ==
  ASSUME NEW f \in Packets, NEW n \in 1 .. 127, n = BodyLen(f), app[f[1]] # "reading"
  PROVE  Body(Decrypted(f[1], Frame[f])) = Received(Said(f))
  <1>1. PICK F : F = Frame[f]
    OBVIOUS
  <1>2. PICK m \in Nat : m = n + 8
    OBVIOUS
  <1>3. IsSeq(F, m) /\ Fronts(F, f) /\ Len(F) = m
    BY <1>1, <1>2, FrameShape, Lengths
  <1> DEFINE body == SubSeq(F, 9, Len(F))
             plain == Decrypted(f[1], F)
  <1>4. IsSeq(body, n) /\ \A i \in 1 .. n : body[i] = F[8 + i]
    <2>1. 9 \in 1 .. m + 1 /\ m \in 9 - 1 .. m /\ (m - 9) + 1 = n
      BY <1>2
    <2>2. IsSeq(SubSeq(F, 9, m), (m - 9) + 1) /\ \A i \in 1 .. (m - 9) + 1 : SubSeq(F, 9, m)[i] = F[9 + i - 1]
      BY <1>3, <2>1, SlicesThem
    <2>3. \A i \in 1 .. n : 9 + i - 1 = 8 + i
      OBVIOUS
    <2>4. PICK t : t = SubSeq(F, 9, m)
      OBVIOUS
    <2>5. IsSeq(t, n) /\ \A i \in 1 .. n : t[i] = F[8 + i]
      BY <2>1, <2>2, <2>3, <2>4
    <2> QED
      BY <1>3, <2>4, <2>5
  <1> HIDE DEF body
  <1>5. plain = Aes128Ctr(f[1], IvOf(f), body)
    <2>1. BytesOf(SubSeq(F, 2, 5)) = Bytes(f[3], 4)
      BY <1>3 DEF Fronts
    <2> QED
      BY <2>1 DEF Decrypted, IvOf, body
  <1>6. plain = [i \in 1 .. n |-> Unciphered(f[1], IvOf(f), i, body[i])]
    <2>1. DOMAIN body = 1 .. n
      BY <1>4 DEF IsSeq
    <2> HIDE DEF plain
    <2> QED
      BY <1>5, <2>1, Zenon DEF Aes128Ctr, Unciphered
  <1> HIDE DEF plain
  <1>7. IsSeq(plain, n) /\ \A i \in 1 .. n : plain[i] = Unciphered(f[1], IvOf(f), i, body[i])
    <2>1. \A i \in 1 .. n : plain[i] = Unciphered(f[1], IvOf(f), i, body[i])
      BY <1>6
    <2>2. plain = [i \in 1 .. n |-> plain[i]]
      BY <1>6
    <2>3. n \in Nat
      OBVIOUS
    <2> QED
      BY <2>1, <2>2, <2>3 DEF IsSeq
  <1>8. PICK w : w = OnWire(Said(f))
    OBVIOUS
  <1>9. \A i \in 1 .. n : (i < n => plain[i] = w[i]) /\ (i = n => plain[i] = Crc8(w))
    <2> SUFFICES ASSUME NEW i \in 1 .. n
                 PROVE  (i < n => plain[i] = w[i]) /\ (i = n => plain[i] = Crc8(w))
      OBVIOUS
    <2>1. PICK x : x = Frame[f][8 + i]
      OBVIOUS
    <2>2. body[i] = x
      BY <1>1, <1>4, <2>1
    <2>3. plain[i] = Unciphered(f[1], IvOf(f), i, x)
      BY <1>7, <2>2
    <2>4. /\ i < n => Unciphered(f[1], IvOf(f), i, x) = OnWire(Said(f))[i]
          /\ i = n => Unciphered(f[1], IvOf(f), i, x) = Crc8(OnWire(Said(f)))
      BY <2>1, Uncovers
    <2> QED
      BY <1>8, <2>3, <2>4
  <1>10. IsSeq(w, n - 1) /\ BytesOf(w) = Said(f)
    <2>1. Said(f) \in Seq(Byte) /\ (BodyLen(f) > 0 => BodyLen(f) = Len(Said(f)) + 1)
      BY SaidIs
    <2>2. PICK l \in Nat : l = Len(Said(f))
      BY <2>1, LenProperties
    <2>3. l = n - 1
      <3>1. n > 0
        OBVIOUS
      <3>2. n = l + 1
        BY <2>1, <2>2, <3>1
      <3> QED
        BY <3>2
    <2> QED
      BY <1>8, <2>1, <2>2, <2>3, OnWireIs
  <1>11. Len(plain) = n
    BY <1>7 DEF IsSeq
  <1>12. Last(plain) = Crc8(w)
    <2>1. n \in 1 .. n
      OBVIOUS
    <2> QED
      BY <1>9, <1>11, <2>1 DEF Last
  <1>13. Front(plain) = w
    <2> DEFINE t == SubSeq(plain, 1, n - 1)
    <2>1. 1 \in 1 .. n + 1 /\ n - 1 \in 1 - 1 .. n /\ (n - 1 - 1) + 1 = n - 1
      OBVIOUS
    <2>2. IsSeq(t, ((n - 1) - 1) + 1) /\ \A i \in 1 .. ((n - 1) - 1) + 1 : t[i] = plain[1 + i - 1]
      BY <1>7, <2>1, SlicesThem
    <2> HIDE DEF t
    <2>3. IsSeq(t, n - 1) /\ \A i \in 1 .. n - 1 : t[i] = plain[i]
      BY <2>1, <2>2
    <2>4. \A i \in 1 .. n - 1 : t[i] = w[i]
      BY <1>9, <2>3
    <2>5. t = w
      BY <1>10, <2>3, <2>4 DEF IsSeq
    <2> QED
      BY <1>11, <2>5 DEF Front, t
  <1>14. Body(plain) = Received(BytesOf(w))
    BY <1>12, <1>13, Zenon DEF Body
  <1> QED
    BY <1>1, <1>10, <1>14 DEF plain

\* It has what there is of the packet f up to the o-th of its bytes.
Follows(r, f, o) ==
  /\ o = 0 => r = Ready
  /\ o > 0 => IsSeq(r.buf, o) /\ \A i \in 1 .. o : r.buf[i] = Frame[f][i]
  /\ o \in 1 .. 7 => r.state = "GOT_PREAMBLE" /\ r.plen = 0
  /\ o >= 8 => r.state = "GOT_HEADER" /\ r.plen = BodyLen(f)

LEMMA HeaderFollows ==
  ASSUME NEW f \in Packets, NEW buf, IsSeq(buf, 8), \A i \in 1 .. 8 : buf[i] = Frame[f][i]
  PROVE  /\ BodyLen(f) > 0 => Header(buf) = [rx |-> [state |-> "GOT_HEADER", buf |-> buf, plen |-> BodyLen(f)], out |-> Nothing]
         /\ BodyLen(f) = 0 => Header(buf) = [rx |-> Ready, out |-> Received(<<>>)]
  <1>1. PICK F : F = Frame[f]
    OBVIOUS
  <1>2. PICK n \in 0 .. 127 : n = BodyLen(f)
    BY SaidIs
  <1>3. IsSeq(F, n + 8) /\ Fronts(F, f)
    BY <1>1, <1>2, FrameShape
  <1>4. Crc8(SubSeq(buf, 1, 7)) = buf[8]
    <2> DEFINE t == SubSeq(buf, 1, 7)
               u == SubSeq(F, 1, 7)
    <2>1. 1 \in 1 .. 8 + 1 /\ 7 \in 1 - 1 .. 8 /\ 1 \in 1 .. (n + 8) + 1 /\ 7 \in 1 - 1 .. n + 8 /\ n + 8 \in Nat
          /\ (7 - 1) + 1 = 7 /\ 8 \in Nat
      BY <1>2
    <2>2. IsSeq(t, (7 - 1) + 1) /\ \A i \in 1 .. (7 - 1) + 1 : t[i] = buf[1 + i - 1]
      BY <2>1, SlicesThem
    <2>3. IsSeq(u, (7 - 1) + 1) /\ \A i \in 1 .. (7 - 1) + 1 : u[i] = F[1 + i - 1]
      BY <1>3, <2>1, SlicesThem
    <2> HIDE DEF t, u
    <2>4. IsSeq(t, 7) /\ IsSeq(u, 7)
      BY <2>1, <2>2, <2>3
    <2>5. \A i \in 1 .. 7 : t[i] = u[i]
      <3> SUFFICES ASSUME NEW i \in 1 .. 7 PROVE t[i] = u[i]
        OBVIOUS
      <3>1. 1 + i - 1 = i /\ i \in 1 .. 8
        OBVIOUS
      <3> QED
        BY <1>1, <2>1, <2>2, <2>3, <3>1
    <2>6. t = u
      BY <2>4, <2>5 DEF IsSeq
    <2>7. u = HeadOf(f) /\ F[8] = Crc8(HeadOf(f))
      BY <1>3 DEF Fronts, u
    <2>8. buf[8] = F[8]
      BY <1>1
    <2> QED
      BY <2>6, <2>7, <2>8 DEF t
  <1>5. Plen(buf) = n
    <2>1. buf[6] = F[6] /\ buf[7] = F[7]
      BY <1>1
    <2>2. Plen(F) = n
      BY <1>2, <1>3 DEF Fronts
    <2> QED
      BY <2>1, <2>2, Zenon DEF Plen
  <1>7. CASE n # 0
    <2>1. Header(buf) = [rx |-> [state |-> "GOT_HEADER", buf |-> buf, plen |-> n], out |-> Nothing]
      BY <1>4, <1>5, <1>7, Zenon DEF Header
    <2> QED
      BY <1>2, <1>7, <2>1
  <1>8. ASSUME n = 0 PROVE Header(buf) = [rx |-> Ready, out |-> Received(<<>>)]
    BY <1>4, <1>5, <1>8, Zenon DEF Header
  <1> QED
    BY <1>2, <1>7, <1>8

\* What the receiver holds with one byte more.
Starts(t, f, o) == IsSeq(t, o) /\ Len(t) = o /\ \A i \in 1 .. o : t[i] = Frame[f][i]

LEMMA MoreFollows ==
  ASSUME NEW r, NEW f, NEW o \in Nat, Follows(r, f, o), o > 0
  PROVE  Starts(Append(r.buf, Frame[f][o + 1]), f, o + 1)
  <1>0. PICK x : x = Frame[f][o + 1]
    OBVIOUS
  <1>3. PICK t : t = Append(r.buf, x)
    OBVIOUS
  <1>1. IsSeq(r.buf, o) /\ \A i \in 1 .. o : r.buf[i] = Frame[f][i]
    BY DEF Follows
  <1>2. Grown(Append(r.buf, x), r.buf, o, x)
    BY <1>1, AppendsOne
  <1>4. IsSeq(t, o + 1) /\ t[o + 1] = x /\ \A i \in 1 .. o : t[i] = r.buf[i]
    BY <1>2, <1>3 DEF Grown
  <1>5. ASSUME NEW i \in 1 .. o + 1 PROVE t[i] = Frame[f][i]
    <2>1. CASE i = o + 1
      BY <1>0, <1>4, <2>1
    <2>2. CASE i # o + 1
      <3>1. i \in 1 .. o
        BY <2>2
      <3> QED
        BY <1>1, <1>4, <3>1
    <2> QED
      BY <2>1, <2>2
  <1>6. Len(t) = o + 1
    BY <1>4 DEF IsSeq
  <1>7. Starts(t, f, o + 1)
    BY <1>4, <1>5, <1>6 DEF Starts
  <1> QED
    BY <1>0, <1>3, <1>7, Zenon

\* The last byte of a header, and of a body.
LEMMA FeedsHeader ==
  ASSUME NEW s, NEW r, NEW b, NEW buf, buf = Append(r.buf, b), r.state = "GOT_PREAMBLE", Len(buf) >= 8
  PROVE  FeedByte(s, r, b) = Header(buf)
  BY FeedByteIs, Zenon

LEMMA FeedsBody ==
  ASSUME NEW s, NEW r, NEW b, NEW buf, buf = Append(r.buf, b), r.state = "GOT_HEADER", Len(buf) >= r.plen + 8
  PROVE  FeedByte(s, r, b) = [rx |-> Ready, out |-> Body(Decrypted(s, buf))]
  BY FeedByteIs, Zenon

LEMMA FollowsOn ==
  ASSUME NEW s, NEW r, Fits(r), NEW f \in Packets, NEW n, n = BodyLen(f), NEW o \in 0 .. n + 6, Follows(r, f, o),
         NEW x, x = Frame[f][o + 1]
  PROVE  Follows(FeedByte(s, r, x).rx, f, o + 1)
  <1>1. n \in 0 .. 127 /\ o \in Nat
    <2>1. BodyLen(f) \in 0 .. 127
      BY SaidIs
    <2>2. n \in 0 .. 127
      BY <2>1
    <2> QED
      BY <2>2
  <1>2. CASE o = 0
    <2>1. x = Plain(PREAMBLE)
      BY <1>2, FrameShape DEF Fronts, PREAMBLE
    <2>2. r.state = "READY"
      BY <1>2 DEF Follows, Ready
    <2>3. FeedByte(s, r, x) = [rx |-> [state |-> "GOT_PREAMBLE", buf |-> <<x>>, plen |-> 0], out |-> Nothing]
      BY <2>1, <2>2, FeedsPreamble
    <2>4. PICK t : t = FeedByte(s, r, x).rx
      OBVIOUS
    <2>5. t.state = "GOT_PREAMBLE" /\ t.buf = <<x>> /\ t.plen = 0
      BY <2>3, <2>4
    <2>6. IsSeq(<<x>>, 1) /\ <<x>>[1] = x
      BY DEF IsSeq
    <2>7. \A i \in 1 .. 1 : t.buf[i] = Frame[f][i]
      BY <1>2, <2>5, <2>6
    <2> QED
      BY <1>2, <2>4, <2>5, <2>6, <2>7 DEF Follows
  <1>9. PICK buf : buf = Append(r.buf, x)
    OBVIOUS
  <1>3. ASSUME o > 0 PROVE IsSeq(buf, o + 1) /\ Len(buf) = o + 1 /\ \A i \in 1 .. o + 1 : buf[i] = Frame[f][i]
    <2>0. o \in Nat /\ o > 0 /\ Follows(r, f, o)
      BY <1>1, <1>3
    <2>1. Starts(Append(r.buf, Frame[f][o + 1]), f, o + 1)
      BY <2>0, MoreFollows
    <2>2. Starts(buf, f, o + 1)
      BY <1>9, <2>1, Zenon
    <2> QED
      BY <2>2 DEF Starts
  <1>4. ASSUME Waits(r, x), o > 0, r.plen \in Nat
        PROVE  LET t == FeedByte(s, r, x).rx IN t.state = r.state /\ t.buf = buf /\ t.plen = r.plen
    <2>1. FeedByte(s, r, x) = [rx |-> [r EXCEPT !.buf = buf], out |-> Nothing]
      BY <1>4, <1>9, FeedsOn
    <2>2. r = [state |-> r.state, buf |-> r.buf, plen |-> r.plen]
      BY DEF Fits
    <2> QED
      BY <2>1, <2>2
  <1>5. CASE o \in 1 .. 6
    <2>1. r.state = "GOT_PREAMBLE" /\ r.plen = 0
      BY <1>5 DEF Follows
    <2>2. ~(Len(buf) >= 8)
      BY <1>3, <1>5
    <2>3. Waits(r, x)
      BY <1>9, <2>1, <2>2 DEF Waits
    <2>4. PICK t : t = FeedByte(s, r, x).rx
      OBVIOUS
    <2>5. t.state = "GOT_PREAMBLE" /\ t.buf = buf /\ t.plen = 0
      BY <1>4, <1>5, <2>1, <2>3, <2>4
    <2> QED
      BY <1>3, <1>5, <2>4, <2>5 DEF Follows
  <1>6. CASE o = 7
    <2>1. r.state = "GOT_PREAMBLE"
      BY <1>6 DEF Follows
    <2>0. o + 1 = 8 /\ o > 0
      BY <1>6
    <2>2. Len(buf) = 8 /\ IsSeq(buf, 8) /\ \A i \in 1 .. 8 : buf[i] = Frame[f][i]
      BY <1>3, <2>0
    <2>8. Len(buf) >= 8
      BY <2>2
    <2>3. FeedByte(s, r, x) = Header(buf)
      BY <1>9, <2>1, <2>8, FeedsHeader
    <2>4. n > 0
      BY <1>1, <1>6
    <2>5. Header(buf) = [rx |-> [state |-> "GOT_HEADER", buf |-> buf, plen |-> n], out |-> Nothing]
      BY <2>2, <2>4, HeaderFollows
    <2>6. PICK t : t = FeedByte(s, r, x).rx
      OBVIOUS
    <2>7. t.state = "GOT_HEADER" /\ t.buf = buf /\ t.plen = n
      BY <2>3, <2>5, <2>6
    <2> QED
      BY <1>6, <2>2, <2>6, <2>7 DEF Follows
  <1>7. CASE o \in 8 .. n + 6
    <2>1. r.state = "GOT_HEADER" /\ r.plen = n
      BY <1>7 DEF Follows
    <2>6. Len(buf) = o + 1
      BY <1>3, <1>7
    <2>7. ~(o + 1 >= n + 8)
      BY <1>1, <1>7
    <2>2. ~(Len(buf) >= r.plen + 8)
      BY <2>1, <2>6, <2>7
    <2>3. Waits(r, x)
      BY <1>9, <2>1, <2>2 DEF Waits
    <2>4. PICK t : t = FeedByte(s, r, x).rx
      OBVIOUS
    <2>5. t.state = "GOT_HEADER" /\ t.buf = buf /\ t.plen = n
      BY <1>1, <1>4, <1>7, <2>1, <2>3, <2>4
    <2> QED
      BY <1>1, <1>3, <1>7, <2>4, <2>5 DEF Follows
  <1> QED
    BY <1>1, <1>2, <1>5, <1>6, <1>7

LEMMA FollowsToTheEnd ==
  ASSUME NEW s, NEW r, Fits(r), NEW f \in Packets, Follows(r, f, BodyLen(f) + 7), NEW x, x = Frame[f][BodyLen(f) + 8]
  PROVE  /\ FeedByte(s, r, x).rx = Ready
         /\ BodyLen(f) > 0 /\ f[1] = s /\ app[s] # "reading" => FeedByte(s, r, x).out = Received(Said(f))
  <1>1. PICK n \in 0 .. 127 : n = BodyLen(f)
    BY SaidIs
  <1>2. PICK m \in Nat : m > 0 /\ m = n + 7 /\ m + 1 = n + 8
    OBVIOUS
  <1>9. PICK buf : buf = Append(r.buf, x)
    OBVIOUS
  <1>3. IsSeq(buf, m + 1) /\ Len(buf) = m + 1 /\ \A i \in 1 .. m + 1 : buf[i] = Frame[f][i]
    <2>1. m > 0 /\ Follows(r, f, m) /\ x = Frame[f][m + 1]
      BY <1>1, <1>2
    <2>2. Starts(Append(r.buf, Frame[f][m + 1]), f, m + 1)
      BY <2>1, MoreFollows
    <2>3. Starts(buf, f, m + 1)
      BY <1>9, <2>1, <2>2, Zenon
    <2> QED
      BY <2>3 DEF Starts
  <1>4. Len(buf) = m + 1
    BY <1>3
  <1>5. CASE n = 0
    <2>1. r.state = "GOT_PREAMBLE"
      BY <1>1, <1>2, <1>5 DEF Follows
    <2>0. m + 1 = 8
      BY <1>2, <1>5
    <2>2. Len(buf) = 8 /\ IsSeq(buf, 8) /\ \A i \in 1 .. 8 : buf[i] = Frame[f][i]
      BY <1>3, <1>4, <2>0
    <2>5. Len(buf) >= 8
      BY <2>2
    <2>3. FeedByte(s, r, x) = Header(buf)
      BY <1>9, <2>1, <2>5, FeedsHeader
    <2>4. Header(buf) = [rx |-> Ready, out |-> Received(<<>>)]
      BY <1>1, <1>5, <2>2, HeaderFollows
    <2> QED
      BY <1>1, <1>5, <2>3, <2>4
  <1>6. CASE n # 0
    <2>1. r.state = "GOT_HEADER" /\ r.plen = n
      BY <1>1, <1>2, <1>6 DEF Follows
    <2>6. m + 1 >= n + 8
      BY <1>1, <1>2
    <2>2. Len(buf) >= r.plen + 8
      BY <1>4, <2>1, <2>6
    <2>3. FeedByte(s, r, x) = [rx |-> Ready, out |-> Body(Decrypted(s, buf))]
      BY <1>9, <2>1, <2>2, FeedsBody
    <2>4. buf = Frame[f]
      <3>1. IsSeq(Frame[f], n + 8)
        BY <1>1, FrameShape
      <3>2. m + 1 = n + 8
        BY <1>1, <1>2
      <3> QED
        BY <1>3, <3>1, <3>2 DEF IsSeq
    <2>5. ASSUME f[1] = s, app[s] # "reading" PROVE Body(Decrypted(s, buf)) = Received(Said(f))
      <3>1. n \in 1 .. 127 /\ app[f[1]] # "reading"
        BY <1>1, <1>6, <2>5
      <3>2. Body(Decrypted(f[1], Frame[f])) = Received(Said(f))
        BY <1>1, <3>1, BodySaid
      <3> QED
        BY <2>4, <2>5, <3>2, Zenon
    <2> QED
      BY <1>1, <2>3, <2>5
  <1> QED
    BY <1>5, <1>6

\* A receiver that waits for nothing, or for something else.
LEMMA Rests ==
  ASSUME NEW s, NEW x, x # Plain(PREAMBLE)
  PROVE  FeedByte(s, Ready, x).rx = Ready
  <1>1. Ready.state = "READY"
    BY DEF Ready
  <1>2. FeedByte(s, Ready, x) = [rx |-> Ready, out |-> Nothing]
    BY <1>1, FeedByteIs, Zenon
  <1> QED
    BY <1>2

LEMMA Strays ==
  ASSUME NEW s, NEW r, Fits(r), r # Ready, NEW x \in Elements
  PROVE  FeedByte(s, r, x).rx = Ready \/ Len(FeedByte(s, r, x).rx.buf) = Len(r.buf) + 1
  <1> DEFINE buf == Append(r.buf, x)
  <1>1. /\ r.state \in {"GOT_PREAMBLE", "GOT_HEADER"} /\ r.buf \in Seq(Elements)
        /\ r = [state |-> r.state, buf |-> r.buf, plen |-> r.plen]
    BY DEF Fits, Bufs
  <1>2. Len(buf) = Len(r.buf) + 1
    BY <1>1, AppendProperties
  <1>3. CASE Waits(r, x)
    <2>1. FeedByte(s, r, x) = [rx |-> [r EXCEPT !.buf = buf], out |-> Nothing]
      BY <1>3, FeedsOn
    <2> HIDE DEF buf
    <2>2. PICK k : k = [r EXCEPT !.buf = buf]
      OBVIOUS
    <2>3. k = [state |-> r.state, buf |-> buf, plen |-> r.plen]
      BY <1>1, <2>2
    <2>4. k.buf = buf
      BY <2>3
    <2>5. FeedByte(s, r, x).rx = k
      BY <2>1, <2>2
    <2> QED
      BY <1>2, <2>4, <2>5
  <1>4. CASE r.state = "GOT_PREAMBLE" /\ Len(buf) >= 8
    <2>1. FeedByte(s, r, x) = Header(buf)
      BY <1>4, FeedByteIs, Zenon
    <2> HIDE DEF buf
    <2>2. \/ Header(buf) = [rx |-> Ready, out |-> Nothing]
          \/ Header(buf) = [rx |-> Ready, out |-> Received(<<>>)]
          \/ Header(buf) = [rx |-> [state |-> "GOT_HEADER", buf |-> buf, plen |-> Plen(buf)], out |-> Nothing]
      BY Zenon DEF Header
    <2>3. Header(buf).rx = Ready \/ Header(buf).rx.buf = buf
      BY <2>2
    <2> QED
      BY <1>2, <2>1, <2>3
  <1>5. CASE r.state = "GOT_HEADER" /\ Len(buf) >= r.plen + 8
    <2>1. FeedByte(s, r, x) = [rx |-> Ready, out |-> Body(Decrypted(s, buf))]
      BY <1>5, FeedByteIs, Zenon
    <2> QED
      BY <2>1
  <1> QED
    BY <1>1, <1>3, <1>4, <1>5 DEF Waits

LEMMA ShorterThanAny ==
  ASSUME NEW r, Fits(r)
  PROVE  Len(r.buf) \in Nat /\ Len(r.buf) < MaxFrame
  <1>1. MaxFrame \in Nat /\ \A f \in Packets : BodyLen(f) + 8 <= MaxFrame /\ BodyLen(f) \in Nat
    <2>1. MaxFrame \in Nat /\ \A f \in Packets : BodyLen(f) + 8 <= MaxFrame
      BY LargestFrame
    <2>2. ASSUME NEW f \in Packets PROVE BodyLen(f) \in Nat
      <3>1. BodyLen(f) \in 0 .. 127
        BY SaidIs
      <3> QED
        BY <3>1
    <2> QED
      BY <2>1, <2>2
  <1>2. PICK g : g \in Packets
    <2>1. 1 \in Sessions /\ 1 \in 1 .. MaxFrames
      BY BoundsAssumption DEF Sessions
    <2>2. PICK k : k \in Kinds
      BY KindsAssumption
    <2>3. <<1, k, 1>> \in Packets
      BY <2>1, <2>2 DEF Packets
    <2> QED
      BY <2>3
  <1>3. MaxFrame \in Nat /\ MaxFrame >= 8
    BY <1>1, <1>2
  <1>4. CASE r = Ready
    <2>1. Ready.buf = <<>>
      BY DEF Ready
    <2>2. Len(<<>>) = 0
      BY NoneIsSeq
    <2>3. Len(r.buf) = 0
      BY <1>4, <2>1, <2>2, Zenon
    <2>4. Len(r.buf) \in Nat
      BY <2>3
    <2>5. Len(r.buf) < MaxFrame
      BY <1>1, <1>3, <2>3
    <2> QED
      BY <2>4, <2>5
  <1>5. CASE r.state = "GOT_PREAMBLE"
    <2>1. Len(r.buf) \in 1 .. 7
      BY <1>5 DEF Fits
    <2>2. Len(r.buf) \in Nat
      BY <2>1
    <2>3. \A l \in 1 .. 7 : l < MaxFrame
      BY <1>3
    <2>4. Len(r.buf) < MaxFrame
      BY <2>1, <2>3
    <2> QED
      BY <2>2, <2>4
  <1>6. CASE r.state = "GOT_HEADER"
    <2>1. PICK h \in Packets : BodyLen(h) = r.plen
      BY <1>6 DEF Fits, Headed
    <2>2. Len(r.buf) \in 8 .. r.plen + 7
      BY <1>6 DEF Fits
    <2>3. r.plen + 8 <= MaxFrame /\ r.plen \in Nat
      BY <1>1, <2>1
    <2> QED
      BY <1>1, <2>2, <2>3
  <1> QED
    BY <1>4, <1>5, <1>6 DEF Fits

LEMMA SaysAtTheEnd ==
  ASSUME NEW s, NEW r, Fits(r), NEW f \in Packets, Follows(r, f, BodyLen(f) + 7), NEW x, x = Frame[f][BodyLen(f) + 8],
         BodyLen(f) > 0, f[1] = s, app[s] # "reading"
  PROVE  FeedByte(s, r, x).out = Received(Said(f))
  BY FollowsToTheEnd

-----------------------------------------------------------------------------
(* In step with the stream, or at most one largest packet behind it.        *)

AllQuiet(q, k) == \A j \in DOMAIN q : j < k => Quiet(q[j])

\* What it holds is over by then.
Catching(r, a, c) == r = Ready \/ (a + MaxFrame) - Len(r.buf) <= c

InStep(r, p, a, c) ==
  \/ Follows(r, PacketOf(p), a - p.from)
  \/ p.from < c /\ (Quiet(p) => Catching(r, a, c))

Synced(r, q, tot, a, c) ==
  /\ \A k \in DOMAIN q : q[k].from <= a /\ a < To(q[k]) /\ AllQuiet(q, k) => InStep(r, q[k], a, c)
  /\ a = tot /\ (\A k \in DOMAIN q : Quiet(q[k])) => Catching(r, a, c)

LEMMA QuietBytes ==
  ASSUME NEW p \in Sent, Quiet(p), NEW n, n = BodyLen(PacketOf(p)), NEW o \in 2 .. n + 8
  PROVE  Frame[PacketOf(p)][o] # Plain(PREAMBLE)
  <1>1. PICK F : F = Packet(p) /\ F = Frame[PacketOf(p)]
    BY SentIs
  <1>2. n \in 0 .. 127
    <2>1. BodyLen(PacketOf(p)) \in 0 .. 127
      BY SentIs, SaidIs
    <2> QED
      BY <2>1
  <1>3. IsSeq(F, n + 8)
    BY <1>1, SentIs, FrameShape
  <1>4. F \in Seq({F[i] : i \in 1 .. n + 8}) /\ Len(F) = n + 8
    <2>1. PICK S : S = {F[i] : i \in 1 .. n + 8}
      OBVIOUS
    <2>2. PICK l : l = n + 8
      OBVIOUS
    <2>3. \A i \in 1 .. l : F[i] \in S
      BY <2>1, <2>2
    <2>4. IsSeq(F, l)
      BY <1>3, <2>2
    <2>5. F \in Seq(S) /\ Len(F) = l
      BY <2>3, <2>4, SeqOfThem
    <2> QED
      BY <2>1, <2>2, <2>5
  <1>5. PICK i \in 1 .. n + 7 : o = i + 1
    <2>1. o - 1 \in 1 .. n + 7 /\ o = (o - 1) + 1
      BY <1>2
    <2> QED
      BY <2>1
  <1>6. i \in DOMAIN Tail(F) /\ Tail(F)[i] = F[i + 1]
    <2>1. F # <<>>
      BY <1>2, <1>4, EmptySeq
    <2>2. Len(Tail(F)) = n + 7 /\ Tail(F) \in Seq({F[j] : j \in 1 .. n + 8})
      <3>1. Len(Tail(F)) = Len(F) - 1 /\ Tail(F) \in Seq({F[j] : j \in 1 .. n + 8})
        BY <1>4, <2>1, HeadTailProperties
      <3> QED
        BY <1>2, <1>4, <3>1
    <2>3. DOMAIN Tail(F) = 1 .. n + 7
      BY <2>2, LenProperties
    <2>4. \A j \in 1 .. Len(Tail(F)) : Tail(F)[j] = F[j + 1]
      BY <1>4, <2>1, HeadTailProperties
    <2> QED
      BY <1>5, <2>2, <2>3, <2>4
  <1>7. F[o] \in ToSet(Tail(F))
    BY <1>5, <1>6 DEF ToSet
  <1> QED
    BY <1>1, <1>7, Zenon DEF Quiet

LEMMA CatchesUp ==
  ASSUME NEW s, NEW r, Fits(r), NEW p \in Sent, Quiet(p), NEW f, f = PacketOf(p), NEW a \in Nat, NEW c \in Nat,
         NEW o, o \in 1 .. BodyLen(f) + 8, NEW b, b = Frame[f][o], Catching(r, a, c), ~Follows(r, f, o - 1)
  PROVE  Catching(FeedByte(s, r, b).rx, a + 1, c)
  <1>1. f \in Packets
    BY SentIs
  <1>2. PICK n \in 0 .. 127 : n = BodyLen(f)
    BY <1>1, Lengths
  <1>3. o \in 1 .. n + 8
    BY <1>2
  <1>4. CASE r = Ready
    <2>1. ASSUME o = 1 PROVE FALSE
      <3>1. Follows(Ready, f, 0)
        BY DEF Follows
      <3>2. o - 1 = 0
        BY <2>1
      <3> QED
        BY <1>4, <3>1, <3>2
    <2>2. o \in 2 .. n + 8
      BY <1>3, <2>1
    <2>3. b # Plain(PREAMBLE)
      BY <1>2, <2>2, QuietBytes
    <2>4. FeedByte(s, Ready, b).rx = Ready
      BY <2>3, Rests
    <2> QED
      BY <1>4, <2>4 DEF Catching
  <1>5. CASE r # Ready
    <2>1. b \in Elements
      BY <1>1 DEF Elements
    <2>2. PICK t : t = FeedByte(s, r, b).rx
      OBVIOUS
    <2>3. t = Ready \/ Len(t.buf) = Len(r.buf) + 1
      BY <1>5, <2>1, <2>2, Strays
    <2>4. PICK l \in Nat : l = Len(r.buf)
      BY ShorterThanAny
    <2>5. PICK m \in Nat : m = MaxFrame
      BY LargestFrame
    <2>6. (a + m) - l <= c
      BY <1>5, <2>4, <2>5 DEF Catching
    <2>9. \A x \in Nat, y \in Nat : (a + x) - y <= c => ((a + 1) + x) - (y + 1) <= c
      OBVIOUS
    <2>7. ((a + 1) + m) - (l + 1) <= c
      BY <2>6, <2>9
    <2>8. Len(t.buf) = Len(r.buf) + 1 => ((a + 1) + MaxFrame) - Len(t.buf) <= c
      BY <2>4, <2>5, <2>7
    <2> QED
      BY <2>2, <2>3, <2>8 DEF Catching
  <1> QED
    BY <1>4, <1>5

\* The byte of the packet p that ends at a + 1.
LEMMA ByteInStep ==
  ASSUME NEW s, NEW r, Fits(r), NEW p \in Sent, NEW a \in Nat, NEW c \in Nat, InStep(r, p, a, c),
         NEW b, NEW o, Within(b, p, o, a + 1)
  PROVE  /\ a + 1 < To(p) => InStep(FeedByte(s, r, b).rx, p, a + 1, c)
         /\ a + 1 = To(p) /\ Quiet(p) => Catching(FeedByte(s, r, b).rx, a + 1, c)
         /\ a + 1 = To(p) /\ c <= p.from /\ p.session = s /\ app[s] # "reading" /\ BodyLen(PacketOf(p)) > 0
              => FeedByte(s, r, b).out = Received(Said(PacketOf(p)))
  <1>1. PICK f \in Packets : f = PacketOf(p) /\ f[1] = p.session
    BY SentIs DEF PacketOf
  <1>2. PICK n \in 0 .. 127 : n = BodyLen(f)
    BY Lengths
  <1>3. PICK t : t = FeedByte(s, r, b)
    OBVIOUS
  <1>4. o \in 1 .. n + 8 /\ b = Frame[f][o] /\ a + 1 = p.from + o
    BY <1>1, <1>2 DEF Within, IsAt
  <1>5. p.from \in Nat /\ To(p) = p.from + (n + 8)
    BY <1>1, <1>2, SentIs
  <1>6. a - p.from = o - 1 /\ (a + 1) - p.from = o /\ (a + 1 < To(p) <=> o < n + 8) /\ (a + 1 = To(p) <=> o = n + 8)
    BY <1>4, <1>5
  <1>7. CASE Follows(r, f, o - 1) /\ o < n + 8
    <2>1. PICK i \in 0 .. n + 6 : i = o - 1 /\ o = i + 1
      BY <1>4, <1>7
    <2>2. Follows(t.rx, f, i + 1)
      BY <1>2, <1>3, <1>4, <1>7, <2>1, FollowsOn
    <2>3. InStep(t.rx, p, a + 1, c)
      BY <1>1, <1>6, <2>1, <2>2 DEF InStep
    <2>4. ~(a + 1 = To(p))
      BY <1>4, <1>6, <1>7
    <2> QED
      BY <1>3, <2>3, <2>4
  <1>8. CASE Follows(r, f, o - 1) /\ o = n + 8
    <2>1. PICK i \in Nat : i = o - 1 /\ i = n + 7 /\ o = i + 1
      BY <1>4, <1>8
    <2>2. /\ FeedByte(s, r, b).rx = Ready
          /\ BodyLen(f) > 0 /\ f[1] = s /\ app[s] # "reading" => FeedByte(s, r, b).out = Received(Said(f))
      <3>1. Follows(r, f, BodyLen(f) + 7)
        BY <1>2, <1>8, <2>1
      <3>2. b = Frame[f][BodyLen(f) + 8]
        BY <1>2, <1>4, <1>8
      <3>3. Fits(r) /\ f \in Packets
        BY <1>1
      <3>4. FeedByte(s, r, b).rx = Ready
        BY <3>1, <3>2, <3>3, FollowsToTheEnd
      <3>5. ASSUME BodyLen(f) > 0, f[1] = s, app[s] # "reading" PROVE FeedByte(s, r, b).out = Received(Said(f))
        BY <3>1, <3>2, <3>3, <3>5, SaysAtTheEnd
      <3> QED
        BY <3>4, <3>5
    <2>3. ~(a + 1 < To(p))
      BY <1>4, <1>6, <1>8
    <2>4. Catching(FeedByte(s, r, b).rx, a + 1, c)
      BY <2>2 DEF Catching
    <2> QED
      BY <1>1, <1>2, <2>2, <2>3, <2>4
  <1>9. CASE ~Follows(r, f, o - 1)
    <2>1. p.from < c /\ (Quiet(p) => Catching(r, a, c))
      BY <1>1, <1>6, <1>9 DEF InStep
    <2>2. ASSUME Quiet(p) PROVE Catching(FeedByte(s, r, b).rx, a + 1, c)
      BY <1>1, <1>2, <1>4, <1>9, <2>1, <2>2, CatchesUp
    <2>3. InStep(FeedByte(s, r, b).rx, p, a + 1, c)
      BY <2>1, <2>2 DEF InStep
    <2>4. ~(c <= p.from)
      BY <1>5, <2>1
    <2> QED
      BY <2>2, <2>3, <2>4
  <1> QED
    BY <1>4, <1>7, <1>8, <1>9

\* One that catches up is in step with a packet that begins.
LEMMA Begins ==
  ASSUME NEW r, Fits(r), NEW p \in Sent, NEW a \in Nat, NEW c \in Nat, Catching(r, a, c), p.from = a
  PROVE  InStep(r, p, a, c)
  <1>1. a - p.from = 0
    OBVIOUS
  <1>2. CASE r = Ready
    <2>1. Follows(r, PacketOf(p), 0)
      BY <1>2 DEF Follows
    <2> QED
      BY <1>1, <2>1 DEF InStep
  <1>3. CASE r # Ready
    <2>1. PICK l \in Nat : l = Len(r.buf) /\ l < MaxFrame
      BY ShorterThanAny
    <2>2. PICK m \in Nat : m = MaxFrame
      BY LargestFrame
    <2>3. (a + m) - l <= c /\ l < m
      BY <1>3, <2>1, <2>2 DEF Catching
    <2>4. a < c
      BY <2>3
    <2> QED
      BY <2>4 DEF InStep
  <1> QED
    BY <1>2, <1>3

LEMMA ByteSays ==
  ASSUME NEW s, NEW r, Fits(r), NEW p \in Sent, NEW a \in Nat, NEW c \in Nat, InStep(r, p, a, c),
         NEW b, NEW o, Within(b, p, o, a + 1), a + 1 = To(p), c <= p.from, p.session = s, app[s] # "reading",
         BodyLen(PacketOf(p)) > 0
  PROVE  FeedByte(s, r, b).out = Received(Said(PacketOf(p)))
  BY ByteInStep

LEMMA WithinIt ==
  ASSUME NEW p \in Sent, NEW a \in Nat, NEW b, NEW o, Within(b, p, o, a + 1)
  PROVE  p.from <= a /\ a < To(p) /\ a + 1 <= To(p) /\ IsAt(b, PacketOf(p), o)
  <1>1. PICK n \in 0 .. 127 : n = BodyLen(PacketOf(p))
    BY SentIs, Lengths
  <1>2. o \in 1 .. n + 8 /\ a + 1 = p.from + o /\ IsAt(b, PacketOf(p), o)
    BY <1>1 DEF Within, IsAt
  <1>3. p.from \in Nat /\ To(p) = p.from + (n + 8)
    BY <1>1, SentIs
  <1> QED
    BY <1>2, <1>3

\* One byte more of the stream.
LEMMA SyncOnward ==
  ASSUME NEW s \in Sessions, NEW r, Fits(r), NEW q, NEW tot, Sends(q, tot), NEW a \in Nat, NEW c \in Nat, Synced(r, q, tot, a, c),
         NEW b, NEW k \in DOMAIN q, NEW o, Within(b, q[k], o, a + 1)
  PROVE  Synced(FeedByte(s, r, b).rx, q, tot, a + 1, c)
  <1>1. q \in Seq(Sent) /\ tot \in Nat
    BY DEF Sends
  <1>2. \A j \in DOMAIN q : q[j] \in Sent /\ j \in Nat
    BY <1>1, SentAre
  <1>3. \A j \in DOMAIN q : q[j].from \in Nat /\ To(q[j]) \in Nat /\ To(q[j]) > q[j].from
    BY <1>2, SentIs
  <1>4. PICK t : t = FeedByte(s, r, b).rx
    OBVIOUS
  <1>5. q[k].from <= a /\ a < To(q[k]) /\ a + 1 <= To(q[k])
    BY <1>2, WithinIt
  <1>6. AllQuiet(q, k) => InStep(r, q[k], a, c)
    BY <1>5 DEF Synced
  <1>7. ASSUME AllQuiet(q, k), a + 1 = To(q[k]), Quiet(q[k]) PROVE Catching(t, a + 1, c)
    <2>1. q[k] \in Sent /\ InStep(r, q[k], a, c)
      BY <1>2, <1>6, <1>7
    <2> QED
      BY <1>4, <1>7, <2>1, ByteInStep
  <1>8. ASSUME NEW j \in DOMAIN q, q[j].from <= a + 1, a + 1 < To(q[j]), AllQuiet(q, j)
        PROVE  InStep(t, q[j], a + 1, c)
    <2>1. CASE j = k
      <3>1. q[k] \in Sent /\ InStep(r, q[k], a, c) /\ a + 1 < To(q[k])
        BY <1>2, <1>6, <1>8, <2>1
      <3>2. InStep(t, q[k], a + 1, c)
        BY <1>4, <3>1, ByteInStep
      <3> QED
        BY <2>1, <3>2
    <2>2. CASE j # k
      <3>1. ~(j < k)
        <4> SUFFICES ASSUME j < k PROVE FALSE
          OBVIOUS
        <4>1. To(q[j]) <= q[k].from
          BY DEF Sends
        <4> QED
          BY <1>3, <1>5, <1>8, <4>1
      <3>2. k < j
        BY <1>2, <2>2, <3>1
      <3>3. To(q[k]) <= q[j].from
        BY <3>2 DEF Sends
      <3>4. a + 1 = To(q[k]) /\ q[j].from = a + 1
        BY <1>3, <1>5, <1>8, <3>3
      <3>5. AllQuiet(q, k) /\ Quiet(q[k])
        <4>1. Quiet(q[k])
          BY <1>8, <3>2 DEF AllQuiet
        <4>2. ASSUME NEW i \in DOMAIN q, i < k PROVE Quiet(q[i])
          <5>1. i < j
            BY <1>2, <3>2, <4>2
          <5> QED
            BY <1>8, <5>1 DEF AllQuiet
        <4> QED
          BY <4>1, <4>2 DEF AllQuiet
      <3>6. Catching(t, a + 1, c)
        BY <1>7, <3>4, <3>5
      <3>7. Fits(t)
        <4>1. IsAt(b, PacketOf(q[k]), o)
          BY <1>2, WithinIt
        <4>2. Outcome(FeedByte(s, r, b), s, PacketOf(q[k]), o)
          BY <4>1, FeedByteFits
        <4> QED
          BY <1>4, <4>2 DEF Outcome
      <3>8. q[j] \in Sent /\ a + 1 \in Nat
        BY <1>2
      <3> QED
        BY <3>4, <3>6, <3>7, <3>8, Begins
    <2> QED
      BY <2>1, <2>2
  <1>9. ASSUME a + 1 = tot, \A j \in DOMAIN q : Quiet(q[j]) PROVE Catching(t, a + 1, c)
    <2>1. To(q[k]) <= tot
      BY DEF Sends
    <2>2. a + 1 = To(q[k])
      BY <1>1, <1>3, <1>5, <1>9, <2>1
    <2>3. AllQuiet(q, k) /\ Quiet(q[k])
      BY <1>9 DEF AllQuiet
    <2> QED
      BY <1>7, <2>2, <2>3
  <1> QED
    BY <1>4, <1>8, <1>9 DEF Synced

\* What the packets mean that began behind the losses and end there.
AllRead(q, t, s, c, a, b) ==
  \A k \in DOMAIN q :
    q[k].session = s /\ c <= q[k].from /\ a < To(q[k]) /\ To(q[k]) <= b /\ AllQuiet(q, k)
      => ToSet(Means(q[k])) \subseteq ToSet(t)

LEMMA InBoth ==
  ASSUME NEW S, NEW x \in Seq(S), NEW y \in Seq(S)
  PROVE  ToSet(x) \subseteq ToSet(x \o y) /\ ToSet(y) \subseteq ToSet(x \o y)
  <1>1. PICK m \in Nat, n \in Nat : m = Len(x) /\ n = Len(y) /\ DOMAIN x = 1 .. m /\ DOMAIN y = 1 .. n
    BY LenProperties
  <1>2. PICK z : z = x \o y
    OBVIOUS
  <1>3. DOMAIN z = 1 .. m + n /\ (\A i \in 1 .. m : z[i] = x[i]) /\ (\A i \in 1 .. n : z[m + i] = y[i])
    <2>1. Joined(z, x, m, y, n)
      BY <1>1, <1>2, Joins
    <2>2. z \in Seq(S) /\ Len(z) = m + n
      BY <1>1, <1>2, ConcatProperties
    <2> QED
      BY <2>1, <2>2, LenProperties DEF Joined
  <1>4. ASSUME NEW e \in ToSet(x) PROVE e \in ToSet(z)
    <2>1. PICK i \in 1 .. m : e = x[i]
      BY <1>1, <1>4 DEF ToSet
    <2>2. i \in DOMAIN z /\ z[i] = e
      BY <1>3, <2>1
    <2> QED
      BY <2>2 DEF ToSet
  <1>5. ASSUME NEW e \in ToSet(y) PROVE e \in ToSet(z)
    <2>1. PICK i \in 1 .. n : e = y[i]
      BY <1>1, <1>5 DEF ToSet
    <2>2. m + i \in DOMAIN z /\ z[m + i] = e
      BY <1>1, <1>3, <2>1
    <2> QED
      BY <2>2 DEF ToSet
  <1> QED
    BY <1>2, <1>4, <1>5

LEMMA EventsAre ==
  ASSUME NEW out \in Outs
  PROVE  EventsIn(out) \in Seq(Meanings)
  <1>1. PICK d : d = Decoded(out)
    OBVIOUS
  <1>2. d \in Seq(Seq(Meanings))
    BY <1>1, DecodedIs
  <1>3. PICK g : Flat(Meanings, d, g) /\ FlattenSeq(d) = g[Len(d)]
    BY <1>2, FlattenIs
  <1>4. Len(d) \in 0 .. Len(d)
    BY <1>2, LenProperties
  <1>5. g[Len(d)] \in Seq(Meanings)
    BY <1>3, <1>4 DEF Flat
  <1> QED
    BY <1>1, <1>3, <1>5 DEF EventsIn

LEMMA NothingMeant == ToSet(<<>>) = {}
  BY DEF ToSet

LEMMA ByteReads ==
  ASSUME NEW s \in Sessions, NEW q, NEW tot, Sends(q, tot), NEW a \in Nat, NEW c \in Nat, NEW i \in Nat, app[s] # "reading",
         NEW acc \in Accs, Synced(acc.rx, q, tot, a + i, c), AllRead(q, EventsIn(acc.out), s, c, a, a + i),
         NEW b, NEW k \in DOMAIN q, NEW o, Within(b, q[k], o, a + (i + 1))
  PROVE  /\ Synced(Fed1(s, acc, b).rx, q, tot, a + (i + 1), c)
         /\ AllRead(q, EventsIn(Fed1(s, acc, b).out), s, c, a, a + (i + 1))
  <1>1. q \in Seq(Sent) /\ tot \in Nat
    BY DEF Sends
  <1>2. \A j \in DOMAIN q : q[j] \in Sent /\ j \in Nat
    BY <1>1, SentAre
  <1>3. \A j \in DOMAIN q : q[j].from \in Nat /\ To(q[j]) \in Nat /\ To(q[j]) > q[j].from
    BY <1>2, SentIs
  <1>4. PICK d \in Nat : d = a + i /\ d + 1 = a + (i + 1)
    OBVIOUS
  <1>5. Within(b, q[k], o, d + 1)
    BY <1>4
  <1>6. IsAt(b, PacketOf(q[k]), o) /\ q[k].from <= d /\ d < To(q[k])
    BY <1>2, <1>4, <1>5, WithinIt
  <1>7. PICK r : r = acc.rx /\ Fits(r) /\ Synced(r, q, tot, d, c)
    BY <1>4, RxsAre DEF Accs
  <1>8. acc.out \in Outs
    BY DEF Accs
  <1>9. PICK new : new = Fed1(s, acc, b)
    OBVIOUS
  <1>10. new.rx = FeedByte(s, r, b).rx
    BY <1>6, <1>7, <1>9, OneMore
  <1>11. Synced(new.rx, q, tot, d + 1, c)
    <2>1. Synced(FeedByte(s, r, b).rx, q, tot, d + 1, c)
      BY <1>4, <1>5, <1>7, SyncOnward
    <2> QED
      BY <1>10, <2>1
  <1>12. ToSet(EventsIn(acc.out)) \subseteq ToSet(EventsIn(new.out))
    <2>1. new.out = acc.out \/ \E p \in Payloads : new.out = Append(acc.out, p)
      BY <1>6, <1>9, OneMore
    <2>2. ASSUME NEW p \in Payloads, new.out = Append(acc.out, p)
          PROVE  ToSet(EventsIn(acc.out)) \subseteq ToSet(EventsIn(new.out))
      <3>1. EventsIn(new.out) = EventsIn(acc.out) \o DecodeAndDispatch(p)
        BY <1>8, <2>2, MoreIn
      <3>2. EventsIn(acc.out) \in Seq(Meanings) /\ DecodeAndDispatch(p) \in Seq(Meanings)
        BY <1>8, Decodes, EventsAre
      <3> QED
        BY <3>1, <3>2, InBoth
    <2> QED
      BY <2>1, <2>2
  <1>13. ASSUME To(q[k]) = d + 1, q[k].session = s, c <= q[k].from, AllQuiet(q, k)
         PROVE  ToSet(Means(q[k])) \subseteq ToSet(EventsIn(new.out))
    <2>1. q[k] \in Sent
      BY <1>2
    <2>2. CASE Means(q[k]) = <<>>
      BY <2>2, NothingMeant
    <2>3. CASE Means(q[k]) # <<>>
      <3>1. PICK f : f = PacketOf(q[k])
        OBVIOUS
      <3>2. PICK e : Means(q[k]) = <<e>> /\ BodyLen(f) > 0 /\ DecodeAndDispatch(Said(f)) = <<e>> /\ e \in Meanings
        BY <2>1, <2>3, <3>1, MeansWhatItSays
      <3>3. InStep(r, q[k], d, c)
        <4>1. q[k].from <= d /\ d < To(q[k])
          BY <1>6
        <4> QED
          BY <1>7, <1>13, <4>1 DEF Synced
      <3>4. FeedByte(s, r, b).out = Received(Said(f))
        BY <1>4, <1>5, <1>7, <1>13, <2>1, <3>1, <3>2, <3>3, ByteSays
      <3>5. new.out = Append(acc.out, Said(f))
        BY <1>7, <1>9, <3>4 DEF Fed1, Received
      <3>6. Said(f) \in Payloads
        <4>1. f \in Packets
          BY <2>1, <3>1, SentIs
        <4> QED
          BY <4>1 DEF Payloads
      <3>7. EventsIn(new.out) = EventsIn(acc.out) \o <<e>>
        BY <1>8, <3>2, <3>5, <3>6, MoreIn
      <3>8. EventsIn(acc.out) \in Seq(Meanings) /\ <<e>> \in Seq(Meanings)
        BY <1>8, <3>2, EventsAre
      <3>9. ToSet(<<e>>) \subseteq ToSet(EventsIn(acc.out) \o <<e>>)
        BY <3>8, InBoth
      <3> QED
        BY <3>2, <3>7, <3>9
    <2> QED
      BY <2>2, <2>3
  <1>14. ASSUME NEW j \in DOMAIN q, q[j].session = s, c <= q[j].from, a < To(q[j]), To(q[j]) <= d + 1, AllQuiet(q, j)
         PROVE  ToSet(Means(q[j])) \subseteq ToSet(EventsIn(new.out))
    <2>1. CASE To(q[j]) <= d
      <3>1. AllRead(q, EventsIn(acc.out), s, c, a, d)
        BY <1>4
      <3>2. ToSet(Means(q[j])) \subseteq ToSet(EventsIn(acc.out))
        BY <1>14, <2>1, <3>1 DEF AllRead
      <3> QED
        BY <1>12, <3>2
    <2>2. CASE ~(To(q[j]) <= d)
      <3>1. To(q[j]) = d + 1
        BY <1>3, <1>4, <1>14, <2>2
      <3>2. ~(j < k)
        <4> SUFFICES ASSUME j < k PROVE FALSE
          OBVIOUS
        <4>1. To(q[j]) <= q[k].from
          BY DEF Sends
        <4> QED
          BY <1>3, <1>4, <1>6, <3>1, <4>1
      <3>3. ~(k < j)
        <4> SUFFICES ASSUME k < j PROVE FALSE
          OBVIOUS
        <4>1. To(q[k]) <= q[j].from
          BY DEF Sends
        <4> QED
          BY <1>3, <1>4, <1>6, <3>1, <4>1
      <3>4. j = k
        BY <1>2, <3>2, <3>3
      <3> QED
        BY <1>13, <1>14, <3>1, <3>4
    <2> QED
      BY <2>1, <2>2
  <1>15. AllRead(q, EventsIn(new.out), s, c, a, d + 1)
    BY <1>14 DEF AllRead
  <1> QED
    BY <1>4, <1>9, <1>11, <1>15

\* What an indication tells a receiver with its keys.
LEMMA FeedReads ==
  ASSUME NEW s \in Sessions, Fits(rx[s]), NEW q, NEW tot, Sends(q, tot), NEW a \in Nat, NEW c \in Nat, app[s] # "reading",
         NEW bytes \in Seq(Elements), Arriving(bytes, q, a), Synced(rx[s], q, tot, a, c)
  PROVE  /\ Synced(Feed(s, bytes).rx, q, tot, a + Len(bytes), c)
         /\ AllRead(q, EventsIn(Feed(s, bytes).out), s, c, a, a + Len(bytes))
  <1>1. PICK n \in Nat : n = Len(bytes)
    BY LenProperties
  <1>2. \A i \in 1 .. n : bytes[i] \in Elements
    BY <1>1, ElementOfSeq
  <1>3. \A i \in 1 .. n : \E f, o : IsAt(bytes[i], f, o)
    BY <1>2, ElementsCome
  <1>4. PICK fed : Feeds(fed, s, [rx |-> rx[s], out |-> <<>>], bytes, n) /\ Feed(s, bytes) = fed[n]
    BY <1>1, <1>3, FeedIs
  <1>5. fed[0].out = <<>> /\ fed[0].rx = rx[s] /\ (\A i \in 0 .. n : fed[i] \in Accs)
    BY <1>4 DEF Feeds
  <1>6. \A i \in 0 .. n - 1 : fed[i + 1] = Fed1(s, fed[i], bytes[i + 1])
    BY <1>4 DEF Feeds
  <1> DEFINE P == {i \in 0 .. n : Synced(fed[i].rx, q, tot, a + i, c) /\ AllRead(q, EventsIn(fed[i].out), s, c, a, a + i)}
  <1>7. 0 \in P
    <2>1. Synced(fed[0].rx, q, tot, a + 0, c)
      <3>1. a + 0 = a
        OBVIOUS
      <3> QED
        BY <1>5, <3>1
    <2>2. AllRead(q, EventsIn(fed[0].out), s, c, a, a + 0)
      <3> SUFFICES ASSUME NEW k \in DOMAIN q, a < To(q[k]), To(q[k]) <= a + 0 PROVE FALSE
        BY DEF AllRead
      <3>1. q \in Seq(Sent)
        BY DEF Sends
      <3>2. To(q[k]) \in Nat
        BY <3>1, SentAre, SentIs
      <3> QED
        BY <3>2
    <2> QED
      BY <2>1, <2>2
  <1>8. ASSUME NEW i \in 0 .. n - 1, i \in P PROVE i + 1 \in P
    <2>1. i + 1 \in 1 .. n /\ i + 1 \in 0 .. n /\ i \in 0 .. n /\ i \in Nat
      OBVIOUS
    <2>2. PICK k \in DOMAIN q : \E o : Within(bytes[i + 1], q[k], o, a + (i + 1))
      BY <1>1, <2>1 DEF Arriving
    <2>3. fed[i] \in Accs /\ Synced(fed[i].rx, q, tot, a + i, c) /\ AllRead(q, EventsIn(fed[i].out), s, c, a, a + i)
      BY <1>5, <1>8, <2>1
    <2>4. PICK g : g = Fed1(s, fed[i], bytes[i + 1]) /\ g = fed[i + 1]
      BY <1>6
    <2>5. /\ Synced(g.rx, q, tot, a + (i + 1), c)
          /\ AllRead(q, EventsIn(g.out), s, c, a, a + (i + 1))
      BY <2>1, <2>2, <2>3, <2>4, ByteReads
    <2> QED
      BY <2>1, <2>4, <2>5
  <1>9. \A i \in 0 .. n : i \in P
    <2> HIDE DEF P
    <2> QED
      BY <1>7, <1>8, Upward
  <1>10. n \in P
    BY <1>9
  <1> QED
    BY <1>1, <1>4, <1>10

\* What was read of all that has arrived.
ReadUpTo(q, t, s, c, b) ==
  \A k \in DOMAIN q :
    q[k].session = s /\ c <= q[k].from /\ To(q[k]) <= b /\ AllQuiet(q, k) => ToSet(Means(q[k])) \subseteq ToSet(t)

LEMMA SyncedAfterLoss ==
  ASSUME NEW r, Fits(r), NEW q, NEW tot, Sends(q, tot), NEW a \in Nat, NEW c \in Nat, a + MaxFrame <= c
  PROVE  Synced(r, q, tot, a, c)
  <1>1. PICK l \in Nat : l = Len(r.buf) /\ l < MaxFrame
    BY ShorterThanAny
  <1>2. PICK m \in Nat : m = MaxFrame
    BY LargestFrame
  <1>3. a + m <= c /\ l < m
    BY <1>1, <1>2
  <1>4. (a + m) - l <= c /\ a < c
    BY <1>3
  <1>5. Catching(r, a, c)
    <2>1. (a + MaxFrame) - Len(r.buf) <= c
      BY <1>1, <1>2, <1>4
    <2> QED
      BY <2>1 DEF Catching
  <1>6. ASSUME NEW k \in DOMAIN q, q[k].from <= a PROVE InStep(r, q[k], a, c)
    <2>1. q[k].from \in Nat
      BY SentAre, SentIs DEF Sends
    <2>2. q[k].from < c
      BY <1>4, <1>6, <2>1
    <2> QED
      BY <1>5, <2>2 DEF InStep
  <1> QED
    BY <1>5, <1>6 DEF Synced

LEMMA SyncedAtRest ==
  ASSUME NEW q, NEW tot, Sends(q, tot), NEW c
  PROVE  Synced(Ready, q, tot, tot, c)
  <1>1. ASSUME NEW k \in DOMAIN q, tot < To(q[k]) PROVE FALSE
    <2>1. To(q[k]) \in Nat /\ tot \in Nat
      BY SentAre, SentIs DEF Sends
    <2>2. To(q[k]) <= tot
      BY DEF Sends
    <2> QED
      BY <1>1, <2>1, <2>2
  <1>2. Catching(Ready, tot, c)
    BY DEF Catching
  <1> QED
    BY <1>1, <1>2 DEF Synced

LEMMA SyncedMore ==
  ASSUME NEW r, Fits(r), NEW q, NEW tot, Sends(q, tot), NEW a \in Nat, a <= tot, NEW c \in Nat, Synced(r, q, tot, a, c),
         NEW t, NEW p \in Sent, NEW n, OneSent(t, q, p, n), p.from = tot
  PROVE  Synced(r, t, To(p), a, c)
  <1>1. DOMAIN t = 1 .. n + 1 /\ DOMAIN q = 1 .. n /\ n \in Nat /\ t[n + 1] = p /\ \A i \in 1 .. n : t[i] = q[i]
    BY DEF OneSent
  <1>2. tot \in Nat /\ To(p) \in Nat /\ To(p) > tot
    BY SentIs DEF Sends
  <1>3. ASSUME NEW k \in DOMAIN t, t[k].from <= a, a < To(t[k]), AllQuiet(t, k) PROVE InStep(r, t[k], a, c)
    <2>1. CASE k \in 1 .. n
      <3>1. t[k] = q[k] /\ k \in DOMAIN q
        BY <1>1, <2>1
      <3>2. AllQuiet(q, k)
        <4>1. ASSUME NEW j \in DOMAIN q, j < k PROVE Quiet(q[j])
          <5>1. j \in DOMAIN t /\ t[j] = q[j]
            BY <1>1, <4>1
          <5>2. Quiet(t[j])
            BY <1>3, <4>1, <5>1 DEF AllQuiet
          <5> QED
            BY <5>1, <5>2
        <4> QED
          BY <4>1 DEF AllQuiet
      <3>3. InStep(r, q[k], a, c)
        BY <1>3, <3>1, <3>2 DEF Synced
      <3> QED
        BY <3>1, <3>3
    <2>2. CASE k = n + 1
      <3>1. t[k] = p
        BY <1>1, <2>2
      <3>2. a = tot
        BY <1>2, <1>3, <3>1
      <3>3. ASSUME NEW j \in DOMAIN q PROVE Quiet(q[j])
        <4>1. j \in DOMAIN t /\ t[j] = q[j] /\ j < k
          BY <1>1, <2>2
        <4>2. Quiet(t[j])
          BY <1>3, <4>1 DEF AllQuiet
        <4> QED
          BY <4>1, <4>2
      <3>4. Catching(r, a, c)
        BY <3>2, <3>3 DEF Synced
      <3>5. InStep(r, p, a, c)
        BY <3>2, <3>4, Begins
      <3> QED
        BY <3>1, <3>5
    <2> QED
      BY <1>1, <2>1, <2>2
  <1>4. ~(a = To(p))
    BY <1>2
  <1> QED
    BY <1>3, <1>4 DEF Synced

LEMMA ReadMore ==
  ASSUME NEW q, NEW tot, Sends(q, tot), NEW a \in Nat, a <= tot, NEW c, NEW s, NEW e, ReadUpTo(q, e, s, c, a),
         NEW t, NEW p \in Sent, NEW n, OneSent(t, q, p, n), p.from = tot
  PROVE  ReadUpTo(t, e, s, c, a)
  <1>1. DOMAIN t = 1 .. n + 1 /\ DOMAIN q = 1 .. n /\ n \in Nat /\ t[n + 1] = p /\ \A i \in 1 .. n : t[i] = q[i]
    BY DEF OneSent
  <1>2. tot \in Nat /\ To(p) \in Nat /\ To(p) > tot
    BY SentIs DEF Sends
  <1>3. ASSUME NEW k \in DOMAIN t, t[k].session = s, c <= t[k].from, To(t[k]) <= a, AllQuiet(t, k)
        PROVE  ToSet(Means(t[k])) \subseteq ToSet(e)
    <2>1. k # n + 1
      BY <1>1, <1>2, <1>3
    <2>2. t[k] = q[k] /\ k \in DOMAIN q
      BY <1>1, <2>1
    <2>3. AllQuiet(q, k)
      <3>1. ASSUME NEW j \in DOMAIN q, j < k PROVE Quiet(q[j])
        <4>1. j \in DOMAIN t /\ t[j] = q[j]
          BY <1>1, <3>1
        <4>2. Quiet(t[j])
          BY <1>3, <3>1, <4>1 DEF AllQuiet
        <4> QED
          BY <4>1, <4>2
      <3> QED
        BY <3>1 DEF AllQuiet
    <2>4. ToSet(Means(q[k])) \subseteq ToSet(e)
      BY <1>3, <2>2, <2>3 DEF ReadUpTo
    <2> QED
      BY <2>2, <2>4
  <1> QED
    BY <1>3 DEF ReadUpTo

LEMMA NoneReadYet ==
  ASSUME NEW q, NEW tot, Sends(q, tot), NEW b \in Nat, NEW c \in Nat, b <= c, NEW s, NEW e
  PROVE  ReadUpTo(q, e, s, c, b)
  <1> SUFFICES ASSUME NEW k \in DOMAIN q, c <= q[k].from, To(q[k]) <= b PROVE FALSE
    BY DEF ReadUpTo
  <1>1. q[k].from \in Nat /\ To(q[k]) \in Nat /\ To(q[k]) > q[k].from
    BY SentAre, SentIs DEF Sends
  <1> QED
    BY <1>1

LEMMA ReadBoth ==
  ASSUME NEW q, NEW tot, Sends(q, tot), NEW a \in Nat, NEW b \in Nat, NEW c, NEW s, NEW e, NEW f, NEW g,
         ReadUpTo(q, e, s, c, a), AllRead(q, f, s, c, a, b), ToSet(e) \subseteq ToSet(g), ToSet(f) \subseteq ToSet(g)
  PROVE  ReadUpTo(q, g, s, c, b)
  <1> SUFFICES ASSUME NEW k \in DOMAIN q, q[k].session = s, c <= q[k].from, To(q[k]) <= b, AllQuiet(q, k)
               PROVE  ToSet(Means(q[k])) \subseteq ToSet(g)
    BY DEF ReadUpTo
  <1>1. To(q[k]) \in Nat
    BY SentAre, SentIs DEF Sends
  <1>2. CASE To(q[k]) <= a
    <2>1. ToSet(Means(q[k])) \subseteq ToSet(e)
      BY <1>2 DEF ReadUpTo
    <2> QED
      BY <2>1
  <1>3. CASE ~(To(q[k]) <= a)
    <2>1. a < To(q[k])
      BY <1>1, <1>3
    <2>2. ToSet(Means(q[k])) \subseteq ToSet(f)
      BY <2>1 DEF AllRead
    <2> QED
      BY <2>2
  <1> QED
    BY <1>2, <1>3

\* What is in one of them is in all of them together.
LEMMA FlattenHas ==
  ASSUME NEW S, NEW seqs \in Seq(Seq(S)), NEW n \in Nat, n = Len(seqs), NEW i \in 1 .. n
  PROVE  ToSet(seqs[i]) \subseteq ToSet(FlattenSeq(seqs))
  <1>1. PICK g : Flat(S, seqs, g) /\ FlattenSeq(seqs) = g[n]
    BY FlattenIs
  <1>2. \A k \in Nat : g[k] \in Seq(S)
    BY <1>1 DEF Flat
  <1>3. \A k \in 1 .. n : g[k] = g[k - 1] \o seqs[k] /\ seqs[k] \in Seq(S)
    BY <1>1, ElementOfSeq DEF Flat
  <1> DEFINE P == {k \in 0 .. n : i <= k => ToSet(seqs[i]) \subseteq ToSet(g[k])}
  <1>4. 0 \in P
    OBVIOUS
  <1>5. ASSUME NEW k \in 0 .. n - 1, k \in P PROVE k + 1 \in P
    <2>1. k + 1 \in 1 .. n /\ (k + 1) - 1 = k /\ k \in Nat /\ k + 1 \in 0 .. n
      OBVIOUS
    <2>2. g[k + 1] = g[k] \o seqs[k + 1] /\ seqs[k + 1] \in Seq(S) /\ g[k] \in Seq(S)
      BY <1>2, <1>3, <2>1
    <2>3. ToSet(g[k]) \subseteq ToSet(g[k + 1]) /\ ToSet(seqs[k + 1]) \subseteq ToSet(g[k + 1])
      BY <2>2, InBoth
    <2>4. CASE i <= k
      BY <1>5, <2>1, <2>3, <2>4
    <2>5. CASE i = k + 1
      BY <2>1, <2>3, <2>5
    <2>6. CASE ~(i <= k + 1)
      BY <2>1, <2>6
    <2>7. i <= k \/ i = k + 1 \/ ~(i <= k + 1)
      BY <2>1
    <2> QED
      BY <2>4, <2>5, <2>6, <2>7
  <1>6. \A k \in 0 .. n : k \in P
    <2> HIDE DEF P
    <2> QED
      BY <1>4, <1>5, Upward
  <1>7. n \in P /\ i <= n
    BY <1>6
  <1> QED
    BY <1>1, <1>7

-----------------------------------------------------------------------------
(* Who is told what.                                                        *)

\* Sessions are started in their order, and the portal has the keys of one that
\* has sent its own.
InOrder ==
  /\ \A s, t \in Sessions : s < t /\ app[t] # "none" => app[s] # "none"
  /\ keyed > 0 => app[keyed] \notin {"none", "reading"}

LEMMA SessionsAre ==
  ASSUME Types
  PROVE  MaxSessions \in Nat /\ Sessions = 1 .. MaxSessions /\ keyed \in 0 .. MaxSessions
  <1>1. MaxSessions \in Nat
    BY BoundsAssumption
  <1>2. Sessions = 1 .. MaxSessions
    BY DEF Sessions
  <1>3. keyed \in 0 .. MaxSessions
    BY DEF Types
  <1> QED
    BY <1>1, <1>2, <1>3

LEMMA InOrderInitially == Init => InOrder
  <1> SUFFICES ASSUME Init PROVE InOrder
    OBVIOUS
  <1>1. \A s \in Sessions : app[s] = "none"
    BY DEF Init
  <1>2. keyed = 0
    BY DEF Init
  <1> QED
    BY <1>1, <1>2 DEF InOrder

\* One session goes on.
LEMMA InOrderOne ==
  ASSUME Types, InOrder, NEW s \in Sessions, NEW x, app' = [app EXCEPT ![s] = x], keyed' = keyed, x # "none",
         x # "reading" \/ app[s] = "none", \A t \in 1 .. s - 1 : app[t] # "none"
  PROVE  InOrder'
  <1>0. MaxSessions \in Nat /\ Sessions = 1 .. MaxSessions /\ keyed \in 0 .. MaxSessions
    BY SessionsAre
  <1>1. app' \in [Sessions -> {"none", "reading", "writing", "up", "over", x}] /\ app'[s] = x
        /\ \A t \in Sessions : t # s => app'[t] = app[t]
    BY DEF Types
  <1>2. ASSUME NEW u \in Sessions, NEW t \in Sessions, u < t, app'[t] # "none" PROVE app'[u] # "none"
    <2>1. CASE u = s
      BY <1>1, <2>1
    <2>2. CASE u # s /\ t # s
      BY <1>1, <1>2, <2>2 DEF InOrder
    <2>3. CASE u # s /\ t = s
      <3>1. u \in 1 .. s - 1
        BY <1>0, <1>2, <2>3
      <3> QED
        BY <1>1, <2>3, <3>1
    <2> QED
      BY <2>1, <2>2, <2>3
  <1>3. ASSUME keyed > 0 PROVE app'[keyed] \notin {"none", "reading"}
    <2>1. keyed \in Sessions /\ app[keyed] \notin {"none", "reading"}
      BY <1>0, <1>3 DEF InOrder
    <2>2. CASE keyed = s
      BY <1>1, <2>1, <2>2
    <2>3. CASE keyed # s
      BY <1>1, <2>1, <2>3
    <2> QED
      BY <2>2, <2>3
  <1> QED
    BY <1>2, <1>3 DEF InOrder

LEMMA InOrderOver ==
  ASSUME Types, InOrder, NEW S, Over(S), keyed' = keyed, \A t \in S : app[t] # "none"
  PROVE  InOrder'
  <1>0. MaxSessions \in Nat /\ Sessions = 1 .. MaxSessions /\ keyed \in 0 .. MaxSessions
    BY SessionsAre
  <1>1. \A t \in Sessions : app'[t] = "over" \/ app'[t] = app[t]
    BY DEF Over
  <1>2. ASSUME NEW u \in Sessions, NEW t \in Sessions, u < t, app'[t] # "none" PROVE app'[u] # "none"
    <2>1. CASE app'[u] = "over"
      BY <2>1
    <2>2. CASE app'[u] # "over"
      <3>1. app[t] # "none"
        <4>1. CASE t \in S
          BY <4>1
        <4>2. CASE t \notin S
          <5>1. app'[t] = app[t]
            BY <4>2 DEF Over
          <5> QED
            BY <1>2, <5>1
        <4> QED
          BY <4>1, <4>2
      <3> QED
        BY <1>1, <1>2, <2>2, <3>1 DEF InOrder
    <2> QED
      BY <2>1, <2>2
  <1>3. ASSUME keyed > 0 PROVE app'[keyed] \notin {"none", "reading"}
    <2>1. keyed \in Sessions /\ app[keyed] \notin {"none", "reading"}
      BY <1>0, <1>3 DEF InOrder
    <2> QED
      BY <1>1, <2>1
  <1> QED
    BY <1>2, <1>3 DEF InOrder

LEMMA InOrderPreserved == Types /\ InOrder /\ [Next]_vars => InOrder'
  <1> SUFFICES ASSUME Types, InOrder, [Next]_vars PROVE InOrder'
    OBVIOUS
  <1>0. MaxSessions \in Nat /\ Sessions = 1 .. MaxSessions /\ keyed \in 0 .. MaxSessions
    BY SessionsAre
  <1>1. ASSUME UNCHANGED <<app, keyed>> PROVE InOrder'
    BY <1>1 DEF InOrder
  <1>2. CASE Stop
    <2>1. PICK S : S = {s \in Sessions : app[s] = "up"}
      OBVIOUS
    <2>2. Over(S) /\ keyed' = keyed /\ \A t \in S : app[t] # "none"
      BY <1>2, <2>1 DEF Stop
    <2> QED
      BY <2>2, InOrderOver
  <1>3. ASSUME NEW s \in Sessions, RunMpidSession(s) PROVE InOrder'
    <2>1. app' = [app EXCEPT ![s] = "reading"] /\ keyed' = keyed /\ app[s] = "none" /\ \A t \in 1 .. s - 1 : app[t] # "none"
      BY <1>3 DEF RunMpidSession, portal
    <2> QED
      BY <2>1, InOrderOne
  <1>9. ASSUME NEW s \in Sessions, app[s] # "none", NEW x \in {"writing", "up"}, app' = [app EXCEPT ![s] = x], keyed' = keyed
        PROVE  InOrder'
    <2>1. ASSUME NEW t \in 1 .. s - 1 PROVE app[t] # "none"
      <3>1. t \in Sessions /\ t < s
        BY <1>0
      <3> QED
        BY <1>9, <3>1 DEF InOrder
    <2>2. x # "none" /\ x # "reading"
      BY <1>9
    <2> QED
      BY <1>9, <2>1, <2>2, InOrderOne
  <1>4. ASSUME NEW s \in Sessions, StartSession(s) PROVE InOrder'
    <2>1. app' = [app EXCEPT ![s] = "writing"] /\ keyed' = keyed /\ app[s] # "none"
      BY <1>4 DEF StartSession, portal
    <2> QED
      BY <1>9, <2>1
  <1>5. ASSUME NEW s \in Sessions, PortalAccepts(s) PROVE InOrder'
    <2>1. app[s] = "writing" /\ keyed' = s /\ app' = app
      BY <1>5 DEF PortalAccepts
    <2> QED
      BY <2>1 DEF InOrder
  <1>6. ASSUME NEW s \in Sessions, Established(s) PROVE InOrder'
    <2>1. keyed' = keyed /\ app[s] = "writing"
      BY <1>6 DEF Established, portal
    <2>2. CASE active
      <3>1. app' = [app EXCEPT ![s] = "up"]
        BY <1>6, <2>2 DEF Established
      <3>2. app[s] # "none"
        BY <2>1
      <3> QED
        BY <1>9, <2>1, <3>1, <3>2
    <2>3. CASE ~active
      <3>1. Over({s}) /\ \A t \in {s} : app[t] # "none"
        BY <1>6, <2>1, <2>3 DEF Established
      <3> QED
        BY <2>1, <3>1, InOrderOver
    <2> QED
      BY <2>2, <2>3
  <1>7. ASSUME NEW s \in Sessions, HandshakeFails(s) PROVE InOrder'
    <2>1. PICK S : S = {s} \cup {t \in Sessions : active /\ app[t] = "up"}
      OBVIOUS
    <2>2. Over(S) /\ keyed' = keyed /\ app[s] \in {"reading", "writing"}
      BY <1>7, <2>1 DEF HandshakeFails
    <2>3. \A t \in S : app[t] # "none"
      BY <2>1, <2>2
    <2> QED
      BY <2>2, <2>3, InOrderOver
  <1>8. ASSUME \/ \E kind \in Kinds : PortalSends(kind)
               \/ \E n \in Cuts : OnTxRx(n) \/ Lost(n)
               \/ UNCHANGED vars
        PROVE  UNCHANGED <<app, keyed>>
    BY <1>8 DEF PortalSends, OnTxRx, Lost, vars, portal
  <1> QED
    BY <1>1, <1>2, <1>3, <1>4, <1>5, <1>6, <1>7, <1>8 DEF Next

-----------------------------------------------------------------------------
(* The session that has the portal's keys is told.                          *)

\* The session that Due() speaks of.
Hearing == keyed > 0 /\ active /\ Latest(keyed) /\ Monitored(keyed)

Following ==
  Hearing => /\ Synced(rx[keyed], sent, total, Arrived, clean)
             /\ ReadUpTo(sent, got, keyed, clean, Arrived)

LEMMA FollowingInitially == Init => Following
  BY DEF Init, Following, Hearing

\* What has arrived, and who hears it.
LEMMA Arrivals ==
  ASSUME Types, Streams
  PROVE  /\ Sends(sent, total) /\ total \in Nat /\ clean \in Nat /\ Arrived \in Nat /\ Arrived <= total
         /\ Arriving(wire, sent, Arrived)
         /\ \A s \in Sessions : Fits(rx[s])
         /\ Hearing => keyed \in Sessions
  <1>1. Sends(sent, total) /\ Len(wire) <= total /\ Arriving(wire, sent, total - Len(wire))
    BY DEF Streams
  <1>2. total \in Nat /\ clean \in Nat /\ wire \in Seq(Elements)
    BY DEF Types
  <1>3. PICK l \in Nat : l = Len(wire)
    BY <1>2, LenProperties
  <1>4. total - l \in Nat /\ total - l <= total
    BY <1>1, <1>2, <1>3
  <1>5. Arrived = total - l
    BY <1>3 DEF Arrived
  <1>6. \A s \in Sessions : Fits(rx[s])
    BY RxsAre DEF Types
  <1>7. Hearing => keyed \in Sessions
    <2> SUFFICES ASSUME Hearing PROVE keyed \in Sessions
      OBVIOUS
    <2>1. keyed > 0
      BY DEF Hearing
    <2> QED
      BY <2>1, SessionsAre
  <1> QED
    BY <1>1, <1>2, <1>3, <1>4, <1>5, <1>6, <1>7

LEMMA FollowingStays ==
  ASSUME Following, UNCHANGED <<keyed, wire, sent, total, clean, got>>, Hearing' => Hearing /\ rx'[keyed] = rx[keyed]
  PROVE  Following'
  <1> SUFFICES ASSUME Hearing' PROVE /\ Synced(rx'[keyed'], sent', total', Arrived', clean')
                                     /\ ReadUpTo(sent', got', keyed', clean', Arrived')
    BY DEF Following
  <1>1. Arrived' = Arrived
    BY DEF Arrived
  <1>2. Synced(rx[keyed], sent, total, Arrived, clean) /\ ReadUpTo(sent, got, keyed, clean, Arrived)
    BY DEF Following
  <1> QED
    BY <1>1, <1>2

\* A session takes its next step.
LEMMA FollowingOne ==
  ASSUME Types, Following, NEW s \in Sessions, NEW x, app[s] # "none", Monitored(s), app' = [app EXCEPT ![s] = x],
         rx' = rx, x # "none", UNCHANGED <<active, keyed, wire, sent, total, clean, got>>
  PROVE  Following'
  <1>0. MaxSessions \in Nat /\ Sessions = 1 .. MaxSessions /\ keyed \in 0 .. MaxSessions
    BY SessionsAre
  <1>1. \A t \in Sessions : t # s => app'[t] = app[t]
    BY DEF Types
  <1>2. app'[s] = x
    BY DEF Types
  <1>3. ASSUME Hearing' PROVE Hearing
    <2>1. keyed > 0 /\ active /\ keyed \in Sessions
      BY <1>0, <1>3 DEF Hearing
    <2>2. ASSUME NEW t \in keyed + 1 .. MaxSessions PROVE app[t] = "none"
      <3>1. t \in Sessions
        BY <1>0
      <3>2. app'[t] = "none"
        BY <1>3 DEF Hearing, Latest
      <3>3. t # s
        BY <1>2, <3>2
      <3> QED
        BY <1>1, <3>1, <3>2, <3>3
    <2>3. Monitored(keyed)
      <3>1. CASE keyed = s
        BY <3>1
      <3>2. CASE keyed # s
        <4>1. app'[keyed] = app[keyed]
          BY <1>1, <2>1, <3>2
        <4>2. app'[keyed] \in {"reading", "writing", "up"}
          BY <1>3 DEF Hearing, Monitored
        <4> QED
          BY <4>1, <4>2 DEF Monitored
      <3> QED
        BY <3>1, <3>2
    <2>4. Latest(keyed)
      BY <2>2 DEF Latest
    <2> QED
      BY <2>1, <2>3, <2>4 DEF Hearing
  <1>4. rx'[keyed] = rx[keyed]
    OBVIOUS
  <1> QED
    BY <1>3, <1>4, FollowingStays

\* The portal takes the keys of another session.
LEMMA FollowingAnew ==
  ASSUME Types, Streams, NEW s \in Sessions, PortalAccepts(s)
  PROVE  Following'
  <1>0. MaxSessions \in Nat /\ Sessions = 1 .. MaxSessions /\ keyed \in 0 .. MaxSessions
    BY SessionsAre
  <1>1. /\ Latest(s) /\ app[s] = "writing" /\ keyed # s /\ keyed' = s /\ UNCHANGED <<app, rx, wire, sent, total, got>>
        /\ clean' = IF wire = <<>> /\ rx[s] = Ready THEN total ELSE total + MaxFrame
    BY DEF PortalAccepts
  <1>2. PICK a \in Nat : a = Arrived /\ a <= total
    BY Arrivals
  <1>3. Sends(sent, total) /\ total \in Nat /\ Fits(rx[s])
    BY Arrivals
  <1>4. Arrived' = a
    BY <1>1, <1>2 DEF Arrived
  <1>5. PICK c : c = clean'
    OBVIOUS
  <1>6. Synced(rx[s], sent, total, a, c)
    <2>1. CASE wire = <<>> /\ rx[s] = Ready
      <3>1. a = total
        <4>1. Len(<<>>) = 0
          BY NoneIsSeq
        <4>2. Len(wire) = 0
          BY <2>1, <4>1
        <4> QED
          BY <1>2, <1>3, <4>2 DEF Arrived
      <3>2. Synced(Ready, sent, total, total, c)
        BY <1>3, SyncedAtRest
      <3> QED
        BY <2>1, <3>1, <3>2
    <2>2. CASE ~(wire = <<>> /\ rx[s] = Ready)
      <3>1. c = total + MaxFrame
        BY <1>1, <1>5, <2>2
      <3>2. PICK m \in Nat : m = MaxFrame
        BY LargestFrame
      <3>3. c \in Nat /\ a + MaxFrame <= c
        BY <1>2, <1>3, <3>1, <3>2
      <3> QED
        BY <1>2, <1>3, <3>3, SyncedAfterLoss
    <2> QED
      BY <2>1, <2>2
  <1>7. keyed < s
    <2>1. CASE keyed > s
      <3>1. keyed \in s + 1 .. MaxSessions
        BY <1>0, <2>1
      <3>2. app[keyed] = "none"
        BY <1>1, <3>1 DEF Latest
      <3>3. keyed > 0
        BY <1>0, <2>1
      <3> QED
        BY <3>2, <3>3 DEF Streams
    <2> QED
      BY <1>0, <1>1, <2>1
  <1>8. ReadUpTo(sent, got, s, c, a)
    <2> SUFFICES ASSUME NEW k \in DOMAIN sent, sent[k].session = s PROVE FALSE
      BY DEF ReadUpTo
    <2>1. sent[k].session <= keyed
      BY DEF Streams
    <2> QED
      BY <1>0, <1>7, <2>1
  <1> QED
    BY <1>1, <1>4, <1>5, <1>6, <1>8 DEF Following

LEMMA FollowingSent ==
  ASSUME Types, Streams, Streams', Following, NEW kind \in Kinds, PortalSends(kind)
  PROVE  Following'
  <1> SUFFICES ASSUME Hearing' PROVE /\ Synced(rx'[keyed'], sent', total', Arrived', clean')
                                     /\ ReadUpTo(sent', got', keyed', clean', Arrived')
    BY DEF Following
  <1> DEFINE p == [session |-> keyed, kind |-> kind, count |-> count + 1, from |-> total]
  <1>1. /\ keyed > 0 /\ count + 1 <= MaxFrames /\ UNCHANGED <<active, app, rx, keyed, clean, got>>
        /\ sent' = Append(sent, p) /\ wire' = wire \o Packet(p) /\ total' = total + Len(Packet(p))
    BY DEF PortalSends, Packet
  <1>2. Hearing /\ keyed \in Sessions
    <2>1. Hearing
      BY <1>1 DEF Hearing, Latest, Monitored
    <2> QED
      BY <2>1, Arrivals
  <1>3. p \in Sent /\ p.from = total
    <2>1. count \in Nat /\ total \in Nat
      BY BoundsAssumption DEF Types
    <2>2. MaxFrames \in Nat
      BY BoundsAssumption
    <2>3. count + 1 \in 1 .. MaxFrames
      BY <1>1, <2>1, <2>2
    <2> QED
      BY <1>2, <2>1, <2>3 DEF Sent
  <1> HIDE DEF p
  <1>4. PICK n \in Nat : n = Len(sent)
    BY LenProperties DEF Types
  <1>5. OneSent(sent', sent, p, n)
    <2>1. sent \in Seq(Sent)
      BY DEF Types
    <2> QED
      BY <1>1, <1>3, <1>4, <2>1, AppendsSent
  <1>6. total' = To(p)
    BY <1>1, <1>3 DEF To
  <1>7. PICK a \in Nat : a = Arrived /\ a <= total
    BY Arrivals
  <1>8. Arrived' = a
    <2>1. Packet(p) \in Seq(Elements)
      BY <1>3, SentIs, FrameComes
    <2>2. wire \in Seq(Elements) /\ total \in Nat
      BY DEF Types
    <2>3. PICK l \in Nat, m \in Nat : l = Len(wire) /\ m = Len(Packet(p))
      BY <2>1, <2>2, LenProperties
    <2>4. Len(wire') = l + m
      <3>1. Joined(wire \o Packet(p), wire, Len(wire), Packet(p), Len(Packet(p)))
        BY <2>1, <2>2, Joins
      <3> QED
        BY <1>1, <2>3, <3>1 DEF Joined
    <2>5. total' = total + m
      BY <1>1, <2>3
    <2>6. (total + m) - (l + m) = total - l
      BY <2>2, <2>3
    <2>7. a = total - l
      BY <1>7, <2>3 DEF Arrived
    <2> QED
      BY <2>4, <2>5, <2>6, <2>7 DEF Arrived
  <1>9. Sends(sent, total) /\ clean \in Nat /\ Fits(rx[keyed])
    BY <1>2, Arrivals
  <1>10. Synced(rx[keyed], sent, total, a, clean) /\ ReadUpTo(sent, got, keyed, clean, a)
    BY <1>2, <1>7 DEF Following
  <1>11. Synced(rx[keyed], sent', To(p), a, clean)
    BY <1>3, <1>5, <1>7, <1>9, <1>10, SyncedMore
  <1>12. ReadUpTo(sent', got, keyed, clean, a)
    BY <1>3, <1>5, <1>7, <1>9, <1>10, ReadMore
  <1> QED
    BY <1>1, <1>6, <1>8, <1>11, <1>12

\* An indication that is lost, or heard: how far it goes.
LEMMA IndicationIs ==
  ASSUME Types, Streams, NEW n \in Cuts, wire' = Slice(wire, n, Len(wire)), total' = total
  PROVE  LET bytes == Slice(wire, 0, n)
         IN  /\ bytes \in Seq(Elements) /\ Len(bytes) \in Nat /\ Arriving(bytes, sent, Arrived)
             /\ Arrived' = Arrived + Len(bytes) /\ Arrived' = total - Len(wire')
  <1>1. wire \in Seq(Elements) /\ total \in Nat
    BY DEF Types
  <1>2. PICK l \in Nat : l = Len(wire) /\ l <= total
    BY <1>1, LenProperties DEF Streams
  <1>3. PICK bytes : bytes = Slice(wire, 0, n)
    OBVIOUS
  <1>4. bytes \in Seq(Elements)
    BY <1>1, <1>3, Cuttings
  <1>5. PICK m \in 0 .. Len(wire) : CutOff(bytes, wire', wire, m)
    BY <1>1, <1>3, Cuttings
  <1>6. Len(bytes) = m /\ (\A i \in 1 .. m : bytes[i] = wire[i]) /\ Len(wire') = l - m
    BY <1>2, <1>5 DEF CutOff
  <1>7. PICK a \in Nat : a = Arrived /\ a = total - l
    BY <1>1, <1>2 DEF Arrived
  <1>8. Arrived' = a + m /\ Arrived' = total - Len(wire')
    <2>1. total - (l - m) = (total - l) + m
      BY <1>1, <1>2, <1>5
    <2> QED
      BY <1>6, <1>7, <2>1 DEF Arrived
  <1>9. Arriving(bytes, sent, a)
    <2>1. Arriving(wire, sent, a)
      BY <1>7 DEF Streams, Arrived
    <2>2. ASSUME NEW x \in 1 .. m PROVE \E k \in DOMAIN sent : \E o : Within(bytes[x], sent[k], o, a + x)
      <3>1. x \in 1 .. Len(wire)
        BY <1>2, <1>5
      <3>2. PICK k \in DOMAIN sent : \E o : Within(wire[x], sent[k], o, a + x)
        BY <2>1, <3>1 DEF Arriving
      <3>3. bytes[x] = wire[x]
        BY <1>6
      <3> QED
        BY <3>2, <3>3
    <2> QED
      BY <1>6, <2>2 DEF Arriving
  <1>10. m \in Nat
    BY <1>2, <1>5
  <1> QED
    BY <1>3, <1>4, <1>6, <1>7, <1>8, <1>9, <1>10

LEMMA FollowingLost ==
  ASSUME Types, Streams, Streams', Types', Following, NEW n \in Cuts, Lost(n)
  PROVE  Following'
  <1> SUFFICES ASSUME Hearing' PROVE /\ Synced(rx'[keyed'], sent', total', Arrived', clean')
                                     /\ ReadUpTo(sent', got', keyed', clean', Arrived')
    BY DEF Following
  <1>1. /\ wire' = Slice(wire, n, Len(wire)) /\ UNCHANGED <<active, app, rx, keyed, sent, total, got>>
        /\ clean' = Max({clean, total - Len(wire') + MaxFrame})
    BY DEF Lost
  <1>2. Hearing /\ keyed \in Sessions
    <2>1. Hearing
      BY <1>1 DEF Hearing, Latest, Monitored
    <2> QED
      BY <2>1, Arrivals
  <1>3. Sends(sent, total) /\ clean \in Nat /\ Fits(rx[keyed]) /\ Arrived \in Nat
    BY <1>2, Arrivals
  <1>4. PICK b \in Nat : b = Arrived' /\ b = total - Len(wire')
    BY <1>1, <1>3, IndicationIs
  <1>5. PICK m \in Nat : m = MaxFrame
    BY LargestFrame
  <1>6. PICK c \in Nat : c = clean' /\ b + MaxFrame <= c /\ b <= c
    <2>3. clean' = Max({clean, b + m})
      BY <1>1, <1>4, <1>5
    <2>4. clean \in Int /\ b + m \in Int
      BY <1>3
    <2>5. PICK d \in Int : d = b + m
      BY <2>4
    <2>6. Max({clean, d}) \in {clean, d} /\ Max({clean, d}) >= d
      BY <2>4, LargerOf
    <2>1. clean' \in {clean, b + m} /\ clean' >= b + m
      BY <2>3, <2>5, <2>6
    <2>2. clean' \in Nat /\ b <= clean'
      BY <1>3, <1>5, <2>1
    <2> QED
      BY <1>5, <2>1, <2>2
  <1>7. Synced(rx[keyed], sent, total, b, c)
    BY <1>3, <1>6, SyncedAfterLoss
  <1>8. ReadUpTo(sent, got, keyed, c, b)
    BY <1>3, <1>6, NoneReadYet
  <1> QED
    BY <1>1, <1>4, <1>6, <1>7, <1>8

LEMMA FeedOuts ==
  ASSUME NEW s \in Sessions, Fits(rx[s]), NEW bytes \in Seq(Elements)
  PROVE  Feed(s, bytes).out \in Outs
  <1>1. PICK n \in Nat : n = Len(bytes)
    BY LenProperties
  <1>2. \A i \in 1 .. n : bytes[i] \in Elements
    BY <1>1, ElementOfSeq
  <1>3. \A i \in 1 .. n : \E f, o : IsAt(bytes[i], f, o)
    BY <1>2, ElementsCome
  <1>4. PICK fed : Feeds(fed, s, [rx |-> rx[s], out |-> <<>>], bytes, n) /\ Feed(s, bytes) = fed[n]
    BY <1>1, <1>3, FeedIs
  <1>5. fed[n] \in Accs
    BY <1>4 DEF Feeds
  <1> QED
    BY <1>4, <1>5 DEF Accs

LEMMA FollowingHeard ==
  ASSUME Types, Streams, TellsSo, InOrder, Following, NEW n \in Cuts, OnTxRx(n)
  PROVE  Following'
  <1> SUFFICES ASSUME Hearing' PROVE /\ Synced(rx'[keyed'], sent', total', Arrived', clean')
                                     /\ ReadUpTo(sent', got', keyed', clean', Arrived')
    BY DEF Following
  <1> DEFINE fed == [s \in Sessions |-> IF Monitored(s) THEN Feed(s, Slice(wire, 0, n)) ELSE [rx |-> rx[s], out |-> <<>>]]
             seqs == [s \in Sessions |-> EventsIn(fed[s].out)]
  <1>1. /\ wire' = Slice(wire, n, Len(wire)) /\ UNCHANGED <<active, app, keyed, sent, total, clean>>
        /\ rx' = [s \in Sessions |-> fed[s].rx] /\ got' = got \o FlattenSeq(seqs)
    BY DEF OnTxRx, EventsIn, Decoded
  <1>2. Hearing /\ keyed \in Sessions
    <2>1. Hearing
      BY <1>1 DEF Hearing, Latest, Monitored
    <2> QED
      BY <2>1, Arrivals
  <1>3. PICK s \in Sessions : s = keyed /\ Monitored(s) /\ app[s] # "reading"
    BY <1>2 DEF Hearing, InOrder
  <1>4. PICK bytes : bytes = Slice(wire, 0, n)
    OBVIOUS
  <1>5. PICK a \in Nat : a = Arrived
    BY Arrivals
  <1>6. bytes \in Seq(Elements) /\ Arriving(bytes, sent, a)
    BY <1>1, <1>4, <1>5, IndicationIs
  <1>7. PICK b \in Nat : b = Arrived' /\ b = a + Len(bytes)
    <2>1. Len(bytes) \in Nat
      BY <1>6, LenProperties
    <2>2. Arrived' = Arrived + Len(bytes)
      BY <1>1, <1>4, IndicationIs
    <2>3. a + Len(bytes) \in Nat
      BY <2>1
    <2> QED
      BY <1>5, <2>2, <2>3
  <1>8. Sends(sent, total) /\ clean \in Nat /\ Fits(rx[s])
    BY Arrivals
  <1>9. Synced(rx[s], sent, total, a, clean) /\ ReadUpTo(sent, got, s, clean, a)
    BY <1>2, <1>3, <1>5 DEF Following
  <1>10. /\ Synced(Feed(s, bytes).rx, sent, total, b, clean)
         /\ AllRead(sent, EventsIn(Feed(s, bytes).out), s, clean, a, b)
    BY <1>3, <1>6, <1>7, <1>8, <1>9, FeedReads
  <1>11. fed[s] = Feed(s, bytes)
    BY <1>3, <1>4
  <1>12. rx'[s] = Feed(s, bytes).rx
    <2>1. rx'[s] = fed[s].rx
      BY <1>1
    <2> HIDE DEF fed
    <2> QED
      BY <1>11, <2>1
  <1>13. seqs[s] = EventsIn(Feed(s, bytes).out)
    <2>1. seqs[s] = EventsIn(fed[s].out)
      OBVIOUS
    <2> HIDE DEF fed, seqs
    <2> QED
      BY <1>11, <2>1
  <1>14. seqs \in Seq(Seq(Meanings)) /\ Len(seqs) = MaxSessions
    <2>1. ASSUME NEW t \in Sessions PROVE seqs[t] \in Seq(Meanings)
      <3>1. fed[t].out \in Outs
        <4>1. CASE Monitored(t)
          <5>1. Feed(t, bytes).out \in Outs
            BY <1>6, Arrivals, FeedOuts
          <5> QED
            BY <1>4, <4>1, <5>1
        <4>2. CASE ~Monitored(t)
          <5>1. <<>> \in Outs
            BY NoneIsSeq DEF Outs
          <5> QED
            BY <4>2, <5>1
        <4> QED
          BY <4>1, <4>2
      <3>2. seqs[t] = EventsIn(fed[t].out)
        OBVIOUS
      <3> HIDE DEF fed, seqs
      <3> QED
        BY <3>1, <3>2, EventsAre
    <2>2. MaxSessions \in Nat /\ Sessions = 1 .. MaxSessions
      BY SessionsAre
    <2>3. seqs = [t \in Sessions |-> seqs[t]]
      OBVIOUS
    <2> HIDE DEF fed, seqs
    <2>4. IsSeq(seqs, MaxSessions)
      BY <2>2, <2>3 DEF IsSeq
    <2> QED
      BY <2>1, <2>2, <2>4, SeqOfThem
  <1> HIDE DEF fed, seqs
  <1>15. PICK all : all = FlattenSeq(seqs)
    OBVIOUS
  <1>16. ToSet(seqs[s]) \subseteq ToSet(all)
    <2>1. MaxSessions \in Nat /\ s \in 1 .. MaxSessions
      BY SessionsAre
    <2> QED
      BY <1>14, <1>15, <2>1, FlattenHas
  <1>17. got \in Seq(Meanings) /\ all \in Seq(Meanings)
    <2>1. got \in Seq(Meanings)
      BY DEF TellsSo, Tells
    <2>2. PICK g : Flat(Meanings, seqs, g) /\ FlattenSeq(seqs) = g[Len(seqs)]
      BY <1>14, FlattenIs
    <2>3. Len(seqs) \in Nat
      BY <1>14, LenProperties
    <2>4. g[Len(seqs)] \in Seq(Meanings)
      BY <2>2, <2>3 DEF Flat
    <2> QED
      BY <1>15, <2>1, <2>2, <2>4
  <1>18. got' = got \o all
    BY <1>1, <1>15
  <1>19. ToSet(got) \subseteq ToSet(got') /\ ToSet(all) \subseteq ToSet(got')
    BY <1>17, <1>18, InBoth
  <1>20. ReadUpTo(sent, got', s, clean, b)
    <2>1. ToSet(EventsIn(Feed(s, bytes).out)) \subseteq ToSet(got')
      BY <1>13, <1>16, <1>19
    <2> QED
      BY <1>5, <1>7, <1>8, <1>9, <1>10, <1>19, <2>1, ReadBoth
  <1> QED
    BY <1>1, <1>3, <1>7, <1>10, <1>12, <1>20

LEMMA FollowingPreserved ==
  Types /\ Types' /\ Streams /\ Streams' /\ TellsSo /\ InOrder /\ Following /\ [Next]_vars => Following'
  <1> SUFFICES ASSUME Types, Types', Streams, Streams', TellsSo, InOrder, Following, [Next]_vars PROVE Following'
    OBVIOUS
  <1>0. MaxSessions \in Nat /\ Sessions = 1 .. MaxSessions /\ keyed \in 0 .. MaxSessions
    BY SessionsAre
  <1>1. ASSUME ~Hearing' PROVE Following'
    BY <1>1 DEF Following
  <1>2. ASSUME active' = FALSE PROVE Following'
    BY <1>1, <1>2 DEF Hearing
  <1>3. CASE Stop
    BY <1>2, <1>3 DEF Stop, Stopped
  <1>4. ASSUME NEW s \in Sessions, RunMpidSession(s) PROVE Following'
    <2>1. app' = [app EXCEPT ![s] = "reading"] /\ keyed' = keyed /\ app[s] = "none" /\ \A t \in 1 .. s - 1 : app[t] # "none"
      BY <1>4 DEF RunMpidSession, portal
    <2>2. ASSUME Hearing' PROVE FALSE
      <3>1. keyed > 0 /\ keyed \in Sessions /\ app[keyed] # "none"
        BY <1>0, <2>1, <2>2 DEF Hearing, InOrder
      <3>2. ~(s < keyed)
        BY <2>1, <3>1 DEF InOrder
      <3>3. s \in keyed + 1 .. MaxSessions
        BY <1>0, <2>1, <3>1, <3>2
      <3>4. app'[s] = "none"
        BY <2>1, <2>2, <3>3 DEF Hearing, Latest
      <3>5. app'[s] = "reading"
        BY <2>1 DEF Types
      <3> QED
        BY <3>4, <3>5
    <2> QED
      BY <1>1, <2>2
  <1>5. ASSUME NEW s \in Sessions, StartSession(s) PROVE Following'
    <2>1. /\ app[s] = "reading" /\ app' = [app EXCEPT ![s] = "writing"]
          /\ UNCHANGED <<active, rx, keyed, wire, sent, total, clean, got>>
      BY <1>5 DEF StartSession, portal
    <2>2. app[s] # "none" /\ Monitored(s) /\ "writing" # "none"
      BY <2>1 DEF Monitored
    <2> QED
      BY <2>1, <2>2, FollowingOne
  <1>6. ASSUME NEW s \in Sessions, PortalAccepts(s) PROVE Following'
    BY <1>6, FollowingAnew
  <1>7. ASSUME NEW s \in Sessions, Established(s) PROVE Following'
    <2>1. app[s] = "writing" /\ UNCHANGED <<active, keyed, wire, sent, total, clean, got>>
      BY <1>7 DEF Established, portal
    <2>2. CASE active
      <3>1. app' = [app EXCEPT ![s] = "up"] /\ rx' = rx
        BY <1>7, <2>2 DEF Established
      <3>2. app[s] # "none" /\ Monitored(s) /\ "up" # "none"
        BY <2>1 DEF Monitored
      <3> QED
        BY <2>1, <3>1, <3>2, FollowingOne
    <2>3. CASE ~active
      <3>1. active' = FALSE
        BY <2>1, <2>3 DEF Types
      <3> QED
        BY <1>2, <3>1
    <2> QED
      BY <2>2, <2>3
  <1>8. ASSUME NEW s \in Sessions, HandshakeFails(s) PROVE Following'
    <2>1. active' = FALSE
      <3>1. CASE active
        BY <1>8, <3>1 DEF HandshakeFails, Stopped
      <3>2. CASE ~active
        <4>1. active' = active
          BY <1>8, <3>2 DEF HandshakeFails
        <4> QED
          BY <3>2, <4>1 DEF Types
      <3> QED
        BY <3>1, <3>2
    <2> QED
      BY <1>2, <2>1
  <1>9. ASSUME NEW kind \in Kinds, PortalSends(kind) PROVE Following'
    BY <1>9, FollowingSent
  <1>10. ASSUME NEW n \in Cuts, OnTxRx(n) PROVE Following'
    BY <1>10, FollowingHeard
  <1>11. ASSUME NEW n \in Cuts, Lost(n) PROVE Following'
    BY <1>11, FollowingLost
  <1>12. CASE UNCHANGED vars
    <2>1. UNCHANGED <<active, app, rx, keyed, wire, sent, total, clean, got>>
      BY <1>12 DEF vars, portal
    <2>2. Hearing' => Hearing /\ rx'[keyed] = rx[keyed]
      BY <2>1 DEF Hearing, Latest, Monitored
    <2> QED
      BY <2>1, <2>2, FollowingStays
  <1> QED
    BY <1>3, <1>4, <1>5, <1>6, <1>7, <1>8, <1>9, <1>10, <1>11, <1>12 DEF Next

LEMMA FollowingMeansRead ==
  ASSUME Types, Following
  PROVE  Resynchronises
  <1> SUFFICES ASSUME NEW k \in DOMAIN sent, Due(k), \A j \in 1 .. k - 1 : Quiet(sent[j])
               PROVE  ToSet(Means(sent[k])) \subseteq ToSet(got)
    BY DEF Resynchronises
  <1>1. sent \in Seq(Sent)
    BY DEF Types
  <1>2. sent[k] \in Sent /\ k \in Nat
    BY <1>1, SentAre
  <1>3. /\ active /\ sent[k].session = keyed /\ Latest(keyed) /\ Monitored(keyed)
        /\ sent[k].from >= clean /\ To(sent[k]) <= Arrived
    BY DEF Due
  <1>4. keyed > 0
    <2>1. keyed \in Sessions
      BY <1>2, <1>3, SentIs
    <2>2. Sessions = 1 .. MaxSessions /\ MaxSessions \in Nat
      BY SessionsAre
    <2> QED
      BY <2>1, <2>2
  <1>5. Hearing
    BY <1>3, <1>4 DEF Hearing
  <1>6. ReadUpTo(sent, got, keyed, clean, Arrived)
    BY <1>5 DEF Following
  <1>7. AllQuiet(sent, k)
    <2> SUFFICES ASSUME NEW j \in DOMAIN sent, j < k PROVE Quiet(sent[j])
      BY DEF AllQuiet
    <2>1. j \in 1 .. k - 1
      <3>1. j \in 1 .. Len(sent) /\ j \in Nat
        BY <1>1, SentAre
      <3> QED
        BY <1>2, <3>1
    <2> QED
      BY <2>1
  <1>8. clean <= sent[k].from
    <2>1. sent[k].from \in Nat /\ clean \in Nat
      BY <1>2, SentIs DEF Types
    <2> QED
      BY <1>3, <2>1
  <1> QED
    BY <1>3, <1>6, <1>7, <1>8 DEF ReadUpTo

\* The session that the portal has the keys of reads every packet that begins a
\* largest packet's length behind what was lost, however the stream was cut, if no
\* preamble's value came in a body before: feedByte() is back in step by then.
THEOREM BackInStep == Spec => []Resynchronises
  <1> DEFINE All == Types /\ Streams /\ TellsSo /\ InOrder /\ Following
  <1>1. Init => All
    BY TypesInitially, StreamsInitially, TellsInitially, InOrderInitially, FollowingInitially
  <1>2. All /\ [Next]_vars => All'
    <2> SUFFICES ASSUME All, [Next]_vars PROVE All'
      OBVIOUS
    <2>1. Types'
      BY TypesPreserved
    <2>2. Streams'
      BY StreamsPreserved
    <2>3. TellsSo'
      BY <2>2, TellsPreserved
    <2>4. InOrder'
      BY InOrderPreserved
    <2>5. Following'
      BY <2>1, <2>2, FollowingPreserved
    <2> QED
      BY <2>1, <2>2, <2>3, <2>4, <2>5
  <1>3. All => Resynchronises
    BY FollowingMeansRead
  <1> QED
    BY <1>1, <1>2, <1>3, PTL DEF Spec

=====
