----------------------------- MODULE StdioProofs -----------------------------
(***************************************************************************)
(* Proofs about the module Stdio, for every size of the buffer, every text *)
(* and every sequence of calls: a stream is an unbuffered file, and the    *)
(* numbers that printf writes are the ones it was given.                   *)
(***************************************************************************)
EXTENDS Stdio, SetInduction, TLAPS

-----------------------------------------------------------------------------
(* Sequences                                                               *)

\* A part of a sequence, byte by byte.
LEMMA PartBytes ==
    ASSUME NEW s \in Seq(Nat), NEW a \in Nat \ {0}, NEW b \in Nat, b <= Len(s), a <= b + 1
    PROVE  /\ SubSeq(s, a, b) \in Seq(Nat) /\ Len(SubSeq(s, a, b)) = b - a + 1
           /\ \A i \in 1 .. b - a + 1 : SubSeq(s, a, b)[i] = s[a + i - 1]
OBVIOUS

\* Nothing.
LEMMA PartEmpty ==
    ASSUME NEW s \in Seq(Nat), NEW a \in Nat \ {0}, NEW b \in Nat, a > b
    PROVE  SubSeq(s, a, b) = <<>>
OBVIOUS

\* The beginning of a sequence.
LEMMA Beginning ==
    ASSUME NEW s \in Seq(Nat), NEW b \in Nat, b <= Len(s), NEW p, p = SubSeq(s, 1, b)
    PROVE  p \in Seq(Nat) /\ Len(p) = b /\ \A i \in 1 .. b : p[i] = s[i]
OBVIOUS

\* A sequence and another one behind it.
Joined(u, s, a, t, b) ==
    /\ u \in Seq(Nat) /\ Len(u) = a + b
    /\ \A i \in 1 .. a : u[i] = s[i]
    /\ \A i \in 1 .. b : u[a + i] = t[i]

\* They are joined.
LEMMA Concats ==
    ASSUME NEW s \in Seq(Nat), NEW t \in Seq(Nat), NEW a \in Nat, NEW b \in Nat,
           a = Len(s), b = Len(t), NEW u, u = s \o t
    PROVE  Joined(u, s, a, t, b)
BY DEF Joined

\* Two sequences, one behind the other.
LEMMA Joins ==
    ASSUME NEW s \in Seq(Nat), NEW t \in Seq(Nat)
    PROVE  /\ s \o t \in Seq(Nat) /\ Len(s) \in Nat /\ Len(t) \in Nat
           /\ Len(s \o t) = Len(s) + Len(t)
           /\ \A i \in 1 .. Len(s) : (s \o t)[i] = s[i]
           /\ \A i \in 1 .. Len(t) : (s \o t)[Len(s) + i] = t[i]
OBVIOUS

\* Sequences with the same bytes are the same.
LEMMA Same ==
    ASSUME NEW s \in Seq(Nat), NEW t \in Seq(Nat), NEW n, Len(s) = n, Len(t) = n,
           \A i \in 1 .. n : s[i] = t[i]
    PROVE  s = t
OBVIOUS

\* The empty sequence.
LEMMA Nothing ==
    ASSUME NEW s \in Seq(Nat)
    PROVE  /\ <<>> \in Seq(Nat) /\ Len(<<>>) = 0 /\ (s = <<>> <=> Len(s) = 0)
           /\ s \o <<>> = s /\ <<>> \o s = s
OBVIOUS

-----------------------------------------------------------------------------
(* Writes                                                                  *)

Over(bytes, pos, data) ==
    SubSeq(bytes, 1, pos) \o data \o SubSeq(bytes, pos + Len(data) + 1, Len(bytes))

\* What a write stores, byte by byte.
Wrote(o, bytes, pos, data) ==
    /\ o \in Seq(Nat)
    /\ Len(o) = IF pos + Len(data) > Len(bytes) THEN pos + Len(data) ELSE Len(bytes)
    /\ \A i \in 1 .. Len(o) :
           o[i] = IF i \in pos + 1 .. pos + Len(data) THEN data[i - pos] ELSE bytes[i]

\* The write of ByteFile stores the data and keeps the rest.
LEMMA OverWrites ==
    ASSUME NEW bytes \in Seq(Nat), NEW data \in Seq(Nat), NEW pos \in Nat, pos <= Len(bytes)
    PROVE  Wrote(Over(bytes, pos, data), bytes, pos, data)
<1>1. PICK n \in Nat, t \in Nat : n = Len(bytes) /\ t = Len(data)
  OBVIOUS
<1>p. PICK p : p = SubSeq(bytes, 1, pos)
  OBVIOUS
<1>2. p \in Seq(Nat) /\ Len(p) = pos /\ \A i \in 1 .. pos : p[i] = bytes[i]
  BY <1>p, Beginning
<1>u. PICK u : u = p \o data
  OBVIOUS
<1>v. Joined(u, p, pos, data, t)
  BY <1>1, <1>2, <1>u, Concats
<1>3. /\ u \in Seq(Nat) /\ Len(u) = pos + t
      /\ \A i \in 1 .. pos : u[i] = p[i]
      /\ \A i \in 1 .. t : u[pos + i] = data[i]
  BY <1>v DEF Joined
<1>4. CASE pos + t > n
  <2>1. SubSeq(bytes, pos + t + 1, n) = <<>>
    BY <1>1, <1>4, PartEmpty
  <2>2. Over(bytes, pos, data) = u
    BY <1>1, <1>3, <1>p, <1>u, <2>1, Nothing DEF Over
  <2>3. ASSUME NEW i \in 1 .. pos + t
        PROVE  u[i] = IF i \in pos + 1 .. pos + t THEN data[i - pos] ELSE bytes[i]
    <3>1. CASE i <= pos
      BY <1>2, <1>3, <3>1
    <3>2. CASE i > pos
      <4>1. i - pos \in 1 .. t /\ pos + (i - pos) = i
        BY <3>2
      <4>2. u[pos + (i - pos)] = data[i - pos]
        BY <1>3, <4>1
      <4> QED BY <3>2, <4>1, <4>2
    <3> QED BY <3>1, <3>2
  <2> QED BY <1>1, <1>3, <1>4, <2>2, <2>3 DEF Wrote
<1>5. CASE ~ pos + t > n
  <2>1. PICK r \in Nat : r = n - (pos + t)
    BY <1>5
  <2>q. PICK q : q = SubSeq(bytes, pos + t + 1, n)
    OBVIOUS
  <2>2. q \in Seq(Nat) /\ Len(q) = r /\ \A i \in 1 .. r : q[i] = bytes[pos + t + i]
    <3>1. PICK a \in Nat : a = pos + t
      OBVIOUS
    <3>2. a <= n /\ r = n - a /\ q = SubSeq(bytes, a + 1, n)
      BY <1>5, <2>1, <2>q, <3>1
    <3>3. q \in Seq(Nat) /\ Len(q) = r /\ \A i \in 1 .. r : q[i] = bytes[a + i]
      BY <1>1, <3>2, SMTT(60)
    <3> QED BY <3>1, <3>3
  <2>o. PICK o : o = u \o q
    OBVIOUS
  <2>3. /\ o \in Seq(Nat) /\ Len(o) = n
        /\ \A i \in 1 .. pos + t : o[i] = u[i]
        /\ \A i \in 1 .. r : o[pos + t + i] = q[i]
    <3>1. PICK a \in Nat : a = pos + t
      OBVIOUS
    <3>2. Joined(o, u, a, q, r)
      BY <1>3, <2>2, <2>o, <3>1, Concats
    <3>3. a + r = n
      BY <2>1, <3>1
    <3> QED BY <3>1, <3>2, <3>3 DEF Joined
  <2>4. Over(bytes, pos, data) = o
    BY <1>1, <1>p, <1>u, <2>q, <2>o DEF Over
  <2>5. ASSUME NEW i \in 1 .. n
        PROVE  o[i] = IF i \in pos + 1 .. pos + t THEN data[i - pos] ELSE bytes[i]
    <3>1. CASE i <= pos
      <4>1. i \in 1 .. pos /\ i \in 1 .. pos + t /\ i \notin pos + 1 .. pos + t
        BY <3>1
      <4> QED BY <1>2, <1>3, <2>3, <4>1
    <3>2. CASE i > pos /\ i <= pos + t
      <4>1. i - pos \in 1 .. t /\ pos + (i - pos) = i
        BY <3>2
      <4>2. u[pos + (i - pos)] = data[i - pos]
        BY <1>3, <4>1
      <4> QED BY <2>3, <3>2, <4>1, <4>2, SMTT(60)
    <3>3. CASE i > pos + t
      <4>1. i - (pos + t) \in 1 .. r /\ pos + t + (i - (pos + t)) = i
        BY <2>1, <3>3
      <4>2. o[pos + t + (i - (pos + t))] = q[i - (pos + t)]
        BY <2>3, <4>1
      <4>3. q[i - (pos + t)] = bytes[pos + t + (i - (pos + t))]
        BY <2>2, <4>1
      <4> QED BY <3>3, <4>1, <4>2, <4>3
    <3> QED BY <3>1, <3>2, <3>3
  <2> QED BY <1>1, <1>5, <2>3, <2>4, <2>5 DEF Wrote
<1> QED BY <1>4, <1>5

\* An empty write changes nothing.
LEMMA OverNothing ==
    ASSUME NEW bytes \in Seq(Nat), NEW pos \in Nat, pos <= Len(bytes)
    PROVE  Over(bytes, pos, <<>>) = bytes
<1>1. PICK o : o = Over(bytes, pos, <<>>)
  OBVIOUS
<1>2. <<>> \in Seq(Nat) /\ Len(<<>>) = 0
  OBVIOUS
<1>3. Wrote(o, bytes, pos, <<>>)
  BY <1>1, <1>2, OverWrites
<1>4. o \in Seq(Nat) /\ Len(o) = Len(bytes) /\ \A i \in 1 .. Len(bytes) : o[i] = bytes[i]
  BY <1>2, <1>3 DEF Wrote
<1> QED BY <1>1, <1>4, Same

\* Two writes behind one another are one.
LEMMA OverTwice ==
    ASSUME NEW bytes \in Seq(Nat), NEW x \in Seq(Nat), NEW y \in Seq(Nat),
           NEW pos \in Nat, pos <= Len(bytes)
    PROVE  /\ Over(Over(bytes, pos, x), pos + Len(x), y) = Over(bytes, pos, x \o y)
           /\ pos + Len(x) <= Len(Over(bytes, pos, x))
<1>1. PICK n \in Nat, a \in Nat, b \in Nat : n = Len(bytes) /\ a = Len(x) /\ b = Len(y)
  OBVIOUS
<1>2. PICK u : u = Over(bytes, pos, x)
  OBVIOUS
<1>3. Wrote(u, bytes, pos, x)
  BY <1>2, OverWrites
<1>4. u \in Seq(Nat) /\ pos + a <= Len(u) /\ Len(u) \in Nat
  BY <1>1, <1>3 DEF Wrote
<1>5. PICK v : v = Over(u, pos + a, y)
  OBVIOUS
<1>6. Wrote(v, u, pos + a, y)
  BY <1>4, <1>5, OverWrites
<1>z. PICK z : z = x \o y
  OBVIOUS
<1>7. /\ z \in Seq(Nat) /\ Len(z) = a + b
      /\ \A i \in 1 .. a : z[i] = x[i]
      /\ \A i \in 1 .. b : z[a + i] = y[i]
  <2>1. Joined(z, x, a, y, b)
    BY <1>1, <1>z, Concats
  <2> QED BY <2>1 DEF Joined
<1>8. PICK w : w = Over(bytes, pos, z)
  OBVIOUS
<1>9. Wrote(w, bytes, pos, z)
  BY <1>7, <1>8, OverWrites
<1>10. v \in Seq(Nat) /\ w \in Seq(Nat) /\ Len(v) = Len(w) /\ Len(w) \in Nat
  <2>1. Len(u) = IF pos + a > n THEN pos + a ELSE n
    BY <1>1, <1>3 DEF Wrote
  <2>2. v \in Seq(Nat) /\ Len(v) = IF pos + a + b > Len(u) THEN pos + a + b ELSE Len(u)
    BY <1>1, <1>6 DEF Wrote
  <2>3. w \in Seq(Nat) /\ Len(w) = IF pos + (a + b) > n THEN pos + (a + b) ELSE n
    BY <1>1, <1>7, <1>9 DEF Wrote
  <2> QED BY <1>4, <2>1, <2>2, <2>3
<1>11. ASSUME NEW i \in 1 .. Len(w) PROVE v[i] = w[i]
  <2>1. /\ w[i] = IF i \in pos + 1 .. pos + (a + b) THEN z[i - pos] ELSE bytes[i]
        /\ v[i] = IF i \in pos + a + 1 .. pos + a + b THEN y[i - (pos + a)] ELSE u[i]
    BY <1>1, <1>6, <1>7, <1>9, <1>10 DEF Wrote
  <2>2. CASE i > pos + a /\ i <= pos + a + b
    <3>1. PICK j \in 1 .. b : j = i - (pos + a)
      BY <2>2
    <3>2. z[a + j] = y[j]
      BY <1>7, Zenon
    <3>3. a + j = i - pos
      BY <3>1, <1>10
    <3>4. i \in pos + a + 1 .. pos + a + b /\ i \in pos + 1 .. pos + (a + b)
      BY <2>2
    <3>5. v[i] = y[i - (pos + a)] /\ w[i] = z[i - pos]
      BY <2>1, <3>4, Zenon
    <3> QED BY <3>1, <3>2, <3>3, <3>5, Zenon
  <2>3. CASE i <= pos + a
    <3>1. i \in 1 .. Len(u)
      BY <1>4, <2>3
    <3>2. u[i] = IF i \in pos + 1 .. pos + a THEN x[i - pos] ELSE bytes[i]
      BY <1>1, <1>3, <3>1 DEF Wrote
    <3>3. i > pos => i - pos \in 1 .. a
      BY <2>3
    <3>4. i > pos => z[i - pos] = x[i - pos]
      BY <1>7, <3>3
    <3>5. ~ i \in pos + a + 1 .. pos + a + b
      BY <2>3
    <3>6. v[i] = u[i]
      BY <2>1, <3>5, Zenon
    <3>7. CASE i > pos
      <4>1. i \in pos + 1 .. pos + a /\ i \in pos + 1 .. pos + (a + b)
        BY <2>3, <3>7
      <4> QED BY <2>1, <3>2, <3>4, <3>6, <3>7, <4>1, Zenon
    <3>8. CASE ~ i > pos
      <4>1. ~ i \in pos + 1 .. pos + a /\ ~ i \in pos + 1 .. pos + (a + b)
        BY <3>8
      <4> QED BY <2>1, <3>2, <3>6, <4>1, Zenon
    <3> QED BY <3>7, <3>8
  <2>4. CASE i > pos + a + b
    <3>1. i \in 1 .. Len(u)
      BY <1>1, <1>3, <1>4, <1>6, <1>10, <2>4 DEF Wrote
    <3>2. u[i] = IF i \in pos + 1 .. pos + a THEN x[i - pos] ELSE bytes[i]
      BY <1>1, <1>3, <3>1 DEF Wrote
    <3> QED BY <2>1, <2>4, <3>2, SMTT(60)
  <2> QED BY <1>10, <2>2, <2>3, <2>4, SMTT(60)
<1>12. v = w
  BY <1>10, <1>11, Same
<1> QED BY <1>1, <1>2, <1>4, <1>5, <1>z, <1>8, <1>12

-----------------------------------------------------------------------------
(* Digits                                                                  *)

\* A digit as a character, and a character as a digit.
Char(d) == IF d < 10 THEN 48 + d ELSE 87 + d
DigitOf(c) == IF c < 58 THEN c - 48 ELSE c - 87
Chars(digits) == [i \in DOMAIN digits |-> Char(digits[i])]

\* Characters stand for their digits.
LEMMA CharDigit ==
    ASSUME NEW d \in 0 .. 15
    PROVE  Char(d) \in Nat /\ DigitOf(Char(d)) = d /\ (Char(d) = 48 <=> d = 0)
BY DEF Char, DigitOf

\* The values of the beginnings of a text.
Reading(f, chars, base, m) ==
    f = [i \in 0 .. m |-> IF i = 0 THEN 0 ELSE base * f[i - 1] + DigitOf(chars[i])]

\* They exist.
LEMMA ReadingExists ==
    ASSUME NEW chars, NEW base, NEW m \in Nat
    PROVE  \E f : Reading(f, chars, base, m)
<1> DEFINE S == {k \in Nat : \E f : Reading(f, chars, base, k)}
<1>1. 0 \in S
  <2>1. Reading([i \in 0 .. 0 |-> 0], chars, base, 0)
    BY DEF Reading
  <2> QED BY <2>1
<1>2. ASSUME NEW k \in 0 .. m - 1, k \in S PROVE k + 1 \in S
  <2>1. PICK f : Reading(f, chars, base, k)
    BY <1>2
  <2> DEFINE h == [i \in 0 .. k + 1 |->
                     IF i = k + 1 THEN base * f[k] + DigitOf(chars[i]) ELSE f[i]]
  <2>2. ASSUME NEW i \in 0 .. k + 1
        PROVE h[i] = IF i = 0 THEN 0 ELSE base * h[i - 1] + DigitOf(chars[i])
    <3>1. CASE i = k + 1
      BY <3>1
    <3>2. CASE i = 0
      BY <2>1, <3>2 DEF Reading
    <3>3. CASE i \in 1 .. k
      <4>1. h[i] = f[i] /\ h[i - 1] = f[i - 1]
        BY <3>3
      <4>2. f[i] = base * f[i - 1] + DigitOf(chars[i])
        BY <2>1, <3>3 DEF Reading
      <4> QED BY <3>3, <4>1, <4>2
    <3> QED BY <3>1, <3>2, <3>3
  <2>3. Reading(h, chars, base, k + 1)
    BY <2>2 DEF Reading
  <2> HIDE DEF h
  <2> QED BY <2>3
<1> HIDE DEF S
<1>3. \A k \in 0 .. m : k \in S
  BY <1>1, <1>2, Steps
<1> QED BY <1>3 DEF S

\* The value of a beginning is the same in every text that begins so.
LEMMA ReadingSame ==
    ASSUME NEW f, NEW h, NEW a, NEW b, NEW base, NEW m \in Nat, NEW k \in Nat, NEW j \in Nat,
           Reading(f, a, base, m), Reading(h, b, base, k), j <= m, j <= k,
           \A i \in 1 .. j : a[i] = b[i]
    PROVE  f[j] = h[j]
<1> DEFINE S == {i \in Nat : f[i] = h[i]}
<1>1. 0 \in S
  BY DEF Reading
<1>2. ASSUME NEW i \in 0 .. j - 1, i \in S PROVE i + 1 \in S
  <2>1. f[i + 1] = base * f[(i + 1) - 1] + DigitOf(a[i + 1])
    BY DEF Reading
  <2>2. h[i + 1] = base * h[(i + 1) - 1] + DigitOf(b[i + 1])
    BY DEF Reading
  <2>3. (i + 1) - 1 = i /\ i + 1 \in 1 .. j
    OBVIOUS
  <2>4. f[i] = h[i] /\ a[i + 1] = b[i + 1]
    BY <1>2, <2>3
  <2> QED BY <2>1, <2>2, <2>3, <2>4
<1> HIDE DEF S
<1>3. \A i \in 0 .. j : i \in S
  BY <1>1, <1>2, Steps
<1> QED BY <1>3 DEF S

\* What the value of a text is.
LEMMA ReadBackValue ==
    ASSUME NEW chars \in Seq(Nat), NEW base, NEW m \in Nat, m = Len(chars)
    PROVE  \E f : Reading(f, chars, base, m) /\ ReadBack(chars, base) = f[m]
<1>1. PICK f : f = CHOOSE h : Reading(h, chars, base, m)
  OBVIOUS
<1>2. Reading(f, chars, base, m)
  BY <1>1, ReadingExists
<1>3. ReadBack(chars, base) = f[m]
  BY <1>1 DEF ReadBack, Reading, DigitOf
<1> QED BY <1>2, <1>3

\* A text with one more digit.
LEMMA ReadBackNext ==
    ASSUME NEW s \in Seq(Nat), NEW c \in Nat, NEW base
    PROVE  ReadBack(s \o <<c>>, base) = base * ReadBack(s, base) + DigitOf(c)
<1>1. PICK m \in Nat : m = Len(s)
  OBVIOUS
<1>2. PICK t : t = s \o <<c>>
  OBVIOUS
<1>3. t \in Seq(Nat) /\ Len(t) = m + 1 /\ t[m + 1] = c /\ \A i \in 1 .. m : t[i] = s[i]
  BY <1>1, <1>2
<1>4. PICK f : Reading(f, s, base, m) /\ ReadBack(s, base) = f[m]
  BY <1>1, ReadBackValue
<1>k. PICK k \in Nat : k = m + 1
  OBVIOUS
<1>5. PICK h : Reading(h, t, base, k) /\ ReadBack(t, base) = h[k]
  BY <1>3, <1>k, ReadBackValue, ZenonT(60)
<1>6. h[m] = f[m]
  <2>1. m <= k /\ m <= m /\ \A i \in 1 .. m : s[i] = t[i]
    BY <1>3, <1>k
  <2> QED BY <1>4, <1>5, <2>1, ReadingSame
<1>7. h[m + 1] = base * h[m] + DigitOf(t[m + 1])
  <2>1. h[m + 1] = base * h[(m + 1) - 1] + DigitOf(t[m + 1])
    BY <1>5, <1>k DEF Reading
  <2>2. (m + 1) - 1 = m
    OBVIOUS
  <2> QED BY <2>1, <2>2
<1> QED BY <1>2, <1>3, <1>4, <1>5, <1>6, <1>7, <1>k

\* The empty text is 0.
LEMMA ReadBackEmpty ==
    ASSUME NEW base
    PROVE  ReadBack(<<>>, base) = 0
<1>1. <<>> \in Seq(Nat) /\ Len(<<>>) = 0
  OBVIOUS
<1>2. PICK f : Reading(f, <<>>, base, 0) /\ ReadBack(<<>>, base) = f[0]
  BY <1>1, ReadBackValue
<1> QED BY <1>2 DEF Reading

\* A number is its last digit and the others.
LEMMA LastDigit ==
    ASSUME NEW n \in Nat, NEW base \in {10, 16}
    PROVE  \E q \in Nat, e \in 0 .. base - 1 :
               /\ q = n \div base /\ e = n % base /\ n = base * q + e
               /\ q <= n /\ (n >= base => q < n /\ q >= 1)
<1>1. base \in Nat \ {0} /\ (base = 10 \/ base = 16)
  OBVIOUS
<1>2. n \div base \in Nat /\ n % base \in 0 .. base - 1
  BY <1>1
<1>3. PICK q \in Nat, e \in 0 .. base - 1 : q = n \div base /\ e = n % base
  BY <1>2
<1>4. n = base * q + e
  BY <1>1, <1>3
<1>5. q <= n /\ (n >= base => q < n /\ q >= 1)
  <2>1. CASE base = 10
    BY <1>4, <2>1
  <2>2. CASE base = 16
    BY <1>4, <2>2
  <2> QED BY <2>1, <2>2
<1> QED BY <1>3, <1>4, <1>5

\* The digits of the numbers up to m.
Writing(g, m, base) ==
    g = [n \in 0 .. m |-> (IF n < base THEN <<>> ELSE g[n \div base]) \o <<n % base>>]

\* They exist.
LEMMA WritingExists ==
    ASSUME NEW base \in {10, 16}, NEW m \in Nat
    PROVE  \E g : Writing(g, m, base)
<1> DEFINE S == {k \in Nat : \E g : Writing(g, k, base)}
<1>1. 0 \in S
  <2>1. Writing([n \in 0 .. 0 |-> <<>> \o <<n % base>>], 0, base)
    BY DEF Writing
  <2> QED BY <2>1
<1>2. ASSUME NEW k \in 0 .. m - 1, k \in S PROVE k + 1 \in S
  <2>1. PICK g : Writing(g, k, base)
    BY <1>2
  <2> DEFINE E(f, n) == (IF n < base THEN <<>> ELSE f[n \div base]) \o <<n % base>>
  <2> DEFINE h == [n \in 0 .. k + 1 |-> IF n = k + 1 THEN E(g, n) ELSE g[n]]
  <2>2. ASSUME NEW n \in 0 .. k + 1 PROVE h[n] = E(h, n)
    <3>1. n \in Nat
      OBVIOUS
    <3>3. PICK q \in Nat : q = n \div base /\ (n >= base => q < n)
      BY <3>1, LastDigit
    <3>4. n >= base => h[q] = g[q]
      BY <3>3
    <3>5. E(h, n) = E(g, n)
      <4>1. CASE n < base
        BY <4>1
      <4>2. CASE ~ n < base
        <5>1. n >= base
          BY <4>2
        <5> QED BY <3>3, <3>4, <5>1
      <4> QED BY <4>1, <4>2
    <3>6. CASE n = k + 1
      <4>1. h[n] = E(g, n)
        BY <3>6
      <4> HIDE DEF h, E
      <4> QED BY <3>5, <4>1
    <3>7. CASE n # k + 1
      <4>1. n \in 0 .. k
        BY <3>7
      <4>2. h[n] = g[n]
        BY <3>7
      <4>3. g[n] = E(g, n)
        BY <2>1, <4>1 DEF Writing
      <4> HIDE DEF h, E
      <4> QED BY <3>5, <4>2, <4>3
    <3> QED BY <3>6, <3>7
  <2>3. h = [n \in 0 .. k + 1 |-> E(h, n)]
    BY <2>2
  <2>4. Writing(h, k + 1, base)
    BY <2>3, Zenon DEF Writing
  <2> HIDE DEF h
  <2> QED BY <2>4
<1> HIDE DEF S
<1>3. \A k \in 0 .. m : k \in S
  BY <1>1, <1>2, Steps
<1> QED BY <1>3 DEF S

\* Digits that stand for a number, without leading zeros.
DigitsFor(d, n, base) ==
    /\ d \in Seq(Nat) /\ Len(d) >= 1 /\ \A i \in 1 .. Len(d) : d[i] \in 0 .. base - 1
    /\ d[1] = 0 => n = 0
    /\ n = 0 => Len(d) = 1
    /\ ReadBack(Chars(d), base) = n

\* The characters of digits.
LEMMA CharsBytes ==
    ASSUME NEW d \in Seq(Nat), NEW base \in {10, 16}, \A i \in 1 .. Len(d) : d[i] \in 0 .. base - 1
    PROVE  /\ Chars(d) \in Seq(Nat) /\ Len(Chars(d)) = Len(d)
           /\ \A i \in 1 .. Len(d) : Chars(d)[i] = Char(d[i])
<1>1. Chars(d) = [i \in 1 .. Len(d) |-> Char(d[i])]
  BY DEF Chars
<1>2. ASSUME NEW i \in 1 .. Len(d) PROVE Char(d[i]) \in Nat
  <2>1. base \in Nat /\ base <= 16
    OBVIOUS
  <2>2. PICK e \in 0 .. base - 1 : e = d[i]
    OBVIOUS
  <2>3. e \in 0 .. 15
    BY <2>1
  <2> QED BY <2>2, <2>3, CharDigit
<1> QED BY <1>1, <1>2

\* One more digit is one more character.
LEMMA CharsNext ==
    ASSUME NEW d \in Seq(Nat), NEW base \in {10, 16}, \A i \in 1 .. Len(d) : d[i] \in 0 .. base - 1,
           NEW e \in 0 .. base - 1
    PROVE  /\ Chars(d \o <<e>>) = Chars(d) \o <<Char(e)>>
           /\ d \o <<e>> \in Seq(Nat) /\ Len(d \o <<e>>) = Len(d) + 1
           /\ \A i \in 1 .. Len(d) + 1 : (d \o <<e>>)[i] \in 0 .. base - 1
<1>1. PICK m \in Nat : m = Len(d)
  OBVIOUS
<1>2. PICK t : t = d \o <<e>>
  OBVIOUS
<1>3. t \in Seq(Nat) /\ Len(t) = m + 1 /\ t[m + 1] = e /\ \A i \in 1 .. m : t[i] = d[i]
  BY <1>1, <1>2
<1>4. ASSUME NEW i \in 1 .. m + 1 PROVE t[i] \in 0 .. base - 1
  <2>1. CASE i = m + 1
    BY <1>3, <2>1
  <2>2. CASE i # m + 1
    <3>1. i \in 1 .. m
      BY <2>2
    <3>2. t[i] = d[i] /\ d[i] \in 0 .. base - 1
      BY <1>1, <1>3, <3>1
    <3> QED BY <3>2
  <2> QED BY <2>1, <2>2
<1>5. PICK c : c = Chars(d)
  OBVIOUS
<1>6. c \in Seq(Nat) /\ Len(c) = m /\ \A i \in 1 .. m : c[i] = Char(d[i])
  BY <1>1, <1>5, CharsBytes
<1>7. PICK u : u = Chars(t)
  OBVIOUS
<1>8. u \in Seq(Nat) /\ Len(u) = m + 1 /\ \A i \in 1 .. m + 1 : u[i] = Char(t[i])
  BY <1>3, <1>4, <1>7, CharsBytes
<1>9. Char(e) \in Nat
  <2>1. e \in 0 .. 15
    OBVIOUS
  <2> QED BY <2>1, CharDigit
<1>10. PICK x \in Nat : x = Char(e)
  BY <1>9
<1>11. PICK v : v = c \o <<x>>
  OBVIOUS
<1>12. v \in Seq(Nat) /\ Len(v) = m + 1 /\ v[m + 1] = x /\ \A i \in 1 .. m : v[i] = c[i]
  BY <1>6, <1>11
<1>13. ASSUME NEW i \in 1 .. m + 1 PROVE u[i] = v[i]
  <2>1. CASE i = m + 1
    BY <1>3, <1>8, <1>10, <1>12, <2>1
  <2>2. CASE i # m + 1
    <3>1. i \in 1 .. m
      BY <2>2
    <3> QED BY <1>3, <1>6, <1>8, <1>12, <3>1
  <2> QED BY <2>1, <2>2
<1>14. u = v
  BY <1>8, <1>12, <1>13, Same
<1>15. Chars(d \o <<e>>) = Chars(d) \o <<Char(e)>>
  BY <1>2, <1>5, <1>7, <1>10, <1>11, <1>14
<1> QED BY <1>1, <1>2, <1>3, <1>4, <1>15

\* A digit alone.
LEMMA DigitsOne ==
    ASSUME NEW base \in {10, 16}, NEW e \in 0 .. base - 1
    PROVE  DigitsFor(<<>> \o <<e>>, e, base)
<1>1. PICK d : d = <<>> \o <<e>>
  OBVIOUS
<1>2. d \in Seq(Nat) /\ Len(d) = 1 /\ d[1] = e
  BY <1>1
<1>3. PICK z \in Seq(Nat) : z = <<>>
  <2>1. <<>> \in Seq(Nat)
    OBVIOUS
  <2> QED BY <2>1, Zenon
<1>4. Len(z) = 0 /\ \A i \in 1 .. Len(z) : z[i] \in 0 .. base - 1
  BY <1>3
<1>5. Chars(d) = Chars(z) \o <<Char(e)>> /\ \A i \in 1 .. Len(z) + 1 : d[i] \in 0 .. base - 1
  BY <1>1, <1>3, <1>4, CharsNext, ZenonT(60)
<1>6. Chars(z) \in Seq(Nat) /\ Len(Chars(z)) = 0
  BY <1>4, CharsBytes
<1>7. Chars(z) = z
  BY <1>3, <1>6
<1>8. Char(e) \in Nat /\ DigitOf(Char(e)) = e
  <2>1. e \in 0 .. 15
    OBVIOUS
  <2> QED BY <2>1, CharDigit
<1>9. PICK c \in Nat : c = Char(e) /\ DigitOf(c) = e
  BY <1>8
<1>10. ReadBack(z \o <<c>>, base) = base * ReadBack(z, base) + DigitOf(c)
  BY ReadBackNext
<1>11. ReadBack(z, base) = 0
  BY <1>3, ReadBackEmpty
<1>12. ReadBack(Chars(d), base) = base * 0 + e
  BY <1>5, <1>7, <1>9, <1>10, <1>11
<1>13. base * 0 + e = e
  <2>1. base \in Int /\ e \in Int
    OBVIOUS
  <2> QED BY <2>1
<1> QED BY <1>1, <1>2, <1>4, <1>5, <1>12, <1>13 DEF DigitsFor

\* One more digit.
LEMMA DigitsNext ==
    ASSUME NEW base \in {10, 16}, NEW d, NEW q \in Nat, q >= 1, DigitsFor(d, q, base),
           NEW e \in 0 .. base - 1, NEW n \in Nat, n = base * q + e
    PROVE  DigitsFor(d \o <<e>>, n, base)
<1>1. d \in Seq(Nat) /\ Len(d) \in Nat /\ Len(d) >= 1
      /\ (\A i \in 1 .. Len(d) : d[i] \in 0 .. base - 1) /\ d[1] # 0
  BY DEF DigitsFor
<1>2. ReadBack(Chars(d), base) = q
  BY DEF DigitsFor
<1>3. PICK t : t = d \o <<e>>
  OBVIOUS
<1>4. Chars(t) = Chars(d) \o <<Char(e)>> /\ t \in Seq(Nat) /\ Len(t) = Len(d) + 1
      /\ \A i \in 1 .. Len(d) + 1 : t[i] \in 0 .. base - 1
  BY <1>1, <1>3, CharsNext
<1>5. t[1] = d[1]
  BY <1>1, <1>3
<1>6. Char(e) \in Nat /\ DigitOf(Char(e)) = e
  <2>1. e \in 0 .. 15
    OBVIOUS
  <2> QED BY <2>1, CharDigit
<1>7. PICK c \in Nat : c = Char(e) /\ DigitOf(c) = e
  BY <1>6
<1>8. PICK u \in Seq(Nat) : u = Chars(d)
  BY <1>1, CharsBytes
<1>9. ReadBack(u \o <<c>>, base) = base * ReadBack(u, base) + DigitOf(c)
  BY ReadBackNext
<1>10. ReadBack(Chars(t), base) = n
  BY <1>2, <1>4, <1>7, <1>8, <1>9
<1>11. n # 0
  <2>1. base \in Nat /\ base >= 10
    OBVIOUS
  <2>2. CASE base = 10
    BY <2>2
  <2>3. CASE base = 16
    BY <2>3
  <2> QED BY <2>2, <2>3
<1> QED BY <1>1, <1>3, <1>4, <1>5, <1>10, <1>11 DEF DigitsFor

\* The loops of _fput_uint and _fput_uint_hex store the digits of the number.
LEMMA DigitsEffect ==
    ASSUME NEW base \in {10, 16}, NEW x \in 0 .. Modulus - 1
    PROVE  DigitsFor(Digits(x, base), x, base)
<1>1. PICK m \in Nat : m = Modulus - 1
  BY StdioAssumption
<1>2. PICK g : g = CHOOSE f : Writing(f, m, base)
  OBVIOUS
<1>3. Writing(g, m, base)
  BY <1>2, WritingExists
<1>4. Digits(x, base) = g[x]
  BY <1>1, <1>2 DEF Digits, Writing
<1> DEFINE S == {k \in Nat : \A n \in 0 .. k : DigitsFor(g[n], n, base)}
<1>5. ASSUME NEW n \in 0 .. m, \A i \in 0 .. n - 1 : DigitsFor(g[i], i, base)
      PROVE  DigitsFor(g[n], n, base)
  <2>1. n \in Nat
    OBVIOUS
  <2>2. PICK q \in Nat, e \in 0 .. base - 1 :
            /\ q = n \div base /\ e = n % base /\ n = base * q + e
            /\ q <= n /\ (n >= base => q < n /\ q >= 1)
    BY <2>1, LastDigit
  <2>3. g[n] = (IF n < base THEN <<>> ELSE g[n \div base]) \o <<n % base>>
    BY <1>3 DEF Writing
  <2>4. CASE n < base
    <3>1. n \in 0 .. base - 1
      BY <2>1, <2>4
    <3>2. e = n
      <4>1. CASE base = 10
        BY <2>2, <2>4, <4>1
      <4>2. CASE base = 16
        BY <2>2, <2>4, <4>2
      <4> QED BY <4>1, <4>2
    <3>3. g[n] = <<>> \o <<n>>
      BY <2>2, <2>3, <2>4, <3>2
    <3> QED BY <3>1, <3>3, DigitsOne
  <2>5. CASE ~ n < base
    <3>1. n >= base
      BY <2>1, <2>5
    <3>2. q < n /\ q >= 1 /\ q \in 0 .. n - 1
      BY <2>2, <3>1
    <3>3. g[n] = g[q] \o <<e>>
      BY <2>2, <2>3, <2>5
    <3>4. DigitsFor(g[q], q, base)
      BY <1>5, <3>2
    <3>5. PICK d : d = g[q]
      OBVIOUS
    <3>6. DigitsFor(d \o <<e>>, n, base)
      BY <2>1, <2>2, <3>2, <3>4, <3>5, DigitsNext
    <3> QED BY <3>3, <3>5, <3>6
  <2> QED BY <2>4, <2>5
<1>6. 0 \in S
  <2>1. DigitsFor(g[0], 0, base)
    BY <1>5
  <2>2. \A n \in 0 .. 0 : n = 0
    OBVIOUS
  <2> QED BY <2>1, <2>2
<1>7. ASSUME NEW k \in 0 .. m - 1, k \in S PROVE k + 1 \in S
  <2>1. \A i \in 0 .. (k + 1) - 1 : DigitsFor(g[i], i, base)
    <3>1. (k + 1) - 1 = k
      OBVIOUS
    <3> QED BY <1>7, <3>1
  <2>2. k + 1 \in 0 .. m
    OBVIOUS
  <2>3. DigitsFor(g[k + 1], k + 1, base)
    BY <1>5, <2>1, <2>2
  <2>4. \A n \in 0 .. k + 1 : n \in 0 .. k \/ n = k + 1
    OBVIOUS
  <2>5. k + 1 \in Nat
    OBVIOUS
  <2> QED BY <1>7, <2>3, <2>4, <2>5
<1> HIDE DEF S
<1>8. \A k \in 0 .. m : k \in S
  BY <1>6, <1>7, Steps
<1>9. x \in 0 .. m /\ x \in 0 .. x
  BY <1>1
<1>10. DigitsFor(g[x], x, base)
  BY <1>8, <1>9 DEF S
<1> QED BY <1>4, <1>10

\* A text and the zero behind it.
LEMMA DropLast ==
    ASSUME NEW s \in Seq(Nat), NEW t, t = s \o << 0 >>
    PROVE  t \in Seq(Nat) /\ Len(t) = Len(s) + 1 /\ SubSeq(t, 1, Len(t) - 1) = s
<1>1. PICK m \in Nat : m = Len(s)
  OBVIOUS
<1>2. t \in Seq(Nat) /\ Len(t) = m + 1 /\ \A i \in 1 .. m : t[i] = s[i]
  BY <1>1
<1>3. PICK p : p = SubSeq(t, 1, m)
  OBVIOUS
<1>4. p \in Seq(Nat) /\ Len(p) = m /\ \A i \in 1 .. m : p[i] = t[i]
  BY <1>2, <1>3
<1>5. p = s
  BY <1>1, <1>2, <1>4, Same, SMTT(60)
<1>6. Len(t) - 1 = m
  BY <1>2
<1> QED BY <1>1, <1>2, <1>3, <1>5, <1>6

\* A number below the modulus is its own remainder.
LEMMA SmallRemainder ==
    ASSUME NEW k \in Nat, NEW m \in Nat \ {0}, k < m
    PROVE  k % m = k
<1>1. k \div m \in Int /\ k % m \in 0 .. m - 1
  OBVIOUS
<1>2. PICK q \in Int, r \in 0 .. m - 1 : q = k \div m /\ r = k % m
  BY <1>1
<1>3. k = m * q + r
  BY <1>2
<1>4. q <= 0
  <2>1. SUFFICES ASSUME q >= 1 PROVE FALSE
    OBVIOUS
  <2>2. m * q >= m
    BY <2>1
  <2> QED BY <1>3, <2>2
<1>5. q >= 0
  <2>1. SUFFICES ASSUME q <= -1 PROVE FALSE
    OBVIOUS
  <2>2. m * q <= -m
    BY <2>1
  <2> QED BY <1>3, <2>2
<1>6. q = 0
  BY <1>4, <1>5
<1> QED BY <1>2, <1>3, <1>6

\* A text that stands for a number.
NumberText(text, n, base) ==
    /\ text \in Seq(Nat) /\ Len(text) >= 1 /\ (text[1] = 48 => Len(text) = 1)
    /\ ReadBack(text, base) = n

\* _fput_uint and _fput_uint_hex write the number and a zero.
LEMMA FputUintEffect ==
    ASSUME NEW base \in {10, 16}, NEW x \in 0 .. Modulus - 1
    PROVE  \E text \in Seq(Nat) : FputUint(x, base) = text \o <<0>> /\ NumberText(text, x, base)
<1>1. PICK d : d = Digits(x, base)
  OBVIOUS
<1>2. DigitsFor(d, x, base)
  BY <1>1, DigitsEffect
<1>3. PICK text : text = Chars(d)
  OBVIOUS
<1>4. FputUint(x, base) = text \o <<0>>
  <2>1. FputUint(x, base) = Chars(Digits(x, base)) \o <<0>>
    BY Zenon DEF FputUint, Chars, Char
  <2> QED BY <1>1, <1>3, <2>1
<1>5. /\ d \in Seq(Nat) /\ Len(d) \in Nat /\ Len(d) >= 1 /\ \A i \in 1 .. Len(d) : d[i] \in 0 .. base - 1
      /\ d[1] = 0 => Len(d) = 1
  BY <1>2 DEF DigitsFor
<1>6. text \in Seq(Nat) /\ Len(text) = Len(d) /\ text[1] = Char(d[1])
  <2>1. 1 \in 1 .. Len(d)
    BY <1>5
  <2>2. text \in Seq(Nat) /\ Len(text) = Len(d) /\ \A i \in 1 .. Len(d) : text[i] = Char(d[i])
    BY <1>3, <1>5, CharsBytes
  <2> QED BY <2>1, <2>2
<1>7. text[1] = 48 => d[1] = 0
  <2>1. base \in Nat /\ base <= 16 /\ d[1] \in 0 .. base - 1
    BY <1>5
  <2>2. PICK e \in 0 .. 15 : e = d[1]
    BY <2>1
  <2> QED BY <1>6, <2>2, CharDigit
<1>8. ReadBack(text, base) = x
  BY <1>2, <1>3 DEF DigitsFor
<1>9. NumberText(text, x, base)
  BY <1>5, <1>6, <1>7, <1>8 DEF NumberText
<1> QED BY <1>4, <1>6, <1>9

\* What printf writes for a conversion.
Printed(conversion, todo) ==
    LET base == IF conversion.spec = "x" THEN 16 ELSE 10
        text == SubSeq(todo, 1, Len(todo) - 1)
        digits == IF conversion.value < 0 THEN Tail(text) ELSE text
        magnitude == IF conversion.value < 0 THEN -conversion.value ELSE conversion.value
    IN  /\ conversion.value < 0 => text[1] = 45
        /\ digits # <<>> /\ (digits[1] = 48 => Len(digits) = 1)
        /\ magnitude = ReadBack(digits, base)

\* A number that is not negative.
LEMMA PrintedUnsigned ==
    ASSUME NEW conversion, conversion.value \in 0 .. Modulus - 1, NEW base \in {10, 16},
           base = IF conversion.spec = "x" THEN 16 ELSE 10,
           NEW todo, todo = FputUint(conversion.value, base)
    PROVE  todo \in Seq(Nat) /\ todo # <<>> /\ Printed(conversion, todo)
<1>1. PICK text \in Seq(Nat) : todo = text \o <<0>> /\ NumberText(text, conversion.value, base)
  BY FputUintEffect
<1>2. todo \in Seq(Nat) /\ Len(todo) = Len(text) + 1 /\ SubSeq(todo, 1, Len(todo) - 1) = text
  BY <1>1, DropLast
<1>3. ~ conversion.value < 0
  BY StdioAssumption
<1>4. Len(text) >= 1 /\ (text[1] = 48 => Len(text) = 1) /\ ReadBack(text, base) = conversion.value
  BY <1>1 DEF NumberText
<1>5. text # <<>> /\ todo # <<>>
  BY <1>2, <1>4
<1> QED BY <1>2, <1>3, <1>4, <1>5 DEF Printed

\* A negative number: a minus sign before it.
LEMMA PrintedNegative ==
    ASSUME NEW conversion, conversion.spec = "d", conversion.value \in Int, conversion.value < 0,
           2 * conversion.value >= -Modulus, NEW todo, todo = FputInt(conversion.value)
    PROVE  todo \in Seq(Nat) /\ todo # <<>> /\ Printed(conversion, todo)
<1>1. PICK x \in Nat, m \in Nat \ {0} : x = -conversion.value /\ m = Modulus
  BY StdioAssumption
<1>2. x < m /\ x \in 0 .. Modulus - 1
  BY <1>1
<1>3. x % m = x
  BY <1>2, SmallRemainder
<1>4. todo = <<45>> \o FputUint(x, 10)
  BY <1>1, <1>3 DEF FputInt
<1>5. PICK text \in Seq(Nat) : FputUint(x, 10) = text \o <<0>> /\ NumberText(text, x, 10)
  BY <1>2, FputUintEffect
<1>6. PICK s : s = <<45>> \o text
  OBVIOUS
<1>7. s \in Seq(Nat) /\ s[1] = 45 /\ Len(s) = Len(text) + 1
  BY <1>6
<1>8. Tail(s) = text
  <2>1. PICK n \in Nat : n = Len(text)
    OBVIOUS
  <2>2. PICK u : u = Tail(s)
    OBVIOUS
  <2>3. u \in Seq(Nat) /\ Len(u) = n /\ \A i \in 1 .. n : u[i] = text[i]
    BY <1>6, <2>1, <2>2
  <2> QED BY <2>1, <2>2, <2>3, Same
<1>9. todo = s \o <<0>>
  BY <1>4, <1>5, <1>6
<1>10. todo \in Seq(Nat) /\ Len(todo) = Len(s) + 1 /\ SubSeq(todo, 1, Len(todo) - 1) = s
  BY <1>7, <1>9, DropLast
<1>11. Len(text) >= 1 /\ (text[1] = 48 => Len(text) = 1) /\ ReadBack(text, 10) = x
  BY <1>5 DEF NumberText
<1>12. text # <<>> /\ todo # <<>>
  BY <1>7, <1>10, <1>11
<1> QED BY <1>1, <1>7, <1>8, <1>10, <1>11, <1>12 DEF Printed

\* Every conversion is printed right.
LEMMA FormattedEffect ==
    ASSUME NEW conversion \in Conversions, NEW todo, todo = Formatted(conversion)
    PROVE  todo \in Seq(Nat) /\ todo # <<>> /\ Printed(conversion, todo)
<1>1. CASE conversion.spec = "u" /\ conversion.value \in 0 .. Modulus - 1
  <2>1. todo = FputUint(conversion.value, 10)
    BY <1>1 DEF Formatted
  <2> QED BY <1>1, <2>1, PrintedUnsigned
<1>2. CASE conversion.spec = "x" /\ conversion.value \in 0 .. Modulus - 1
  <2>1. todo = FputUint(conversion.value, 16)
    BY <1>2 DEF Formatted
  <2> QED BY <1>2, <2>1, PrintedUnsigned
<1>3. CASE /\ conversion.spec = "d" /\ conversion.value \in Int
           /\ 2 * conversion.value \in -Modulus .. Modulus - 1
  <2>1. todo = FputInt(conversion.value)
    BY <1>3 DEF Formatted
  <2>2. conversion.value \in Int
    BY <1>3
  <2>3. CASE conversion.value < 0
    BY <1>3, <2>1, <2>2, <2>3, PrintedNegative, StdioAssumption
  <2>4. CASE ~ conversion.value < 0
    <3>1. todo = FputUint(conversion.value, 10)
      BY <2>1, <2>4 DEF FputInt
    <3>2. conversion.value \in 0 .. Modulus - 1
      BY <1>3, <2>2, <2>4, StdioAssumption
    <3> QED BY <1>3, <3>1, <3>2, PrintedUnsigned
  <2> QED BY <2>3, <2>4
<1> QED BY <1>1, <1>2, <1>3, ConversionsAssumption

\* The number that a program passes to printf is the one a reader of the file
\* finds: for every uint32_t and int32_t, the smallest one and 0 too.
THEOREM NumbersHold == Spec => NumbersReadBack
<1> DEFINE A == \A conversion \in Conversions :
                    Fprintf(conversion) => Printed(conversion, call'.todo)
<1>1. A
  <2> SUFFICES ASSUME NEW conversion \in Conversions, Fprintf(conversion)
               PROVE  Printed(conversion, call'.todo)
    OBVIOUS
  <2>1. call'.todo = Formatted(conversion)
    BY DEF Fprintf, CallOf, IDLE
  <2> QED BY <2>1, FormattedEffect
<1>2. [Next]_vars => [A]_vars
  BY <1>1
<1>3. Spec => [][A]_vars
  BY <1>2, PTL DEF Spec
<1> QED BY <1>3 DEF NumbersReadBack, Printed

-----------------------------------------------------------------------------
(* The calls of a program                                                  *)

AllTexts == Texts \cup {Formatted(c) : c \in Conversions}
Streams == [fd : Nat, buffer : Seq(Nat)]
Calls == [op : {"none", "fwrite", "fprintf", "fflush", "fclose", "fseek"}, todo : Seq(Nat),
          offset : Int, whence : {"SEEK_SET", "SEEK_CUR", "SEEK_END"}]
Opened == [ino : {1}, pos : Nat]

\* The file, its open files and the stream: the stream is one of them.
Shape(c, o, s) ==
    /\ c \in Seq(Seq(Nat)) /\ o \in Seq(Opened) /\ s \in Streams
    /\ Len(c) <= 1 /\ (o # <<>> => Len(c) = 1)
    /\ s = CLOSED \/ s.fd \in 1 .. Len(o)

\* What is left to write is the end of a text.
Remains(todo) ==
    todo # <<>> => \E t \in AllTexts : \E k \in 1 .. Len(t) : todo = SubSeq(t, k, Len(t))

\* Wherever a seek begins, it stays within the bound: a flush moves the end of
\* the file to the position of the program at most.
SeekBounded ==
    call.op = "fseek" => /\ call.todo = <<>> /\ call.offset <= MaxPos
                         /\ Ahead + call.offset <= MaxPos /\ Size + call.offset <= MaxPos

\* Only calls that write have something left to write.
Writers == {"fwrite", "fprintf"}
WritersOnly == call.todo # <<>> => call.op \in Writers

StdioInv ==
    /\ Shape(contents, opened, stream) /\ call \in Calls
    /\ call # IDLE => stream # CLOSED
    /\ Remains(call.todo) /\ SeekBounded /\ WritersOnly

\* Texts are sequences of characters.
LEMMA TextBytes ==
    ASSUME NEW t \in AllTexts
    PROVE  t \in Seq(Nat) /\ Len(t) \in Nat
<1>1. CASE t \in Texts
  <2>1. Texts \subseteq Seq(Nat)
    BY StdioAssumption, Zenon
  <2> QED BY <1>1, <2>1
<1>2. CASE t \in {Formatted(c) : c \in Conversions}
  <2>1. PICK c \in Conversions : t = Formatted(c)
    BY <1>2
  <2> QED BY <2>1, FormattedEffect
<1> QED BY <1>1, <1>2 DEF AllTexts

\* A turn of fwrite takes a part of the text and leaves the rest of it.
LEMMA TurnTakes ==
    ASSUME NEW todo \in Seq(Nat), todo # <<>>, Remains(todo), NEW n \in 1 .. Len(todo)
    PROVE  /\ SubSeq(todo, 1, n) \in Buffers /\ SubSeq(todo, 1, n) \in Seq(Nat)
           /\ Len(SubSeq(todo, 1, n)) = n
           /\ SubSeq(todo, n + 1, Len(todo)) \in Seq(Nat)
           /\ Remains(SubSeq(todo, n + 1, Len(todo)))
<1>1. PICK t \in AllTexts : \E k \in 1 .. Len(t) : todo = SubSeq(t, k, Len(t))
  BY DEF Remains
<1>2. PICK k \in 1 .. Len(t) : todo = SubSeq(t, k, Len(t))
  BY <1>1
<1>3. t \in Seq(Nat)
  BY TextBytes
<1>4. PICK m \in Nat : m = Len(t)
  BY <1>3
<1>5. Len(todo) = m - k + 1 /\ \A i \in 1 .. m - k + 1 : todo[i] = t[k + i - 1]
  BY <1>2, <1>3, <1>4
<1>6. k \in 1 .. m /\ n \in 1 .. m - k + 1
  BY <1>2, <1>4, <1>5
<1>7. PICK j \in 1 .. m : j = k + n - 1
  BY <1>6
<1>8. PICK p : p = SubSeq(todo, 1, n)
  OBVIOUS
<1>9. p \in Seq(Nat) /\ Len(p) = n /\ \A i \in 1 .. n : p[i] = todo[i]
  BY <1>8
<1>10. PICK q : q = SubSeq(t, k, j)
  OBVIOUS
<1>11. q \in Seq(Nat) /\ Len(q) = n /\ \A i \in 1 .. n : q[i] = t[k + i - 1]
  BY <1>3, <1>4, <1>6, <1>7, <1>10, SMTT(60)
<1>12. p = q
  <2>1. ASSUME NEW i \in 1 .. n PROVE p[i] = q[i]
    <3>1. i \in 1 .. m - k + 1
      BY <1>6
    <3> QED BY <1>5, <1>9, <1>11, <3>1
  <2> QED BY <1>9, <1>11, <2>1, Same
<1>13. p \in Buffers
  <2>1. p # <<>>
    BY <1>9
  <2>2. p \in Segments(t)
    <3>1. k \in 1 .. Len(t) /\ j \in 1 .. Len(t) /\ p = SubSeq(t, k, j)
      BY <1>2, <1>4, <1>7, <1>10, <1>12
    <3>2. p \in {SubSeq(t, x, y) : x, y \in 1 .. Len(t)}
      BY <3>1
    <3> QED BY <2>1, <3>2 DEF Segments
  <2> QED BY <2>2 DEF Buffers, AllTexts
<1>14. PICK r : r = SubSeq(todo, n + 1, Len(todo))
  OBVIOUS
<1>15. r \in Seq(Nat) /\ Len(r) = m - j /\ \A i \in 1 .. m - j : r[i] = todo[n + i]
  <2>1. PICK l \in Nat : l = Len(todo) /\ l = m - k + 1 /\ l - n = m - j /\ n <= l
    BY <1>5, <1>6, <1>7
  <2>2. r = SubSeq(todo, n + 1, l)
    BY <1>14, <2>1
  <2>3. r \in Seq(Nat) /\ Len(r) = l - n /\ \A i \in 1 .. l - n : r[i] = todo[n + i]
    <3>1. PICK a \in Nat \ {0} : a = n + 1 /\ a <= l + 1 /\ l - a + 1 = l - n /\ l <= Len(todo)
      BY <2>1
    <3>2. /\ SubSeq(todo, a, l) \in Seq(Nat) /\ Len(SubSeq(todo, a, l)) = l - a + 1
          /\ \A i \in 1 .. l - a + 1 : SubSeq(todo, a, l)[i] = todo[a + i - 1]
      BY <3>1, PartBytes
    <3>3. r = SubSeq(todo, a, l)
      BY <2>2, <3>1
    <3>4. \A i \in 1 .. l - n : a + i - 1 = n + i
      BY <3>1
    <3> QED BY <3>1, <3>2, <3>3, <3>4
  <2> QED BY <2>1, <2>3
<1>16. Remains(r)
  <2>1. SUFFICES ASSUME r # <<>> PROVE \E i \in 1 .. Len(t) : r = SubSeq(t, i, Len(t))
    BY DEF Remains
  <2>2. PICK i \in 1 .. m : i = j + 1
    BY <1>15, <2>1, <1>7
  <2>3. PICK u : u = SubSeq(t, i, m)
    OBVIOUS
  <2>4. u \in Seq(Nat) /\ Len(u) = m - j /\ \A x \in 1 .. m - j : u[x] = t[i + x - 1]
    <3>1. u \in Seq(Nat) /\ Len(u) = m - i + 1 /\ \A x \in 1 .. m - i + 1 : u[x] = t[i + x - 1]
      <4>1. i \in Nat \ {0} /\ m <= Len(t) /\ i <= m + 1
        BY <1>4, <2>2
      <4> QED BY <1>3, <2>3, <4>1, PartBytes
    <3>2. m - i + 1 = m - j
      BY <1>7, <2>2
    <3> QED BY <3>1, <3>2
  <2>5. ASSUME NEW x \in 1 .. m - j PROVE r[x] = u[x]
    <3>1. n + x \in 1 .. m - k + 1 /\ k + (n + x) - 1 = i + x - 1
      BY <1>6, <1>7, <2>2
    <3>2. r[x] = todo[n + x] /\ todo[n + x] = t[k + (n + x) - 1]
      BY <1>5, <1>15, <3>1
    <3> QED BY <2>4, <3>1, <3>2
  <2>6. r = u
    BY <1>15, <2>4, <2>5, Same
  <2> QED BY <1>4, <2>2, <2>3, <2>6
<1> QED BY <1>8, <1>9, <1>13, <1>14, <1>15, <1>16

-----------------------------------------------------------------------------
(* The file that the program sees                                          *)

ShownIn(c, o, s) == s # CLOSED /\ o[s.fd].pos <= Len(c[o[s.fd].ino])
BarC(c, o, s) ==
    IF ShownIn(c, o, s)
    THEN [c EXCEPT ![o[s.fd].ino] = Over(c[o[s.fd].ino], o[s.fd].pos, s.buffer)] ELSE c
BarO(c, o, s) ==
    [f \in DOMAIN o |-> IF ShownIn(c, o, s) /\ f = s.fd
                        THEN [o[s.fd] EXCEPT !.pos = o[s.fd].pos + Len(s.buffer)] ELSE o[f]]

CBar == BarC(contents, opened, stream)
OBar == BarO(contents, opened, stream)

\* It is the file of the refinement mapping.
LEMMA BarIsStream == Stream!vars = <<CBar, OBar, Answer, stopped>>
BY DEF Stream!vars, CBar, OBar, BarC, BarO, ShownIn, Shown, Reaches, Size, Ahead, File, Over,
       Kernel!Overwritten

\* A step that the program does not see.
LEMMA MapStutter ==
    ASSUME CBar' = CBar, OBar' = OBar, Answer' = Answer, stopped' = stopped
    PROVE  UNCHANGED Stream!vars
<1>1. Stream!vars = <<CBar, OBar, Answer, stopped>>
  BY BarIsStream
<1>2. (Stream!vars)' = <<CBar', OBar', Answer', stopped'>>
  BY DEF Stream!vars, CBar, OBar, BarC, BarO, ShownIn, Shown, Reaches, Size, Ahead, File, Over,
         Kernel!Overwritten
<1> QED BY <1>1, <1>2

\* A call that changes nothing fails, or returns 0.
LEMMA MapRefuse ==
    ASSUME ~ stopped, Answer' \in {Kernel!Failed, Kernel!Done}, CBar' = CBar, OBar' = OBar, stopped' = stopped
    PROVE  Stream!Next
<1>1. Stream!Refuse
  BY DEF Stream!Refuse, Stream!Returned, Kernel!Failed, Kernel!Done, Kernel!Returned,
         CBar, OBar, BarC, BarO, ShownIn, Shown, Reaches, Size, Ahead, File, Over,
         Kernel!Overwritten
<1> QED BY <1>1 DEF Stream!Next

\* A write of what a turn of fwrite copies.
LEMMA MapWrite ==
    ASSUME NEW f \in DOMAIN OBar, NEW data \in Buffers,
           ~ stopped, OBar[f].pos <= Len(CBar[OBar[f].ino]),
           CBar' = [CBar EXCEPT ![OBar[f].ino] = Over(@, OBar[f].pos, data)],
           OBar' = [OBar EXCEPT ![f].pos = OBar[f].pos + Len(data)],
           Answer' = Kernel!Done, stopped' = stopped
    PROVE  Stream!Next
<1>1. Stream!Write(f, data)
  BY DEF Stream!Write, Stream!Overwritten, Stream!Returned, Kernel!Done, Kernel!Returned,
         CBar, OBar, BarC, BarO, ShownIn, Shown, Reaches, Size, Ahead, File, Over,
         Kernel!Overwritten
<1> QED BY <1>1 DEF Stream!Next, OBar, BarO

\* The file is made.
LEMMA MapCreate ==
    ASSUME CBar = contents, OBar = opened, CBar' = contents', OBar' = opened', Answer' = result',
           Kernel!Create
    PROVE  Stream!Next
<1>1. Stream!Create
  BY DEF Kernel!Create, Stream!Create, Kernel!Returned, Stream!Returned, Kernel!Done, Stream!Done,
         CBar, OBar, BarC, BarO, ShownIn, Shown, Reaches, Size, Ahead, File, Over,
         Kernel!Overwritten
<1> QED BY <1>1 DEF Stream!Next, CBar, OBar, BarC, BarO, ShownIn, Shown, Reaches, Size, Ahead, File,
         Over, Kernel!Overwritten

\* It is opened.
LEMMA MapOpen ==
    ASSUME CBar = contents, OBar = opened, CBar' = contents', OBar' = opened', Answer' = result',
           1 \in DOMAIN contents, Kernel!Open(1)
    PROVE  Stream!Next
<1>1. Stream!Open(1)
  BY DEF Kernel!Open, Stream!Open, Kernel!Returned, Stream!Returned, Kernel!Done, Stream!Done,
         CBar, OBar, BarC, BarO, ShownIn, Shown, Reaches, Size, Ahead, File, Over,
         Kernel!Overwritten
<1> QED BY <1>1 DEF Stream!Next, CBar, OBar, BarC, BarO, ShownIn, Shown, Reaches, Size, Ahead, File,
         Over, Kernel!Overwritten

\* With nothing in the buffer, it is read where the kernel reads it.
LEMMA MapRead ==
    ASSUME CBar = contents, OBar = opened, CBar' = contents', OBar' = opened', Answer' = result',
           NEW f \in DOMAIN opened, NEW size \in ReadSizes, Kernel!Read(f, size)
    PROVE  Stream!Next
<1>1. Stream!Read(f, size)
  BY DEF Kernel!Read, Stream!Read, Kernel!Returned, Stream!Returned,
         CBar, OBar, BarC, BarO, ShownIn, Shown, Reaches, Size, Ahead, File, Over,
         Kernel!Overwritten
<1> QED BY <1>1 DEF Stream!Next, CBar, OBar, BarC, BarO, ShownIn, Shown, Reaches, Size, Ahead, File,
         Over, Kernel!Overwritten

\* And the position is moved.
LEMMA MapSeek ==
    ASSUME CBar = contents, OBar = opened, CBar' = contents', OBar' = opened', Answer' = result',
           NEW f \in DOMAIN opened, NEW pos \in 0 .. MaxPos, Kernel!Seek(f, pos)
    PROVE  Stream!Next
<1>1. Stream!Seek(f, pos)
  BY DEF Kernel!Seek, Stream!Seek, Kernel!Returned, Stream!Returned,
         CBar, OBar, BarC, BarO, ShownIn, Shown, Reaches, Size, Ahead, File, Over,
         Kernel!Overwritten
<1> QED BY <1>1 DEF Stream!Next, CBar, OBar, BarC, BarO, ShownIn, Shown, Reaches, Size, Ahead, File,
         Over, Kernel!Overwritten

\* The machine stops.
LEMMA MapStop ==
    ASSUME CBar' = CBar, OBar' = OBar, Answer' = Answer, ~ stopped, stopped' = TRUE
    PROVE  Stream!Next
<1>1. Stream!Stop
  BY DEF Stream!Stop,
         CBar, OBar, BarC, BarO, ShownIn, Shown, Reaches, Size, Ahead, File, Over,
         Kernel!Overwritten
<1> QED BY <1>1 DEF Stream!Next

\* A sequence of one.
LEMMA OneFile ==
    ASSUME NEW T, NEW c \in Seq(T), Len(c) = 1
    PROVE  c[1] \in T /\ DOMAIN c = {1}
OBVIOUS

\* An open stream.
LEMMA OpenStream ==
    ASSUME NEW c, NEW o, NEW s, Shape(c, o, s), s # CLOSED
    PROVE  /\ s.fd \in 1 .. Len(o) /\ DOMAIN o = 1 .. Len(o) /\ o[s.fd] \in Opened
           /\ o[s.fd].ino = 1 /\ o[s.fd].pos \in Nat
           /\ c \in Seq(Seq(Nat)) /\ Len(c) = 1 /\ DOMAIN c = {1} /\ c[1] \in Seq(Nat) /\ Len(c[1]) \in Nat
           /\ s.buffer \in Seq(Nat) /\ Len(s.buffer) \in Nat
<1>1. s.fd \in 1 .. Len(o) /\ o \in Seq(Opened) /\ c \in Seq(Seq(Nat)) /\ s \in Streams
  BY DEF Shape
<1>2. Len(c) = 1
  BY <1>1 DEF Shape
<1>3. o[s.fd] \in Opened /\ DOMAIN o = 1 .. Len(o)
  BY <1>1
<1>4. o[s.fd].ino = 1 /\ o[s.fd].pos \in Nat
  BY <1>3 DEF Opened
<1>5. c[1] \in Seq(Nat) /\ DOMAIN c = {1}
  BY <1>1, <1>2, OneFile
<1>6. s.buffer \in Seq(Nat)
  BY <1>1 DEF Streams
<1> QED BY <1>1, <1>2, <1>3, <1>4, <1>5, <1>6

\* With nothing in the buffer, or with a buffer that cannot be written, the
\* program sees the file of the kernel.
LEMMA BarPlain ==
    ASSUME NEW c, NEW o, NEW s, Shape(c, o, s), s.buffer = <<>> \/ ~ ShownIn(c, o, s)
    PROVE  BarC(c, o, s) = c /\ BarO(c, o, s) = o
<1>1. CASE ~ ShownIn(c, o, s)
  <2>1. o \in Seq(Opened)
    BY DEF Shape
  <2>2. BarO(c, o, s) = [f \in DOMAIN o |-> o[f]]
    BY <1>1 DEF BarO
  <2> QED BY <1>1, <2>1, <2>2 DEF BarC
<1>2. CASE s.buffer = <<>> /\ ShownIn(c, o, s)
  <2>1. s # CLOSED
    BY <1>2 DEF ShownIn
  <2>2. PICK fd : fd = s.fd
    OBVIOUS
  <2>3. PICK pos \in Nat : pos = o[fd].pos
    BY <2>1, <2>2, OpenStream
  <2>4. PICK b \in Seq(Nat) : b = c[1]
    BY <2>1, OpenStream
  <2>5. pos <= Len(b)
    BY <1>2, <2>1, <2>2, <2>3, <2>4, OpenStream DEF ShownIn
  <2>6. Over(b, pos, <<>>) = b
    BY <2>5, OverNothing
  <2>7. BarC(c, o, s) = [c EXCEPT ![1] = b]
    BY <1>2, <2>1, <2>2, <2>3, <2>4, <2>6, OpenStream DEF BarC
  <2>8. BarC(c, o, s) = c
    BY <2>1, <2>4, <2>7, OpenStream
  <2>9. pos + 0 = pos /\ Len(<<>>) = 0
    OBVIOUS
  <2>10. ASSUME NEW f \in DOMAIN o PROVE BarO(c, o, s)[f] = o[f]
    <3>1. CASE f = fd
      <4>1. BarO(c, o, s)[f] = [o[fd] EXCEPT !.pos = pos]
        BY <1>2, <2>2, <2>3, <2>9, <3>1 DEF BarO
      <4>2. o[fd] \in Opened
        BY <2>1, <2>2, OpenStream
      <4> QED BY <2>3, <3>1, <4>1, <4>2 DEF Opened
    <3>2. CASE f # fd
      BY <2>2, <3>2 DEF BarO
    <3> QED BY <3>1, <3>2
  <2>11. o \in Seq(Opened)
    BY DEF Shape
  <2>12. BarO(c, o, s) = [f \in DOMAIN o |-> BarO(c, o, s)[f]]
    BY DEF BarO
  <2> QED BY <2>8, <2>10, <2>11, <2>12
<1> QED BY <1>1, <1>2

\* With a buffer, it sees the buffer at its place.
LEMMA BarBuffered ==
    ASSUME NEW c, NEW o, NEW s, Shape(c, o, s), ShownIn(c, o, s)
    PROVE  /\ BarC(c, o, s) = [c EXCEPT ![1] = Over(c[1], o[s.fd].pos, s.buffer)]
           /\ BarO(c, o, s) = [o EXCEPT ![s.fd].pos = o[s.fd].pos + Len(s.buffer)]
<1>1. s # CLOSED
  BY DEF ShownIn
<1>2. o[s.fd].ino = 1 /\ s.fd \in DOMAIN o /\ o \in Seq(Opened) /\ c \in Seq(Seq(Nat))
  BY <1>1, OpenStream DEF Shape
<1>3. BarC(c, o, s) = [c EXCEPT ![1] = Over(c[1], o[s.fd].pos, s.buffer)]
  BY <1>2 DEF BarC
<1>4. BarO(c, o, s) = [o EXCEPT ![s.fd].pos = o[s.fd].pos + Len(s.buffer)]
  BY <1>2 DEF BarO
<1> QED BY <1>3, <1>4

-----------------------------------------------------------------------------
(* The calls keep the shape                                                *)

\* Between calls.
LEMMA IdleInv ==
    ASSUME Shape(contents, opened, stream)', call' = IDLE
    PROVE  StdioInv'
<1>1. IDLE \in Calls /\ IDLE.todo = <<>> /\ IDLE.op = "none"
  BY DEF IDLE, Calls
<1>2. Remains(<<>>)
  BY DEF Remains
<1> QED BY <1>1, <1>2 DEF StdioInv, SeekBounded, WritersOnly, Shape

\* Inside a call, nothing but the call changes.
LEMMA CallInv ==
    ASSUME StdioInv, stream # CLOSED, UNCHANGED <<contents, opened, stream>>, call' \in Calls,
           Remains(call'.todo), SeekBounded', WritersOnly'
    PROVE  StdioInv'
BY DEF StdioInv, Shape

\* The position moves.
LEMMA MovedShape ==
    ASSUME NEW c, NEW o, NEW s, Shape(c, o, s), s # CLOSED, NEW p \in Nat,
           NEW k, k = [o EXCEPT ![s.fd].pos = p]
    PROVE  Shape(c, k, s) /\ k[s.fd].pos = p /\ k[s.fd].ino = 1 /\ DOMAIN k = DOMAIN o
<1>1. /\ s.fd \in 1 .. Len(o) /\ DOMAIN o = 1 .. Len(o) /\ o[s.fd] \in Opened /\ o[s.fd].ino = 1
      /\ o \in Seq(Opened) /\ Len(c) = 1
  BY OpenStream DEF Shape
<1>2. PICK e : e = [o[s.fd] EXCEPT !.pos = p]
  OBVIOUS
<1>3. e \in Opened /\ e.pos = p /\ e.ino = 1
  BY <1>1, <1>2 DEF Opened
<1>4. k = [o EXCEPT ![s.fd] = e]
  BY <1>1, <1>2
<1>5. k \in Seq(Opened) /\ Len(k) = Len(o) /\ DOMAIN k = DOMAIN o /\ k[s.fd] = e
  BY <1>1, <1>3, <1>4
<1> QED BY <1>1, <1>3, <1>5 DEF Shape

\* The stream stays open while its buffer changes.
LEMMA BufferShape ==
    ASSUME NEW c, NEW o, NEW s, Shape(c, o, s), s # CLOSED, NEW b \in Seq(Nat),
           NEW k, k = [s EXCEPT !.buffer = b]
    PROVE  Shape(c, o, k) /\ k # CLOSED /\ k.fd = s.fd /\ k.buffer = b
<1>1. s \in Streams /\ s.fd \in 1 .. Len(o) /\ o \in Seq(Opened)
  BY DEF Shape
<1>2. k \in Streams /\ k.fd = s.fd /\ k.buffer = b
  BY <1>1 DEF Streams
<1>3. k # CLOSED
  <2>1. s.fd # 0
    BY <1>1
  <2> QED BY <1>2, <2>1 DEF CLOSED
<1> QED BY <1>1, <1>2, <1>3 DEF Shape

\* A sequence of one, replaced.
LEMMA OneReplaced ==
    ASSUME NEW T, NEW c \in Seq(T), Len(c) = 1, NEW b \in T
    PROVE  /\ [c EXCEPT ![1] = b] \in Seq(T) /\ Len([c EXCEPT ![1] = b]) = 1
           /\ [c EXCEPT ![1] = b][1] = b
OBVIOUS

\* The file changes.
LEMMA WrittenShape ==
    ASSUME NEW c, NEW o, NEW s, Shape(c, o, s), s # CLOSED, NEW b \in Seq(Nat),
           NEW k, k = [c EXCEPT ![1] = b]
    PROVE  Shape(k, o, s) /\ k[1] = b
<1>1. c \in Seq(Seq(Nat)) /\ Len(c) = 1 /\ DOMAIN c = {1}
  BY OpenStream
<1>2. k \in Seq(Seq(Nat)) /\ Len(k) = 1 /\ k[1] = b
  BY <1>1, OneReplaced
<1> QED BY <1>2 DEF Shape

\* No stream is open.
LEMMA ClosedShape ==
    ASSUME NEW c, NEW o, NEW s, Shape(c, o, s)
    PROVE  Shape(c, o, CLOSED) /\ CLOSED.buffer = <<>> /\ ~ ShownIn(c, o, CLOSED)
<1>1. CLOSED \in Streams /\ CLOSED.buffer = <<>>
  BY DEF CLOSED, Streams
<1> QED BY <1>1 DEF Shape, ShownIn

\* A call is going on.
LEMMA Going ==
    ASSUME StdioInv, call # IDLE \/ call.todo # <<>> \/ stream.buffer # <<>>
    PROVE  stream # CLOSED
BY DEF StdioInv, IDLE, CLOSED

\* A call that begins.
LEMMA BeginInv ==
    ASSUME StdioInv, Usable, NEW op \in {"fflush", "fclose", "fwrite", "fprintf"},
           NEW text \in AllTexts \cup {<<>>}, text # <<>> => op \in Writers,
           call' = [CallOf(op) EXCEPT !.todo = text], UNCHANGED <<contents, opened, stream>>
    PROVE  StdioInv'
<1>1. text \in Seq(Nat)
  <2>1. <<>> \in Seq(Nat)
    OBVIOUS
  <2> QED BY <2>1, TextBytes
<1>2. call' \in Calls /\ call'.todo = text /\ call'.op = op
  <2>1. call' = [op |-> op, todo |-> text, offset |-> 0, whence |-> "SEEK_SET"]
    BY DEF CallOf, IDLE
  <2>2. op \in {"none", "fwrite", "fprintf", "fflush", "fclose", "fseek"} /\ 0 \in Int
    OBVIOUS
  <2>3. call'.todo = text /\ call'.op = op
    BY <2>1
  <2>4. [op |-> op, todo |-> text, offset |-> 0, whence |-> "SEEK_SET"] \in Calls
    BY <1>1, <2>2 DEF Calls
  <2> QED BY <2>1, <2>3, <2>4, Zenon
<1>3. Remains(text)
  <2>1. SUFFICES ASSUME text # <<>> PROVE \E t \in AllTexts : \E k \in 1 .. Len(t) : text = SubSeq(t, k, Len(t))
    BY DEF Remains
  <2>2. text \in AllTexts
    BY <2>1
  <2>3. 1 \in 1 .. Len(text) /\ text = SubSeq(text, 1, Len(text))
    BY <1>1, <2>1
  <2> QED BY <2>2, <2>3
<1>4. SeekBounded' /\ WritersOnly'
  BY <1>2 DEF SeekBounded, WritersOnly
<1>5. stream # CLOSED
  BY DEF Usable
<1> QED BY <1>2, <1>3, <1>4, <1>5, CallInv

\* fwrite
LEMMA FwriteInv == ASSUME StdioInv, NEW text \in Texts, Fwrite(text) PROVE StdioInv'
<1>1. text \in AllTexts
  BY DEF AllTexts
<1> QED BY <1>1, BeginInv DEF Fwrite, kernel, Writers

\* fprintf
LEMMA FprintfInv == ASSUME StdioInv, NEW conversion \in Conversions, Fprintf(conversion) PROVE StdioInv'
<1>1. Formatted(conversion) \in AllTexts
  BY DEF AllTexts
<1> QED BY <1>1, BeginInv DEF Fprintf, kernel, Writers

\* fflush, fclose
LEMMA FlushCloseInv == ASSUME StdioInv, Fflush \/ Fclose PROVE StdioInv'
<1>1. ASSUME NEW op \in {"fflush", "fclose"} PROVE CallOf(op) = [CallOf(op) EXCEPT !.todo = <<>>]
  <2>1. PICK x : x = CallOf(op)
    OBVIOUS
  <2>2. x = [op |-> op, todo |-> <<>>, offset |-> 0, whence |-> "SEEK_SET"]
    BY <2>1 DEF CallOf, IDLE
  <2>3. x = [x EXCEPT !.todo = <<>>]
    BY <2>2
  <2> QED BY <2>1, <2>3
<1>2. PICK op \in {"fflush", "fclose"} : Usable /\ call' = CallOf(op)
  BY DEF Fflush, Fclose
<1>3. UNCHANGED <<contents, opened, stream>>
  BY DEF Fflush, Fclose, kernel
<1> QED BY <1>1, <1>2, <1>3, BeginInv

\* fseek
LEMMA FseekInv ==
    ASSUME StdioInv, NEW offset \in Offsets, NEW whence \in {"SEEK_SET", "SEEK_CUR", "SEEK_END"},
           Fseek(offset, whence)
    PROVE  StdioInv'
<1>1. offset \in Int
  BY StdioAssumption
<1>2. UNCHANGED <<contents, opened, stream>> /\ Usable
      /\ call' = [op |-> "fseek", todo |-> <<>>, offset |-> offset, whence |-> whence]
  BY DEF Fseek, kernel
<1>3. <<>> \in Seq(Nat)
  OBVIOUS
<1>4. call' \in Calls /\ call'.todo = <<>> /\ call'.offset = offset
  BY <1>1, <1>2, <1>3 DEF Calls
<1>5. 0 + offset <= MaxPos /\ Ahead + offset <= MaxPos /\ Size + offset <= MaxPos
  BY DEF Fseek
<1>6. Ahead' = Ahead /\ Size' = Size
  BY <1>2 DEF Ahead, Size, File
<1>7. SeekBounded'
  BY <1>1, <1>4, <1>5, <1>6 DEF SeekBounded
<1>8. Remains(call'.todo) /\ WritersOnly'
  BY <1>4 DEF Remains, WritersOnly
<1>9. stream # CLOSED
  BY <1>2 DEF Usable
<1> QED BY <1>2, <1>4, <1>7, <1>8, <1>9, CallInv

\* fread
LEMMA FreadInv == ASSUME StdioInv, NEW size \in ReadSizes, Fread(size) PROVE StdioInv'
<1>1. Usable /\ call' = call /\ stream' = stream
  BY DEF Fread
<1>2. call = IDLE /\ stream # CLOSED /\ Shape(contents, opened, stream)
  BY <1>1 DEF Usable, StdioInv
<1>3. CASE Kernel!Read(stream.fd, size)
  <2>1. PICK p : contents' = contents /\ opened' = [opened EXCEPT ![stream.fd].pos = p]
                 /\ p = IF opened[stream.fd].pos + size < Len(contents[opened[stream.fd].ino])
                        THEN opened[stream.fd].pos + size ELSE Len(contents[opened[stream.fd].ino])
    BY <1>3 DEF Kernel!Read
  <2>2. p \in Nat
    <3>1. size \in Nat
      BY StdioAssumption
    <3>2. opened[stream.fd].pos \in Nat /\ opened[stream.fd].ino = 1 /\ Len(contents[1]) \in Nat
      BY <1>2, OpenStream
    <3> QED BY <2>1, <3>1, <3>2
  <2>3. Shape(contents, opened', stream)
    BY <1>2, <2>1, <2>2, MovedShape
  <2> QED BY <1>1, <1>2, <2>1, <2>3, IdleInv
<1>4. CASE Kernel!Refuse
  <2>1. contents' = contents /\ opened' = opened
    BY <1>4 DEF Kernel!Refuse
  <2> QED BY <1>1, <1>2, <2>1, IdleInv
<1> QED BY <1>3, <1>4 DEF Fread

-----------------------------------------------------------------------------
(* Every step is a step of the file, or none                               *)

Maps == Stream!Next \/ UNCHANGED Stream!vars

\* A call that does not write is answered by what it returns.
LEMMA Answered == call.op \notin Writers => Answer = last
BY DEF Answer, Writers

\* One that does returns 0.
LEMMA AnsweredNothing == call.op \in Writers => Answer = Kernel!Done
BY DEF Answer, Writers

\* The same after the step.
LEMMA AnsweredNext ==
    /\ call'.op \notin Writers => Answer' = last'
    /\ call'.op \in Writers => Answer' = Kernel!Done
    /\ call' = IDLE => Answer' = last'
BY DEF Answer, Writers, IDLE

\* Between calls, what the last call returned.
LEMMA AnsweredIdle == call = IDLE => Answer = last
BY DEF Answer, IDLE

\* The beginning of a call is not seen.
LEMMA UnseenMaps ==
    ASSUME UNCHANGED <<contents, opened, stream, stopped>>, Answer' = Answer
    PROVE  Maps
<1>1. CBar' = CBar /\ OBar' = OBar
  BY DEF CBar, OBar
<1> QED BY <1>1, MapStutter DEF Maps

\* The file of the kernel and the stream without a buffer.
LEMMA PlainNow ==
    ASSUME StdioInv, stream.buffer = <<>>
    PROVE  CBar = contents /\ OBar = opened
BY BarPlain DEF StdioInv, CBar, OBar

\* The same after the step.
LEMMA PlainNext ==
    ASSUME StdioInv', stream'.buffer = <<>>
    PROVE  CBar' = contents' /\ OBar' = opened'
<1>1. Shape(contents', opened', stream')
  BY DEF StdioInv
<1>2. CBar' = BarC(contents', opened', stream') /\ OBar' = BarO(contents', opened', stream')
  BY DEF CBar, OBar
<1> QED BY <1>1, <1>2, BarPlain

\* fread: the buffer is empty, so the kernel's position is the program's.
LEMMA FreadMaps ==
    ASSUME StdioInv, StdioInv', stream.buffer = <<>>, NEW size \in ReadSizes, Fread(size)
    PROVE  Maps
<1>1. stream' = stream /\ Usable /\ call' = IDLE
  BY DEF Fread, Usable
<1>a. Answer' = last'
  BY <1>1, AnsweredNext
<1>2. CBar = contents /\ OBar = opened /\ CBar' = contents' /\ OBar' = opened'
  BY <1>1, PlainNow, PlainNext
<1>3. CASE Kernel!Read(stream.fd, size) /\ last' = result'
  <2>1. stream.fd \in DOMAIN opened
    BY <1>1, OpenStream DEF StdioInv, Usable
  <2> QED BY <1>a, <1>2, <1>3, <2>1, MapRead DEF Maps
<1>4. CASE Kernel!Refuse /\ last' = Kernel!Done
  <2>1. ~ stopped /\ contents' = contents /\ opened' = opened /\ stopped' = stopped
    BY <1>4 DEF Kernel!Refuse
  <2> QED BY <1>a, <1>2, <1>4, <2>1, MapRefuse DEF Maps
<1> QED BY <1>3, <1>4 DEF Fread

\* The kernel makes the file.
LEMMA CreateEffect == ASSUME StdioInv, Create PROVE StdioInv' /\ Maps
<1>1. contents = <<>> /\ contents' = Append(contents, <<>>) /\ opened' = opened
      /\ stream' = stream /\ call' = call /\ last' = Kernel!Done /\ result' = Kernel!Done
  BY DEF Create, Kernel!Create
<1>2. Shape(contents, opened, stream)
  BY DEF StdioInv
<1>3. opened = <<>>
  BY <1>1, <1>2 DEF Shape
<1>4. stream = CLOSED /\ stream \in Streams
  BY <1>2, <1>3 DEF Shape
<1>5. call = IDLE
  BY <1>4 DEF StdioInv
<1>6. contents' \in Seq(Seq(Nat)) /\ Len(contents') = 1
  <2>1. <<>> \in Seq(Nat)
    OBVIOUS
  <2>2. ASSUME NEW T, NEW b \in T PROVE Append(<<>>, b) \in Seq(T) /\ Len(Append(<<>>, b)) = 1
    OBVIOUS
  <2> QED BY <1>1, <2>1, <2>2
<1>7. Shape(contents, opened, stream)'
  BY <1>1, <1>2, <1>3, <1>4, <1>6 DEF Shape
<1>8. StdioInv'
  BY <1>1, <1>5, <1>7, IdleInv
<1>9. stream.buffer = <<>> /\ stream'.buffer = <<>>
  BY <1>1, <1>4 DEF CLOSED
<1>10. CBar = contents /\ OBar = opened /\ CBar' = contents' /\ OBar' = opened'
  BY <1>8, <1>9, PlainNow, PlainNext
<1>11. Kernel!Create /\ Answer' = result'
  BY <1>1, <1>5, AnsweredNext DEF Create
<1> QED BY <1>8, <1>10, <1>11, MapCreate DEF Maps

\* fopen
LEMMA FopenEffect == ASSUME StdioInv, Fopen PROVE StdioInv' /\ Maps
<1>1. ~ stopped /\ contents # <<>> /\ stream = CLOSED /\ call' = call
  BY DEF Fopen
<1>2. Shape(contents, opened, stream) /\ call = IDLE
  BY <1>1 DEF StdioInv
<1>3. stream.buffer = <<>>
  BY <1>1 DEF CLOSED
<1>4. CBar = contents /\ OBar = opened /\ Answer' = last'
  BY <1>1, <1>2, <1>3, PlainNow, AnsweredNext
<1>5. CASE Allocates
  <2>1. Kernel!Open(1) /\ stream' = [fd |-> Len(opened) + 1, buffer |-> <<>>] /\ last' = Kernel!Done
    BY <1>5 DEF Fopen
  <2>2. contents' = contents /\ opened' = Append(opened, [ino |-> 1, pos |-> 0]) /\ result' = Kernel!Done
    BY <2>1 DEF Kernel!Open
  <2>3. contents \in Seq(Seq(Nat)) /\ Len(contents) = 1
    <3>1. contents \in Seq(Seq(Nat)) /\ Len(contents) <= 1
      BY <1>2 DEF Shape
    <3>2. ASSUME NEW T, NEW c \in Seq(T), c # <<>>, Len(c) <= 1 PROVE Len(c) = 1
      <4>1. PICK l \in Nat : l = Len(c)
        OBVIOUS
      <4>2. l # 0
        BY <3>2, <4>1
      <4>3. l <= 1
        BY <3>2, <4>1, Zenon
      <4> QED BY <4>1, <4>2, <4>3
    <3> QED BY <1>1, <3>1, <3>2
  <2>4. [ino |-> 1, pos |-> 0] \in Opened
    BY DEF Opened
  <2>5. opened' \in Seq(Opened) /\ Len(opened') = Len(opened) + 1 /\ Len(opened) \in Nat
    BY <1>2, <2>2, <2>4 DEF Shape
  <2>6. stream' \in Streams /\ stream'.fd \in 1 .. Len(opened') /\ stream'.buffer = <<>>
    <3>1. <<>> \in Seq(Nat)
      OBVIOUS
    <3> QED BY <2>1, <2>5, <3>1 DEF Streams
  <2>7. Shape(contents, opened, stream)'
    BY <2>2, <2>3, <2>5, <2>6 DEF Shape
  <2>8. StdioInv'
    BY <1>1, <1>2, <2>7, IdleInv
  <2>9. CBar' = contents' /\ OBar' = opened'
    BY <2>6, <2>8, PlainNext
  <2>10. 1 \in DOMAIN contents
    BY <2>3, OneFile
  <2> QED BY <1>4, <2>1, <2>2, <2>8, <2>9, <2>10, MapOpen DEF Maps
<1>6. CASE ~ Allocates
  <2>1. last' = Kernel!Failed /\ contents' = contents /\ opened' = opened /\ stopped' = stopped
        /\ stream' = stream
    BY <1>6 DEF Fopen, kernel
  <2>2. StdioInv'
    BY <1>1, <1>2, <2>1, IdleInv
  <2>3. CBar' = CBar /\ OBar' = OBar
    BY <2>1 DEF CBar, OBar
  <2> QED BY <1>1, <1>4, <2>1, <2>2, <2>3, MapRefuse DEF Maps
<1> QED BY <1>5, <1>6

\* A turn of fwrite is a write of the bytes that it copies, or not seen when
\* the position lies beyond the end.
LEMMA CopyEffect == ASSUME StdioInv, CopyTurn PROVE StdioInv' /\ Maps
<1>1. ~ stopped /\ call.todo # <<>> /\ contents' = contents /\ opened' = opened /\ stopped' = stopped
  BY DEF CopyTurn, kernel
<1>2. stream # CLOSED /\ Shape(contents, opened, stream) /\ call \in Calls /\ Remains(call.todo)
  BY <1>1, Going DEF StdioInv
<1>3. call.todo \in Seq(Nat)
  BY <1>2 DEF Calls
<1>4. PICK buf \in Seq(Nat) : buf = stream.buffer
  BY <1>2, OpenStream
<1>5. PICK n \in 1 .. Len(call.todo) :
          /\ stream' = [stream EXCEPT !.buffer = buf \o SubSeq(call.todo, 1, n)]
          /\ call' = [call EXCEPT !.todo = SubSeq(call.todo, n + 1, Len(call.todo))]
  <2>1. PICK room \in Int : room = Room(stream.buffer) /\ room > 0
    <3>1. WRITE_BUFFER_SIZE \in Int /\ Len(buf) \in Int
      BY StdioAssumption
    <3> QED BY <1>4, <3>1 DEF CopyTurn, Room
  <2>2. Len(call.todo) \in Nat /\ Len(call.todo) # 0
    BY <1>1, <1>3
  <2>3. PICK n : n = IF Len(call.todo) > room THEN room ELSE Len(call.todo)
    OBVIOUS
  <2>4. n \in 1 .. Len(call.todo)
    BY <2>1, <2>2, <2>3
  <2>5. /\ stream' = [stream EXCEPT !.buffer = @ \o SubSeq(call.todo, 1, n)]
        /\ call' = [call EXCEPT !.todo = SubSeq(@, n + 1, Len(@))]
    BY <2>1, <2>3 DEF CopyTurn
  <2>6. stream' = [stream EXCEPT !.buffer = buf \o SubSeq(call.todo, 1, n)]
    BY <1>4, <2>5
  <2> QED BY <2>4, <2>5, <2>6
<1>6. PICK data : data = SubSeq(call.todo, 1, n)
  OBVIOUS
<1>7. PICK rest : rest = SubSeq(call.todo, n + 1, Len(call.todo))
  OBVIOUS
<1>8. data \in Buffers /\ data \in Seq(Nat) /\ Len(data) = n /\ rest \in Seq(Nat) /\ Remains(rest)
  BY <1>1, <1>2, <1>3, <1>6, <1>7, TurnTakes
<1>9. PICK both : both = buf \o data
  OBVIOUS
<1>10. both \in Seq(Nat) /\ Len(both) = Len(buf) + n
  <2>1. both \in Seq(Nat) /\ Len(both) = Len(buf) + Len(data)
    BY <1>8, <1>9, Joins
  <2> QED BY <1>8, <2>1
<1>11. stream' = [stream EXCEPT !.buffer = both]
  BY <1>5, <1>6, <1>9
<1>12. Shape(contents, opened, stream') /\ stream' # CLOSED /\ stream'.fd = stream.fd
       /\ stream'.buffer = both
  BY <1>2, <1>10, <1>11, BufferShape
<1>a. Answer = Kernel!Done /\ Answer' = Kernel!Done
  <2>1. call.op \in Writers
    BY <1>1 DEF StdioInv, WritersOnly
  <2>2. call'.op = call.op
    BY <1>2, <1>5 DEF Calls
  <2> QED BY <2>1, <2>2, AnsweredNothing, AnsweredNext
<1>13. StdioInv'
  <2>1. call' = [call EXCEPT !.todo = rest]
    BY <1>5, <1>7
  <2>2. call' \in Calls /\ call'.todo = rest /\ call'.op = call.op
    BY <1>2, <1>8, <2>1 DEF Calls
  <2>3. call.op # "fseek"
    BY <1>1 DEF StdioInv, SeekBounded
  <2> QED BY <1>1, <1>8, <1>12, <2>2, <2>3 DEF StdioInv, SeekBounded, WritersOnly
<1>14. CASE Reaches
  <2>1. ShownIn(contents, opened, stream) /\ ShownIn(contents, opened, stream')
    BY <1>2, <1>12, <1>14 DEF ShownIn, Reaches, Size, File
  <2>2. PICK fd : fd = stream.fd
    OBVIOUS
  <2>3. /\ fd \in 1 .. Len(opened) /\ DOMAIN opened = 1 .. Len(opened)
        /\ opened[fd] \in Opened /\ opened[fd].ino = 1
    BY <1>2, <2>2, OpenStream
  <2>4. PICK pos \in Nat : pos = opened[fd].pos
    BY <1>2, <2>2, OpenStream
  <2>5. PICK b \in Seq(Nat) : b = contents[1]
    BY <1>2, OpenStream
  <2>6. pos <= Len(b)
    BY <1>14, <2>2, <2>3, <2>4, <2>5 DEF Reaches, Size, File
  <2>7. PICK u : u = Over(b, pos, buf)
    OBVIOUS
  <2>8. /\ Over(u, pos + Len(buf), data) = Over(b, pos, both)
        /\ pos + Len(buf) <= Len(u)
    BY <1>8, <1>9, <2>6, <2>7, OverTwice
  <2>9. CBar = [contents EXCEPT ![1] = u] /\ OBar = [opened EXCEPT ![fd].pos = pos + Len(buf)]
    <3>1. /\ CBar = [contents EXCEPT ![1] = Over(contents[1], opened[stream.fd].pos, stream.buffer)]
          /\ OBar = [opened EXCEPT ![stream.fd].pos = opened[stream.fd].pos + Len(stream.buffer)]
      BY <1>2, <2>1, BarBuffered DEF CBar, OBar
    <3> QED BY <1>4, <2>2, <2>4, <2>5, <2>7, <3>1
  <2>10. /\ BarC(contents, opened, stream') = [contents EXCEPT ![1] = Over(b, pos, both)]
         /\ BarO(contents, opened, stream') = [opened EXCEPT ![fd].pos = pos + Len(both)]
    <3>1. PICK t : t = stream'
      OBVIOUS
    <3>a. Shape(contents, opened, t) /\ ShownIn(contents, opened, t)
      BY <1>12, <2>1, <3>1
    <3>2. t.fd = fd /\ t.buffer = both
      BY <1>12, <2>2, <3>1
    <3>3. /\ BarC(contents, opened, t) = [contents EXCEPT ![1] = Over(contents[1], opened[t.fd].pos, t.buffer)]
          /\ BarO(contents, opened, t) = [opened EXCEPT ![t.fd].pos = opened[t.fd].pos + Len(t.buffer)]
      BY <3>a, BarBuffered
    <3> QED BY <2>4, <2>5, <3>1, <3>2, <3>3
  <2>11. CBar' = [contents EXCEPT ![1] = Over(b, pos, both)] /\ OBar' = [opened EXCEPT ![fd].pos = pos + Len(both)]
    BY <1>1, <2>10 DEF CBar, OBar
  <2>12. DOMAIN contents = {1}
    BY <1>2, OpenStream
  <2>13. CBar[1] = u /\ CBar' = [CBar EXCEPT ![1] = Over(@, pos + Len(buf), data)]
    BY <2>8, <2>9, <2>11, <2>12
  <2>14. fd \in DOMAIN OBar /\ OBar[fd].pos = pos + Len(buf) /\ OBar[fd].ino = 1
    BY <2>3, <2>9 DEF Opened
  <2>15. OBar' = [OBar EXCEPT ![fd].pos = (pos + Len(buf)) + Len(data)]
    <3>1. pos + Len(both) = (pos + Len(buf)) + Len(data)
      BY <1>4, <1>8, <1>10
    <3>2. PICK x, y : x = pos + Len(buf) /\ y = pos + Len(both)
      OBVIOUS
    <3>3. OBar = [opened EXCEPT ![fd].pos = x] /\ OBar' = [opened EXCEPT ![fd].pos = y]
      BY <2>9, <2>11, <3>2
    <3>4. OBar' = [OBar EXCEPT ![fd].pos = y]
      BY <2>3, <3>3 DEF Opened
    <3> QED BY <3>1, <3>2, <3>4
  <2>16. Answer' = Kernel!Done
    BY <1>a
  <2>17. OBar[fd].pos <= Len(CBar[OBar[fd].ino])
    BY <2>8, <2>13, <2>14
  <2>18. CBar' = [CBar EXCEPT ![OBar[fd].ino] = Over(@, OBar[fd].pos, data)]
    BY <2>13, <2>14
  <2>19. OBar' = [OBar EXCEPT ![fd].pos = OBar[fd].pos + Len(data)]
    BY <2>14, <2>15
  <2>20. Stream!Next
    BY <1>1, <1>8, <2>14, <2>16, <2>17, <2>18, <2>19, MapWrite
  <2> QED BY <1>13, <2>20 DEF Maps
<1>15. CASE ~ Reaches
  <2>1. ~ ShownIn(contents, opened, stream) /\ ~ ShownIn(contents, opened, stream')
    BY <1>12, <1>15 DEF ShownIn, Reaches, Size, File
  <2>2. CBar = contents /\ OBar = opened
    BY <1>2, <2>1, BarPlain DEF CBar, OBar
  <2>3. BarC(contents, opened, stream') = contents /\ BarO(contents, opened, stream') = opened
    BY <1>12, <2>1, BarPlain
  <2>4. CBar' = contents /\ OBar' = opened
    BY <1>1, <2>3 DEF CBar, OBar
  <2>5. Answer' = Answer
    BY <1>a
  <2> QED BY <1>1, <1>13, <2>2, <2>4, <2>5, MapStutter DEF Maps
<1> QED BY <1>14, <1>15

\* fflush: the kernel's file becomes what the program sees already.
LEMMA FlushEffect == ASSUME StdioInv, FlushTurn PROVE StdioInv' /\ Maps
<1>1. ~ stopped /\ stream.buffer # <<>> /\ Reaches /\ call' = call /\ last' = last
      /\ stream' = [stream EXCEPT !.buffer = <<>>] /\ Kernel!Write(stream.fd, stream.buffer)
  BY DEF FlushTurn, Flushing, Emptied
<1>2. stream # CLOSED /\ Shape(contents, opened, stream)
  BY <1>1, Going DEF StdioInv
<1>3. PICK fd : fd = stream.fd
  OBVIOUS
<1>4. /\ fd \in 1 .. Len(opened) /\ DOMAIN opened = 1 .. Len(opened) /\ opened[fd] \in Opened
      /\ opened[fd].ino = 1
  BY <1>2, <1>3, OpenStream
<1>5. PICK pos \in Nat : pos = opened[fd].pos
  BY <1>2, <1>3, OpenStream
<1>6. PICK b \in Seq(Nat) : b = contents[1]
  BY <1>2, OpenStream
<1>7. PICK buf \in Seq(Nat) : buf = stream.buffer
  BY <1>2, OpenStream
<1>8. pos <= Len(b)
  BY <1>1, <1>3, <1>4, <1>5, <1>6 DEF Reaches, Size, File
<1>9. PICK u : u = Over(b, pos, buf)
  OBVIOUS
<1>10. Wrote(u, b, pos, buf)
  BY <1>8, <1>9, OverWrites
<1>11. u \in Seq(Nat) /\ Len(u) = IF pos + Len(buf) > Len(b) THEN pos + Len(buf) ELSE Len(b)
  BY <1>10 DEF Wrote
<1>12. /\ contents' = [contents EXCEPT ![1] = u] /\ stopped' = stopped
       /\ opened' = [opened EXCEPT ![fd].pos = pos + Len(buf)]
  <2>1. /\ contents' = [contents EXCEPT ![opened[stream.fd].ino] =
                           Over(contents[opened[stream.fd].ino], opened[stream.fd].pos, stream.buffer)]
        /\ opened' = [opened EXCEPT ![stream.fd].pos = opened[stream.fd].pos + Len(stream.buffer)]
        /\ stopped' = stopped
    BY <1>1 DEF Kernel!Write, Kernel!Overwritten, Over
  <2> QED BY <1>3, <1>4, <1>5, <1>6, <1>7, <1>9, <2>1
<1>13. <<>> \in Seq(Nat) /\ Len(<<>>) = 0 /\ pos + Len(buf) \in Nat
  OBVIOUS
<1>14. Shape(contents', opened, stream) /\ contents'[1] = u
  BY <1>2, <1>11, <1>12, WrittenShape
<1>15. Shape(contents', opened', stream) /\ opened'[fd].pos = pos + Len(buf) /\ opened'[fd].ino = 1
  <2>1. PICK c2, k : c2 = contents' /\ k = opened'
    OBVIOUS
  <2>2. PICK p \in Nat : p = pos + Len(buf)
    BY <1>13
  <2>3. Shape(c2, opened, stream) /\ stream # CLOSED /\ p \in Nat
    BY <1>2, <1>14, <2>1
  <2>4. k = [opened EXCEPT ![stream.fd].pos = p]
    BY <1>3, <1>12, <2>1, <2>2
  <2>5. Shape(c2, k, stream)
    BY <2>3, <2>4, MovedShape
  <2>6. k[stream.fd].pos = p /\ k[stream.fd].ino = 1
    BY <2>3, <2>4, OpenStream DEF Opened
  <2> QED BY <1>3, <2>1, <2>2, <2>5, <2>6
<1>16. /\ Shape(contents', opened', stream') /\ stream' # CLOSED /\ stream'.fd = fd
       /\ stream'.buffer = <<>>
  <2>1. PICK c2, o2, s2 : c2 = contents' /\ o2 = opened' /\ s2 = stream'
    OBVIOUS
  <2>2. Shape(c2, o2, stream)
    BY <1>15, <2>1
  <2>3. PICK e \in Seq(Nat) : e = <<>>
    BY <1>13
  <2>4. s2 = [stream EXCEPT !.buffer = e]
    BY <1>1, <2>1, <2>3
  <2>5. Shape(c2, o2, s2) /\ s2 # CLOSED /\ s2.fd = stream.fd /\ s2.buffer = e
    <3>1. stream # CLOSED
      BY <1>2
    <3>2. e \in Seq(Nat)
      OBVIOUS
    <3> QED BY <2>2, <2>4, <3>1, <3>2, BufferShape
  <2> QED BY <1>3, <2>1, <2>3, <2>5
<1>17. SeekBounded'
  <2>1. SUFFICES ASSUME call.op = "fseek"
                 PROVE  /\ call.todo = <<>> /\ call.offset <= MaxPos
                        /\ Ahead' + call.offset <= MaxPos /\ Size' + call.offset <= MaxPos
    BY <1>1 DEF SeekBounded
  <2>2. /\ call.todo = <<>> /\ call.offset <= MaxPos
        /\ Ahead + call.offset <= MaxPos /\ Size + call.offset <= MaxPos
    BY <2>1 DEF StdioInv, SeekBounded
  <2>3. Ahead = pos + Len(buf) /\ Size = Len(b)
    BY <1>3, <1>4, <1>5, <1>6, <1>7 DEF Ahead, Size, File
  <2>4. Ahead' = (pos + Len(buf)) + 0 /\ Size' = Len(u)
    BY <1>13, <1>14, <1>15, <1>16 DEF Ahead, Size, File
  <2> QED BY <1>11, <1>13, <2>2, <2>3, <2>4
<1>18. StdioInv' /\ Answer' = Answer
  BY <1>1, <1>16, <1>17 DEF StdioInv, WritersOnly, Answer
<1>19. CBar' = contents' /\ OBar' = opened'
  BY <1>16, <1>18, PlainNext
<1>20. ShownIn(contents, opened, stream)
  BY <1>1, <1>2 DEF ShownIn, Reaches, Size, File
<1>21. CBar = contents' /\ OBar = opened'
  <2>1. /\ CBar = [contents EXCEPT ![1] = Over(contents[1], opened[stream.fd].pos, stream.buffer)]
        /\ OBar = [opened EXCEPT ![stream.fd].pos = opened[stream.fd].pos + Len(stream.buffer)]
    BY <1>2, <1>20, BarBuffered DEF CBar, OBar
  <2> QED BY <1>3, <1>5, <1>6, <1>7, <1>9, <1>12, <2>1
<1> QED BY <1>1, <1>12, <1>18, <1>19, <1>21, MapStutter DEF Maps

\* fflush fails: the call ends or, in fwrite, tries again.
LEMMA FlushFailsEffect == ASSUME StdioInv, FlushFails PROVE StdioInv' /\ Maps
<1>1. ~ stopped /\ UNCHANGED <<contents, opened, stopped, stream>>
  BY DEF FlushFails, Kernel!Refuse
<1>2. CBar' = CBar /\ OBar' = OBar
  BY <1>1 DEF CBar, OBar
<1>3. Shape(contents', opened', stream')
  BY <1>1 DEF StdioInv
<1>4. CASE call.todo # <<>>
  <2>1. call' = call /\ last' = last
    BY <1>4 DEF FlushFails
  <2>2. SeekBounded'
    BY <1>1, <1>4, <2>1 DEF StdioInv, SeekBounded
  <2>3. StdioInv' /\ Answer' = Answer
    BY <1>1, <2>1, <2>2 DEF StdioInv, WritersOnly, Answer
  <2> QED BY <1>1, <1>2, <2>3, MapStutter DEF Maps
<1>5. CASE ~ call.todo # <<>>
  <2>1. call' = IDLE /\ last' \in {Kernel!Failed, Kernel!Done}
    BY <1>5 DEF FlushFails
  <2>2. StdioInv' /\ Answer' = last'
    BY <1>3, <2>1, IdleInv, AnsweredNext
  <2> QED BY <1>1, <1>2, <2>1, <2>2, MapRefuse DEF Maps
<1> QED BY <1>4, <1>5

\* The end of a call that writes.
LEMMA EndWriteEffect == ASSUME StdioInv, EndWrite PROVE StdioInv' /\ Maps
<1>1. ~ stopped /\ call' = IDLE /\ last' = Kernel!Done /\ UNCHANGED <<contents, opened, stopped, stream>>
  BY DEF EndWrite, kernel
<1>2. Shape(contents', opened', stream')
  BY <1>1 DEF StdioInv
<1>3. StdioInv' /\ Answer' = last'
  BY <1>1, <1>2, IdleInv, AnsweredNext
<1>4. CBar' = CBar /\ OBar' = OBar
  BY <1>1 DEF CBar, OBar
<1> QED BY <1>1, <1>3, <1>4, MapRefuse DEF Maps

\* fseek moves the position, or is refused.
LEMMA EndSeekEffect == ASSUME StdioInv, EndSeek PROVE StdioInv' /\ Maps
<1>1. ~ stopped /\ stream.buffer = <<>> /\ call.op = "fseek" /\ call' = IDLE /\ last' = result'
      /\ stream' = stream
  BY DEF EndSeek, Flushed
<1>2. call # IDLE
  BY <1>1 DEF IDLE
<1>3. stream # CLOSED /\ Shape(contents, opened, stream) /\ call \in Calls
  BY <1>2 DEF StdioInv
<1>4. CBar = contents /\ OBar = opened /\ Answer' = result'
  BY <1>1, PlainNow, AnsweredNext
<1>5. /\ call.offset <= MaxPos /\ Ahead + call.offset <= MaxPos /\ Size + call.offset <= MaxPos
  BY <1>1 DEF StdioInv, SeekBounded
<1>6. CASE Target >= 0
  <2>1. Kernel!Seek(stream.fd, Target)
    BY <1>6 DEF EndSeek
  <2>2. /\ opened[stream.fd].pos \in Nat /\ opened[stream.fd].ino = 1 /\ Len(contents[1]) \in Nat
        /\ stream.fd \in DOMAIN opened
    BY <1>3, OpenStream
  <2>3. PICK o \in Int, pos \in Nat, size \in Nat :
            o = call.offset /\ pos = File.pos /\ size = Size /\ Ahead = pos
    <3>1. Ahead = opened[stream.fd].pos + 0
      BY <1>1 DEF Ahead, File
    <3>2. call.offset \in Int
      BY <1>3 DEF Calls
    <3>3. Size = Len(contents[1]) /\ File.pos = opened[stream.fd].pos
      BY <2>2 DEF Size, File
    <3> QED BY <2>2, <3>1, <3>2, <3>3
  <2>4. Target \in {o + 0, o + pos, o + size}
    BY <2>3 DEF Target
  <2>5. MaxPos \in Nat
    BY StdioAssumption
  <2>6. PICK t \in 0 .. MaxPos : t = Target
    BY <1>5, <1>6, <2>3, <2>4, <2>5
  <2>7. contents' = contents /\ opened' = [opened EXCEPT ![stream.fd].pos = t]
    BY <2>1, <2>6 DEF Kernel!Seek
  <2>8. t \in Nat
    BY <2>5, <2>6
  <2>9. Shape(contents, opened', stream)
    BY <1>3, <2>7, <2>8, MovedShape
  <2>10. StdioInv'
    BY <1>1, <2>7, <2>9, IdleInv
  <2>11. CBar' = contents' /\ OBar' = opened'
    BY <1>1, <2>10, PlainNext
  <2> QED BY <1>1, <1>4, <2>1, <2>2, <2>6, <2>10, <2>11, MapSeek DEF Maps
<1>7. CASE ~ Target >= 0
  <2>1. ~ stopped /\ result' = Kernel!Failed /\ contents' = contents /\ opened' = opened /\ stopped' = stopped
    BY <1>7 DEF EndSeek, Kernel!Refuse, Kernel!Failed
  <2>2. StdioInv'
    BY <1>1, <1>3, <2>1, IdleInv
  <2>3. CBar' = CBar /\ OBar' = OBar
    BY <1>1, <2>1 DEF CBar, OBar
  <2> QED BY <1>4, <2>1, <2>2, <2>3, MapRefuse DEF Maps
<1> QED BY <1>6, <1>7

\* A stream without a buffer goes away.
LEMMA LeaveEffect ==
    ASSUME StdioInv, stream.buffer = <<>>, stream' = CLOSED, call' = IDLE,
           UNCHANGED <<contents, opened, stopped>>, ~ stopped, Answer' = Answer \/ Answer' = Kernel!Done
    PROVE  StdioInv' /\ Maps
<1>1. Shape(contents', opened', stream') /\ stream'.buffer = <<>>
  BY ClosedShape DEF StdioInv
<1>2. StdioInv'
  BY <1>1, IdleInv
<1>3. CBar = contents /\ OBar = opened /\ CBar' = contents' /\ OBar' = opened'
  BY <1>1, <1>2, PlainNow, PlainNext
<1>4. CASE Answer' = Answer
  BY <1>2, <1>3, <1>4, MapStutter DEF Maps
<1>5. CASE Answer' = Kernel!Done
  BY <1>2, <1>3, <1>5, MapRefuse DEF Maps
<1> QED BY <1>4, <1>5

\* exit without a flush.
LEMMA ExitInv == ASSUME StdioInv, Exit PROVE StdioInv'
<1>1. Shape(contents', opened', stream') /\ call' = IDLE
  BY ClosedShape DEF StdioInv, Exit, kernel
<1> QED BY <1>1, IdleInv

\* The kernel stops.
LEMMA StopEffect == ASSUME StdioInv, Stop PROVE StdioInv' /\ Maps
<1>1. ~ stopped /\ stopped' = TRUE /\ UNCHANGED <<contents, opened, stream, call, last>>
  BY DEF Stop, Kernel!Stop
<1>2. CBar' = CBar /\ OBar' = OBar
  BY <1>1 DEF CBar, OBar
<1>3. StdioInv' /\ Answer' = Answer
  BY <1>1 DEF StdioInv, SeekBounded, WritersOnly, Ahead, Size, File, Answer
<1> QED BY <1>1, <1>2, <1>3, MapStop DEF Maps

\* Nothing is there at the beginning.
LEMMA EmptyShape ==
    ASSUME NEW c, NEW o, c = <<>>, o = <<>>
    PROVE  Shape(c, o, CLOSED) /\ BarC(c, o, CLOSED) = c /\ BarO(c, o, CLOSED) = o
<1>1. c \in Seq(Seq(Nat)) /\ Len(c) <= 1
  <2>1. ASSUME NEW T PROVE <<>> \in Seq(T) /\ Len(<<>>) <= 1
    OBVIOUS
  <2> QED BY <2>1
<1>2. o \in Seq(Opened)
  OBVIOUS
<1>3. CLOSED \in Streams /\ CLOSED.buffer = <<>>
  BY DEF CLOSED, Streams
<1>4. Shape(c, o, CLOSED)
  BY <1>1, <1>2, <1>3 DEF Shape
<1> QED BY <1>3, <1>4, BarPlain

\* The machine starts again, whatever was lost.
LEMMA RestartEffect == ASSUME StdioInv, Restart PROVE StdioInv' /\ Maps
<1>1. /\ stopped /\ contents' = <<>> /\ opened' = <<>> /\ result' = Kernel!Done /\ stopped' = FALSE
      /\ stream' = CLOSED /\ call' = IDLE /\ last' = Kernel!Done
  BY DEF Restart, Kernel!Restart
<1>2. Shape(contents', opened', stream')
  BY <1>1, EmptyShape
<1>3. StdioInv'
  BY <1>1, <1>2, IdleInv
<1>4. stream'.buffer = <<>>
  BY <1>1 DEF CLOSED
<1>5. CBar' = <<>> /\ OBar' = <<>> /\ Answer' = Kernel!Done
  BY <1>1, <1>3, <1>4, PlainNext, AnsweredNext
<1>6. Stream!Restart
  BY <1>1, <1>5 DEF Stream!Restart, Stream!Done, Stream!Returned, Kernel!Done, Kernel!Returned,
     CBar, OBar, BarC, BarO, ShownIn, Shown, Reaches, Size, Ahead, File, Over, Kernel!Overwritten
<1> QED BY <1>3, <1>6 DEF Maps, Stream!Next

\* The initial states.
LEMMA InitEffect == ASSUME Init PROVE StdioInv /\ Stream!Init
<1>1. /\ contents = <<>> /\ opened = <<>> /\ stopped = FALSE /\ stream = CLOSED /\ call = IDLE
      /\ last = Kernel!Done
  BY DEF Init, Kernel!Init
<1>2. Shape(contents, opened, stream)
  BY <1>1, EmptyShape
<1>3. IDLE \in Calls /\ IDLE.todo = <<>> /\ IDLE.op = "none"
  BY DEF IDLE, Calls
<1>4. StdioInv
  BY <1>1, <1>2, <1>3 DEF StdioInv, SeekBounded, WritersOnly, Remains
<1>5. stream.buffer = <<>>
  BY <1>1 DEF CLOSED
<1>6. CBar = <<>> /\ OBar = <<>> /\ Answer = Kernel!Done
  BY <1>1, <1>4, <1>5, PlainNow, AnsweredIdle
<1>7. Stream!Init
  BY <1>1, <1>6 DEF Stream!Init, Stream!Done, Stream!Returned, Kernel!Done, Kernel!Returned,
     CBar, OBar, BarC, BarO, ShownIn, Shown, Reaches, Size, Ahead, File, Over, Kernel!Overwritten
<1> QED BY <1>4, <1>7

-----------------------------------------------------------------------------
(* Streams are files                                                       *)

\* Every step of the library keeps the invariant and maps to a step.
LEMMA LibraryEffect == ASSUME StdioInv, Library PROVE StdioInv' /\ Maps
<1>1. ASSUME EndClose PROVE StdioInv' /\ Maps
  <2>1. /\ stream.buffer = <<>> /\ stream' = CLOSED /\ call' = IDLE /\ ~ stopped
        /\ UNCHANGED <<contents, opened, stopped>> /\ last' = Kernel!Done
    BY <1>1 DEF EndClose, Flushed, kernel
  <2>2. Answer' = Kernel!Done
    BY <2>1, AnsweredNext
  <2> QED BY <2>1, <2>2, LeaveEffect
<1> QED BY <1>1, CopyEffect, FlushEffect, FlushFailsEffect, EndWriteEffect, EndSeekEffect DEF Library

\* A call that begins and does not write is not seen.
LEMMA BeginEffect ==
    ASSUME StdioInv,
           \/ Fflush \/ Fclose
           \/ \E offset \in Offsets, whence \in {"SEEK_SET", "SEEK_CUR", "SEEK_END"} :
                 Fseek(offset, whence)
    PROVE  StdioInv' /\ Maps
<1>1. StdioInv'
  BY FlushCloseInv, FseekInv
<1>2. UNCHANGED <<contents, opened, stream, last, stopped>> /\ call = IDLE
  BY DEF Fflush, Fclose, Fseek, kernel, Usable
<1>3. call'.op \in {"fflush", "fclose", "fseek"}
  BY DEF Fflush, Fclose, Fseek, CallOf, IDLE
<1>4. Answer' = Answer
  BY <1>2, <1>3, AnsweredNext, AnsweredIdle DEF Writers
<1> QED BY <1>1, <1>2, <1>4, UnseenMaps

\* One that writes is answered already.
LEMMA BeginWriteEffect ==
    ASSUME StdioInv,
           \/ \E text \in Texts : Fwrite(text)
           \/ \E conversion \in Conversions : Fprintf(conversion)
    PROVE  StdioInv' /\ Maps
<1>1. StdioInv'
  BY FwriteInv, FprintfInv
<1>2. UNCHANGED <<contents, opened, stream, stopped>> /\ ~ stopped
  BY DEF Fwrite, Fprintf, kernel, Usable
<1>3. call'.op \in Writers
  BY DEF Fwrite, Fprintf, CallOf, IDLE, Writers
<1>4. Answer' = Kernel!Done /\ CBar' = CBar /\ OBar' = OBar
  BY <1>2, <1>3, AnsweredNext DEF CBar, OBar
<1> QED BY <1>1, <1>2, <1>4, MapRefuse DEF Maps

\* Every step keeps the invariant.
LEMMA NextInv == ASSUME StdioInv, [Next]_vars PROVE StdioInv'
<1>1. CASE UNCHANGED vars
  BY <1>1 DEF vars, StdioInv, Shape, SeekBounded, WritersOnly, Ahead, Size, File
<1>2. CASE Next
  <2>1. ASSUME \E size \in ReadSizes : Fread(size) PROVE StdioInv'
    BY <2>1, FreadInv
  <2> QED BY <1>2, <2>1, CreateEffect, FopenEffect, ExitInv, StopEffect, RestartEffect, LibraryEffect,
             BeginEffect, BeginWriteEffect DEF Next
<1> QED BY <1>1, <1>2

\* Every step is a step of the file, or none, or overlooks the buffer.
LEMMA NextMaps == ASSUME StdioInv, [Next]_vars PROVE Maps \/ Overlooks
<1>1. CASE UNCHANGED vars
  <2>1. UNCHANGED <<contents, opened, stream, stopped>> /\ Answer' = Answer
    BY <1>1 DEF vars, Answer
  <2> QED BY <2>1, UnseenMaps
<1>2. CASE Next
  <2>1. ASSUME \E size \in ReadSizes : Fread(size) PROVE Maps \/ Overlooks
    <3>1. CASE stream.buffer = <<>>
      BY <2>1, <3>1, FreadInv, FreadMaps
    <3> QED BY <2>1, <3>1 DEF Overlooks
  <2>2. ASSUME Exit PROVE Maps \/ Overlooks
    <3>1. CASE stream.buffer = <<>>
      <4>1. /\ stream' = CLOSED /\ call' = IDLE /\ ~ stopped
            /\ UNCHANGED <<contents, opened, stopped, last, call>>
        BY <2>2 DEF Exit, kernel
      <4>2. Answer' = Answer
        BY <4>1 DEF Answer
      <4> QED BY <3>1, <4>1, <4>2, LeaveEffect
    <3> QED BY <2>2, <3>1 DEF Overlooks
  <2> QED BY <1>2, <2>1, <2>2, CreateEffect, FopenEffect, StopEffect, RestartEffect, LibraryEffect,
             BeginEffect, BeginWriteEffect DEF Next
<1> QED BY <1>1, <1>2

\* The kernel knows the file of an open stream, the rest of a write is the end
\* of a text that the program passed, a call belongs to an open stream, and
\* the flush that comes first does not carry a seek out of bounds.
THEOREM StreamsWellFormed == Spec => []StdioInv
<1> QED BY InitEffect, NextInv, PTL DEF Spec

\* fopen, fwrite, printf, fflush, fread, fseek and fclose over the kernel's
\* files, whatever the size of the buffer, are those of a file without a
\* buffer whose writes return 0. The steps that are none of such a file are
\* named: an fread or an exit with output in the buffer.
THEOREM StreamHolds == Spec => StreamIsFile
<1>1. Init => Stream!Init
  BY InitEffect
<1>2. StdioInv /\ [Next]_vars => [Stream!Next \/ Overlooks]_(Stream!vars)
  BY NextMaps DEF Maps
<1> QED BY <1>1, <1>2, StreamsWellFormed, PTL DEF Spec, StreamIsFile

=============================================================================
