--------------------------- MODULE SerialBootProofs ---------------------------
(***************************************************************************)
(* Proofs about the module SerialBoot, for every size of the memory, every *)
(* number of bytes of a size, and every number of interruptions and        *)
(* resets: the types, what the tool's success means, and that the loader   *)
(* starts only the image that was acknowledged. A late line, with images   *)
(* that hold no signals, and a punctual one, with any images, have an      *)
(* invariant each; the last section joins them.                            *)
(***************************************************************************)
EXTENDS SerialBoot, FiniteSetTheorems, SetInduction, TLAPS

-----------------------------------------------------------------------------
(* Sequences                                                               *)

Has(s, x) == \E k \in 1 .. Len(s) : s[k] = x
Rest(s, k) == SubSeq(s, k + 1, Len(s))

\* A byte is taken from the line.
LEMMA Taken ==
    ASSUME NEW s \in Seq(Bytes), s # <<>>
    PROVE  /\ Tail(s) \in Seq(Bytes) /\ Len(s) \in Nat \ {0} /\ Len(Tail(s)) = Len(s) - 1
           /\ Head(s) = s[1] /\ Head(s) \in Bytes
           /\ \A k \in 1 .. Len(s) - 1 : Tail(s)[k] = s[k + 1]
OBVIOUS

\* Bytes are put on the line.
LEMMA Put ==
    ASSUME NEW s \in Seq(Bytes), NEW t \in Seq(Bytes)
    PROVE  /\ s \o t \in Seq(Bytes) /\ Len(s) \in Nat /\ Len(t) \in Nat
           /\ Len(s \o t) = Len(s) + Len(t)
           /\ \A k \in 1 .. Len(s) : (s \o t)[k] = s[k]
           /\ \A k \in 1 .. Len(t) : (s \o t)[Len(s) + k] = t[k]
OBVIOUS

\* The line holds a byte before it is read or else after.
LEMMA HasTaken ==
    ASSUME NEW s \in Seq(Bytes), s # <<>>, NEW x
    PROVE  Has(s, x) <=> (s[1] = x \/ Has(Tail(s), x))
<1>1. ASSUME NEW k \in 1 .. Len(s), s[k] = x PROVE s[1] = x \/ Has(Tail(s), x)
  <2>1. CASE k = 1
    BY <1>1, <2>1
  <2>2. CASE k # 1
    <3>1. k - 1 \in 1 .. Len(Tail(s)) /\ Tail(s)[k - 1] = s[k]
      BY <2>2, Taken
    <3> QED BY <1>1, <3>1 DEF Has
  <2> QED BY <2>1, <2>2
<1>2. ASSUME NEW k \in 1 .. Len(Tail(s)), Tail(s)[k] = x PROVE Has(s, x)
  <2>1. k + 1 \in 1 .. Len(s) /\ s[k + 1] = x
    BY <1>2, Taken
  <2> QED BY <2>1 DEF Has
<1>3. ASSUME s[1] = x PROVE Has(s, x)
  BY <1>3, Taken DEF Has
<1> QED BY <1>1, <1>2, <1>3 DEF Has

\* It holds what it held and what was put on it.
LEMMA HasPut ==
    ASSUME NEW s \in Seq(Bytes), NEW t \in Seq(Bytes), NEW x
    PROVE  Has(s \o t, x) <=> (Has(s, x) \/ Has(t, x))
<1>1. ASSUME NEW k \in 1 .. Len(s \o t), (s \o t)[k] = x PROVE Has(s, x) \/ Has(t, x)
  <2>1. CASE k <= Len(s)
    BY <1>1, <2>1, Put DEF Has
  <2>2. CASE ~ k <= Len(s)
    <3>1. k - Len(s) \in 1 .. Len(t) /\ (s \o t)[Len(s) + (k - Len(s))] = t[k - Len(s)]
      BY <2>2, Put
    <3>2. t[k - Len(s)] = x
      BY <1>1, <3>1, Put
    <3> QED BY <3>1, <3>2 DEF Has
  <2> QED BY <2>1, <2>2
<1>2. ASSUME NEW k \in 1 .. Len(s), s[k] = x PROVE Has(s \o t, x)
  <2>1. k \in 1 .. Len(s \o t) /\ (s \o t)[k] = x
    BY <1>2, Put
  <2> QED BY <2>1 DEF Has
<1>3. ASSUME NEW k \in 1 .. Len(t), t[k] = x PROVE Has(s \o t, x)
  <2>1. Len(s) + k \in 1 .. Len(s \o t) /\ (s \o t)[Len(s) + k] = x
    BY <1>3, Put
  <2> QED BY <2>1 DEF Has
<1> QED BY <1>1, <1>2, <1>3 DEF Has

\* One byte, and none.
LEMMA HasOne ==
    ASSUME NEW x, NEW y
    PROVE  (Has(<<y>>, x) <=> x = y) /\ ~ Has(<<>>, x)
BY DEF Has

\* Two bytes.
LEMMA HasTwo ==
    ASSUME NEW x, NEW y, NEW z
    PROVE  Has(<<y, z>>, x) <=> (x = y \/ x = z)
BY DEF Has

\* Two bytes are put one after the other.
LEMMA PutTwo ==
    ASSUME NEW s \in Seq(Bytes), NEW a \in Bytes, NEW b \in Bytes
    PROVE  s \o <<a, b>> = Append(s, a) \o <<b>> /\ Append(s, a) = s \o <<a>>
<1>1. s \o <<a, b>> \in Seq(Bytes) /\ Append(s, a) \o <<b>> \in Seq(Bytes)
  OBVIOUS
<1>2. Len(s \o <<a, b>>) = Len(s) + 2 /\ Len(Append(s, a) \o <<b>>) = Len(s) + 2
  OBVIOUS
<1>3. ASSUME NEW i \in 1 .. Len(s) + 2 PROVE (s \o <<a, b>>)[i] = (Append(s, a) \o <<b>>)[i]
  <2>1. CASE i <= Len(s)
    BY <2>1
  <2>2. CASE i = Len(s) + 1
    BY <2>2
  <2>3. CASE i = Len(s) + 2
    <3>1. (s \o <<a, b>>)[i] = b
      BY <2>3
    <3>2. (Append(s, a) \o <<b>>)[i] = b
      BY <2>3
    <3> QED BY <3>1, <3>2
  <2> QED BY <2>1, <2>2, <2>3
<1>4. s \o <<a, b>> = Append(s, a) \o <<b>>
  BY <1>1, <1>2, <1>3
<1>5. Append(s, a) = s \o <<a>>
  OBVIOUS
<1> QED BY <1>4, <1>5

\* Sequences with the same bytes are equal.
LEMMA SameBytes ==
    ASSUME NEW a \in Seq(Bytes), NEW b \in Seq(Bytes), NEW n, Len(a) = n, Len(b) = n,
           \A i \in 1 .. n : a[i] = b[i]
    PROVE  a = b
OBVIOUS

\* Nothing is put before.
LEMMA EmptyPut ==
    ASSUME NEW t \in Seq(Bytes)
    PROVE  <<>> \o t = t
<1>1. <<>> \o t \in Seq(Bytes) /\ Len(<<>> \o t) = Len(t)
  OBVIOUS
<1>2. \A i \in 1 .. Len(t) : (<<>> \o t)[i] = t[i]
  OBVIOUS
<1> QED BY <1>1, <1>2, SameBytes

\* Three parts in a row.
LEMMA PutThree ==
    ASSUME NEW r \in Seq(Bytes), NEW s \in Seq(Bytes), NEW t \in Seq(Bytes)
    PROVE  r \o (s \o t) = (r \o s) \o t
<1>1. r \o (s \o t) \in Seq(Bytes) /\ (r \o s) \o t \in Seq(Bytes)
  OBVIOUS
<1>2. Len(r \o (s \o t)) = Len(r) + Len(s) + Len(t) /\ Len((r \o s) \o t) = Len(r) + Len(s) + Len(t)
  OBVIOUS
<1>3. ASSUME NEW i \in 1 .. Len(r) + Len(s) + Len(t) PROVE (r \o (s \o t))[i] = ((r \o s) \o t)[i]
  <2>1. CASE i <= Len(r)
    BY <2>1
  <2>2. CASE i > Len(r) /\ i <= Len(r) + Len(s)
    BY <2>2
  <2>3. CASE i > Len(r) + Len(s)
    BY <2>3
  <2> QED BY <2>1, <2>2, <2>3
<1> QED BY <1>1, <1>2, <1>3, SameBytes

\* What follows a place, when a byte is taken.
LEMMA RestTaken ==
    ASSUME NEW s \in Seq(Bytes), s # <<>>, NEW k \in 0 .. Len(s) - 1
    PROVE  Rest(Tail(s), k) = Rest(s, k + 1)
<1>1. Rest(s, k + 1) \in Seq(Bytes) /\ Rest(Tail(s), k) \in Seq(Bytes)
  BY DEF Rest
<1>2. Len(Rest(s, k + 1)) = Len(Rest(Tail(s), k))
  BY DEF Rest
<1>3. \A i \in 1 .. Len(Rest(s, k + 1)) : Rest(s, k + 1)[i] = Rest(Tail(s), k)[i]
  BY SMTT(60) DEF Rest
<1> QED BY <1>1, <1>2, <1>3, SameBytes

\* And when bytes are put.
LEMMA RestPut ==
    ASSUME NEW s \in Seq(Bytes), NEW t \in Seq(Bytes), NEW k \in 0 .. Len(s)
    PROVE  Rest(s, k) \in Seq(Bytes) /\ Rest(s \o t, k) = Rest(s, k) \o t
<1>1. Rest(s, k) \in Seq(Bytes) /\ Rest(s \o t, k) \in Seq(Bytes) /\ Rest(s, k) \o t \in Seq(Bytes)
  BY DEF Rest
<1>2. Len(Rest(s \o t, k)) = Len(Rest(s, k) \o t)
  BY DEF Rest
<1>3. ASSUME NEW i \in 1 .. Len(Rest(s \o t, k))
      PROVE  Rest(s \o t, k)[i] = (Rest(s, k) \o t)[i]
  <2>1. Len(Rest(s, k)) = Len(s) - k /\ Len(s \o t) = Len(s) + Len(t)
    BY DEF Rest
  <2>2. Rest(s \o t, k)[i] = (s \o t)[k + i]
    BY DEF Rest
  <2>3. CASE i <= Len(s) - k
    <3>1. (s \o t)[k + i] = s[k + i]
      BY <2>3
    <3>2. (Rest(s, k) \o t)[i] = Rest(s, k)[i]
      BY <1>1, <2>1, <2>3
    <3>3. Rest(s, k)[i] = s[k + i]
      BY <2>3 DEF Rest
    <3> QED BY <2>2, <3>1, <3>2, <3>3
  <2>4. CASE ~ i <= Len(s) - k
    <3>1. i - (Len(s) - k) \in 1 .. Len(t)
      BY <2>1, <2>4 DEF Rest
    <3>2. (s \o t)[k + i] = t[i - (Len(s) - k)]
      BY <2>4, <3>1
    <3>3. (Rest(s, k) \o t)[i] = t[i - (Len(s) - k)]
      BY <1>1, <2>1, <2>4, <3>1
    <3> QED BY <2>2, <3>2, <3>3
  <2> QED BY <2>3, <2>4
<1> QED BY <1>1, <1>2, <1>3, SameBytes, Zenon

\* Nothing follows the end.
LEMMA RestEnd ==
    ASSUME NEW s \in Seq(Bytes)
    PROVE  Rest(s, Len(s)) = <<>> /\ Rest(s, 0) = s
<1>1. Rest(s, Len(s)) = <<>>
  BY DEF Rest
<1>2. Rest(s, 0) \in Seq(Bytes) /\ Len(Rest(s, 0)) = Len(s)
  BY DEF Rest
<1>3. \A i \in 1 .. Len(s) : Rest(s, 0)[i] = s[i]
  BY DEF Rest
<1> QED BY <1>1, <1>2, <1>3, SameBytes

-----------------------------------------------------------------------------
(* Conversions                                                             *)

RestOf(g, n, m) == g = [i \in 0 .. m |-> IF i = 0 THEN n ELSE g[i - 1] \div ByteBase]

\* The quotients of to_bytes exist.
LEMMA RestExists ==
    ASSUME NEW n, NEW m \in Nat
    PROVE  \E g : RestOf(g, n, m)
<1> DEFINE S == {k \in Nat : \E g : RestOf(g, n, k)}
<1>1. 0 \in S
  <2>1. RestOf([i \in 0 .. 0 |-> n], n, 0)
    BY DEF RestOf
  <2> QED BY <2>1
<1>2. ASSUME NEW k \in 0 .. m - 1, k \in S PROVE k + 1 \in S
  <2>1. PICK g : RestOf(g, n, k)
    BY <1>2
  <2> DEFINE h == [i \in 0 .. k + 1 |-> IF i = k + 1 THEN g[k] \div ByteBase ELSE g[i]]
  <2>2. ASSUME NEW i \in 0 .. k + 1
        PROVE h[i] = IF i = 0 THEN n ELSE h[i - 1] \div ByteBase
    <3>1. CASE i = k + 1
      BY <3>1
    <3>2. CASE i = 0
      BY <2>1, <3>2 DEF RestOf
    <3>3. CASE i \in 1 .. k
      <4>1. h[i] = g[i] /\ h[i - 1] = g[i - 1]
        BY <3>3
      <4>2. g[i] = g[i - 1] \div ByteBase
        BY <2>1, <3>3 DEF RestOf
      <4> QED BY <3>3, <4>1, <4>2
    <3> QED BY <3>1, <3>2, <3>3
  <2>3. RestOf(h, n, k + 1)
    BY <2>2 DEF RestOf
  <2> HIDE DEF h
  <2> QED BY <2>3
<1> HIDE DEF S
<1>3. \A k \in 0 .. m : k \in S
  BY <1>1, <1>2, Steps
<1> QED BY <1>3 DEF S

\* A size is sent as SIZE_BYTES bytes.
LEMMA ToBytesType ==
    ASSUME NEW n \in Nat
    PROVE  ToBytes(n) \in Seq(Bytes) /\ Len(ToBytes(n)) = SIZE_BYTES
<1> USE LineAssumption
<1>1. PICK g : g = CHOOSE h : RestOf(h, n, SIZE_BYTES)
  OBVIOUS
<1>2. RestOf(g, n, SIZE_BYTES)
  BY <1>1, RestExists
<1>3. ToBytes(n) = [i \in 1 .. SIZE_BYTES |-> g[i - 1] % ByteBase]
  <2>1. Quotients(n) = g
    BY <1>1 DEF Quotients, RestOf
  <2> QED BY <2>1 DEF ToBytes
<1> DEFINE S == {i \in Nat : g[i] \in Int}
<1>4. 0 \in S
  BY <1>2 DEF RestOf
<1>5. ASSUME NEW i \in 0 .. SIZE_BYTES - 1, i \in S PROVE i + 1 \in S
  <2>1. g[i + 1] = g[i] \div ByteBase
    BY <1>2, SMTT(60) DEF RestOf
  <2>2. PICK x \in Int, b \in Nat \ {0} : x = g[i] /\ b = ByteBase
    BY <1>5
  <2>3. x \div b \in Int
    OBVIOUS
  <2> QED BY <2>1, <2>2, <2>3
<1> HIDE DEF S
<1>6. \A i \in 0 .. SIZE_BYTES : i \in S
  BY <1>4, <1>5, Steps
<1>7. ASSUME NEW i \in 1 .. SIZE_BYTES PROVE g[i - 1] % ByteBase \in Bytes
  <2>1. g[i - 1] \in Int
    BY <1>6 DEF S
  <2> QED BY <2>1 DEF Bytes
<1> QED BY <1>3, <1>7

ValueOf(g, bytes, m) ==
    g = [i \in 0 .. m |-> IF i = 0 THEN 0 ELSE bytes[Len(bytes) - i + 1] + ByteBase * g[i - 1]]

\* The values of the last bytes exist.
LEMMA ValueExists ==
    ASSUME NEW bytes, NEW m \in Nat
    PROVE  \E g : ValueOf(g, bytes, m)
<1> DEFINE S == {k \in Nat : \E g : ValueOf(g, bytes, k)}
<1>1. 0 \in S
  <2>1. ValueOf([i \in 0 .. 0 |-> 0], bytes, 0)
    BY DEF ValueOf
  <2> QED BY <2>1
<1>2. ASSUME NEW k \in 0 .. m - 1, k \in S PROVE k + 1 \in S
  <2>1. PICK g : ValueOf(g, bytes, k)
    BY <1>2
  <2> DEFINE h == [i \in 0 .. k + 1 |->
                     IF i = k + 1 THEN bytes[Len(bytes) - i + 1] + ByteBase * g[k] ELSE g[i]]
  <2>2. ASSUME NEW i \in 0 .. k + 1
        PROVE h[i] = IF i = 0 THEN 0 ELSE bytes[Len(bytes) - i + 1] + ByteBase * h[i - 1]
    <3>1. CASE i = k + 1
      BY <3>1
    <3>2. CASE i = 0
      BY <2>1, <3>2 DEF ValueOf
    <3>3. CASE i \in 1 .. k
      <4>1. h[i] = g[i] /\ h[i - 1] = g[i - 1]
        BY <3>3
      <4>2. g[i] = bytes[Len(bytes) - i + 1] + ByteBase * g[i - 1]
        BY <2>1, <3>3 DEF ValueOf
      <4> QED BY <3>3, <4>1, <4>2
    <3> QED BY <3>1, <3>2, <3>3
  <2>3. ValueOf(h, bytes, k + 1)
    BY <2>2 DEF ValueOf
  <2> HIDE DEF h
  <2> QED BY <2>3
<1> HIDE DEF S
<1>3. \A k \in 0 .. m : k \in S
  BY <1>1, <1>2, Steps
<1> QED BY <1>3 DEF S

\* The bytes of a size are a number.
LEMMA FromBytesType ==
    ASSUME NEW bytes \in Seq(Bytes)
    PROVE  FromBytes(bytes) \in Nat
<1> USE LineAssumption
<1>1. PICK m \in Nat : m = Len(bytes)
  OBVIOUS
<1>2. PICK g : g = CHOOSE h : ValueOf(h, bytes, m)
  OBVIOUS
<1>3. ValueOf(g, bytes, m)
  BY <1>2, ValueExists
<1>4. FromBytes(bytes) = g[m]
  BY <1>1, <1>2 DEF FromBytes, ValueOf
<1> DEFINE S == {i \in Nat : g[i] \in Nat}
<1>5. 0 \in S
  BY <1>3 DEF ValueOf
<1>6. ASSUME NEW i \in 0 .. m - 1, i \in S PROVE i + 1 \in S
  <2>1. g[i + 1] = bytes[Len(bytes) - (i + 1) + 1] + ByteBase * g[(i + 1) - 1]
    BY <1>3 DEF ValueOf
  <2>2. bytes[Len(bytes) - (i + 1) + 1] \in Nat
    BY <1>1 DEF Bytes
  <2>3. g[(i + 1) - 1] = g[i] /\ g[i] \in Nat
    BY <1>6
  <2>4. ByteBase * g[i] \in Nat
    BY <2>3
  <2> QED BY <2>1, <2>2, <2>3, <2>4
<1> HIDE DEF S
<1>7. \A i \in 0 .. m : i \in S
  BY <1>5, <1>6, Steps
<1> QED BY <1>4, <1>7 DEF S

\* The quotients of a number are numbers.
LEMMA QuotientsType ==
    ASSUME NEW n \in Nat
    PROVE  /\ Quotients(n)[0] = n
           /\ \A i \in 0 .. SIZE_BYTES : Quotients(n)[i] \in Int
           /\ \A i \in 1 .. SIZE_BYTES : Quotients(n)[i] = Quotients(n)[i - 1] \div ByteBase
<1>0. ByteBase \in Nat \ {0} /\ SIZE_BYTES \in Nat \ {0}
  BY LineAssumption
<1>1. PICK g : g = CHOOSE h : RestOf(h, n, SIZE_BYTES)
  OBVIOUS
<1>2. RestOf(g, n, SIZE_BYTES)
  BY <1>0, <1>1, RestExists
<1>3. Quotients(n) = g
  BY <1>1 DEF Quotients, RestOf
<1>4. g[0] = n /\ \A i \in 1 .. SIZE_BYTES : g[i] = g[i - 1] \div ByteBase
  <2>1. ASSUME NEW i \in 0 .. SIZE_BYTES PROVE g[i] = IF i = 0 THEN n ELSE g[i - 1] \div ByteBase
    BY <1>2, Zenon DEF RestOf
  <2>2. g[0] = n
    BY <1>0, <2>1
  <2>3. ASSUME NEW i \in 1 .. SIZE_BYTES PROVE g[i] = g[i - 1] \div ByteBase
    <3>1. i \in 0 .. SIZE_BYTES /\ i # 0
      BY <1>0
    <3> QED BY <2>1, <3>1, Zenon
  <2> QED BY <2>2, <2>3
<1> DEFINE S == {i \in Nat : g[i] \in Int}
<1>5. 0 \in S
  BY <1>4
<1>6. ASSUME NEW i \in 0 .. SIZE_BYTES - 1, i \in S PROVE i + 1 \in S
  <2>1. g[i + 1] = g[i] \div ByteBase
    <3>1. i + 1 \in 1 .. SIZE_BYTES /\ (i + 1) - 1 = i
      BY <1>0
    <3>2. g[i + 1] = g[(i + 1) - 1] \div ByteBase
      BY <1>4, <3>1, Zenon
    <3> QED BY <3>1, <3>2, Zenon
  <2>2. PICK x \in Int, b \in Nat \ {0} : x = g[i] /\ b = ByteBase
    BY <1>0, <1>6
  <2>3. x \div b \in Int
    OBVIOUS
  <2> QED BY <2>1, <2>2, <2>3
<1> HIDE DEF S
<1>7. \A i \in 0 .. SIZE_BYTES : i \in S
  BY <1>0, <1>5, <1>6, Steps
<1>8. \A i \in 0 .. SIZE_BYTES : g[i] \in Int
  BY <1>7 DEF S
<1> QED BY <1>3, <1>4, <1>8

\* The values of the last bytes of a size.
LEMMA ValueSteps ==
    ASSUME NEW bytes \in Seq(Bytes)
    PROVE  \E g : /\ g[0] = 0 /\ FromBytes(bytes) = g[Len(bytes)]
                  /\ \A i \in 0 .. Len(bytes) : g[i] \in Nat
                  /\ \A i \in 0 .. Len(bytes) - 1 :
                        g[i + 1] = bytes[Len(bytes) - i] + ByteBase * g[i]
<1>0. ByteBase \in Nat \ {0} /\ SIZE_BYTES \in Nat \ {0}
  BY LineAssumption
<1>1. PICK m \in Nat : m = Len(bytes)
  OBVIOUS
<1>2. PICK g : g = CHOOSE h : ValueOf(h, bytes, m)
  OBVIOUS
<1>3. ValueOf(g, bytes, m)
  BY <1>2, ValueExists
<1>4. FromBytes(bytes) = g[m]
  BY <1>1, <1>2 DEF FromBytes, ValueOf
<1>5. ASSUME NEW i \in 0 .. m - 1 PROVE g[i + 1] = bytes[m - i] + ByteBase * g[i]
  <2>1. g[i + 1] = bytes[Len(bytes) - (i + 1) + 1] + ByteBase * g[(i + 1) - 1]
    BY <1>3 DEF ValueOf
  <2>2. Len(bytes) - (i + 1) + 1 = m - i /\ (i + 1) - 1 = i
    BY <1>1
  <2> QED BY <2>1, <2>2
<1> DEFINE S == {i \in Nat : g[i] \in Nat}
<1>6. g[0] = 0
  BY <1>3 DEF ValueOf
<1>7. ASSUME NEW i \in 0 .. m - 1, i \in S PROVE i + 1 \in S
  <2>1. bytes[m - i] \in Nat
    BY <1>0, <1>1 DEF Bytes
  <2>2. ByteBase * g[i] \in Nat
    BY <1>0, <1>7
  <2> QED BY <1>5, <2>1, <2>2
<1>8. 0 \in S
  BY <1>6
<1> HIDE DEF S
<1>9. \A i \in 0 .. m : i \in S
  BY <1>7, <1>8, Steps
<1>10. \A i \in 0 .. m : g[i] \in Nat
  BY <1>9 DEF S
<1> QED BY <1>1, <1>4, <1>5, <1>6, <1>10

\* A product.
LEMMA Product ==
    ASSUME NEW b \in Nat \ {0}, NEW x \in Nat, x # 0
    PROVE  b * x \in Nat \ {0}
OBVIOUS

\* A size with a byte other than 0 is not 0, and the other way round.
LEMMA ZeroSize ==
    ASSUME NEW bytes \in Seq(Bytes)
    PROVE  FromBytes(bytes) # 0 <=> \E k \in 1 .. Len(bytes) : bytes[k] # 0
<1>0. ByteBase \in Nat \ {0} /\ SIZE_BYTES \in Nat \ {0}
  BY LineAssumption
<1>1. PICK m \in Nat : m = Len(bytes)
  OBVIOUS
<1>2. PICK g : /\ g[0] = 0 /\ FromBytes(bytes) = g[m]
               /\ \A i \in 0 .. m : g[i] \in Nat
               /\ \A i \in 0 .. m - 1 : g[i + 1] = bytes[m - i] + ByteBase * g[i]
  BY <1>1, ValueSteps
<1>3. ASSUME NEW k \in 1 .. m, bytes[k] # 0 PROVE g[m] # 0
  <2> DEFINE S == {i \in Nat : i >= m - k + 1 => g[i] # 0}
  <2>1. 0 \in S
    OBVIOUS
  <2>2. ASSUME NEW i \in 0 .. m - 1, i \in S PROVE i + 1 \in S
    <3>1. bytes[m - i] \in Nat /\ g[i] \in Nat /\ g[i + 1] = bytes[m - i] + ByteBase * g[i]
      BY <1>0, <1>1, <1>2, SMTT(60) DEF Bytes
    <3>2. CASE i = m - k
      <4>1. bytes[m - i] # 0
        BY <1>3, <3>2
      <4>2. PICK x \in Nat : x = ByteBase * g[i]
        BY <1>0, <3>1
      <4>3. g[i + 1] = bytes[m - i] + x
        BY <3>1, <4>2
      <4>4. g[i + 1] # 0
        BY <3>1, <4>1, <4>3
      <4> QED BY <4>4
    <3>3. CASE i < m - k
      BY <3>3
    <3>4. CASE i > m - k
      <4>1. g[i] # 0
        BY <2>2, <3>4
      <4>2. PICK x \in Nat \ {0} : x = ByteBase * g[i]
        BY <1>0, <3>1, <4>1, Product
      <4>3. g[i + 1] = bytes[m - i] + x
        BY <3>1, <4>2
      <4>4. g[i + 1] # 0
        <5>1. PICK y \in Nat : y = bytes[m - i]
          BY <3>1
        <5>2. y + x # 0
          BY <4>2
        <5> QED BY <4>3, <5>1, <5>2
      <4> QED BY <4>4
    <3> QED BY <3>2, <3>3, <3>4
  <2> HIDE DEF S
  <2>3. \A i \in 0 .. m : i \in S
    BY <2>1, <2>2, Steps
  <2> QED BY <2>3 DEF S
<1>4. ASSUME \A k \in 1 .. m : bytes[k] = 0 PROVE g[m] = 0
  <2> DEFINE S == {i \in Nat : g[i] = 0}
  <2>1. 0 \in S
    BY <1>2
  <2>2. ASSUME NEW i \in 0 .. m - 1, i \in S PROVE i + 1 \in S
    <3>1. bytes[m - i] = 0 /\ g[i] = 0 /\ g[i + 1] = bytes[m - i] + ByteBase * g[i]
      BY <1>2, <1>4, <2>2
    <3>2. ByteBase * 0 = 0
      BY <1>0
    <3> QED BY <3>1, <3>2
  <2> HIDE DEF S
  <2>3. \A i \in 0 .. m : i \in S
    BY <2>1, <2>2, Steps
  <2> QED BY <2>3 DEF S
<1> QED BY <1>1, <1>2, <1>3, <1>4

\* Quotient and remainder.
LEMMA Division ==
    ASSUME NEW x \in Int, NEW b \in Nat \ {0}
    PROVE  (x % b) + b * (x \div b) = x
OBVIOUS

\* What to_bytes writes, the loader reads.
LEMMA SizeReads ==
    ASSUME NEW n \in Nat, Quotients(n)[SIZE_BYTES] = 0
    PROVE  FromBytes(ToBytes(n)) = n
<1>0. ByteBase \in Nat \ {0} /\ SIZE_BYTES \in Nat \ {0}
  BY LineAssumption
<1>1. PICK q : q = Quotients(n)
  OBVIOUS
<1>2. PICK m \in Nat \ {0} : m = SIZE_BYTES
  BY <1>0
<1>3. PICK bytes \in Seq(Bytes) : bytes = ToBytes(n) /\ Len(bytes) = m
  BY <1>2, ToBytesType
<1>4. \A k \in 1 .. m : bytes[k] = q[k - 1] % ByteBase
  BY <1>1, <1>2, <1>3 DEF ToBytes
<1>5. PICK g : /\ g[0] = 0 /\ FromBytes(bytes) = g[m]
               /\ \A i \in 0 .. m : g[i] \in Nat
               /\ \A i \in 0 .. m - 1 : g[i + 1] = bytes[m - i] + ByteBase * g[i]
  BY <1>3, ValueSteps, ZenonT(60)
<1>6. /\ q[0] = n /\ q[m] = 0 /\ \A i \in 0 .. m : q[i] \in Int
      /\ \A i \in 1 .. m : q[i] = q[i - 1] \div ByteBase
  BY <1>1, <1>2, QuotientsType
<1> DEFINE S == {i \in Nat : g[i] = q[m - i]}
<1>7. 0 \in S
  BY <1>5, <1>6
<1>8. ASSUME NEW i \in 0 .. m - 1, i \in S PROVE i + 1 \in S
  <2>1. PICK k \in 1 .. m : k = m - i
    OBVIOUS
  <2>2. g[i + 1] = (q[k - 1] % ByteBase) + ByteBase * q[k]
    BY <1>4, <1>5, <1>8, <2>1
  <2>3. PICK x \in Int, b \in Nat \ {0} : x = q[k - 1] /\ b = ByteBase
    <3>1. k - 1 \in 0 .. m
      BY <2>1
    <3> QED BY <1>0, <1>6, <3>1, Zenon
  <2>4. q[k] = x \div b
    BY <1>6, <2>3
  <2>5. g[i + 1] = x
    <3>1. g[i + 1] = (x % b) + b * (x \div b)
      BY <2>2, <2>3, <2>4, Zenon
    <3> QED BY <2>3, <3>1, Division, Zenon
  <2>6. m - (i + 1) = k - 1
    BY <2>1
  <2> QED BY <2>3, <2>5, <2>6
<1> HIDE DEF S
<1>9. m \in S
  <2>1. \A i \in 0 .. m : i \in S
    BY <1>7, <1>8, Steps
  <2>2. m \in 0 .. m
    BY <1>2
  <2> QED BY <2>1, <2>2
<1>10. g[m] = q[0]
  BY <1>9 DEF S
<1> QED BY <1>3, <1>5, <1>6, <1>10

\* The size of an empty image.
LEMMA ZeroBytes ==
    ASSUME NEW k \in 1 .. SIZE_BYTES
    PROVE  ToBytes(0)[k] = 0
<1>0. ByteBase \in Nat \ {0} /\ SIZE_BYTES \in Nat \ {0}
  BY LineAssumption
<1>1. PICK q : q = Quotients(0)
  OBVIOUS
<1>2. q[0] = 0 /\ \A i \in 1 .. SIZE_BYTES : q[i] = q[i - 1] \div ByteBase
  BY <1>1, QuotientsType
<1> DEFINE S == {i \in Nat : q[i] = 0}
<1>3. 0 \in S
  BY <1>2
<1>4. ASSUME NEW i \in 0 .. SIZE_BYTES - 1, i \in S PROVE i + 1 \in S
  <2>1. q[i + 1] = q[i] \div ByteBase
    <3>1. i + 1 \in 1 .. SIZE_BYTES /\ (i + 1) - 1 = i
      BY <1>0
    <3>2. q[i + 1] = q[(i + 1) - 1] \div ByteBase
      BY <1>2, <3>1, Zenon
    <3> QED BY <3>1, <3>2, Zenon
  <2>2. PICK b \in Nat \ {0} : b = ByteBase
    BY <1>0
  <2>3. 0 \div b = 0
    OBVIOUS
  <2> QED BY <1>4, <2>1, <2>2, <2>3
<1> HIDE DEF S
<1>5. \A i \in 0 .. SIZE_BYTES : i \in S
  BY <1>0, <1>3, <1>4, Steps
<1>6. q[k - 1] = 0
  <2>1. k - 1 \in 0 .. SIZE_BYTES
    BY <1>0
  <2> QED BY <1>5, <2>1 DEF S
<1>7. PICK b \in Nat \ {0} : b = ByteBase
  BY <1>0
<1>8. 0 % b = 0
  OBVIOUS
<1> QED BY <1>1, <1>6, <1>7, <1>8 DEF ToBytes

\* The signals are four different bytes.
LEMMA FourSignals ==
    /\ SERIAL_LOADER_INIT \in Bytes /\ SERIAL_LOADER_INIT_ACK \in Bytes
    /\ SERIAL_LOADER_END \in Bytes /\ SERIAL_LOADER_END_ACK \in Bytes
    /\ SERIAL_LOADER_INIT # SERIAL_LOADER_INIT_ACK /\ SERIAL_LOADER_INIT # SERIAL_LOADER_END
    /\ SERIAL_LOADER_INIT # SERIAL_LOADER_END_ACK /\ SERIAL_LOADER_INIT_ACK # SERIAL_LOADER_END
    /\ SERIAL_LOADER_INIT_ACK # SERIAL_LOADER_END_ACK /\ SERIAL_LOADER_END # SERIAL_LOADER_END_ACK
BY LineAssumption DEF SERIAL_LOADER_INIT, SERIAL_LOADER_INIT_ACK, SERIAL_LOADER_END,
                      SERIAL_LOADER_END_ACK, Bytes

-----------------------------------------------------------------------------
(* Types, and where the tool and the loader are                            *)

AllImages == Images \cup LateImages \cup {<<>>}
HostRecords == [pc : HostStates, image : AllImages, idx : Nat]
DevRecords == [pc : DevStates, size : Seq(Bytes), datasize : 0 .. KERNEL_MAX_SIZE,
               buffer : Seq(Bytes)]

\* The tool has echoes to wait for until it waits for the final acknowledge.
HostPlace(h) ==
    /\ h \in HostRecords /\ h.idx <= Len(h.image)
    /\ h.pc = "handshake" => h.idx = 0
    /\ h.pc \in {"send", "echo"} => h.idx < Len(h.image)
    /\ h.pc = "final" => h.idx = Len(h.image)

\* The image is one that operators send over this line.
HostImage == host.pc # "closed" => host.image \in IF punctual THEN Images ELSE LateImages

\* The loader has bytes of the size or of the image to wait for.
DevPlace(d) ==
    /\ d \in DevRecords /\ Len(d.buffer) <= d.datasize
    /\ d.pc \in {"off", "wait_init"} => d.size = <<>>
    /\ d.pc \in {"off", "wait_init", "size"} => d.buffer = <<>>
    /\ d.pc = "size" => Len(d.size) < SIZE_BYTES
    /\ d.pc = "data" => Len(d.buffer) < d.datasize

\* What is on the line.
LinePlace ==
    /\ to_dev \in Seq(Bytes) /\ to_host \in Seq(Bytes)
    /\ dev.pc = "off" => to_dev = <<>>

BaseInv ==
    /\ HostPlace(host) /\ HostImage /\ DevPlace(dev) /\ LinePlace
    /\ confirmed \in AllImages /\ punctual \in BOOLEAN

\* Images are sequences of bytes.
LEMMA ImageBytes ==
    ASSUME NEW image \in AllImages
    PROVE  image \in Seq(Bytes) /\ Len(image) \in Nat
<1>1. <<>> \in Seq(Bytes)
  OBVIOUS
<1>2. \A x \in Images \cup LateImages : x \in Seq(Bytes)
  BY LineAssumption, Zenon
<1>3. image \in Seq(Bytes)
  BY <1>1, <1>2, Zenon DEF AllImages
<1> QED BY <1>3

\* What the tool writes arrives, or is lost.
LEMMA WrittenCases ==
    ASSUME BaseInv, NEW bytes \in Seq(Bytes)
    PROVE  /\ Written(bytes) \in Seq(Bytes)
           /\ dev.pc = "off" => Written(bytes) = <<>>
           /\ \/ Written(bytes) = to_dev \o bytes /\ dev.pc \in LoaderStates
              \/ Written(bytes) = <<>> /\ dev.pc \notin LoaderStates
<1>1. to_dev \o bytes \in Seq(Bytes)
  BY DEF BaseInv, LinePlace
<1>2. CASE dev.pc \in LoaderStates
  <2>1. Written(bytes) = to_dev \o bytes /\ dev.pc # "off"
    BY <1>2 DEF Written, LoaderStates
  <2> QED BY <1>1, <1>2, <2>1
<1>3. CASE dev.pc \notin LoaderStates
  <2>1. Written(bytes) = <<>>
    BY <1>3 DEF Written
  <2> QED BY <1>3, <2>1
<1> QED BY <1>2, <1>3

\* The tool after i echoes.
Looping(i) == [host EXCEPT !.pc = LoopState(i), !.idx = i]

\* The states of the loop over the bytes.
LEMMA LoopCases ==
    ASSUME BaseInv, NEW i \in Nat, i <= Len(host.image)
    PROVE  /\ HostPlace(Looping(i)) /\ Looping(i).image = host.image /\ Looping(i).idx = i
           /\ Looping(i).pc \in {"send", "final"}
<1>1. host \in HostRecords
  BY DEF BaseInv, HostPlace
<1>2. PICK pc : pc = LoopState(i)
  OBVIOUS
<1>3. pc \in {"send", "final"} /\ (pc = "send" => i < Len(host.image))
      /\ (pc = "final" => ~ i < Len(host.image))
  BY <1>2 DEF LoopState
<1>4. PICK h : h = Looping(i)
  OBVIOUS
<1>5. h.pc = pc /\ h.idx = i /\ h.image = host.image /\ h \in HostRecords
  BY <1>1, <1>2, <1>3, <1>4 DEF HostRecords, HostStates, Looping
<1>6. Len(host.image) \in Nat
  BY <1>1, ImageBytes DEF HostRecords
<1>7. HostPlace(h)
  BY <1>3, <1>5, <1>6 DEF HostPlace
<1> QED BY <1>3, <1>4, <1>5, <1>7

\* The tool ends.
LEMMA CloseHost ==
    ASSUME BaseInv
    PROVE  /\ HostPlace([host EXCEPT !.pc = "closed"])
           /\ [host EXCEPT !.pc = "closed"].pc = "closed"
           /\ [host EXCEPT !.pc = "closed"].image = host.image
           /\ [host EXCEPT !.pc = "closed"].idx = host.idx
<1>1. host \in HostRecords /\ host.idx <= Len(host.image)
  BY DEF BaseInv, HostPlace
<1>2. PICK h : h = [host EXCEPT !.pc = "closed"]
  OBVIOUS
<1>3. h.pc = "closed" /\ h.idx = host.idx /\ h.image = host.image /\ h \in HostRecords
  BY <1>1, <1>2 DEF HostRecords, HostStates
<1> QED BY <1>1, <1>2, <1>3 DEF HostPlace

\* The initial states.
LEMMA InitBase == Init => BaseInv
<1> SUFFICES ASSUME Init PROVE BaseInv
  OBVIOUS
<1> USE LineAssumption DEF Init
<1>1. HostPlace(host)
  BY DEF HostPlace, HostRecords, HostStates, AllImages
<1>2. DevPlace(dev)
  BY DEF DevPlace, DevRecords, DevStates, LoaderStates
<1> QED BY <1>1, <1>2 DEF BaseInv, LinePlace, HostImage, AllImages

\* The invariant gives the types.
LEMMA BaseTypes == BaseInv => TypeOK
BY DEF BaseInv, TypeOK, HostPlace, DevPlace, LinePlace, HostRecords, DevRecords, AllImages

-----------------------------------------------------------------------------
(* What the loader does with a byte                                        *)

\* The byte is taken and answered.
DevTakes(answer) ==
    /\ dev.pc \in LoaderStates /\ to_dev # <<>> /\ to_dev' = Tail(to_dev)
    /\ to_host' = to_host \o answer /\ answer \in Seq(Bytes)
    /\ host' = host /\ punctual' = punctual /\ confirmed' = confirmed

\* The states of serial_load and its answers.
DevCase(answer) ==
    \/ /\ dev.pc = "wait_init" /\ byte # SERIAL_LOADER_INIT
       /\ answer = <<>> /\ dev' = dev
    \/ /\ dev.pc = "wait_init" /\ byte = SERIAL_LOADER_INIT
       /\ answer = <<SERIAL_LOADER_INIT_ACK>>
       /\ dev'.pc = "size" /\ dev'.size = <<>> /\ dev'.buffer = <<>>
    \/ /\ dev.pc = "size" /\ answer = <<>>
       /\ dev'.pc = "size" /\ Len(dev'.size) = Len(dev.size) + 1 /\ dev'.buffer = <<>>
       /\ dev'.size = Append(dev.size, byte)
    \/ /\ dev.pc = "size" /\ Len(dev.size) + 1 = SIZE_BYTES /\ answer = <<>>
       /\ dev'.pc \in {"wait_init", "data"} /\ dev'.buffer = <<>>
       /\ FromBytes(Append(dev.size, byte)) # 0
       /\ dev'.pc = "data" => /\ dev'.datasize = FromBytes(Append(dev.size, byte))
                              /\ Fits(dev'.datasize)
    \/ /\ dev.pc = "size" /\ Len(dev.size) + 1 = SIZE_BYTES /\ answer = <<SERIAL_LOADER_END>>
       /\ dev'.pc = "end_ack" /\ dev'.buffer = <<>>
       /\ FromBytes(Append(dev.size, byte)) = 0
    \/ /\ dev.pc = "data" /\ answer = <<byte>>
       /\ dev'.pc = "data" /\ dev'.buffer = Append(dev.buffer, byte)
       /\ dev'.datasize = dev.datasize
    \/ /\ dev.pc = "data" /\ answer = <<byte, SERIAL_LOADER_END>>
       /\ dev'.pc = "end_ack" /\ dev'.buffer = Append(dev.buffer, byte)
       /\ Len(dev.buffer) + 1 = dev.datasize
    \/ /\ dev.pc = "end_ack" /\ byte = SERIAL_LOADER_END_ACK /\ answer = <<>>
       /\ dev'.pc = "kernel" /\ dev'.buffer = dev.buffer
    \/ /\ dev.pc = "end_ack" /\ answer = <<>>
       /\ dev'.pc = "wait_init" /\ dev'.buffer = <<>>

Receives == \E answer : DevTakes(answer) /\ DevCase(answer) /\ DevPlace(dev')

\* The numbers of the protocol.
LEMMA Numbers ==
    KERNEL_MAX_SIZE \in Nat /\ SIZE_BYTES \in Nat \ {0} /\ 0 \in 0 .. KERNEL_MAX_SIZE
<1>1. KERNEL_MAX_SIZE \in Nat /\ SIZE_BYTES \in Nat \ {0}
  BY LineAssumption, Zenon
<1> QED BY <1>1

\* serial_load begins again.
LEMMA WaitingPlace ==
    ASSUME BaseInv
    PROVE  /\ DevPlace(Waiting(dev)) /\ Waiting(dev).pc = "wait_init"
           /\ Waiting(dev).size = <<>> /\ Waiting(dev).buffer = <<>>
<1>1. dev \in DevRecords
  BY DEF BaseInv, DevPlace
<1>2. PICK d : d = Waiting(dev)
  OBVIOUS
<1>3. d.pc = "wait_init" /\ d.size = <<>> /\ d.buffer = <<>> /\ d.datasize = 0 /\ d \in DevRecords
  <2>1. d = [pc |-> "wait_init", size |-> <<>>, datasize |-> 0, buffer |-> <<>>]
    BY <1>1, <1>2 DEF Waiting, DevRecords
  <2>2. <<>> \in Seq(Bytes) /\ "wait_init" \in DevStates
    BY DEF DevStates, LoaderStates
  <2> QED BY <2>1, <2>2, Numbers DEF DevRecords
<1> QED BY <1>2, <1>3 DEF DevPlace

\* The byte that is taken.
LEMMA ByteType ==
    ASSUME BaseInv, to_dev # <<>>
    PROVE  byte \in Bytes /\ byte = to_dev[1]
BY DEF BaseInv, LinePlace, byte

\* A start signal, or a byte that is skipped.
LEMMA InitReceived == BaseInv /\ ReceiveInit => Receives
<1> SUFFICES ASSUME BaseInv, ReceiveInit PROVE Receives
  OBVIOUS
<1>1. dev \in DevRecords /\ DevPlace(dev) /\ dev.pc = "wait_init" /\ to_dev # <<>>
  BY DEF BaseInv, DevPlace, ReceiveInit, Arrived
<1>2. CASE byte = SERIAL_LOADER_INIT
  <2>1. Take(<<SERIAL_LOADER_INIT_ACK>>, [dev EXCEPT !.pc = "size"])
    BY <1>2 DEF ReceiveInit
  <2>2. DevTakes(<<SERIAL_LOADER_INIT_ACK>>)
    BY <1>1, <2>1, FourSignals DEF Take, DevTakes, LoaderStates
  <2>3. /\ dev'.pc = "size" /\ dev'.size = <<>> /\ dev'.buffer = <<>> /\ dev' \in DevRecords
        /\ dev'.datasize = dev.datasize
    BY <1>1, <2>1 DEF Take, DevRecords, DevStates, LoaderStates, DevPlace
  <2>4. DevPlace(dev')
    BY <1>1, <2>3, Numbers DEF DevPlace, DevRecords
  <2> QED BY <1>1, <1>2, <2>2, <2>3, <2>4 DEF Receives, DevCase
<1>3. CASE byte # SERIAL_LOADER_INIT
  <2>1. Take(<<>>, dev)
    BY <1>3 DEF ReceiveInit
  <2>2. DevTakes(<<>>) /\ dev' = dev
    BY <1>1, <2>1 DEF Take, DevTakes, LoaderStates
  <2> QED BY <1>1, <1>3, <2>2 DEF Receives, DevCase
<1> QED BY <1>2, <1>3

\* A byte of the size.
LEMMA SizeReceived == BaseInv /\ ReceiveSize => Receives
<1> SUFFICES ASSUME BaseInv, ReceiveSize PROVE Receives
  OBVIOUS
<1>1. dev \in DevRecords /\ DevPlace(dev) /\ dev.pc = "size" /\ to_dev # <<>>
  BY DEF BaseInv, DevPlace, ReceiveSize, Arrived
<1>2. dev.size \in Seq(Bytes) /\ dev.buffer = <<>> /\ Len(dev.size) < SIZE_BYTES
  BY <1>1 DEF DevPlace, DevRecords
<1>3. PICK size \in Seq(Bytes) : size = Append(dev.size, byte)
  <2>1. byte \in Bytes
    BY <1>1, ByteType
  <2>2. Append(dev.size, byte) \in Seq(Bytes)
    BY <1>2, <2>1
  <2> QED BY <2>2
<1>4. Len(size) = Len(dev.size) + 1 /\ Len(dev.size) \in Nat
  BY <1>1, <1>2, <1>3, ByteType
<1>5. PICK n \in Nat : n = FromBytes(size)
  BY FromBytesType
<1> DEFINE sized == [dev EXCEPT !.size = size, !.datasize = n]
<1>6. IF Len(size) < SIZE_BYTES THEN Take(<<>>, [dev EXCEPT !.size = size])
      ELSE IF ~ Fits(n) THEN Take(<<>>, Waiting(dev))
      ELSE IF n = 0
      THEN Take(<<SERIAL_LOADER_END>>, [sized EXCEPT !.pc = "end_ack"])
      ELSE Take(<<>>, [sized EXCEPT !.pc = "data"])
  BY <1>3, <1>5 DEF ReceiveSize
<1>7. CASE Len(size) < SIZE_BYTES
  <2>1. Take(<<>>, [dev EXCEPT !.size = size])
    BY <1>6, <1>7
  <2>2. DevTakes(<<>>)
    BY <1>1, <2>1 DEF Take, DevTakes, LoaderStates
  <2>3. /\ dev'.pc = "size" /\ dev'.size = size /\ dev'.buffer = <<>> /\ dev' \in DevRecords
        /\ dev'.datasize = dev.datasize
    BY <1>1, <1>2, <2>1 DEF Take, DevRecords
  <2>4. DevPlace(dev')
    BY <1>1, <1>7, <2>3 DEF DevPlace, DevRecords
  <2> QED BY <1>1, <1>3, <1>4, <2>2, <2>3, <2>4 DEF Receives, DevCase
<1>8. CASE ~ Len(size) < SIZE_BYTES
  <2>1. Len(dev.size) + 1 = SIZE_BYTES
    BY <1>2, <1>4, <1>8, Numbers
  <2>2. CASE ~ Fits(n)
    <3>1. Take(<<>>, Waiting(dev))
      BY <1>6, <1>8, <2>2
    <3>2. DevTakes(<<>>) /\ dev' = Waiting(dev)
      BY <1>1, <3>1 DEF Take, DevTakes, LoaderStates
    <3>3. FromBytes(Append(dev.size, byte)) # 0
      BY <1>3, <1>5, <2>2, Numbers DEF Fits
    <3> QED BY <1>1, <2>1, <3>2, <3>3, WaitingPlace DEF Receives, DevCase
  <2>3. CASE Fits(n) /\ n = 0
    <3>1. Take(<<SERIAL_LOADER_END>>, [sized EXCEPT !.pc = "end_ack"])
      BY <1>6, <1>8, <2>3
    <3>2. DevTakes(<<SERIAL_LOADER_END>>)
      BY <1>1, <3>1, FourSignals DEF Take, DevTakes, LoaderStates
    <3>3. /\ dev'.pc = "end_ack" /\ dev'.size = size /\ dev'.buffer = <<>> /\ dev' \in DevRecords
          /\ dev'.datasize = n
      <4>1. dev' = [dev EXCEPT !.size = size, !.datasize = n, !.pc = "end_ack"]
        BY <1>1, <3>1 DEF Take, DevRecords
      <4>2. n \in 0 .. KERNEL_MAX_SIZE
        BY <2>3, Numbers
      <4> QED BY <1>1, <1>2, <4>1, <4>2 DEF DevRecords, DevStates, LoaderStates
    <3>4. DevPlace(dev')
      BY <2>3, <3>3 DEF DevPlace
    <3> QED BY <1>1, <1>3, <1>5, <2>1, <2>3, <3>2, <3>3, <3>4 DEF Receives, DevCase
  <2>4. CASE Fits(n) /\ n # 0
    <3>1. Take(<<>>, [sized EXCEPT !.pc = "data"])
      BY <1>6, <1>8, <2>4
    <3>2. DevTakes(<<>>)
      BY <1>1, <3>1 DEF Take, DevTakes, LoaderStates
    <3>3. /\ dev'.pc = "data" /\ dev'.size = size /\ dev'.buffer = <<>> /\ dev' \in DevRecords
          /\ dev'.datasize = n
      <4>1. dev' = [dev EXCEPT !.size = size, !.datasize = n, !.pc = "data"]
        BY <1>1, <3>1 DEF Take, DevRecords
      <4>2. n \in 0 .. KERNEL_MAX_SIZE
        BY <2>4, Numbers DEF Fits
      <4> QED BY <1>1, <1>2, <4>1, <4>2 DEF DevRecords, DevStates, LoaderStates
    <3>4. DevPlace(dev')
      BY <2>4, <3>3 DEF DevPlace
    <3> QED BY <1>1, <1>3, <1>5, <2>1, <2>4, <3>2, <3>3, <3>4 DEF Receives, DevCase
  <2> QED BY <2>2, <2>3, <2>4
<1> QED BY <1>7, <1>8

\* A byte of the image.
LEMMA DataReceived == BaseInv /\ ReceiveData => Receives
<1> SUFFICES ASSUME BaseInv, ReceiveData PROVE Receives
  OBVIOUS
<1>1. dev \in DevRecords /\ DevPlace(dev) /\ dev.pc = "data" /\ to_dev # <<>>
  BY DEF BaseInv, DevPlace, ReceiveData, Arrived
<1>2. dev.buffer \in Seq(Bytes) /\ Len(dev.buffer) < dev.datasize
  BY <1>1 DEF DevPlace, DevRecords
<1>3. PICK buffer \in Seq(Bytes) : buffer = Append(dev.buffer, byte)
  <2>1. byte \in Bytes
    BY <1>1, ByteType
  <2>2. Append(dev.buffer, byte) \in Seq(Bytes)
    BY <1>2, <2>1
  <2> QED BY <2>2
<1>4. Len(buffer) = Len(dev.buffer) + 1 /\ Len(dev.buffer) \in Nat
  BY <1>1, <1>2, <1>3, ByteType
<1> DEFINE stored == [dev EXCEPT !.buffer = buffer]
<1>5. stored.buffer = buffer /\ stored \in DevRecords /\ stored.datasize = dev.datasize
      /\ stored.pc = "data" /\ stored.size = dev.size
  BY <1>1 DEF DevRecords
<1>6. IF Len(stored.buffer) = dev.datasize
      THEN Take(<<byte, SERIAL_LOADER_END>>, [stored EXCEPT !.pc = "end_ack"])
      ELSE Take(<<byte>>, stored)
  BY <1>3 DEF ReceiveData
<1> HIDE DEF stored
<1>7. CASE Len(stored.buffer) = dev.datasize
  <2>1. Take(<<byte, SERIAL_LOADER_END>>, [stored EXCEPT !.pc = "end_ack"])
    BY <1>6, <1>7
  <2>2. DevTakes(<<byte, SERIAL_LOADER_END>>)
    BY <1>1, <2>1, FourSignals, ByteType DEF Take, DevTakes, LoaderStates
  <2>3. /\ dev'.pc = "end_ack" /\ dev'.buffer = buffer /\ dev' \in DevRecords
        /\ dev'.datasize = dev.datasize
    BY <1>5, <2>1 DEF Take, DevRecords, DevStates, LoaderStates
  <2>4. DevPlace(dev')
    BY <1>5, <1>7, <2>3 DEF DevPlace, DevRecords
  <2>5. Len(dev.buffer) + 1 = dev.datasize
    BY <1>4, <1>5, <1>7
  <2> QED BY <1>1, <1>3, <2>2, <2>3, <2>4, <2>5 DEF Receives, DevCase
<1>8. CASE Len(stored.buffer) # dev.datasize
  <2>1. Take(<<byte>>, stored)
    BY <1>6, <1>8
  <2>2. DevTakes(<<byte>>) /\ dev' = stored
    BY <1>1, <2>1, ByteType DEF Take, DevTakes, LoaderStates
  <2>3. Len(buffer) < dev.datasize
    BY <1>1, <1>2, <1>4, <1>5, <1>8 DEF DevRecords
  <2>4. DevPlace(dev')
    BY <1>1, <1>5, <2>2, <2>3 DEF DevPlace, DevRecords
  <2> QED BY <1>1, <1>3, <1>5, <2>2, <2>4 DEF Receives, DevCase
<1> QED BY <1>7, <1>8

\* The answer to the end signal.
LEMMA EndAckReceived == BaseInv /\ ReceiveEndAck => Receives
<1> SUFFICES ASSUME BaseInv, ReceiveEndAck PROVE Receives
  OBVIOUS
<1>1. dev \in DevRecords /\ DevPlace(dev) /\ dev.pc = "end_ack" /\ to_dev # <<>>
  BY DEF BaseInv, DevPlace, ReceiveEndAck, Arrived
<1>2. CASE Launches
  <2>1. Take(<<>>, [dev EXCEPT !.pc = "kernel"])
    BY <1>2 DEF ReceiveEndAck
  <2>2. DevTakes(<<>>)
    BY <1>1, <2>1 DEF Take, DevTakes, LoaderStates
  <2>3. /\ dev'.pc = "kernel" /\ dev'.buffer = dev.buffer /\ dev' \in DevRecords
        /\ dev'.datasize = dev.datasize
    BY <1>1, <2>1 DEF Take, DevRecords, DevStates
  <2>4. DevPlace(dev')
    BY <1>1, <2>3 DEF DevPlace
  <2> QED BY <1>1, <1>2, <2>2, <2>3, <2>4 DEF Receives, DevCase, Launches
<1>3. CASE ~ Launches
  <2>1. Take(<<>>, Waiting(dev))
    BY <1>3 DEF ReceiveEndAck
  <2>2. DevTakes(<<>>) /\ dev' = Waiting(dev)
    BY <1>1, <2>1 DEF Take, DevTakes, LoaderStates
  <2> QED BY <1>1, <2>2, WaitingPlace DEF Receives, DevCase
<1> QED BY <1>2, <1>3

-----------------------------------------------------------------------------
(* Type correctness                                                        *)

\* What is on the line after the loader took a byte.
LEMMA ReceivesBase == BaseInv /\ Receives => BaseInv'
<1> SUFFICES ASSUME BaseInv, Receives PROVE BaseInv'
  OBVIOUS
<1>1. PICK answer : DevTakes(answer) /\ DevCase(answer) /\ DevPlace(dev')
  BY DEF Receives
<1>2. to_dev' \in Seq(Bytes) /\ to_host' \in Seq(Bytes)
  BY <1>1 DEF DevTakes, BaseInv, LinePlace
<1>3. dev'.pc # "off"
  BY <1>1 DEF DevCase
<1> QED BY <1>1, <1>2, <1>3 DEF BaseInv, LinePlace, HostImage, DevTakes

\* A byte from the loader is read.
LEMMA HostReads ==
    ASSUME BaseInv, to_host # <<>>
    PROVE  Tail(to_host) \in Seq(Bytes) /\ Head(to_host) = to_host[1] /\ to_host[1] \in Bytes
BY DEF BaseInv, LinePlace

\* The next byte of the image.
LEMMA ImageByte ==
    ASSUME BaseInv, host.pc \in {"send", "echo"}
    PROVE  /\ host.image \in Seq(Bytes) /\ host.idx + 1 \in 1 .. Len(host.image)
           /\ host.image[host.idx + 1] \in Bytes
<1>1. host \in HostRecords /\ host.idx < Len(host.image)
  BY DEF BaseInv, HostPlace
<1>2. host.image \in Seq(Bytes) /\ host.idx \in Nat
  BY <1>1, ImageBytes DEF HostRecords
<1> QED BY <1>1, <1>2

\* The steps that change the tool and the line, but not the board.
LEMMA HostBase ==
    ASSUME BaseInv, dev' = dev, punctual' = punctual, HostPlace(host'), confirmed' \in AllImages,
           to_dev' \in Seq(Bytes), to_host' \in Seq(Bytes), dev.pc = "off" => to_dev' = <<>>,
           host'.image = host.image, host'.pc # "closed" => host.pc # "closed"
    PROVE  BaseInv'
BY DEF BaseInv, HostImage, LinePlace

\* Every step keeps the invariant.
LEMMA NextBase == BaseInv /\ [Next]_vars => BaseInv'
<1> SUFFICES ASSUME BaseInv, [Next]_vars PROVE BaseInv'
  OBVIOUS
<1>0. /\ host \in HostRecords /\ HostPlace(host) /\ LinePlace /\ confirmed \in AllImages
      /\ host.image \in AllImages
  BY DEF BaseInv, HostPlace, HostRecords
<1>1. CASE UNCHANGED vars
  BY <1>1 DEF vars, BaseInv, HostImage, LinePlace
<1>2. ASSUME NEW image \in IF punctual THEN Images ELSE LateImages, Open(image) PROVE BaseInv'
  <2>1. image \in AllImages
    BY DEF AllImages
  <2>2. host' = [pc |-> "handshake", image |-> image, idx |-> 0] /\ to_host' = <<>>
        /\ UNCHANGED <<dev, to_dev, punctual, confirmed>>
    BY <1>2 DEF Open
  <2>3. host'.pc = "handshake" /\ host'.image = image /\ host'.idx = 0 /\ host' \in HostRecords
    BY <2>1, <2>2 DEF HostRecords, HostStates
  <2>4. Len(image) \in Nat
    BY <2>1, ImageBytes
  <2>5. HostPlace(host')
    BY <2>3, <2>4 DEF HostPlace
  <2>6. host'.image \in IF punctual' THEN Images ELSE LateImages
    BY <2>2, <2>3
  <2> QED BY <2>2, <2>5, <2>6 DEF BaseInv, LinePlace, HostImage
<1>3. CASE HandshakeTimeout
  <2>1. <<SERIAL_LOADER_INIT>> \in Seq(Bytes)
    BY FourSignals
  <2>2. to_dev' = Written(<<SERIAL_LOADER_INIT>>) /\ UNCHANGED <<host, dev, to_host, punctual, confirmed>>
    BY <1>3 DEF HandshakeTimeout
  <2>3. to_dev' \in Seq(Bytes) /\ (dev.pc = "off" => to_dev' = <<>>)
    BY <2>1, <2>2, WrittenCases
  <2> QED BY <1>0, <2>2, <2>3, HostBase DEF LinePlace
<1>4. CASE HandshakeRead
  <2>1. /\ host.pc = "handshake" /\ to_host # <<>> /\ to_host' = Tail(to_host)
        /\ UNCHANGED <<dev, punctual, confirmed>>
    BY <1>4 DEF HandshakeRead
  <2>2. Tail(to_host) \in Seq(Bytes) /\ host.idx = 0 /\ Len(host.image) \in Nat
    BY <1>0, <2>1, HostReads, ImageBytes DEF HostPlace
  <2>3. CASE Head(to_host) = SERIAL_LOADER_INIT_ACK
    <3>1. /\ host' = [host EXCEPT !.pc = LoopState(0)]
          /\ to_dev' = Written(ToBytes(Len(host.image)))
      BY <1>4, <2>3, FourSignals DEF HandshakeRead
    <3>2. to_dev' \in Seq(Bytes) /\ (dev.pc = "off" => to_dev' = <<>>)
      BY <2>2, <3>1, ToBytesType, WrittenCases
    <3>3. host' = Looping(0)
      BY <1>0, <2>2, <3>1 DEF HostRecords, Looping
    <3>4. HostPlace(host') /\ host'.image = host.image
      <4>1. 0 \in Nat /\ 0 <= Len(host.image)
        BY <2>2
      <4> QED BY <3>3, <4>1, LoopCases
    <3> QED BY <1>0, <2>1, <2>2, <3>2, <3>4, HostBase
  <2>4. CASE Head(to_host) = SERIAL_LOADER_INIT
    <3>1. to_dev' = Written(<<SERIAL_LOADER_INIT>>) /\ host' = host
      BY <1>4, <2>4, FourSignals DEF HandshakeRead
    <3>2. <<SERIAL_LOADER_INIT>> \in Seq(Bytes)
      BY FourSignals
    <3>3. to_dev' \in Seq(Bytes) /\ (dev.pc = "off" => to_dev' = <<>>)
      BY <3>1, <3>2, WrittenCases
    <3> QED BY <1>0, <2>1, <2>2, <3>1, <3>3, HostBase
  <2>5. CASE Head(to_host) \notin {SERIAL_LOADER_INIT_ACK, SERIAL_LOADER_INIT}
    <3>1. to_dev' = to_dev /\ host' = host
      BY <1>4, <2>5 DEF HandshakeRead
    <3> QED BY <1>0, <2>1, <2>2, <3>1, HostBase DEF LinePlace
  <2> QED BY <2>3, <2>4, <2>5
<1>5. CASE SendByte
  <2>1. /\ host.pc = "send" /\ host' = [host EXCEPT !.pc = "echo"]
        /\ to_dev' = Written(<<host.image[host.idx + 1]>>)
        /\ UNCHANGED <<dev, to_host, punctual, confirmed>>
    BY <1>5 DEF SendByte
  <2>2. <<host.image[host.idx + 1]>> \in Seq(Bytes)
    BY <2>1, ImageByte
  <2>3. to_dev' \in Seq(Bytes) /\ (dev.pc = "off" => to_dev' = <<>>)
    BY <2>1, <2>2, WrittenCases
  <2>4. host'.pc = "echo" /\ host'.image = host.image /\ host'.idx = host.idx /\ host' \in HostRecords
    BY <1>0, <2>1 DEF HostRecords, HostStates
  <2>5. HostPlace(host')
    BY <1>0, <2>1, <2>4 DEF HostPlace
  <2> QED BY <1>0, <2>1, <2>3, <2>4, <2>5, HostBase DEF LinePlace
<1>6. CASE ReadEcho
  <2>1. /\ host.pc = "echo" /\ to_host # <<>> /\ to_host' = Tail(to_host)
        /\ UNCHANGED <<dev, to_dev, punctual, confirmed>>
    BY <1>6 DEF ReadEcho
  <2>2. CASE EchoMatches
    <3>1. host' = Looping(host.idx + 1)
      BY <1>0, <1>6, <2>2 DEF ReadEcho, HostRecords, Looping
    <3>2. host.idx + 1 \in Nat /\ host.idx + 1 <= Len(host.image)
      BY <2>1, ImageByte
    <3>3. HostPlace(host') /\ host'.image = host.image
      BY <3>1, <3>2, LoopCases
    <3> QED BY <1>0, <2>1, <3>3, HostBase, HostReads DEF LinePlace
  <2>3. CASE ~ EchoMatches
    <3>1. host' = [host EXCEPT !.pc = "closed"]
      BY <1>6, <2>3 DEF ReadEcho
    <3> QED BY <1>0, <2>1, <3>1, CloseHost, HostBase, HostReads DEF LinePlace
  <2> QED BY <2>2, <2>3
<1>7. CASE ReadFinal
  <2>1. /\ host.pc = "final" /\ to_host # <<>> /\ to_host' = Tail(to_host)
        /\ host' = [host EXCEPT !.pc = "closed"] /\ UNCHANGED <<dev, punctual>>
    BY <1>7 DEF ReadFinal
  <2>2. confirmed' \in AllImages /\ to_dev' \in Seq(Bytes) /\ (dev.pc = "off" => to_dev' = <<>>)
    <3>1. CASE Head(to_host) = SERIAL_LOADER_END
      <4>1. to_dev' = Written(<<SERIAL_LOADER_END_ACK>>) /\ confirmed' = host.image
        BY <1>7, <3>1 DEF ReadFinal
      <4>2. <<SERIAL_LOADER_END_ACK>> \in Seq(Bytes)
        BY FourSignals
      <4> QED BY <1>0, <4>1, <4>2, WrittenCases
    <3>2. CASE Head(to_host) # SERIAL_LOADER_END
      BY <1>0, <1>7, <3>2 DEF ReadFinal, LinePlace
    <3> QED BY <3>1, <3>2
  <2> QED BY <2>1, <2>2, CloseHost, HostBase, HostReads
<1>8. CASE TransferTimeout \/ Interrupt
  <2>1. host' = [host EXCEPT !.pc = "closed"] /\ UNCHANGED <<dev, to_dev, to_host, punctual, confirmed>>
    BY <1>8 DEF TransferTimeout, Interrupt
  <2> QED BY <1>0, <2>1, CloseHost, HostBase DEF LinePlace
<1>9. CASE PowerOn
  <2>1. dev' = Waiting(dev) /\ to_dev' = <<>> /\ UNCHANGED <<host, to_host, punctual, confirmed>>
    BY <1>9 DEF PowerOn
  <2> QED BY <2>1, WaitingPlace DEF BaseInv, LinePlace, HostImage
<1>10. CASE Reset
  <2>1. /\ dev' = [pc |-> "off", size |-> <<>>, datasize |-> 0, buffer |-> <<>>]
        /\ to_dev' = <<>> /\ UNCHANGED <<host, to_host, punctual, confirmed>>
    BY <1>10 DEF Reset
  <2>2. <<>> \in Seq(Bytes) /\ "off" \in DevStates
    BY DEF DevStates
  <2>3. DevPlace(dev')
    BY <2>1, <2>2, Numbers DEF DevPlace, DevRecords
  <2> QED BY <2>1, <2>3 DEF BaseInv, LinePlace, HostImage
<1>11. CASE ReceiveInit \/ ReceiveSize \/ ReceiveData \/ ReceiveEndAck
  BY <1>11, InitReceived, SizeReceived, DataReceived, EndAckReceived, ReceivesBase
<1> QED BY <1>1, <1>2, <1>3, <1>4, <1>5, <1>6, <1>7, <1>8, <1>9, <1>10, <1>11
        DEF Next, Operator, Tool, Loader

\* The places of the tool and the loader hold in every state.
THEOREM Places == Spec => []BaseInv
<1>1. Init => BaseInv
  BY InitBase
<1>2. BaseInv /\ [Next]_vars => BaseInv'
  BY NextBase
<1> QED BY <1>1, <1>2, PTL DEF Spec

\* The variables have their types: in particular serial_load stores no byte
\* beyond the memory of the kernel, whatever size arrives.
THEOREM TypeCorrect == Spec => []TypeOK
<1>1. BaseInv => TypeOK
  BY BaseTypes
<1> QED BY <1>1, Places, PTL

-----------------------------------------------------------------------------
(* What the other steps do                                                 *)

\* The tool is inside a transfer.
Sending(h) == h.pc \in {"send", "echo", "final"}

\* It asks for the loader.
Asks ==
    /\ host.pc = "handshake" /\ to_host = <<>> /\ Len(to_dev) < MaxPending
    /\ punctual => Settled
    /\ to_dev' = Written(<<SERIAL_LOADER_INIT>>)
    /\ UNCHANGED <<host, dev, to_host, punctual, confirmed>>

\* It reads a byte in the given state.
Reads(state, b) ==
    /\ host.pc = state /\ to_host # <<>> /\ to_host[1] = b /\ to_host' = Tail(to_host)
    /\ UNCHANGED <<dev, punctual>>

\* It begins a transfer.
Starts ==
    /\ Reads("handshake", SERIAL_LOADER_INIT_ACK)
    /\ Sending(host') /\ host'.image = host.image /\ host'.idx = 0
    /\ host'.pc \in {"send", "final"}
    /\ to_dev' = Written(ToBytes(Len(host.image))) /\ confirmed' = confirmed

\* It feeds a loader that is inside an earlier transfer.
Feeds ==
    /\ Reads("handshake", SERIAL_LOADER_INIT)
    /\ to_dev' = Written(<<SERIAL_LOADER_INIT>>) /\ UNCHANGED <<host, confirmed>>

\* It sends a byte of the image.
Sends ==
    /\ host.pc = "send" /\ Sending(host') /\ host'.image = host.image /\ host'.idx = host.idx
    /\ host'.pc = "echo"
    /\ to_dev' = Written(<<host.image[host.idx + 1]>>)
    /\ UNCHANGED <<dev, to_host, punctual, confirmed>>

\* It reads the echo.
Advances ==
    /\ Reads("echo", host.image[host.idx + 1])
    /\ Sending(host') /\ host'.image = host.image /\ host'.idx = host.idx + 1
    /\ host'.pc \in {"send", "final"}
    /\ UNCHANGED <<to_dev, confirmed>>

\* It is opened, or drops a byte before a transfer.
Opens ==
    host.pc = "closed" /\ host'.pc = "handshake" /\ to_host' = <<>> /\ (punctual => Settled)
Drops ==
    /\ Reads("handshake", Head(to_host)) /\ host' = host
    /\ to_host[1] # SERIAL_LOADER_INIT_ACK /\ to_host[1] # SERIAL_LOADER_INIT

\* It is, or will be, outside a transfer, and reads or loses bytes.
Leaves ==
    /\ host'.pc = "closed" \/ Opens \/ Drops
    /\ ~ Sending(host')
    /\ to_host' = to_host \/ to_host' = <<>> \/ (to_host # <<>> /\ to_host' = Tail(to_host))
    /\ UNCHANGED <<dev, to_dev, punctual, confirmed>>

\* It reports success.
Ends ==
    /\ Reads("final", SERIAL_LOADER_END) /\ ~ Sending(host') /\ host'.pc = "closed"
    /\ to_dev' = Written(<<SERIAL_LOADER_END_ACK>>) /\ confirmed' = host.image

\* The board is switched on or off.
Restarts ==
    /\ dev'.pc \in {"off", "wait_init"} /\ to_dev' = <<>>
    /\ UNCHANGED <<host, to_host, punctual, confirmed>>

\* Every step is one of these.
LEMMA StepCases ==
    ASSUME BaseInv, [Next]_vars
    PROVE  \/ Asks \/ Starts \/ Feeds \/ Sends \/ Advances \/ Leaves \/ Ends \/ Restarts \/ Receives
           \/ UNCHANGED <<host, dev, to_dev, to_host, punctual, confirmed>>
<1>0. host \in HostRecords /\ HostPlace(host) /\ to_host \in Seq(Bytes)
  BY DEF BaseInv, HostPlace, LinePlace
<1>1. CASE UNCHANGED vars
  BY <1>1 DEF vars
<1>2. ASSUME NEW image \in IF punctual THEN Images ELSE LateImages, Open(image) PROVE Leaves
  <2>1. host' = [pc |-> "handshake", image |-> image, idx |-> 0] /\ to_host' = <<>>
        /\ UNCHANGED <<dev, to_dev, punctual, confirmed>>
    BY <1>2 DEF Open
  <2>2. host'.pc = "handshake"
    BY <2>1
  <2>3. ~ Sending(host') /\ Opens
    BY <1>2, <2>1, <2>2 DEF Sending, Open, Opens
  <2> QED BY <2>1, <2>3, Zenon DEF Leaves
<1>3. CASE HandshakeTimeout
  BY <1>3 DEF HandshakeTimeout, Asks, TimedOut
<1>4. CASE HandshakeRead
  <2>1. /\ host.pc = "handshake" /\ to_host # <<>> /\ to_host' = Tail(to_host)
        /\ UNCHANGED <<dev, punctual, confirmed>>
    BY <1>4 DEF HandshakeRead
  <2>2. Head(to_host) = to_host[1]
    BY <2>1, HostReads
  <2>3. CASE Head(to_host) = SERIAL_LOADER_INIT_ACK
    <3>1. host' = [host EXCEPT !.pc = LoopState(0)] /\ to_dev' = Written(ToBytes(Len(host.image)))
      BY <1>4, <2>3, FourSignals DEF HandshakeRead
    <3>2. host.idx = 0 /\ 0 \in Nat /\ 0 <= Len(host.image)
      BY <1>0, <2>1, ImageBytes DEF HostPlace, HostRecords
    <3>3. host' = Looping(0)
      BY <1>0, <3>1, <3>2 DEF HostRecords, Looping
    <3>4. host'.image = host.image /\ host'.idx = 0 /\ host'.pc \in {"send", "final"}
      BY <3>2, <3>3, LoopCases
    <3> QED BY <2>1, <2>2, <2>3, <3>1, <3>4 DEF Starts, Reads, Sending
  <2>4. CASE Head(to_host) = SERIAL_LOADER_INIT
    <3>1. to_dev' = Written(<<SERIAL_LOADER_INIT>>) /\ host' = host
      BY <1>4, <2>4, FourSignals DEF HandshakeRead
    <3> QED BY <2>1, <2>2, <2>4, <3>1 DEF Feeds, Reads
  <2>5. CASE Head(to_host) \notin {SERIAL_LOADER_INIT_ACK, SERIAL_LOADER_INIT}
    <3>1. to_dev' = to_dev /\ host' = host
      BY <1>4, <2>5 DEF HandshakeRead
    <3>2. Drops
      BY <2>1, <2>2, <2>5, <3>1 DEF Drops, Reads
    <3> QED BY <2>1, <3>1, <3>2 DEF Leaves, Sending
  <2> QED BY <2>3, <2>4, <2>5
<1>5. CASE SendByte
  <2>1. host' = [host EXCEPT !.pc = "echo"]
    BY <1>5 DEF SendByte
  <2>2. host'.pc = "echo" /\ host'.image = host.image /\ host'.idx = host.idx
    BY <1>0, <2>1 DEF HostRecords
  <2> QED BY <1>5, <2>2 DEF SendByte, Sends, Sending
<1>6. CASE ReadEcho
  <2>1. /\ host.pc = "echo" /\ to_host # <<>> /\ to_host' = Tail(to_host)
        /\ UNCHANGED <<dev, to_dev, punctual, confirmed>>
    BY <1>6 DEF ReadEcho
  <2>2. CASE EchoMatches
    <3>1. host' = Looping(host.idx + 1)
      BY <1>0, <1>6, <2>2 DEF ReadEcho, HostRecords, Looping
    <3>2. host.idx + 1 \in Nat /\ host.idx + 1 <= Len(host.image)
      BY <2>1, ImageByte
    <3>3. host'.image = host.image /\ host'.idx = host.idx + 1 /\ host'.pc \in {"send", "final"}
      BY <3>1, <3>2, LoopCases
    <3>4. to_host[1] = host.image[host.idx + 1]
      BY <2>1, <2>2, HostReads DEF EchoMatches
    <3> QED BY <2>1, <3>3, <3>4 DEF Advances, Reads, Sending
  <2>3. CASE ~ EchoMatches
    <3>1. host' = [host EXCEPT !.pc = "closed"]
      BY <1>6, <2>3 DEF ReadEcho
    <3>2. host'.pc = "closed"
      BY <1>0, <3>1 DEF HostRecords
    <3> QED BY <2>1, <3>2 DEF Leaves, Sending
  <2> QED BY <2>2, <2>3
<1>7. CASE ReadFinal
  <2>1. /\ host.pc = "final" /\ to_host # <<>> /\ to_host' = Tail(to_host)
        /\ host' = [host EXCEPT !.pc = "closed"] /\ UNCHANGED <<dev, punctual>>
    BY <1>7 DEF ReadFinal
  <2>2. host'.pc = "closed" /\ Head(to_host) = to_host[1]
    BY <1>0, <2>1, HostReads DEF HostRecords
  <2>3. CASE Head(to_host) = SERIAL_LOADER_END
    <3>1. to_dev' = Written(<<SERIAL_LOADER_END_ACK>>) /\ confirmed' = host.image
      BY <1>7, <2>3 DEF ReadFinal
    <3> QED BY <2>1, <2>2, <2>3, <3>1 DEF Ends, Reads, Sending
  <2>4. CASE Head(to_host) # SERIAL_LOADER_END
    <3>1. UNCHANGED <<to_dev, confirmed>>
      BY <1>7, <2>4 DEF ReadFinal
    <3> QED BY <2>1, <2>2, <3>1 DEF Leaves, Sending
  <2> QED BY <2>3, <2>4
<1>8. CASE TransferTimeout \/ Interrupt
  <2>1. host' = [host EXCEPT !.pc = "closed"] /\ UNCHANGED <<dev, to_dev, to_host, punctual, confirmed>>
    BY <1>8 DEF TransferTimeout, Interrupt
  <2>2. host'.pc = "closed"
    BY <1>0, <2>1 DEF HostRecords
  <2>3. ~ Sending(host')
    BY <2>2 DEF Sending
  <2> QED BY <2>1, <2>2, <2>3, Zenon DEF Leaves
<1>9. CASE PowerOn
  <2>1. dev' = Waiting(dev) /\ to_dev' = <<>> /\ UNCHANGED <<host, to_host, punctual, confirmed>>
    BY <1>9 DEF PowerOn
  <2> QED BY <2>1, WaitingPlace DEF Restarts
<1>10. CASE Reset
  <2>1. /\ dev' = [pc |-> "off", size |-> <<>>, datasize |-> 0, buffer |-> <<>>]
        /\ to_dev' = <<>> /\ UNCHANGED <<host, to_host, punctual, confirmed>>
    BY <1>10 DEF Reset
  <2>2. dev'.pc = "off"
    BY <2>1
  <2> QED BY <2>1, <2>2 DEF Restarts
<1>11. CASE ReceiveInit \/ ReceiveSize \/ ReceiveData \/ ReceiveEndAck
  BY <1>11, InitReceived, SizeReceived, DataReceived, EndAckReceived
<1> QED BY <1>1, <1>2, <1>3, <1>4, <1>5, <1>6, <1>7, <1>8, <1>9, <1>10, <1>11
        DEF Next, Operator, Tool, Loader

-----------------------------------------------------------------------------
(* A late line: what success means                                         *)

\* The line may be late: no image sent over it holds a signal.
Late == ~ punctual

\* The answers since the last INIT_ACK, as the state of the loader has them.
Sync(d, s) ==
    \/ d.pc = "size" /\ s = <<>>
    \/ d.pc = "data" /\ s = d.buffer
    \/ d.pc \in {"end_ack", "kernel"} /\ s = d.buffer \o <<SERIAL_LOADER_END>>
    \/ d.pc \in {"off", "wait_init"}

\* The tool never sends a signal of the loader.
NoEcho == ~ Has(to_dev, SERIAL_LOADER_INIT_ACK) /\ ~ Has(to_dev, SERIAL_LOADER_END)

\* After END the loader sends nothing but INIT_ACK.
EndLast(s, d) ==
    \A k \in 1 .. Len(s) : s[k] = SERIAL_LOADER_END =>
        \/ k < Len(s) /\ s[k + 1] = SERIAL_LOADER_INIT_ACK
        \/ k = Len(s) /\ d.pc \notin {"size", "data"}

\* After the last INIT_ACK come the answers of the present session.
AckSync(s, d) ==
    \A k \in 1 .. Len(s) : s[k] = SERIAL_LOADER_INIT_ACK =>
        Has(Rest(s, k), SERIAL_LOADER_INIT_ACK) \/ Sync(d, Rest(s, k))

\* The tool has read a first part of them.
SendingSync(h, s, d) ==
    Sending(h) => \/ Has(s, SERIAL_LOADER_INIT_ACK)
                  \/ Sync(d, SubSeq(h.image, 1, h.idx) \o s)

SuccessInv ==
    NoEcho /\ EndLast(to_host, dev) /\ AckSync(to_host, dev) /\ SendingSync(host, to_host, dev)

\* The images of a late line hold no signals.
LEMMA ImagePlain ==
    ASSUME BaseInv, Late, host.pc # "closed"
    PROVE  Plain(host.image)
<1>1. host.image \in IF punctual THEN Images ELSE LateImages
  BY DEF BaseInv, HostImage
<1> QED BY <1>1, PlainAssumption, Zenon DEF Late

\* What is written holds only what was there and the bytes.
LEMMA WrittenHas ==
    ASSUME BaseInv, NEW bytes \in Seq(Bytes), NEW x, ~ Has(bytes, x), Has(Written(bytes), x)
    PROVE  Has(to_dev, x)
<1>1. CASE Written(bytes) = to_dev \o bytes
  BY <1>1, HasPut DEF BaseInv, LinePlace
<1>2. CASE Written(bytes) = <<>>
  BY <1>2, HasOne
<1> QED BY <1>1, <1>2, WrittenCases

\* The bytes of the size are no signals.
LEMMA SizePlain ==
    ASSUME BaseInv, Late, host.pc # "closed", NEW x \in Signals
    PROVE  /\ ToBytes(Len(host.image)) \in Seq(Bytes) /\ ~ Has(ToBytes(Len(host.image)), x)
<1>1. Len(host.image) \in Nat
  BY ImageBytes DEF BaseInv, HostPlace, HostRecords
<1>2. ToBytes(Len(host.image)) \in Seq(Bytes) /\ Len(ToBytes(Len(host.image))) = SIZE_BYTES
  BY <1>1, ToBytesType
<1>3. \A i \in 1 .. SIZE_BYTES : ToBytes(Len(host.image))[i] \notin Signals
  BY ImagePlain, Zenon DEF Plain
<1> QED BY <1>2, <1>3 DEF Has

\* Nor is a byte of the image.
LEMMA DataPlain ==
    ASSUME BaseInv, Late, host.pc \in {"send", "echo"}
    PROVE  host.image[host.idx + 1] \notin Signals /\ <<host.image[host.idx + 1]>> \in Seq(Bytes)
<1>1. host.image \in Seq(Bytes) /\ host.idx + 1 \in 1 .. Len(host.image)
      /\ host.image[host.idx + 1] \in Bytes
  BY ImageByte
<1>2. \A i \in DOMAIN host.image : host.image[i] \notin Signals
  BY ImagePlain DEF Plain
<1>3. DOMAIN host.image = 1 .. Len(host.image)
  BY <1>1
<1> QED BY <1>1, <1>2, <1>3

\* Every step keeps the signals of the loader out of what it reads.
LEMMA NoEchoKept ==
    ASSUME BaseInv, Late, NoEcho, [Next]_vars
    PROVE  NoEcho'
<1> SUFFICES ASSUME NEW x \in {SERIAL_LOADER_INIT_ACK, SERIAL_LOADER_END}
             PROVE  Has(to_dev', x) => Has(to_dev, x)
  BY DEF NoEcho
<1>1. x \in Signals /\ x # SERIAL_LOADER_INIT /\ x # SERIAL_LOADER_END_ACK
  BY FourSignals DEF Signals
<1>2. ASSUME NEW y \in Bytes, x # y, to_dev' = Written(<<y>>) PROVE Has(to_dev', x) => Has(to_dev, x)
  <2>1. <<y>> \in Seq(Bytes) /\ ~ Has(<<y>>, x)
    BY <1>2, HasOne
  <2> QED BY <1>2, <2>1, WrittenHas
<1>3. CASE Asks
  BY <1>1, <1>2, <1>3, FourSignals DEF Asks
<1>4. CASE Starts
  <2>1. host.pc # "closed" /\ to_dev' = Written(ToBytes(Len(host.image)))
    BY <1>4 DEF Starts, Reads
  <2>2. ToBytes(Len(host.image)) \in Seq(Bytes) /\ ~ Has(ToBytes(Len(host.image)), x)
    BY <1>1, <2>1, SizePlain
  <2> QED BY <2>1, <2>2, WrittenHas
<1>5. CASE Feeds
  BY <1>1, <1>2, <1>5, FourSignals DEF Feeds
<1>6. CASE Sends
  <2>1. host.image[host.idx + 1] \notin Signals /\ host.image[host.idx + 1] \in Bytes
    BY <1>6, DataPlain, ImageByte DEF Sends
  <2> QED BY <1>1, <1>2, <1>6, <2>1 DEF Sends
<1>7. CASE Advances \/ Leaves
  BY <1>7 DEF Advances, Leaves
<1>8. CASE Ends
  BY <1>1, <1>2, <1>8, FourSignals DEF Ends
<1>9. CASE Restarts
  BY <1>9, HasOne DEF Restarts
<1>10. CASE Receives
  <2>1. to_dev # <<>> /\ to_dev' = Tail(to_dev) /\ to_dev \in Seq(Bytes)
    BY <1>10 DEF Receives, DevTakes, BaseInv, LinePlace
  <2> QED BY <2>1, HasTaken
<1>11. CASE UNCHANGED <<host, dev, to_dev, to_host, punctual, confirmed>>
  BY <1>11
<1> QED BY <1>3, <1>4, <1>5, <1>6, <1>7, <1>8, <1>9, <1>10, <1>11, StepCases

\* The tool reads a byte.
LEMMA SyncTaken ==
    ASSUME NEW s \in Seq(Bytes), s # <<>>, NEW d, EndLast(s, d), AckSync(s, d)
    PROVE  EndLast(Tail(s), d) /\ AckSync(Tail(s), d)
<1>1. ASSUME NEW k \in 1 .. Len(Tail(s))
      PROVE  /\ k + 1 \in 1 .. Len(s) /\ Tail(s)[k] = s[k + 1] /\ Rest(Tail(s), k) = Rest(s, k + 1)
             /\ k < Len(Tail(s)) => Tail(s)[k + 1] = s[(k + 1) + 1]
             /\ (k < Len(Tail(s)) <=> k + 1 < Len(s)) /\ (k = Len(Tail(s)) <=> k + 1 = Len(s))
  <2>1. Len(s) \in Nat \ {0} /\ Len(Tail(s)) = Len(s) - 1 /\ k \in 0 .. Len(s) - 1
        /\ \A i \in 1 .. Len(s) - 1 : Tail(s)[i] = s[i + 1]
    BY Taken
  <2> QED BY <2>1, RestTaken
<1>2. EndLast(Tail(s), d)
  BY <1>1 DEF EndLast
<1>3. ASSUME NEW k \in 1 .. Len(Tail(s)), Tail(s)[k] = SERIAL_LOADER_INIT_ACK
      PROVE  Has(Rest(Tail(s), k), SERIAL_LOADER_INIT_ACK) \/ Sync(d, Rest(Tail(s), k))
  <2>1. PICK l \in 1 .. Len(s) : l = k + 1
    BY <1>1
  <2>2. s[l] = SERIAL_LOADER_INIT_ACK /\ Rest(Tail(s), k) = Rest(s, l)
    BY <1>1, <1>3, <2>1
  <2>3. Has(Rest(s, l), SERIAL_LOADER_INIT_ACK) \/ Sync(d, Rest(s, l))
    BY <2>1, <2>2, Zenon DEF AckSync
  <2> QED BY <2>2, <2>3
<1>4. AckSync(Tail(s), d)
  BY <1>3, Zenon DEF AckSync
<1> QED BY <1>2, <1>4

\* The answers of the session go on.
LEMMA SyncPut ==
    ASSUME BaseInv, NoEcho, NEW answer, DevTakes(answer), DevCase(answer),
           answer # <<SERIAL_LOADER_INIT_ACK>>, NEW t \in Seq(Bytes), Sync(dev, t)
    PROVE  Sync(dev', t \o answer)
<1>1. dev.buffer \in Seq(Bytes) /\ byte \in Bytes
  BY ByteType DEF DevTakes, BaseInv, DevPlace, DevRecords
<1>2. CASE dev'.pc \in {"off", "wait_init"}
  BY <1>2 DEF Sync
<1>3. CASE dev.pc = "size" /\ answer = <<>> /\ dev'.pc \in {"size", "data"} /\ dev'.buffer = <<>>
  <2>1. t = <<>>
    BY <1>3 DEF Sync
  <2> QED BY <1>3, <2>1 DEF Sync
<1>4. CASE dev.pc = "size" /\ answer = <<SERIAL_LOADER_END>> /\ dev'.pc = "end_ack" /\ dev'.buffer = <<>>
  <2>1. t = <<>>
    BY <1>4 DEF Sync
  <2> QED BY <1>4, <2>1 DEF Sync
<1>5. CASE dev.pc = "data" /\ answer = <<byte>> /\ dev'.pc = "data" /\ dev'.buffer = Append(dev.buffer, byte)
  <2>1. t = dev.buffer
    BY <1>5 DEF Sync
  <2>2. t \o answer = Append(dev.buffer, byte)
    BY <1>1, <1>5, <2>1
  <2> QED BY <1>5, <2>2 DEF Sync
<1>6. CASE dev.pc = "data" /\ answer = <<byte, SERIAL_LOADER_END>> /\ dev'.pc = "end_ack"
           /\ dev'.buffer = Append(dev.buffer, byte)
  <2>1. t = dev.buffer
    BY <1>6 DEF Sync
  <2>2. t \o answer = Append(dev.buffer, byte) \o <<SERIAL_LOADER_END>>
    <3>1. dev.buffer \o <<byte, SERIAL_LOADER_END>> = Append(dev.buffer, byte) \o <<SERIAL_LOADER_END>>
      <4>1. PICK x \in Bytes : x = SERIAL_LOADER_END
        BY FourSignals
      <4>2. dev.buffer \o <<byte, x>> = Append(dev.buffer, byte) \o <<x>>
        BY <1>1, PutTwo, Zenon
      <4> QED BY <4>1, <4>2
    <3> QED BY <1>6, <2>1, <3>1, Zenon
  <2> QED BY <1>6, <2>2 DEF Sync
<1>7. CASE dev.pc = "end_ack" /\ answer = <<>> /\ dev'.pc = "kernel" /\ dev'.buffer = dev.buffer
  <2>1. t \o answer = t
    BY <1>7
  <2> QED BY <1>7, <2>1 DEF Sync
<1>8. \/ dev'.pc \in {"off", "wait_init"}
      \/ dev.pc = "size" /\ answer = <<>> /\ dev'.pc \in {"size", "data"} /\ dev'.buffer = <<>>
      \/ dev.pc = "size" /\ answer = <<SERIAL_LOADER_END>> /\ dev'.pc = "end_ack" /\ dev'.buffer = <<>>
      \/ dev.pc = "data" /\ answer = <<byte>> /\ dev'.pc = "data" /\ dev'.buffer = Append(dev.buffer, byte)
      \/ dev.pc = "data" /\ answer = <<byte, SERIAL_LOADER_END>> /\ dev'.pc = "end_ack"
           /\ dev'.buffer = Append(dev.buffer, byte)
      \/ dev.pc = "end_ack" /\ answer = <<>> /\ dev'.pc = "kernel" /\ dev'.buffer = dev.buffer
  BY Zenon DEF DevCase
<1> QED BY <1>2, <1>3, <1>4, <1>5, <1>6, <1>7, <1>8

\* What the loader may answer besides INIT_ACK.
LEMMA Answers ==
    ASSUME BaseInv, NoEcho, NEW answer, DevTakes(answer), DevCase(answer),
           answer # <<SERIAL_LOADER_INIT_ACK>>
    PROVE  /\ ~ Has(answer, SERIAL_LOADER_INIT_ACK)
           /\ \A j \in 1 .. Len(answer) : answer[j] = SERIAL_LOADER_END =>
                  j = Len(answer) /\ dev'.pc \notin {"size", "data"}
           /\ dev.pc \notin {"size", "data"} => answer = <<>> /\ dev'.pc \notin {"size", "data"}
<1>1. byte # SERIAL_LOADER_INIT_ACK /\ byte # SERIAL_LOADER_END
  <2>1. to_dev # <<>> /\ to_dev \in Seq(Bytes) /\ byte = to_dev[1]
    BY ByteType DEF DevTakes, BaseInv, LinePlace
  <2>2. 1 \in 1 .. Len(to_dev)
    BY <2>1
  <2> QED BY <2>1, <2>2 DEF NoEcho, Has
<1>2. CASE answer = <<>>
  <2>1. dev.pc \notin {"size", "data"} => dev'.pc \notin {"size", "data"}
    BY <1>2 DEF DevCase
  <2>2. Len(answer) = 0 /\ ~ Has(answer, SERIAL_LOADER_INIT_ACK)
    BY <1>2, HasOne
  <2> QED BY <1>2, <2>1, <2>2
<1>3. CASE answer = <<SERIAL_LOADER_END>> /\ dev.pc = "size" /\ dev'.pc = "end_ack"
  BY <1>3, HasOne, FourSignals
<1>4. CASE answer = <<byte>> /\ dev.pc = "data"
  BY <1>1, <1>4, HasOne
<1>5. CASE answer = <<byte, SERIAL_LOADER_END>> /\ dev.pc = "data" /\ dev'.pc = "end_ack"
  BY <1>1, <1>5, HasTwo, FourSignals
<1>6. \/ answer = <<>> \/ (answer = <<SERIAL_LOADER_END>> /\ dev.pc = "size" /\ dev'.pc = "end_ack")
      \/ (answer = <<byte>> /\ dev.pc = "data")
      \/ (answer = <<byte, SERIAL_LOADER_END>> /\ dev.pc = "data" /\ dev'.pc = "end_ack")
  BY Zenon DEF DevCase
<1> QED BY <1>2, <1>3, <1>4, <1>5, <1>6

\* A byte that is taken keeps the loader and its answers in step.
LEMMA ReceivesSync ==
    ASSUME BaseInv, SuccessInv, Receives
    PROVE  EndLast(to_host', dev') /\ AckSync(to_host', dev') /\ SendingSync(host', to_host', dev')
<1>1. PICK answer : DevTakes(answer) /\ DevCase(answer)
  BY DEF Receives
<1>2. to_host \in Seq(Bytes) /\ answer \in Seq(Bytes) /\ to_host' = to_host \o answer /\ host' = host
  BY <1>1 DEF DevTakes, BaseInv, LinePlace
<1>3. NoEcho /\ EndLast(to_host, dev) /\ AckSync(to_host, dev) /\ SendingSync(host, to_host, dev)
  BY DEF SuccessInv
<1>4. PICK s \in Seq(Bytes) : s = to_host
  BY <1>2
<1>5. /\ Len(s) \in Nat /\ Len(answer) \in Nat /\ Len(s \o answer) = Len(s) + Len(answer)
      /\ \A k \in 1 .. Len(s) : (s \o answer)[k] = s[k]
      /\ \A k \in 1 .. Len(answer) : (s \o answer)[Len(s) + k] = answer[k]
  BY <1>2, Put
<1>6. SubSeq(host.image, 1, host.idx) \in Seq(Bytes)
  <2>1. host.image \in Seq(Bytes) /\ host.idx \in Nat /\ host.idx <= Len(host.image)
    BY ImageBytes DEF BaseInv, HostPlace, HostRecords
  <2> QED BY <2>1
<1>7. CASE answer = <<SERIAL_LOADER_INIT_ACK>>
  <2>1. dev'.pc = "size" /\ Len(answer) = 1 /\ answer[1] = SERIAL_LOADER_INIT_ACK
    <3>1. byte # SERIAL_LOADER_INIT_ACK
      <4>1. to_dev # <<>> /\ to_dev \in Seq(Bytes) /\ byte = to_dev[1]
        BY <1>1, ByteType DEF DevTakes, BaseInv, LinePlace
      <4>2. 1 \in 1 .. Len(to_dev)
        BY <4>1
      <4> QED BY <1>3, <4>1, <4>2 DEF NoEcho, Has
    <3> QED BY <1>1, <1>7, <3>1, FourSignals DEF DevCase
  <2>2. Has(s \o answer, SERIAL_LOADER_INIT_ACK)
    BY <1>2, <1>7, HasPut, HasOne
  <2>3. EndLast(s \o answer, dev')
    BY <1>3, <1>4, <1>5, <2>1, FourSignals DEF EndLast
  <2>4. ASSUME NEW k \in 1 .. Len(s \o answer)
        PROVE  Has(Rest(s \o answer, k), SERIAL_LOADER_INIT_ACK) \/ Sync(dev', Rest(s \o answer, k))
    <3>1. CASE k <= Len(s)
      <4>1. k \in 0 .. Len(s)
        BY <1>5, <3>1
      <4>2. Rest(s, k) \in Seq(Bytes) /\ Rest(s \o answer, k) = Rest(s, k) \o answer
        BY <1>2, <4>1, RestPut, Zenon
      <4>3. Has(answer, SERIAL_LOADER_INIT_ACK)
        BY <1>7, HasOne
      <4> QED BY <1>2, <4>2, <4>3, HasPut, Zenon
    <3>2. CASE k = Len(s \o answer)
      BY <1>2, <2>1, <3>2, RestEnd, Put DEF Sync
    <3> QED BY <1>5, <2>1, <3>1, <3>2
  <2>5. AckSync(s \o answer, dev')
    BY <2>4, Zenon DEF AckSync
  <2> QED BY <1>2, <1>4, <2>2, <2>3, <2>5 DEF SendingSync
<1>8. CASE answer # <<SERIAL_LOADER_INIT_ACK>>
  <2>1. /\ ~ Has(answer, SERIAL_LOADER_INIT_ACK)
        /\ \A j \in 1 .. Len(answer) : answer[j] = SERIAL_LOADER_END =>
               j = Len(answer) /\ dev'.pc \notin {"size", "data"}
        /\ dev.pc \notin {"size", "data"} => answer = <<>> /\ dev'.pc \notin {"size", "data"}
    BY <1>1, <1>3, <1>8, Answers
  <2>2. ASSUME NEW k \in 1 .. Len(s \o answer), (s \o answer)[k] = SERIAL_LOADER_END
        PROVE  \/ k < Len(s \o answer) /\ (s \o answer)[k + 1] = SERIAL_LOADER_INIT_ACK
               \/ k = Len(s \o answer) /\ dev'.pc \notin {"size", "data"}
    <3>1. CASE k < Len(s)
      <4>1. s[k] = SERIAL_LOADER_END /\ k \in 1 .. Len(s)
        BY <1>5, <2>2, <3>1
      <4>2. s[k + 1] = SERIAL_LOADER_INIT_ACK
        BY <1>3, <1>4, <3>1, <4>1, <1>5 DEF EndLast
      <4> QED BY <1>5, <3>1, <4>2
    <3>2. CASE k = Len(s)
      <4>1. s[k] = SERIAL_LOADER_END /\ k \in 1 .. Len(s)
        BY <1>5, <2>2, <3>2
      <4>2. dev.pc \notin {"size", "data"}
        BY <1>3, <1>4, <3>2, <4>1, <1>5 DEF EndLast
      <4>3. Len(answer) = 0
        BY <2>1, <4>2
      <4> QED BY <1>5, <2>1, <3>2, <4>2, <4>3
    <3>3. CASE k > Len(s)
      <4>1. k - Len(s) \in 1 .. Len(answer) /\ k = Len(s) + (k - Len(s))
        BY <1>5, <3>3
      <4>2. answer[k - Len(s)] = SERIAL_LOADER_END
        BY <1>5, <2>2, <4>1
      <4> QED BY <1>5, <2>1, <4>1, <4>2
    <3> QED BY <1>5, <3>1, <3>2, <3>3
  <2>3. EndLast(s \o answer, dev')
    BY <2>2, Zenon DEF EndLast
  <2>4. ASSUME NEW k \in 1 .. Len(s \o answer), (s \o answer)[k] = SERIAL_LOADER_INIT_ACK
        PROVE  Has(Rest(s \o answer, k), SERIAL_LOADER_INIT_ACK) \/ Sync(dev', Rest(s \o answer, k))
    <3>1. k \in 1 .. Len(s) /\ s[k] = SERIAL_LOADER_INIT_ACK
      <4>1. CASE k > Len(s)
        <5>1. k - Len(s) \in 1 .. Len(answer) /\ k = Len(s) + (k - Len(s))
          BY <1>5, <4>1
        <5>2. answer[k - Len(s)] = SERIAL_LOADER_INIT_ACK
          BY <1>5, <2>4, <5>1
        <5> QED BY <2>1, <5>1, <5>2 DEF Has
      <4> QED BY <1>5, <2>4, <4>1
    <3>2. Rest(s, k) \in Seq(Bytes) /\ Rest(s \o answer, k) = Rest(s, k) \o answer
      <4>1. k \in 0 .. Len(s)
        BY <1>5, <3>1
      <4> QED BY <1>2, <4>1, RestPut, Zenon
    <3>3. CASE Has(Rest(s, k), SERIAL_LOADER_INIT_ACK)
      BY <1>2, <3>2, <3>3, HasPut
    <3>4. CASE Sync(dev, Rest(s, k))
      <4>1. PICK t \in Seq(Bytes) : t = Rest(s, k)
        BY <3>2
      <4>2. Sync(dev', t \o answer)
        BY <1>1, <1>3, <1>8, <3>4, <4>1, SyncPut
      <4> QED BY <3>2, <4>1, <4>2
    <3> QED BY <1>3, <1>4, <3>1, <3>3, <3>4, Zenon DEF AckSync
  <2>5. AckSync(s \o answer, dev')
    BY <2>4, Zenon DEF AckSync
  <2>6. ASSUME Sending(host)
        PROVE  Has(s \o answer, SERIAL_LOADER_INIT_ACK)
               \/ Sync(dev', SubSeq(host.image, 1, host.idx) \o (s \o answer))
    <3>1. CASE Has(s, SERIAL_LOADER_INIT_ACK)
      BY <1>2, <3>1, HasPut
    <3>2. CASE Sync(dev, SubSeq(host.image, 1, host.idx) \o s)
      <4>1. PICK r \in Seq(Bytes) : r = SubSeq(host.image, 1, host.idx)
        BY <1>6
      <4>2. PICK t \in Seq(Bytes) : t = r \o s
        BY Put
      <4>3. Sync(dev', t \o answer)
        BY <1>1, <1>3, <1>8, <3>2, <4>1, <4>2, SyncPut
      <4>4. r \o (s \o answer) = t \o answer
        BY <1>2, <4>2, PutThree, SMTT(60)
      <4> QED BY <4>1, <4>3, <4>4
    <3> QED BY <1>3, <1>4, <2>6, <3>1, <3>2, Zenon DEF SendingSync
  <2>7. SendingSync(host, s \o answer, dev')
    BY <2>6, Zenon DEF SendingSync
  <2> QED BY <1>2, <1>4, <2>3, <2>5, <2>7
<1> QED BY <1>7, <1>8

\* The tool reads the echo of the byte that it sent.
LEMMA Echoed ==
    ASSUME NEW image \in Seq(Bytes), NEW i \in Nat, i < Len(image),
           NEW s \in Seq(Bytes), s # <<>>, s[1] = image[i + 1]
    PROVE  SubSeq(image, 1, i + 1) \o Tail(s) = SubSeq(image, 1, i) \o s
<1>1. ASSUME NEW j \in Nat, j <= Len(image)
      PROVE  /\ SubSeq(image, 1, j) \in Seq(Bytes) /\ Len(SubSeq(image, 1, j)) = j
             /\ \A k \in 1 .. j : SubSeq(image, 1, j)[k] = image[k]
  BY <1>1
<1>2. PICK p \in Seq(Bytes) :
          p = SubSeq(image, 1, i + 1) /\ Len(p) = i + 1 /\ \A k \in 1 .. i + 1 : p[k] = image[k]
  <2>1. i + 1 \in Nat /\ i + 1 <= Len(image)
    OBVIOUS
  <2> QED BY <1>1, <2>1
<1>3. PICK q \in Seq(Bytes) :
          q = SubSeq(image, 1, i) /\ Len(q) = i /\ \A k \in 1 .. i : q[k] = image[k]
  <2>1. i <= Len(image)
    OBVIOUS
  <2> QED BY <1>1, <2>1
<1>4. PICK t \in Seq(Bytes) : t = Tail(s)
  BY Taken
<1>5. Len(s) \in Nat \ {0} /\ Len(t) = Len(s) - 1 /\ \A k \in 1 .. Len(s) - 1 : t[k] = s[k + 1]
  BY <1>4, Taken
<1>6. p \o t \in Seq(Bytes) /\ q \o s \in Seq(Bytes) /\ Len(p \o t) = i + Len(s) /\ Len(q \o s) = i + Len(s)
  <2>1. p \o t \in Seq(Bytes) /\ Len(p \o t) = Len(p) + Len(t)
    BY Put
  <2>2. q \o s \in Seq(Bytes) /\ Len(q \o s) = Len(q) + Len(s)
    BY Put
  <2>3. Len(p) + Len(t) = i + Len(s) /\ Len(q) + Len(s) = i + Len(s)
    BY <1>2, <1>3, <1>5
  <2> QED BY <2>1, <2>2, <2>3, Zenon
<1>7. ASSUME NEW k \in 1 .. i + Len(s) PROVE (p \o t)[k] = (q \o s)[k]
  <2>1. CASE k <= i
    <3>1. (p \o t)[k] = p[k] /\ (q \o s)[k] = q[k]
      BY <1>2, <1>3, <2>1
    <3> QED BY <1>2, <1>3, <2>1, <3>1
  <2>2. CASE k = i + 1
    <3>1. (p \o t)[k] = p[k]
      BY <1>2, <2>2
    <3>2. (q \o s)[k] = s[1]
      BY <1>3, <1>5, <2>2
    <3> QED BY <1>2, <2>2, <3>1, <3>2
  <2>3. CASE k > i + 1
    <3>1. (p \o t)[k] = t[k - (i + 1)]
      BY <1>2, <1>5, <2>3
    <3>2. (q \o s)[k] = s[k - i]
      BY <1>3, <1>5, <2>3
    <3>3. k - (i + 1) \in 1 .. Len(s) - 1 /\ (k - (i + 1)) + 1 = k - i
      BY <1>5, <2>3
    <3> QED BY <1>5, <3>1, <3>2, <3>3
  <2>4. k <= i \/ k = i + 1 \/ k > i + 1
    BY <1>5
  <2> QED BY <2>1, <2>2, <2>3, <2>4
<1> QED BY <1>2, <1>3, <1>4, <1>6, <1>7, SameBytes, SMTT(60)

\* The board forgets its session.
LEMMA RestartSync ==
    ASSUME NEW h, NEW s, NEW d, NEW e, e.pc \in {"off", "wait_init"}, EndLast(s, d)
    PROVE  EndLast(s, e) /\ AckSync(s, e) /\ SendingSync(h, s, e)
<1>1. \A t : Sync(e, t)
  BY DEF Sync
<1>2. EndLast(s, e)
  BY DEF EndLast
<1> QED BY <1>1, <1>2, Zenon DEF AckSync, SendingSync

\* Nothing is on the line.
LEMMA EmptySync ==
    ASSUME NEW d
    PROVE  EndLast(<<>>, d) /\ AckSync(<<>>, d)
<1>1. 1 .. Len(<<>>) = {}
  OBVIOUS
<1> QED BY <1>1, Zenon DEF EndLast, AckSync

\* Every step keeps the loader and its answers in step.
LEMMA NextSuccess ==
    ASSUME BaseInv, Late, SuccessInv, [Next]_vars
    PROVE  SuccessInv'
<1>0. /\ NoEcho /\ EndLast(to_host, dev) /\ AckSync(to_host, dev) /\ SendingSync(host, to_host, dev)
      /\ to_host \in Seq(Bytes)
  BY DEF SuccessInv, BaseInv, LinePlace
<1>1. NoEcho'
  BY <1>0, NoEchoKept
<1>2. to_host # <<>> => EndLast(Tail(to_host), dev) /\ AckSync(Tail(to_host), dev)
  BY <1>0, SyncTaken
<1> SUFFICES EndLast(to_host', dev') /\ AckSync(to_host', dev') /\ SendingSync(host', to_host', dev')
  BY <1>1 DEF SuccessInv
<1>3. CASE Asks \/ UNCHANGED <<host, dev, to_dev, to_host, punctual, confirmed>>
  BY <1>0, <1>3 DEF Asks
<1>4. CASE Starts
  <2>1. /\ to_host # <<>> /\ to_host[1] = SERIAL_LOADER_INIT_ACK /\ to_host' = Tail(to_host) /\ dev' = dev
        /\ host'.image = host.image /\ host'.idx = 0 /\ host.image \in Seq(Bytes)
    BY <1>4, ImageBytes DEF Starts, Reads, BaseInv, HostPlace, HostRecords
  <2>2. 1 \in 1 .. Len(to_host) /\ 0 \in 0 .. Len(to_host) - 1
    BY <1>0, <2>1
  <2>3. Rest(to_host, 1) = Tail(to_host)
    <3>1. Rest(Tail(to_host), 0) = Rest(to_host, 0 + 1)
      BY <1>0, <2>1, <2>2, RestTaken
    <3>2. Rest(Tail(to_host), 0) = Tail(to_host)
      BY <1>0, <2>1, Taken, RestEnd
    <3> QED BY <3>1, <3>2
  <2>4. Has(Tail(to_host), SERIAL_LOADER_INIT_ACK) \/ Sync(dev, Tail(to_host))
    BY <1>0, <2>1, <2>2, <2>3, Zenon DEF AckSync
  <2>5. SubSeq(host'.image, 1, host'.idx) \o Tail(to_host) = Tail(to_host)
    <3>1. SubSeq(host'.image, 1, host'.idx) = <<>>
      BY <2>1
    <3>2. PICK t \in Seq(Bytes) : t = Tail(to_host)
      BY <1>0, <2>1
    <3>3. <<>> \o t = t
      BY EmptyPut
    <3> QED BY <3>1, <3>2, <3>3
  <2>6. SendingSync(host', Tail(to_host), dev)
    BY <2>4, <2>5 DEF SendingSync
  <2> QED BY <1>2, <2>1, <2>6
<1>5. CASE Feeds
  <2>1. to_host # <<>> /\ to_host' = Tail(to_host) /\ dev' = dev /\ host' = host /\ ~ Sending(host)
    BY <1>5 DEF Feeds, Reads, Sending
  <2> QED BY <1>2, <2>1 DEF SendingSync
<1>6. CASE Sends
  <2>1. /\ Sending(host) /\ to_host' = to_host /\ dev' = dev
        /\ host'.image = host.image /\ host'.idx = host.idx
    BY <1>6 DEF Sends, Sending
  <2> QED BY <1>0, <2>1 DEF SendingSync
<1>7. CASE Advances
  <2>1. /\ to_host # <<>> /\ to_host[1] = host.image[host.idx + 1] /\ to_host' = Tail(to_host) /\ dev' = dev
        /\ host.pc = "echo" /\ Sending(host) /\ host'.image = host.image /\ host'.idx = host.idx + 1
    BY <1>7 DEF Advances, Reads, Sending
  <2>2. to_host[1] # SERIAL_LOADER_INIT_ACK
    BY <2>1, DataPlain DEF Signals
  <2>3. host.image \in Seq(Bytes) /\ host.idx \in Nat /\ host.idx < Len(host.image)
    BY <2>1, ImageBytes DEF BaseInv, HostPlace, HostRecords
  <2>4. SubSeq(host'.image, 1, host'.idx) \o Tail(to_host) = SubSeq(host.image, 1, host.idx) \o to_host
    <3>1. SubSeq(host.image, 1, host.idx + 1) \o Tail(to_host) = SubSeq(host.image, 1, host.idx) \o to_host
      BY <1>0, <2>1, <2>3, Echoed, Zenon
    <3> QED BY <2>1, <3>1, Zenon
  <2>5. Has(to_host, SERIAL_LOADER_INIT_ACK) => Has(Tail(to_host), SERIAL_LOADER_INIT_ACK)
    BY <1>0, <2>1, <2>2, HasTaken
  <2>6. SendingSync(host', Tail(to_host), dev)
    BY <1>0, <2>1, <2>4, <2>5, Zenon DEF SendingSync
  <2> QED BY <1>2, <2>1, <2>6
<1>8. CASE Leaves
  <2>1. ~ Sending(host') /\ dev' = dev
    BY <1>8 DEF Leaves
  <2>2. CASE to_host' = to_host
    BY <1>0, <2>1, <2>2 DEF SendingSync
  <2>3. CASE to_host' = <<>>
    BY <2>1, <2>3, EmptySync DEF SendingSync
  <2>4. CASE to_host # <<>> /\ to_host' = Tail(to_host)
    BY <1>2, <2>1, <2>4 DEF SendingSync
  <2> QED BY <1>8, <2>2, <2>3, <2>4 DEF Leaves
<1>9. CASE Ends
  <2>1. ~ Sending(host') /\ dev' = dev /\ to_host # <<>> /\ to_host' = Tail(to_host)
    BY <1>9 DEF Ends, Reads
  <2> QED BY <1>2, <2>1 DEF SendingSync
<1>10. CASE Restarts
  <2>1. dev'.pc \in {"off", "wait_init"} /\ to_host' = to_host
    BY <1>10 DEF Restarts
  <2>2. PICK e : e = dev'
    OBVIOUS
  <2>3. PICK h : h = host'
    OBVIOUS
  <2>4. EndLast(to_host, e) /\ AckSync(to_host, e) /\ SendingSync(h, to_host, e)
    BY <1>0, <2>1, <2>2, RestartSync
  <2> QED BY <2>1, <2>2, <2>3, <2>4
<1>11. CASE Receives
  BY <1>11, ReceivesSync
<1> QED BY <1>3, <1>4, <1>5, <1>6, <1>7, <1>8, <1>9, <1>10, <1>11, StepCases

\* The line stays what it is.
LEMMA NextPunctual == BaseInv /\ [Next]_vars => punctual' = punctual
<1> SUFFICES ASSUME BaseInv, [Next]_vars PROVE punctual' = punctual
  OBVIOUS
<1> QED BY StepCases DEF Asks, Starts, Feeds, Sends, Advances, Leaves, Ends, Restarts, Receives,
                         Reads, DevTakes

\* The initial states.
LEMMA InitSuccess == Init => SuccessInv
<1> SUFFICES ASSUME Init PROVE SuccessInv
  OBVIOUS
<1>1. to_dev = <<>> /\ to_host = <<>> /\ host.pc = "closed"
  BY DEF Init
<1> QED BY <1>1, HasOne, EmptySync DEF SuccessInv, NoEcho, SendingSync, Sending

\* Over a line that may be late the answers of the loader are in step with its
\* state, and END is followed only by INIT_ACK.
THEOREM LateInStep == Spec => [](Late => SuccessInv)
<1>1. Init => (Late => SuccessInv)
  BY InitSuccess
<1>2. BaseInv /\ (Late => SuccessInv) /\ [Next]_vars => (Late => SuccessInv)'
  <2> SUFFICES ASSUME BaseInv, Late => SuccessInv, [Next]_vars, Late' PROVE SuccessInv'
    OBVIOUS
  <2>1. Late
    BY NextPunctual DEF Late
  <2> QED BY <2>1, NextSuccess
<1> QED BY <1>1, <1>2, Places, PTL DEF Spec

\* The tool reads END as the final acknowledge: what it and the board know.
LEMMA FinalRead ==
    ASSUME BaseInv, SuccessInv, host.pc = "final", to_host # <<>>, to_host[1] = SERIAL_LOADER_END
    PROVE  \/ /\ Len(to_host) = 1
              /\ \/ dev.pc \in {"end_ack", "kernel"} /\ dev.buffer = host.image
                 \/ dev.pc \in {"off", "wait_init"}
           \/ Tail(to_host) # <<>> /\ Head(Tail(to_host)) = SERIAL_LOADER_INIT_ACK
<1>1. /\ EndLast(to_host, dev) /\ SendingSync(host, to_host, dev)
      /\ to_host \in Seq(Bytes) /\ 1 \in 1 .. Len(to_host)
  BY DEF SuccessInv, BaseInv, LinePlace
<1>2. CASE Len(to_host) = 1
  <2>1. dev.pc \notin {"size", "data"}
    BY <1>1, <1>2 DEF EndLast
  <2>2. to_host = <<SERIAL_LOADER_END>>
    BY <1>1, <1>2
  <2>3. ~ Has(to_host, SERIAL_LOADER_INIT_ACK)
    BY <2>2, HasOne, FourSignals
  <2>4. host.image \in Seq(Bytes) /\ host.idx = Len(host.image) /\ dev.buffer \in Seq(Bytes)
    BY ImageBytes DEF BaseInv, HostPlace, HostRecords, DevPlace, DevRecords
  <2>5. SubSeq(host.image, 1, host.idx) = host.image
    BY <2>4
  <2>6. Sync(dev, host.image \o <<SERIAL_LOADER_END>>)
    BY <1>1, <2>2, <2>3, <2>5 DEF SendingSync, Sending
  <2>7. ASSUME host.image \o <<SERIAL_LOADER_END>> = dev.buffer \o <<SERIAL_LOADER_END>>
        PROVE  dev.buffer = host.image
    <3>1. Len(host.image) = Len(dev.buffer)
      <4>1. PICK a \in Seq(Bytes) : a = host.image
        BY <2>4
      <4>2. PICK b \in Seq(Bytes) : b = dev.buffer
        BY <2>4
      <4>3. PICK e \in Seq(Bytes) : e = <<SERIAL_LOADER_END>>
        <5>1. <<SERIAL_LOADER_END>> \in Seq(Bytes)
          BY FourSignals
        <5> QED BY <5>1, Zenon
      <4>4. Len(a \o e) = Len(a) + Len(e) /\ Len(b \o e) = Len(b) + Len(e)
            /\ Len(a) \in Nat /\ Len(b) \in Nat /\ Len(e) \in Nat
        BY Put
      <4>5. a \o e = b \o e
        BY <2>7, <4>1, <4>2, <4>3, Zenon
      <4>6. Len(a) = Len(b)
        BY <4>4, <4>5
      <4> QED BY <4>1, <4>2, <4>6
    <3>2. ASSUME NEW i \in 1 .. Len(dev.buffer) PROVE dev.buffer[i] = host.image[i]
      <4>1. (host.image \o <<SERIAL_LOADER_END>>)[i] = host.image[i]
        BY <2>4, <3>1
      <4>2. (dev.buffer \o <<SERIAL_LOADER_END>>)[i] = dev.buffer[i]
        BY <2>4
      <4> QED BY <2>7, <4>1, <4>2
    <3> QED BY <2>4, <3>1, <3>2, SameBytes
  <2> QED BY <1>2, <2>1, <2>6, <2>7 DEF Sync
<1>3. CASE Len(to_host) # 1
  <2>1. to_host[1 + 1] = SERIAL_LOADER_INIT_ACK /\ 1 < Len(to_host)
    BY <1>1, <1>3 DEF EndLast
  <2>2. Len(to_host) \in Nat /\ Len(Tail(to_host)) = Len(to_host) - 1 /\ Tail(to_host) \in Seq(Bytes)
        /\ Tail(to_host)[1] = to_host[1 + 1]
    BY <1>1, <2>1, Taken
  <2>3. Tail(to_host) # <<>>
    <3>1. PICK t \in Seq(Bytes) : t = Tail(to_host)
      BY <2>2
    <3>2. Len(t) # 0
      BY <2>1, <2>2, <3>1
    <3>3. t # <<>>
      BY <3>2
    <3> QED BY <3>1, <3>3
  <2> QED BY <2>1, <2>2, <2>3
<1> QED BY <1>2, <1>3

-----------------------------------------------------------------------------
(* A late line: counting start signals                                     *)

InitsAt(s) == {k \in 1 .. Len(s) : s[k] = SERIAL_LOADER_INIT}
Inits(s) == Cardinality(InitsAt(s))

\* The number of start signals among the bytes.
LEMMA InitsCount ==
    ASSUME NEW s \in Seq(Bytes)
    PROVE  /\ IsFiniteSet(InitsAt(s)) /\ Inits(s) \in Nat
           /\ Inits(s) = 0 <=> ~ Has(s, SERIAL_LOADER_INIT)
<1>1. Len(s) \in Int /\ 1 \in Int
  OBVIOUS
<1>2. IsFiniteSet(1 .. Len(s))
  BY <1>1, FS_Interval
<1>3. InitsAt(s) \in SUBSET (1 .. Len(s))
  BY DEF InitsAt
<1>4. IsFiniteSet(InitsAt(s))
  BY <1>2, <1>3, FS_Subset
<1>5. Inits(s) \in Nat /\ (Inits(s) = 0 <=> InitsAt(s) = {})
  <2>1. PICK S : S = InitsAt(s)
    OBVIOUS
  <2>2. Cardinality(S) \in Nat /\ (Cardinality(S) = 0 <=> S = {})
    BY <1>4, <2>1, FS_CardinalityType, FS_EmptySet, Zenon
  <2> QED BY <2>1, <2>2, Zenon DEF Inits
<1>6. InitsAt(s) = {} <=> ~ Has(s, SERIAL_LOADER_INIT)
  BY DEF InitsAt, Has
<1> QED BY <1>4, <1>5, <1>6

\* A byte is put.
LEMMA InitsPut ==
    ASSUME NEW s \in Seq(Bytes), NEW x \in Bytes
    PROVE  Inits(s \o <<x>>) = IF x = SERIAL_LOADER_INIT THEN Inits(s) + 1 ELSE Inits(s)
<1>1. PICK e \in Seq(Bytes) : e = <<x>> /\ Len(e) = 1 /\ e[1] = x
  <2>1. <<x>> \in Seq(Bytes) /\ Len(<<x>>) = 1 /\ <<x>>[1] = x
    OBVIOUS
  <2> QED BY <2>1, Zenon
<1>2. /\ Len(s) \in Nat /\ Len(s \o e) = Len(s) + 1
      /\ \A k \in 1 .. Len(s) : (s \o e)[k] = s[k]
      /\ (s \o e)[Len(s) + 1] = x
  BY <1>1, Put
<1>3. IsFiniteSet(InitsAt(s)) /\ Len(s) + 1 \notin InitsAt(s)
  BY <1>2, InitsCount, SMTT(60) DEF InitsAt
<1>4. CASE x = SERIAL_LOADER_INIT
  <2>1. InitsAt(s \o e) = InitsAt(s) \cup {Len(s) + 1}
    BY <1>2, <1>4 DEF InitsAt
  <2>2. Cardinality(InitsAt(s) \cup {Len(s) + 1}) = Cardinality(InitsAt(s)) + 1
    BY <1>3, FS_AddElement
  <2> QED BY <1>1, <1>4, <2>1, <2>2 DEF Inits
<1>5. CASE x # SERIAL_LOADER_INIT
  <2>1. InitsAt(s \o e) = InitsAt(s)
    BY <1>2, <1>5 DEF InitsAt
  <2> QED BY <1>1, <1>5, <2>1 DEF Inits
<1> QED BY <1>4, <1>5

\* A byte is taken.
LEMMA InitsTaken ==
    ASSUME NEW s \in Seq(Bytes), s # <<>>
    PROVE  Inits(s) = IF s[1] = SERIAL_LOADER_INIT THEN Inits(Tail(s)) + 1 ELSE Inits(Tail(s))
<1>1. PICK t \in Seq(Bytes) : t = Tail(s)
  BY Taken
<1>2. Len(s) \in Nat \ {0} /\ Len(t) = Len(s) - 1 /\ \A k \in 1 .. Len(s) - 1 : t[k] = s[k + 1]
  BY <1>1, Taken
<1>3. IsFiniteSet(InitsAt(t)) /\ IsFiniteSet(InitsAt(s)) /\ Inits(s) \in Nat /\ Inits(t) \in Nat
  BY InitsCount
<1>4. PICK R : R = InitsAt(s) \ {1}
  OBVIOUS
<1>5. IsFiniteSet(R) /\ Cardinality(R) = IF 1 \in InitsAt(s) THEN Inits(s) - 1 ELSE Inits(s)
  BY <1>3, <1>4, FS_RemoveElement DEF Inits
<1>6. PICK f : f = [k \in InitsAt(t) |-> k + 1]
  OBVIOUS
<1>7. f \in Bijection(InitsAt(t), R)
  <2>1. ASSUME NEW k \in InitsAt(t) PROVE f[k] = k + 1 /\ k + 1 \in R /\ k \in Nat
    BY <1>2, <1>4, <1>6, <2>1 DEF InitsAt
  <2>2. f \in [InitsAt(t) -> R]
    BY <1>6, <2>1
  <2>3. \A a, b \in InitsAt(t) : f[a] = f[b] => a = b
    BY <2>1
  <2>4. ASSUME NEW r \in R PROVE \E k \in InitsAt(t) : f[k] = r
    <3>1. r - 1 \in InitsAt(t)
      BY <1>2, <1>4, <2>4 DEF InitsAt
    <3>2. f[r - 1] = (r - 1) + 1 /\ r \in Int
      BY <1>4, <2>1, <3>1, <2>4 DEF InitsAt
    <3> QED BY <3>1, <3>2
  <2> QED BY <2>2, <2>3, <2>4 DEF Bijection, Injection, Surjection, IsInjective
<1>8. Cardinality(R) = Inits(t)
  <2>1. ExistsBijection(InitsAt(t), R)
    BY <1>7 DEF ExistsBijection
  <2> QED BY <1>3, <2>1, FS_Bijection DEF Inits
<1>9. 1 \in InitsAt(s) <=> s[1] = SERIAL_LOADER_INIT
  BY <1>2 DEF InitsAt
<1> QED BY <1>1, <1>3, <1>5, <1>8, <1>9

-----------------------------------------------------------------------------
(* A late line: only the acknowledged image is started                     *)

\* A start signal at this place will be taken for one, or for a byte of the
\* size: it will not be echoed.
Slot(d, p) ==
    \/ d.pc = "size" /\ Len(d.size) + p <= SIZE_BYTES
    \/ d.pc \in {"off", "wait_init"} /\ p <= SIZE_BYTES + 1

\* The start signals in flight are bounded: those that were echoed count.
Bounded(td, th) ==
    /\ Inits(th) <= MaxPending
    /\ \A p \in 1 .. Len(td) : td[p] = SERIAL_LOADER_INIT => p + Inits(th) <= MaxPending

\* A start signal before another byte is not echoed.
Early(d, td) ==
    \A p, q \in 1 .. Len(td) :
        p < q /\ td[p] = SERIAL_LOADER_INIT /\ td[q] # SERIAL_LOADER_INIT => Slot(d, p)

\* While echoes of start signals are unread, the tool is in no transfer and has
\* sent nothing but start signals.
EchoesFirst(h, td, th) ==
    Inits(th) > 0 => ~ Sending(h) /\ \A q \in 1 .. Len(td) : td[q] = SERIAL_LOADER_INIT

\* Once the loader has answered, no start signal will be echoed any more, the
\* ones that the tool will repeat included.
Answered(h, d, td, th) ==
    Sending(h) \/ Has(th, SERIAL_LOADER_INIT_ACK) =>
        /\ \A p \in 1 .. Len(td) : td[p] = SERIAL_LOADER_INIT => Slot(d, p)
        /\ Inits(th) > 0 => \/ d.pc \in {"off", "wait_init"}
                            \/ d.pc = "size" /\ Len(d.size) + Len(td) + Inits(th) <= SIZE_BYTES

\* No echo of a start signal follows INIT_ACK.
AckLast(th) ==
    \A k, l \in 1 .. Len(th) : k < l /\ th[k] = SERIAL_LOADER_INIT_ACK => th[l] # SERIAL_LOADER_INIT

\* The END that the tool will read in a transfer is the last byte, and no start
\* signal is in flight.
EndAlone(h, td, th) ==
    \A k \in 1 .. Len(th) :
        th[k] = SERIAL_LOADER_END
        /\ (Sending(h) \/ \E l \in 1 .. Len(th) : l < k /\ th[l] = SERIAL_LOADER_INIT_ACK)
        => k = Len(th) /\ ~ Has(td, SERIAL_LOADER_INIT) /\ Inits(th) = 0

\* END_ACK reaches the loader that sent END, with the acknowledged image, or one
\* that skips it.
Acknowledged(h, d, td, th, image) ==
    \A q \in 1 .. Len(td) : td[q] = SERIAL_LOADER_END_ACK =>
        /\ \A p \in 1 .. Len(td) :
               p < q => td[p] # SERIAL_LOADER_INIT /\ td[p] # SERIAL_LOADER_END_ACK
        /\ th = <<>> /\ ~ Sending(h)
        /\ d.pc \in {"wait_init", "end_ack"}
        /\ d.pc = "end_ack" /\ q = 1 => d.buffer = image

\* A kernel runs: it is the acknowledged image, and nobody is in a transfer.
Started(h, d, th, image) == d.pc = "kernel" => d.buffer = image /\ th = <<>> /\ ~ Sending(h)

LaunchInv ==
    /\ Bounded(to_dev, to_host) /\ Early(dev, to_dev) /\ EchoesFirst(host, to_dev, to_host)
    /\ Answered(host, dev, to_dev, to_host) /\ AckLast(to_host) /\ EndAlone(host, to_dev, to_host)
    /\ Acknowledged(host, dev, to_dev, to_host, confirmed) /\ Started(host, dev, to_host, confirmed)

\* The bytes of the line are numbered.
LEMMA LineNumbers ==
    ASSUME BaseInv
    PROVE  /\ Len(to_dev) \in Nat /\ Len(to_host) \in Nat /\ Inits(to_host) \in Nat
           /\ to_dev \in Seq(Bytes) /\ to_host \in Seq(Bytes)
           /\ MaxPending \in Nat \ {0} /\ SIZE_BYTES \in Nat \ {0} /\ Len(dev.size) \in Nat
           /\ (Inits(to_host) = 0 <=> ~ Has(to_host, SERIAL_LOADER_INIT))
<1>1. to_dev \in Seq(Bytes) /\ to_host \in Seq(Bytes) /\ dev.size \in Seq(Bytes)
  BY DEF BaseInv, LinePlace, DevPlace, DevRecords
<1>2. MaxPending \in Nat \ {0} /\ SIZE_BYTES \in Nat \ {0}
  BY LineAssumption, Zenon
<1> QED BY <1>1, <1>2, InitsCount

\* What is written, place by place.
LEMMA WrittenAt ==
    ASSUME BaseInv, NEW bytes \in Seq(Bytes), NEW p \in 1 .. Len(Written(bytes))
    PROVE  /\ dev.pc \in LoaderStates /\ Len(Written(bytes)) = Len(to_dev) + Len(bytes)
           /\ \/ p \in 1 .. Len(to_dev) /\ Written(bytes)[p] = to_dev[p]
              \/ /\ p > Len(to_dev) /\ p - Len(to_dev) \in 1 .. Len(bytes)
                 /\ Written(bytes)[p] = bytes[p - Len(to_dev)]
<1>1. CASE Written(bytes) = <<>>
  BY <1>1
<1>2. CASE Written(bytes) = to_dev \o bytes /\ dev.pc \in LoaderStates
  <2>1. to_dev \in Seq(Bytes)
    BY LineNumbers
  <2>2. /\ Len(to_dev) \in Nat /\ Len(bytes) \in Nat /\ Len(to_dev \o bytes) = Len(to_dev) + Len(bytes)
        /\ \A k \in 1 .. Len(to_dev) : (to_dev \o bytes)[k] = to_dev[k]
        /\ \A k \in 1 .. Len(bytes) : (to_dev \o bytes)[Len(to_dev) + k] = bytes[k]
    BY <2>1, Put
  <2>3. CASE p <= Len(to_dev)
    BY <1>2, <2>2, <2>3
  <2>4. CASE p > Len(to_dev)
    <3>1. p - Len(to_dev) \in 1 .. Len(bytes) /\ p = Len(to_dev) + (p - Len(to_dev))
      BY <1>2, <2>2, <2>4
    <3>2. (to_dev \o bytes)[p] = bytes[p - Len(to_dev)]
      BY <2>2, <3>1
    <3> QED BY <1>2, <2>2, <2>4, <3>1, <3>2
  <2> QED BY <1>2, <2>2, <2>3, <2>4
<1> QED BY <1>1, <1>2, WrittenCases

\* A single byte is written.
LEMMA WrittenOne ==
    ASSUME BaseInv, NEW x \in Bytes, NEW td, td = Written(<<x>>)
    PROVE  /\ td \in Seq(Bytes) /\ Len(td) \in Nat
           /\ \A p \in 1 .. Len(td) :
                 /\ dev.pc \in LoaderStates /\ Len(td) = Len(to_dev) + 1
                 /\ \/ p \in 1 .. Len(to_dev) /\ td[p] = to_dev[p]
                    \/ p = Len(to_dev) + 1 /\ td[p] = x
<1>1. PICK e \in Seq(Bytes) : e = <<x>> /\ Len(e) = 1 /\ e[1] = x
  <2>1. <<x>> \in Seq(Bytes) /\ Len(<<x>>) = 1 /\ <<x>>[1] = x
    OBVIOUS
  <2> QED BY <2>1, Zenon
<1>2. td = Written(e)
  BY <1>1
<1>3. td \in Seq(Bytes)
  BY <1>2, WrittenCases
<1>4. ASSUME NEW p \in 1 .. Len(td)
      PROVE  /\ dev.pc \in LoaderStates /\ Len(td) = Len(to_dev) + 1
             /\ \/ p \in 1 .. Len(to_dev) /\ td[p] = to_dev[p]
                \/ p = Len(to_dev) + 1 /\ td[p] = x
  <2>1. /\ dev.pc \in LoaderStates /\ Len(td) = Len(to_dev) + Len(e)
        /\ \/ p \in 1 .. Len(to_dev) /\ td[p] = to_dev[p]
           \/ p > Len(to_dev) /\ p - Len(to_dev) \in 1 .. Len(e) /\ td[p] = e[p - Len(to_dev)]
    BY <1>2, WrittenAt
  <2>2. CASE p \in 1 .. Len(to_dev) /\ td[p] = to_dev[p]
    BY <1>1, <2>1, <2>2
  <2>3. CASE p > Len(to_dev) /\ p - Len(to_dev) \in 1 .. Len(e) /\ td[p] = e[p - Len(to_dev)]
    <3>1. p - Len(to_dev) = 1 /\ p \in Nat /\ Len(to_dev) \in Nat
      BY <1>1, <2>3, LineNumbers
    <3> QED BY <1>1, <2>1, <2>3, <3>1
  <2> QED BY <2>1, <2>2, <2>3
<1> QED BY <1>3, <1>4

\* No start signal is read.
LEMMA NoInits == Inits(<<>>) = 0
<1>1. <<>> \in Seq(Bytes)
  OBVIOUS
<1> QED BY <1>1, InitsCount, HasOne

\* The tool asks for the loader.
LEMMA LaunchAsks ==
    ASSUME BaseInv, LaunchInv, Asks, BaseInv'
    PROVE  LaunchInv'
<1>1. /\ Bounded(to_dev, to_host) /\ Early(dev, to_dev)
      /\ Acknowledged(host, dev, to_dev, to_host, confirmed) /\ Started(host, dev, to_host, confirmed)
  BY DEF LaunchInv
<1>2. /\ host.pc = "handshake" /\ to_host = <<>> /\ Len(to_dev) < MaxPending
      /\ UNCHANGED <<host, dev, to_host, confirmed>> /\ ~ Sending(host)
  BY DEF Asks, Sending
<1>3. PICK td : td = to_dev'
  OBVIOUS
<1>4. /\ td \in Seq(Bytes) /\ Len(td) \in Nat
      /\ \A p \in 1 .. Len(td) :
             /\ dev.pc \in LoaderStates /\ Len(td) = Len(to_dev) + 1
             /\ \/ p \in 1 .. Len(to_dev) /\ td[p] = to_dev[p]
                \/ p = Len(to_dev) + 1 /\ td[p] = SERIAL_LOADER_INIT
  <2>1. td = Written(<<SERIAL_LOADER_INIT>>)
    BY <1>3 DEF Asks
  <2>2. SERIAL_LOADER_INIT \in Bytes
    BY FourSignals
  <2> QED BY <2>1, <2>2, WrittenOne
<1>5. Inits(to_host) = 0 /\ Len(to_host) = 0 /\ ~ Has(to_host, SERIAL_LOADER_INIT_ACK)
  BY <1>2, NoInits, HasOne
<1>6. Len(to_dev) \in Nat /\ MaxPending \in Nat
  BY LineNumbers
<1>7. Bounded(td, to_host)
  BY <1>1, <1>2, <1>4, <1>5, <1>6 DEF Bounded
<1>8. Early(dev, td)
  <2> SUFFICES ASSUME NEW p \in 1 .. Len(td), NEW q \in 1 .. Len(td), p < q,
                      td[p] = SERIAL_LOADER_INIT, td[q] # SERIAL_LOADER_INIT
               PROVE  Slot(dev, p)
    BY DEF Early
  <2>1. q \in 1 .. Len(to_dev) /\ td[q] = to_dev[q]
    BY <1>4
  <2>2. p \in 1 .. Len(to_dev) /\ td[p] = to_dev[p]
    BY <1>4, <1>6, <2>1
  <2> QED BY <1>1, <2>1, <2>2 DEF Early
<1>9. EchoesFirst(host, td, to_host) /\ Answered(host, dev, td, to_host)
  BY <1>2, <1>5 DEF EchoesFirst, Answered
<1>10. AckLast(to_host) /\ EndAlone(host, td, to_host)
  BY <1>5 DEF AckLast, EndAlone
<1>11. Acknowledged(host, dev, td, to_host, confirmed)
  <2> SUFFICES ASSUME NEW q \in 1 .. Len(td), td[q] = SERIAL_LOADER_END_ACK
               PROVE  /\ \A p \in 1 .. Len(td) :
                             p < q => td[p] # SERIAL_LOADER_INIT /\ td[p] # SERIAL_LOADER_END_ACK
                      /\ to_host = <<>> /\ ~ Sending(host)
                      /\ dev.pc \in {"wait_init", "end_ack"}
                      /\ dev.pc = "end_ack" /\ q = 1 => dev.buffer = confirmed
    BY DEF Acknowledged
  <2>1. q \in 1 .. Len(to_dev) /\ to_dev[q] = SERIAL_LOADER_END_ACK
    BY <1>4, FourSignals
  <2>2. ASSUME NEW p \in 1 .. Len(td), p < q PROVE p \in 1 .. Len(to_dev) /\ td[p] = to_dev[p]
    BY <1>4, <1>6, <2>1, <2>2
  <2> QED BY <1>1, <2>1, <2>2 DEF Acknowledged
<1> QED BY <1>1, <1>2, <1>3, <1>7, <1>8, <1>9, <1>10, <1>11 DEF LaunchInv

\* The tool goes on or leaves a transfer without writing, or the line is empty.
LEMMA LaunchReads ==
    ASSUME BaseInv, LaunchInv, NEW th \in Seq(Bytes), NEW h,
           th = to_host \/ th = <<>> \/ (to_host # <<>> /\ th = Tail(to_host)), Sending(h) => Sending(host)
    PROVE  /\ Bounded(to_dev, th) /\ EchoesFirst(h, to_dev, th) /\ Answered(h, dev, to_dev, th)
           /\ AckLast(th) /\ EndAlone(h, to_dev, th)
           /\ Acknowledged(h, dev, to_dev, th, confirmed) /\ Started(h, dev, th, confirmed)
<1>0. /\ Bounded(to_dev, to_host) /\ Early(dev, to_dev) /\ EchoesFirst(host, to_dev, to_host)
      /\ Answered(host, dev, to_dev, to_host) /\ AckLast(to_host) /\ EndAlone(host, to_dev, to_host)
      /\ Acknowledged(host, dev, to_dev, to_host, confirmed) /\ Started(host, dev, to_host, confirmed)
  BY DEF LaunchInv
<1>1. PICK n \in 0 .. 1 : /\ Len(th) + n <= Len(to_host)
                          /\ \A k \in 1 .. Len(th) : th[k] = to_host[k + n]
                          /\ th = <<>> \/ Len(th) + n = Len(to_host)
  <2>0. Len(to_host) \in Nat /\ Len(th) \in Nat
    BY LineNumbers
  <2>1. CASE th = to_host
    <3>1. Len(th) + 0 <= Len(to_host) /\ \A k \in 1 .. Len(th) : th[k] = to_host[k + 0]
      BY <2>0, <2>1
    <3> QED BY <2>0, <2>1, <3>1
  <2>2. CASE th = <<>>
    <3>1. Len(th) = 0
      BY <2>2
    <3> QED BY <2>0, <2>2, <3>1
  <2>3. CASE to_host # <<>> /\ th = Tail(to_host)
    <3>1. Len(th) = Len(to_host) - 1 /\ \A k \in 1 .. Len(th) : th[k] = to_host[k + 1]
      BY <2>3, LineNumbers, Taken
    <3> QED BY <2>0, <3>1
  <2> QED BY <2>1, <2>2, <2>3
<1>2. Inits(th) \in Nat /\ Inits(to_host) \in Nat /\ Inits(th) <= Inits(to_host)
  <2>1. CASE th = to_host
    BY <2>1, LineNumbers
  <2>2. CASE th = <<>>
    BY <2>2, LineNumbers, NoInits
  <2>3. CASE to_host # <<>> /\ th = Tail(to_host)
    <3>1. Inits(to_host) = IF to_host[1] = SERIAL_LOADER_INIT THEN Inits(th) + 1 ELSE Inits(th)
      BY <2>3, LineNumbers, InitsTaken
    <3> QED BY <3>1, LineNumbers, InitsCount
  <2> QED BY <2>1, <2>2, <2>3
<1>3. ASSUME NEW k \in 1 .. Len(th) PROVE k + n \in 1 .. Len(to_host) /\ to_host[k + n] = th[k]
  BY <1>1, LineNumbers
<1>4. Has(th, SERIAL_LOADER_INIT_ACK) => Has(to_host, SERIAL_LOADER_INIT_ACK)
  BY <1>3 DEF Has
<1>5. Bounded(to_dev, th)
  BY <1>0, <1>2, LineNumbers DEF Bounded
<1>6. EchoesFirst(h, to_dev, th)
  BY <1>0, <1>2 DEF EchoesFirst
<1>7. Answered(h, dev, to_dev, th)
  BY <1>0, <1>2, <1>4, LineNumbers DEF Answered
<1>8. AckLast(th)
  <2> SUFFICES ASSUME NEW k \in 1 .. Len(th), NEW l \in 1 .. Len(th), k < l, th[k] = SERIAL_LOADER_INIT_ACK
               PROVE  th[l] # SERIAL_LOADER_INIT
    BY DEF AckLast
  <2>1. k + n \in 1 .. Len(to_host) /\ l + n \in 1 .. Len(to_host) /\ k + n < l + n
    BY <1>3
  <2>2. to_host[l + n] # SERIAL_LOADER_INIT
    BY <1>0, <1>3, <2>1 DEF AckLast
  <2> QED BY <1>3, <2>2
<1>9. EndAlone(h, to_dev, th)
  <2> SUFFICES ASSUME NEW k \in 1 .. Len(th), th[k] = SERIAL_LOADER_END,
                      Sending(h) \/ \E l \in 1 .. Len(th) : l < k /\ th[l] = SERIAL_LOADER_INIT_ACK
               PROVE  k = Len(th) /\ ~ Has(to_dev, SERIAL_LOADER_INIT) /\ Inits(th) = 0
    BY DEF EndAlone
  <2>1. k + n \in 1 .. Len(to_host) /\ to_host[k + n] = SERIAL_LOADER_END
    BY <1>3
  <2>2. Sending(host) \/ \E l \in 1 .. Len(to_host) : l < k + n /\ to_host[l] = SERIAL_LOADER_INIT_ACK
    <3>1. ASSUME NEW l \in 1 .. Len(th), l < k, th[l] = SERIAL_LOADER_INIT_ACK
          PROVE  \E m \in 1 .. Len(to_host) : m < k + n /\ to_host[m] = SERIAL_LOADER_INIT_ACK
      <4>1. l + n \in 1 .. Len(to_host) /\ to_host[l + n] = SERIAL_LOADER_INIT_ACK /\ l + n < k + n
        BY <1>3, <3>1
      <4> QED BY <4>1
    <3> QED BY <3>1
  <2>3. k + n = Len(to_host) /\ ~ Has(to_dev, SERIAL_LOADER_INIT) /\ Inits(to_host) = 0
    BY <1>0, <2>1, <2>2, Zenon DEF EndAlone
  <2>4. Len(th) \in Nat /\ Len(th) + n <= Len(to_host)
    BY <1>1
  <2> QED BY <1>2, <2>3, <2>4
<1>10. to_host = <<>> => th = <<>>
  <2>1. ASSUME to_host = <<>> PROVE Len(th) = 0
    <3>1. Len(to_host) = 0
      BY <2>1
    <3> QED BY <1>1, <3>1
  <2> QED BY <2>1
<1>11. Acknowledged(h, dev, to_dev, th, confirmed) /\ Started(h, dev, th, confirmed)
  BY <1>0, <1>10 DEF Acknowledged, Started
<1> QED BY <1>5, <1>6, <1>7, <1>8, <1>9, <1>11

\* The board is switched on or off.
LEMMA LaunchRestarts ==
    ASSUME BaseInv, LaunchInv, Restarts
    PROVE  LaunchInv'
<1>1. /\ Bounded(to_dev, to_host) /\ EchoesFirst(host, to_dev, to_host)
      /\ Answered(host, dev, to_dev, to_host) /\ AckLast(to_host) /\ EndAlone(host, to_dev, to_host)
  BY DEF LaunchInv
<1>2. /\ dev'.pc \in {"off", "wait_init"} /\ to_dev' = <<>> /\ Len(to_dev') = 0
      /\ UNCHANGED <<host, to_host, confirmed>>
  BY DEF Restarts
<1>3. ~ Has(to_dev', SERIAL_LOADER_INIT)
  BY <1>2, HasOne
<1>4. Bounded(to_dev', to_host) /\ Early(dev', to_dev') /\ EchoesFirst(host, to_dev', to_host)
  BY <1>1, <1>2 DEF Bounded, Early, EchoesFirst
<1>5. Answered(host, dev', to_dev', to_host)
  BY <1>1, <1>2 DEF Answered
<1>6. EndAlone(host, to_dev', to_host)
  BY <1>1, <1>3, Zenon DEF EndAlone
<1>7. Acknowledged(host, dev', to_dev', to_host, confirmed) /\ Started(host, dev', to_host, confirmed)
  BY <1>2 DEF Acknowledged, Started
<1> QED BY <1>1, <1>2, <1>4, <1>5, <1>6, <1>7 DEF LaunchInv

\* The tool writes bytes that are no signals, inside a transfer and with no
\* unread echo of a start signal.
LEMMA LaunchWrites ==
    ASSUME BaseInv, LaunchInv, NEW h, NEW td \in Seq(Bytes), NEW th \in Seq(Bytes),
           Sending(host) \/ Has(to_host, SERIAL_LOADER_INIT_ACK), to_host # <<>> \/ Sending(host),
           Inits(th) = 0, ~ Has(th, SERIAL_LOADER_INIT),
           \A p \in 1 .. Len(td) :
               (p \in 1 .. Len(to_dev) /\ td[p] = to_dev[p]) \/ td[p] \notin Signals,
           \A k \in 1 .. Len(th) : th[k] = SERIAL_LOADER_END =>
               k = Len(th) /\ ~ Has(to_dev, SERIAL_LOADER_INIT)
    PROVE  /\ Bounded(td, th) /\ Early(dev, td) /\ EchoesFirst(h, td, th) /\ Answered(h, dev, td, th)
           /\ AckLast(th) /\ EndAlone(h, td, th)
           /\ Acknowledged(h, dev, td, th, confirmed) /\ Started(h, dev, th, confirmed)
<1>0. /\ Bounded(to_dev, to_host) /\ Answered(host, dev, to_dev, to_host)
      /\ Acknowledged(host, dev, to_dev, to_host, confirmed) /\ Started(host, dev, to_host, confirmed)
  BY DEF LaunchInv
<1>1. ASSUME NEW p \in 1 .. Len(td), td[p] = SERIAL_LOADER_INIT
      PROVE  p \in 1 .. Len(to_dev) /\ to_dev[p] = SERIAL_LOADER_INIT
  BY <1>1 DEF Signals
<1>2. ASSUME NEW p \in 1 .. Len(td), td[p] = SERIAL_LOADER_INIT
      PROVE  Slot(dev, p)
  BY <1>0, <1>1, <1>2 DEF Answered
<1>3. Bounded(td, th)
  <2>1. ASSUME NEW p \in 1 .. Len(td), td[p] = SERIAL_LOADER_INIT PROVE p + 0 <= MaxPending
    <3>1. p + Inits(to_host) <= MaxPending /\ p \in Nat
      BY <1>0, <1>1, <2>1 DEF Bounded
    <3> QED BY <3>1, LineNumbers
  <2> QED BY <2>1, LineNumbers DEF Bounded
<1>4. Early(dev, td)
  BY <1>2 DEF Early
<1>5. EchoesFirst(h, td, th) /\ Answered(h, dev, td, th)
  BY <1>2 DEF EchoesFirst, Answered
<1>6. AckLast(th)
  BY DEF AckLast, Has
<1>7. EndAlone(h, td, th)
  <2>1. ~ Has(to_dev, SERIAL_LOADER_INIT) => ~ Has(td, SERIAL_LOADER_INIT)
    BY <1>1 DEF Has
  <2> QED BY <2>1, Zenon DEF EndAlone
<1>8. Acknowledged(h, dev, td, th, confirmed)
  <2>1. ASSUME NEW q \in 1 .. Len(td), td[q] = SERIAL_LOADER_END_ACK PROVE FALSE
    <3>1. q \in 1 .. Len(to_dev) /\ to_dev[q] = SERIAL_LOADER_END_ACK
      BY <2>1 DEF Signals
    <3> QED BY <1>0, <3>1, Zenon DEF Acknowledged
  <2> QED BY <2>1 DEF Acknowledged
<1>9. Started(h, dev, th, confirmed)
  BY <1>0 DEF Started
<1> QED BY <1>3, <1>4, <1>5, <1>6, <1>7, <1>8, <1>9

\* The tool begins a transfer.
LEMMA LaunchStarts ==
    ASSUME BaseInv, BaseInv', Late, LaunchInv, Starts
    PROVE  LaunchInv'
<1>1. /\ to_host # <<>> /\ to_host[1] = SERIAL_LOADER_INIT_ACK /\ to_host' = Tail(to_host)
      /\ host.pc = "handshake" /\ dev' = dev /\ confirmed' = confirmed
      /\ to_dev' = Written(ToBytes(Len(host.image)))
  BY DEF Starts, Reads
<1>2. /\ to_host \in Seq(Bytes) /\ Len(to_host) \in Nat \ {0} /\ Len(to_host') = Len(to_host) - 1
      /\ \A k \in 1 .. Len(to_host) - 1 : to_host'[k] = to_host[k + 1]
      /\ to_dev' \in Seq(Bytes) /\ to_host' \in Seq(Bytes)
  BY <1>1, LineNumbers, Taken DEF BaseInv, LinePlace
<1>3. Has(to_host, SERIAL_LOADER_INIT_ACK)
  BY <1>1, <1>2 DEF Has
<1>4. AckLast(to_host) /\ EndAlone(host, to_dev, to_host)
  BY DEF LaunchInv
<1>5. ~ Has(to_host', SERIAL_LOADER_INIT)
  <2>1. ASSUME NEW k \in 1 .. Len(to_host'), to_host'[k] = SERIAL_LOADER_INIT PROVE FALSE
    <3>1. k + 1 \in 1 .. Len(to_host) /\ 1 \in 1 .. Len(to_host) /\ 1 < k + 1
          /\ to_host[k + 1] = SERIAL_LOADER_INIT
      BY <1>2, <2>1
    <3> QED BY <1>1, <1>4, <3>1 DEF AckLast
  <2> QED BY <2>1 DEF Has
<1>6. Inits(to_host') = 0
  BY <1>2, <1>5, InitsCount
<1>7. ASSUME NEW k \in 1 .. Len(to_host'), to_host'[k] = SERIAL_LOADER_END
      PROVE  k = Len(to_host') /\ ~ Has(to_dev, SERIAL_LOADER_INIT)
  <2>1. k + 1 \in 1 .. Len(to_host) /\ 1 \in 1 .. Len(to_host) /\ 1 < k + 1
        /\ to_host[k + 1] = SERIAL_LOADER_END
    BY <1>2, <1>7
  <2>2. k + 1 = Len(to_host) /\ ~ Has(to_dev, SERIAL_LOADER_INIT)
    BY <1>1, <1>4, <2>1, Zenon DEF EndAlone
  <2> QED BY <1>2, <2>2
<1>8. ASSUME NEW p \in 1 .. Len(to_dev')
      PROVE  (p \in 1 .. Len(to_dev) /\ to_dev'[p] = to_dev[p]) \/ to_dev'[p] \notin Signals
  <2>1. PICK size \in Seq(Bytes) : size = ToBytes(Len(host.image)) /\ \A x \in Signals : ~ Has(size, x)
    BY <1>1, SizePlain, FourSignals DEF Signals
  <2>2. \/ p \in 1 .. Len(to_dev) /\ Written(size)[p] = to_dev[p]
        \/ /\ p > Len(to_dev) /\ p - Len(to_dev) \in 1 .. Len(size)
           /\ Written(size)[p] = size[p - Len(to_dev)]
    BY <1>1, <1>8, <2>1, WrittenAt
  <2>3. ASSUME NEW i \in 1 .. Len(size) PROVE size[i] \notin Signals
    BY <2>1, <2>3 DEF Has
  <2> QED BY <1>1, <2>1, <2>2, <2>3
<1>9. PICK td \in Seq(Bytes) : td = to_dev'
  BY <1>2
<1>10. PICK th \in Seq(Bytes) : th = to_host'
  BY <1>2
<1>11. PICK h : h = host'
  OBVIOUS
<1>12. /\ Bounded(td, th) /\ Early(dev, td) /\ EchoesFirst(h, td, th) /\ Answered(h, dev, td, th)
       /\ AckLast(th) /\ EndAlone(h, td, th)
       /\ Acknowledged(h, dev, td, th, confirmed) /\ Started(h, dev, th, confirmed)
  BY <1>1, <1>3, <1>5, <1>6, <1>7, <1>8, <1>9, <1>10, LaunchWrites
<1> QED BY <1>1, <1>9, <1>10, <1>11, <1>12 DEF LaunchInv

\* The tool sends a byte of the image.
LEMMA LaunchSends ==
    ASSUME BaseInv, BaseInv', Late, LaunchInv, Sends
    PROVE  LaunchInv'
<1>1. /\ host.pc = "send" /\ Sending(host) /\ UNCHANGED <<dev, to_host, confirmed>>
      /\ to_dev' = Written(<<host.image[host.idx + 1]>>)
  BY DEF Sends, Sending
<1>2. to_host \in Seq(Bytes) /\ to_dev' \in Seq(Bytes)
  BY DEF BaseInv, LinePlace
<1>3. EchoesFirst(host, to_dev, to_host) /\ EndAlone(host, to_dev, to_host)
  BY DEF LaunchInv
<1>4. Inits(to_host) = 0 /\ ~ Has(to_host, SERIAL_LOADER_INIT)
  BY <1>1, <1>3, LineNumbers DEF EchoesFirst
<1>5. \A k \in 1 .. Len(to_host) : to_host[k] = SERIAL_LOADER_END =>
          k = Len(to_host) /\ ~ Has(to_dev, SERIAL_LOADER_INIT)
  BY <1>1, <1>3, Zenon DEF EndAlone
<1>6. PICK x \in Bytes : x = host.image[host.idx + 1] /\ x \notin Signals
  BY <1>1, DataPlain, ImageByte
<1>7. PICK td \in Seq(Bytes) : td = to_dev'
  BY <1>2
<1>8. \A p \in 1 .. Len(td) : (p \in 1 .. Len(to_dev) /\ td[p] = to_dev[p]) \/ td[p] = x
  BY <1>1, <1>6, <1>7, WrittenOne
<1>9. PICK h : h = host'
  OBVIOUS
<1>10. /\ Bounded(td, to_host) /\ Early(dev, td) /\ EchoesFirst(h, td, to_host)
       /\ Answered(h, dev, td, to_host) /\ AckLast(to_host) /\ EndAlone(h, td, to_host)
       /\ Acknowledged(h, dev, td, to_host, confirmed) /\ Started(h, dev, to_host, confirmed)
  BY <1>1, <1>2, <1>4, <1>5, <1>6, <1>8, LaunchWrites
<1> QED BY <1>1, <1>7, <1>9, <1>10 DEF LaunchInv

\* The tool feeds a loader that is inside an earlier transfer.
LEMMA LaunchFeeds ==
    ASSUME MaxPending <= SIZE_BYTES + 1, BaseInv, BaseInv', LaunchInv, Feeds
    PROVE  LaunchInv'
<1>0. /\ Bounded(to_dev, to_host) /\ EchoesFirst(host, to_dev, to_host)
      /\ Answered(host, dev, to_dev, to_host) /\ AckLast(to_host) /\ EndAlone(host, to_dev, to_host)
      /\ Acknowledged(host, dev, to_dev, to_host, confirmed) /\ Started(host, dev, to_host, confirmed)
  BY DEF LaunchInv
<1>1. /\ to_host # <<>> /\ to_host[1] = SERIAL_LOADER_INIT /\ to_host' = Tail(to_host)
      /\ ~ Sending(host) /\ UNCHANGED <<host, dev, confirmed>>
      /\ to_dev' = Written(<<SERIAL_LOADER_INIT>>)
  BY DEF Feeds, Reads, Sending
<1>2. PICK td : td = to_dev'
  OBVIOUS
<1>3. PICK th \in Seq(Bytes) : th = to_host'
  BY DEF BaseInv, LinePlace
<1>4. /\ td \in Seq(Bytes) /\ Len(td) \in Nat
      /\ \A p \in 1 .. Len(td) :
             /\ dev.pc \in LoaderStates /\ Len(td) = Len(to_dev) + 1
             /\ \/ p \in 1 .. Len(to_dev) /\ td[p] = to_dev[p]
                \/ p = Len(to_dev) + 1 /\ td[p] = SERIAL_LOADER_INIT
  <2>1. SERIAL_LOADER_INIT \in Bytes
    BY FourSignals
  <2> QED BY <1>1, <1>2, <2>1, WrittenOne
<1>5. /\ Inits(to_host) = Inits(th) + 1 /\ Inits(th) \in Nat
  BY <1>1, <1>3, LineNumbers, InitsTaken, InitsCount
<1>6. /\ \A q \in 1 .. Len(to_dev) : to_dev[q] = SERIAL_LOADER_INIT
      /\ \A q \in 1 .. Len(td) : td[q] = SERIAL_LOADER_INIT
  <2>1. \A q \in 1 .. Len(to_dev) : to_dev[q] = SERIAL_LOADER_INIT
    BY <1>0, <1>5 DEF EchoesFirst
  <2> QED BY <1>4, <2>1
<1>7. Len(to_dev) + Inits(to_host) <= MaxPending
  <2>1. CASE Len(to_dev) = 0
    BY <1>0, <2>1, LineNumbers DEF Bounded
  <2>2. CASE Len(to_dev) # 0
    <3>1. Len(to_dev) \in 1 .. Len(to_dev)
      BY <2>2, LineNumbers
    <3> QED BY <1>0, <1>6, <3>1 DEF Bounded
  <2> QED BY <2>1, <2>2
<1>8. Len(td) <= Len(to_dev) + 1
  <2>1. CASE Len(td) = 0
    BY <2>1, LineNumbers
  <2>2. CASE Len(td) # 0
    <3>1. 1 \in 1 .. Len(td)
      BY <1>4, <2>2
    <3>2. Len(td) = Len(to_dev) + 1
      BY <1>4, <3>1
    <3> QED BY <1>4, <3>2
  <2> QED BY <2>1, <2>2
<1>9. Bounded(td, th)
  <2>1. ASSUME NEW p \in 1 .. Len(td) PROVE p + Inits(th) <= MaxPending
    BY <1>4, <1>5, <1>7, <1>8, LineNumbers
  <2> QED BY <1>5, <1>7, <2>1, LineNumbers DEF Bounded
<1>10. Early(dev, td) /\ EchoesFirst(host, td, th)
  BY <1>1, <1>6 DEF Early, EchoesFirst
<1>11. Answered(host, dev, td, th)
  <2> SUFFICES ASSUME Has(th, SERIAL_LOADER_INIT_ACK)
               PROVE  /\ \A p \in 1 .. Len(td) : td[p] = SERIAL_LOADER_INIT => Slot(dev, p)
                      /\ Inits(th) > 0 =>
                            \/ dev.pc \in {"off", "wait_init"}
                            \/ dev.pc = "size" /\ Len(dev.size) + Len(td) + Inits(th) <= SIZE_BYTES
    BY <1>1 DEF Answered
  <2>1. Has(to_host, SERIAL_LOADER_INIT_ACK)
    BY <1>1, <1>3, LineNumbers, HasTaken
  <2>2. \/ dev.pc \in {"off", "wait_init"}
        \/ dev.pc = "size" /\ Len(dev.size) + Len(to_dev) + Inits(to_host) <= SIZE_BYTES
    BY <1>0, <1>5, <2>1 DEF Answered
  <2>3. CASE dev.pc \in {"off", "wait_init"}
    <3>1. ASSUME NEW p \in 1 .. Len(td) PROVE p <= SIZE_BYTES + 1
      BY <1>4, <1>5, <1>7, <1>8, LineNumbers
    <3> QED BY <2>3, <3>1 DEF Slot
  <2>4. CASE dev.pc = "size" /\ Len(dev.size) + Len(to_dev) + Inits(to_host) <= SIZE_BYTES
    <3>1. ASSUME NEW p \in 1 .. Len(td) PROVE Len(dev.size) + p <= SIZE_BYTES
      BY <1>4, <1>5, <1>8, <2>4, LineNumbers, SMTT(60)
    <3>2. Len(dev.size) + Len(td) + Inits(th) <= SIZE_BYTES
      BY <1>4, <1>5, <1>8, <2>4, LineNumbers, SMTT(60)
    <3> QED BY <2>4, <3>1, <3>2 DEF Slot
  <2> QED BY <2>2, <2>3, <2>4
<1>12. AckLast(th)
  <2>1. Sending(host) => Sending(host)
    OBVIOUS
  <2> QED BY <1>1, <1>3, <2>1, LaunchReads
<1>13. EndAlone(host, td, th)
  <2>1. ASSUME NEW k \in 1 .. Len(th), th[k] = SERIAL_LOADER_END,
               NEW l \in 1 .. Len(th), l < k, th[l] = SERIAL_LOADER_INIT_ACK
        PROVE  FALSE
    <3>1. Len(to_host) \in Nat \ {0} /\ Len(th) = Len(to_host) - 1
          /\ \A i \in 1 .. Len(to_host) - 1 : th[i] = to_host[i + 1]
      BY <1>1, <1>3, LineNumbers, Taken
    <3>2. /\ k + 1 \in 1 .. Len(to_host) /\ to_host[k + 1] = SERIAL_LOADER_END
          /\ l + 1 \in 1 .. Len(to_host) /\ l + 1 < k + 1 /\ to_host[l + 1] = SERIAL_LOADER_INIT_ACK
      BY <2>1, <3>1
    <3>3. Inits(to_host) = 0
      BY <1>0, <3>2, Zenon DEF EndAlone
    <3> QED BY <1>5, <3>3
  <2> QED BY <1>1, <2>1, Zenon DEF EndAlone
<1>14. Acknowledged(host, dev, td, th, confirmed)
  <2>1. \A q \in 1 .. Len(td) : td[q] # SERIAL_LOADER_END_ACK
    BY <1>6, FourSignals
  <2> QED BY <2>1 DEF Acknowledged
<1>15. Started(host, dev, th, confirmed)
  BY <1>0, <1>1 DEF Started
<1> QED BY <1>1, <1>2, <1>3, <1>9, <1>10, <1>11, <1>12, <1>13, <1>14, <1>15 DEF LaunchInv

\* The tool reports success: the board holds what it confirms.
LEMMA LaunchEnds ==
    ASSUME BaseInv, BaseInv', SuccessInv, LaunchInv, Ends
    PROVE  LaunchInv'
<1>0. /\ EndAlone(host, to_dev, to_host)
      /\ Acknowledged(host, dev, to_dev, to_host, confirmed) /\ Started(host, dev, to_host, confirmed)
  BY DEF LaunchInv
<1>1. /\ host.pc = "final" /\ Sending(host) /\ to_host # <<>> /\ to_host[1] = SERIAL_LOADER_END
      /\ to_host' = Tail(to_host) /\ dev' = dev /\ ~ Sending(host')
      /\ to_dev' = Written(<<SERIAL_LOADER_END_ACK>>) /\ confirmed' = host.image
  BY DEF Ends, Reads, Sending
<1>2. Len(to_host) = 1 /\ ~ Has(to_dev, SERIAL_LOADER_INIT)
  <2>1. 1 \in 1 .. Len(to_host)
    BY <1>1, LineNumbers
  <2> QED BY <1>0, <1>1, <2>1, Zenon DEF EndAlone
<1>3. to_host' = <<>>
  BY <1>1, <1>2, LineNumbers
<1>4. (dev.pc = "end_ack" /\ dev.buffer = host.image) \/ dev.pc \in {"off", "wait_init"}
  <2>1. Tail(to_host) = <<>>
    BY <1>1, <1>3
  <2>2. dev.pc # "kernel"
    BY <1>0, <1>1 DEF Started
  <2> QED BY <1>1, <2>1, <2>2, FinalRead
<1>5. PICK td : td = to_dev'
  OBVIOUS
<1>6. /\ td \in Seq(Bytes) /\ Len(td) \in Nat
      /\ \A p \in 1 .. Len(td) :
             /\ dev.pc \in LoaderStates /\ Len(td) = Len(to_dev) + 1
             /\ \/ p \in 1 .. Len(to_dev) /\ td[p] = to_dev[p]
                \/ p = Len(to_dev) + 1 /\ td[p] = SERIAL_LOADER_END_ACK
  <2>1. SERIAL_LOADER_END_ACK \in Bytes
    BY FourSignals
  <2> QED BY <1>1, <1>5, <2>1, WrittenOne
<1>7. \A p \in 1 .. Len(td) : td[p] # SERIAL_LOADER_INIT
  BY <1>2, <1>6, FourSignals DEF Has
<1>8. \A p \in 1 .. Len(to_dev) : to_dev[p] # SERIAL_LOADER_END_ACK
  BY <1>0, <1>1 DEF Acknowledged
<1>9. PICK h : h = host' /\ ~ Sending(h)
  BY <1>1
<1>10. Len(<<>>) = 0 /\ Inits(<<>>) = 0 /\ ~ Has(<<>>, SERIAL_LOADER_INIT_ACK)
  BY NoInits, HasOne
<1>11. Bounded(td, <<>>) /\ Early(dev, td) /\ EchoesFirst(h, td, <<>>)
  BY <1>7, <1>10, LineNumbers DEF Bounded, Early, EchoesFirst
<1>12. Answered(h, dev, td, <<>>) /\ AckLast(<<>>) /\ EndAlone(h, td, <<>>)
  <2>1. 1 .. Len(<<>>) = {}
    BY <1>10
  <2> QED BY <1>9, <1>10, <2>1, Zenon DEF Answered, AckLast, EndAlone
<1>13. Acknowledged(h, dev, td, <<>>, host.image)
  <2> SUFFICES ASSUME NEW q \in 1 .. Len(td), td[q] = SERIAL_LOADER_END_ACK
               PROVE  /\ \A p \in 1 .. Len(td) :
                             p < q => td[p] # SERIAL_LOADER_INIT /\ td[p] # SERIAL_LOADER_END_ACK
                      /\ dev.pc \in {"wait_init", "end_ack"}
                      /\ dev.pc = "end_ack" => dev.buffer = host.image
    BY <1>9 DEF Acknowledged
  <2>1. q = Len(to_dev) + 1 /\ dev.pc \in LoaderStates
    BY <1>6, <1>8
  <2>2. ASSUME NEW p \in 1 .. Len(td), p < q PROVE td[p] # SERIAL_LOADER_INIT /\ td[p] # SERIAL_LOADER_END_ACK
    BY <1>6, <1>7, <1>8, <2>1, <2>2, LineNumbers
  <2>3. dev.pc # "off"
    BY <2>1 DEF LoaderStates
  <2> QED BY <1>4, <2>2, <2>3
<1>14. Started(h, dev, <<>>, host.image)
  BY <1>4 DEF Started
<1> QED BY <1>1, <1>3, <1>5, <1>9, <1>11, <1>12, <1>13, <1>14 DEF LaunchInv

\* The loader takes a byte: a place of a start signal moves on with it.
LEMMA SlotStep ==
    ASSUME BaseInv, NEW answer, DevTakes(answer), DevCase(answer), NEW p \in Nat \ {0}, Slot(dev, p + 1)
    PROVE  Slot(dev', p)
<1>1. Len(dev.size) \in Nat /\ SIZE_BYTES \in Nat \ {0}
  BY LineNumbers
<1>2. CASE dev.pc = "size" /\ Len(dev.size) + (p + 1) <= SIZE_BYTES
  <2>1. PICK n \in Nat : n = Len(dev.size)
    BY <1>1
  <2>2. n + (p + 1) <= SIZE_BYTES
    BY <1>2, <2>1
  <2>3. n + 1 # SIZE_BYTES /\ (n + 1) + p <= SIZE_BYTES
    BY <1>1, <2>2
  <2>4. dev'.pc = "size" /\ Len(dev'.size) = n + 1
    BY <1>2, <2>1, <2>3 DEF DevCase
  <2> QED BY <2>3, <2>4 DEF Slot
<1>3. CASE dev.pc \in {"off", "wait_init"} /\ p + 1 <= SIZE_BYTES + 1
  <2>1. dev' = dev \/ (dev'.pc = "size" /\ dev'.size = <<>>)
    BY <1>3 DEF DevCase
  <2>2. CASE dev' = dev
    BY <1>1, <1>3, <2>2 DEF Slot
  <2>3. CASE dev'.pc = "size" /\ dev'.size = <<>>
    <3>1. Len(dev'.size) = 0
      BY <2>3
    <3> QED BY <1>1, <1>3, <2>3, <3>1 DEF Slot
  <2> QED BY <2>1, <2>2, <2>3
<1> QED BY <1>2, <1>3 DEF Slot

\* The answers of the loader, in order.
LEMMA AnswerShapes ==
    ASSUME NEW answer, DevCase(answer)
    PROVE  \/ answer = <<>> /\ dev.pc # "data"
           \/ /\ answer = <<SERIAL_LOADER_INIT_ACK>> /\ dev.pc = "wait_init" /\ byte = SERIAL_LOADER_INIT
              /\ dev'.pc = "size" /\ dev'.size = <<>>
           \/ /\ answer = <<SERIAL_LOADER_END>> /\ dev.pc = "size" /\ Len(dev.size) + 1 = SIZE_BYTES
              /\ dev'.pc = "end_ack"
           \/ answer = <<byte>> /\ dev.pc = "data"
           \/ answer = <<byte, SERIAL_LOADER_END>> /\ dev.pc = "data" /\ dev'.pc = "end_ack"
BY Zenon DEF DevCase

\* Where a byte of the answer comes from.
LEMMA AnswerHas ==
    ASSUME NEW answer, DevCase(answer), NEW x, Has(answer, x)
    PROVE  \/ x = SERIAL_LOADER_INIT_ACK /\ dev.pc = "wait_init" /\ byte = SERIAL_LOADER_INIT
           \/ /\ x = SERIAL_LOADER_END /\ dev'.pc = "end_ack"
              /\ dev.pc = "data" \/ (dev.pc = "size" /\ Len(dev.size) + 1 = SIZE_BYTES)
           \/ x = byte /\ dev.pc = "data"
<1>1. CASE answer = <<>>
  BY <1>1, HasOne
<1>2. CASE answer = <<SERIAL_LOADER_INIT_ACK>> /\ dev.pc = "wait_init" /\ byte = SERIAL_LOADER_INIT
  BY <1>2, HasOne
<1>3. CASE /\ answer = <<SERIAL_LOADER_END>> /\ dev.pc = "size" /\ Len(dev.size) + 1 = SIZE_BYTES
           /\ dev'.pc = "end_ack"
  BY <1>3, HasOne
<1>4. CASE answer = <<byte>> /\ dev.pc = "data"
  BY <1>4, HasOne
<1>5. CASE answer = <<byte, SERIAL_LOADER_END>> /\ dev.pc = "data" /\ dev'.pc = "end_ack"
  BY <1>5, HasTwo
<1> QED BY <1>1, <1>2, <1>3, <1>4, <1>5, AnswerShapes, Zenon

\* A start signal is answered by an echo only while the image is received.
LEMMA AnswerInits ==
    ASSUME BaseInv, NEW answer, DevTakes(answer), DevCase(answer)
    PROVE  Inits(to_host \o answer) =
               IF dev.pc = "data" /\ byte = SERIAL_LOADER_INIT THEN Inits(to_host) + 1 ELSE Inits(to_host)
<1>1. to_host \in Seq(Bytes) /\ byte \in Bytes /\ Inits(to_host) \in Nat
  BY LineNumbers, ByteType DEF DevTakes
<1>2. PICK s \in Seq(Bytes) : s = to_host
  BY <1>1
<1>3. CASE answer = <<>> /\ dev.pc # "data"
  BY <1>2, <1>3
<1>4. ASSUME NEW x \in {SERIAL_LOADER_INIT_ACK, SERIAL_LOADER_END}, answer = <<x>>, dev.pc # "data"
      PROVE  Inits(to_host \o answer) = Inits(to_host)
  <2>1. x \in Bytes /\ x # SERIAL_LOADER_INIT
    BY FourSignals
  <2>2. Inits(s \o <<x>>) = Inits(s)
    BY <2>1, InitsPut
  <2> QED BY <1>2, <1>4, <2>2
<1>5. CASE answer = <<byte>> /\ dev.pc = "data"
  <2>1. Inits(s \o <<byte>>) = IF byte = SERIAL_LOADER_INIT THEN Inits(s) + 1 ELSE Inits(s)
    BY <1>1, InitsPut
  <2> QED BY <1>2, <1>5, <2>1
<1>6. CASE answer = <<byte, SERIAL_LOADER_END>> /\ dev.pc = "data"
  <2>1. PICK x \in Bytes : x = SERIAL_LOADER_END /\ x # SERIAL_LOADER_INIT
    BY FourSignals
  <2>2. PICK b \in Bytes : b = byte
    BY <1>1
  <2>3. s \o <<b, x>> = Append(s, b) \o <<x>> /\ Append(s, b) = s \o <<b>>
    BY PutTwo, Zenon
  <2>4. PICK t \in Seq(Bytes) : t = s \o <<b>>
    <3>1. s \o <<b>> \in Seq(Bytes)
      OBVIOUS
    <3> QED BY <3>1, Zenon
  <2>5. Inits(t \o <<x>>) = Inits(t)
    BY <2>1, InitsPut
  <2>6. Inits(s \o <<b>>) = IF b = SERIAL_LOADER_INIT THEN Inits(s) + 1 ELSE Inits(s)
    BY InitsPut
  <2>7. s \o <<b, x>> = t \o <<x>>
    BY <2>3, <2>4
  <2>8. to_host \o answer = t \o <<x>>
    BY <1>2, <1>6, <2>1, <2>2, <2>7
  <2> QED BY <1>2, <1>6, <2>2, <2>4, <2>5, <2>6, <2>8
<1> QED BY <1>3, <1>4, <1>5, <1>6, AnswerShapes

\* What the loader takes and answers, place by place.
Received(answer, td, th) ==
    /\ td \in Seq(Bytes) /\ Len(td) \in Nat /\ Len(to_dev) = Len(td) + 1
    /\ \A p \in 1 .. Len(td) : p + 1 \in 1 .. Len(to_dev) /\ td[p] = to_dev[p + 1]
    /\ 1 \in 1 .. Len(to_dev) /\ byte = to_dev[1]
    /\ th \in Seq(Bytes) /\ Len(th) = Len(to_host) + Len(answer) /\ Len(answer) \in Nat
    /\ answer \in Seq(Bytes)
    /\ \A k \in 1 .. Len(th) :
           \/ k \in 1 .. Len(to_host) /\ th[k] = to_host[k]
           \/ k > Len(to_host) /\ k - Len(to_host) \in 1 .. Len(answer) /\ th[k] = answer[k - Len(to_host)]

\* These are the places of the line after the step.
LEMMA ReceivedAt ==
    ASSUME BaseInv, NEW answer, DevTakes(answer), NEW td, td = Tail(to_dev), NEW th, th = to_host \o answer
    PROVE  Received(answer, td, th)
<1>1. to_dev \in Seq(Bytes) /\ to_host \in Seq(Bytes) /\ to_dev # <<>> /\ answer \in Seq(Bytes)
  BY LineNumbers DEF DevTakes
<1>2. /\ td \in Seq(Bytes) /\ Len(to_dev) \in Nat \ {0} /\ Len(td) = Len(to_dev) - 1
      /\ \A p \in 1 .. Len(to_dev) - 1 : td[p] = to_dev[p + 1]
  BY <1>1, Taken
<1>3. byte = to_dev[1]
  BY <1>1, ByteType
<1>4. /\ th \in Seq(Bytes) /\ Len(to_host) \in Nat /\ Len(answer) \in Nat
      /\ Len(th) = Len(to_host) + Len(answer)
      /\ \A k \in 1 .. Len(to_host) : th[k] = to_host[k]
      /\ \A k \in 1 .. Len(answer) : th[Len(to_host) + k] = answer[k]
  BY <1>1, Put
<1>5. ASSUME NEW k \in 1 .. Len(th), k > Len(to_host)
      PROVE  k - Len(to_host) \in 1 .. Len(answer) /\ th[k] = answer[k - Len(to_host)]
  <2>1. k - Len(to_host) \in 1 .. Len(answer) /\ k = Len(to_host) + (k - Len(to_host))
    BY <1>4, <1>5
  <2> QED BY <1>4, <2>1
<1>6. \A k \in 1 .. Len(th) :
          \/ k \in 1 .. Len(to_host) /\ th[k] = to_host[k]
          \/ k > Len(to_host) /\ k - Len(to_host) \in 1 .. Len(answer) /\ th[k] = answer[k - Len(to_host)]
  BY <1>4, <1>5
<1>7. /\ Len(td) \in Nat /\ Len(to_dev) = Len(td) + 1 /\ 1 \in 1 .. Len(to_dev)
      /\ \A p \in 1 .. Len(td) : p + 1 \in 1 .. Len(to_dev) /\ td[p] = to_dev[p + 1]
  BY <1>2
<1> QED BY <1>1, <1>2, <1>3, <1>4, <1>6, <1>7 DEF Received

\* While the image is received and the tool has an answer to come, the next byte
\* is no start signal.
LEMMA NoEchoedInit ==
    ASSUME BaseInv, LaunchInv, to_dev # <<>>, byte = SERIAL_LOADER_INIT, dev.pc = "data"
    PROVE  /\ ~ Sending(host) /\ ~ Has(to_host, SERIAL_LOADER_INIT_ACK)
           /\ \A q \in 1 .. Len(to_dev) : to_dev[q] = SERIAL_LOADER_INIT
<1>1. Early(dev, to_dev) /\ Answered(host, dev, to_dev, to_host)
  BY DEF LaunchInv
<1>2. 1 \in 1 .. Len(to_dev) /\ to_dev[1] = SERIAL_LOADER_INIT
  BY ByteType, LineNumbers
<1>3. ~ Slot(dev, 1)
  BY DEF Slot
<1>4. ~ (Sending(host) \/ Has(to_host, SERIAL_LOADER_INIT_ACK))
  BY <1>1, <1>2, <1>3, Zenon DEF Answered
<1>5. ASSUME NEW q \in 1 .. Len(to_dev), to_dev[q] # SERIAL_LOADER_INIT PROVE FALSE
  <2>1. 1 < q
    BY <1>2, <1>5, LineNumbers
  <2> QED BY <1>1, <1>2, <1>3, <1>5, <2>1 DEF Early
<1> QED BY <1>4, <1>5

\* The loader takes a byte.
LEMMA LaunchReceives ==
    ASSUME MaxPending <= SIZE_BYTES + 1, BaseInv, SuccessInv, LaunchInv, Receives
    PROVE  LaunchInv'
<1>1. PICK answer : DevTakes(answer) /\ DevCase(answer)
  BY DEF Receives
<1>2. PICK td : td = Tail(to_dev)
  OBVIOUS
<1>3. PICK th : th = to_host \o answer
  OBVIOUS
<1>4. /\ to_dev' = td /\ to_host' = th /\ host' = host /\ confirmed' = confirmed
      /\ to_dev # <<>> /\ dev.pc \in LoaderStates
  BY <1>1, <1>2, <1>3 DEF DevTakes
<1>5. /\ td \in Seq(Bytes) /\ Len(td) \in Nat /\ Len(to_dev) = Len(td) + 1
      /\ \A p \in 1 .. Len(td) : p + 1 \in 1 .. Len(to_dev) /\ td[p] = to_dev[p + 1]
      /\ 1 \in 1 .. Len(to_dev) /\ byte = to_dev[1]
      /\ th \in Seq(Bytes) /\ Len(th) = Len(to_host) + Len(answer) /\ Len(answer) \in Nat
      /\ answer \in Seq(Bytes)
      /\ \A k \in 1 .. Len(th) :
             \/ k \in 1 .. Len(to_host) /\ th[k] = to_host[k]
             \/ k > Len(to_host) /\ k - Len(to_host) \in 1 .. Len(answer) /\ th[k] = answer[k - Len(to_host)]
  <2>1. Received(answer, td, th)
    BY <1>1, <1>2, <1>3, ReceivedAt
  <2> QED BY <2>1 DEF Received
<1>6. /\ Bounded(to_dev, to_host) /\ Early(dev, to_dev) /\ EchoesFirst(host, to_dev, to_host)
      /\ Answered(host, dev, to_dev, to_host) /\ AckLast(to_host) /\ EndAlone(host, to_dev, to_host)
      /\ Acknowledged(host, dev, to_dev, to_host, confirmed) /\ Started(host, dev, to_host, confirmed)
      /\ NoEcho /\ EndLast(to_host, dev)
  BY DEF LaunchInv, SuccessInv
<1>7. /\ Inits(to_host) \in Nat /\ Inits(th) \in Nat
      /\ Inits(th) = IF dev.pc = "data" /\ byte = SERIAL_LOADER_INIT THEN Inits(to_host) + 1 ELSE Inits(to_host)
  BY <1>1, <1>3, <1>5, LineNumbers, InitsCount, AnswerInits
<1>8. MaxPending \in Nat /\ SIZE_BYTES \in Nat \ {0} /\ Len(dev.size) \in Nat /\ Len(to_host) \in Nat
  BY LineNumbers
<1>9. ASSUME NEW p \in 1 .. Len(td), Slot(dev, p + 1) PROVE Slot(dev', p)
  <2>1. p \in Nat \ {0}
    BY <1>5
  <2> QED BY <1>1, <1>9, <2>1, SlotStep
<1>10. Bounded(td, th)
  <2>1. ASSUME NEW p \in 1 .. Len(td), td[p] = SERIAL_LOADER_INIT PROVE p + Inits(th) <= MaxPending
    <3>1. (p + 1) + Inits(to_host) <= MaxPending
      BY <1>5, <1>6, <2>1 DEF Bounded
    <3> QED BY <1>5, <1>7, <1>8, <3>1
  <2>2. Inits(th) <= MaxPending
    <3>1. byte = SERIAL_LOADER_INIT => 1 + Inits(to_host) <= MaxPending
      BY <1>5, <1>6 DEF Bounded
    <3>2. Inits(to_host) <= MaxPending
      BY <1>6 DEF Bounded
    <3> QED BY <1>7, <1>8, <3>1, <3>2
  <2> QED BY <2>1, <2>2 DEF Bounded
<1>11. Early(dev', td)
  <2> SUFFICES ASSUME NEW p \in 1 .. Len(td), NEW q \in 1 .. Len(td), p < q,
                      td[p] = SERIAL_LOADER_INIT, td[q] # SERIAL_LOADER_INIT
               PROVE  Slot(dev', p)
    BY DEF Early
  <2>1. p + 1 < q + 1
    BY <1>5
  <2>2. Slot(dev, p + 1)
    BY <1>5, <1>6, <2>1 DEF Early
  <2> QED BY <1>9, <2>2
<1>12. EchoesFirst(host, td, th)
  <2> SUFFICES ASSUME Inits(th) > 0
               PROVE  ~ Sending(host) /\ \A q \in 1 .. Len(td) : td[q] = SERIAL_LOADER_INIT
    BY DEF EchoesFirst
  <2>1. ~ Sending(host) /\ \A q \in 1 .. Len(to_dev) : to_dev[q] = SERIAL_LOADER_INIT
    <3>1. CASE Inits(to_host) > 0
      BY <1>6, <3>1 DEF EchoesFirst
    <3>2. CASE ~ Inits(to_host) > 0
      <4>1. dev.pc = "data" /\ byte = SERIAL_LOADER_INIT
        BY <1>7, <3>2
      <4> QED BY <1>4, <4>1, NoEchoedInit
    <3> QED BY <3>1, <3>2
  <2> QED BY <1>5, <2>1
<1>13. ASSUME Sending(host) \/ Has(to_host, SERIAL_LOADER_INIT_ACK)
       PROVE  /\ Inits(th) = Inits(to_host)
              /\ \A p \in 1 .. Len(td) : td[p] = SERIAL_LOADER_INIT => Slot(dev', p)
  <2>1. ~ (dev.pc = "data" /\ byte = SERIAL_LOADER_INIT)
    BY <1>4, <1>13, NoEchoedInit
  <2>2. ASSUME NEW p \in 1 .. Len(td), td[p] = SERIAL_LOADER_INIT PROVE Slot(dev, p + 1)
    BY <1>5, <1>6, <1>13, <2>2 DEF Answered
  <2> QED BY <1>7, <1>9, <2>1, <2>2
<1>14. ASSUME Inits(to_host) > 0 PROVE Len(td) + Inits(to_host) <= SIZE_BYTES
  <2>1. to_dev[Len(to_dev)] = SERIAL_LOADER_INIT /\ Len(to_dev) \in 1 .. Len(to_dev)
    BY <1>5, <1>6, <1>14 DEF EchoesFirst
  <2>2. Len(to_dev) + Inits(to_host) <= MaxPending
    BY <1>6, <2>1 DEF Bounded
  <2> QED BY <1>5, <1>7, <1>8, <2>2
<1>15. Answered(host, dev', td, th)
  <2> SUFFICES ASSUME Sending(host) \/ Has(th, SERIAL_LOADER_INIT_ACK)
               PROVE  /\ \A p \in 1 .. Len(td) : td[p] = SERIAL_LOADER_INIT => Slot(dev', p)
                      /\ Inits(th) > 0 =>
                            \/ dev'.pc \in {"off", "wait_init"}
                            \/ dev'.pc = "size" /\ Len(dev'.size) + Len(td) + Inits(th) <= SIZE_BYTES
    BY DEF Answered
  <2>1. CASE Sending(host) \/ Has(to_host, SERIAL_LOADER_INIT_ACK)
    <3>1. /\ Inits(th) = Inits(to_host)
          /\ \A p \in 1 .. Len(td) : td[p] = SERIAL_LOADER_INIT => Slot(dev', p)
      BY <1>13, <2>1
    <3>2. ASSUME Inits(to_host) > 0
          PROVE  \/ dev'.pc \in {"off", "wait_init"}
                 \/ dev'.pc = "size" /\ Len(dev'.size) + Len(td) + Inits(th) <= SIZE_BYTES
      <4>1. CASE dev.pc \in {"off", "wait_init"}
        <5>1. dev' = dev \/ (dev'.pc = "size" /\ dev'.size = <<>>)
          BY <1>1, <4>1 DEF DevCase
        <5>2. CASE dev'.pc = "size" /\ dev'.size = <<>>
          <6>1. Len(dev'.size) = 0
            BY <5>2
          <6> QED BY <1>5, <1>7, <1>14, <3>1, <3>2, <5>2, <6>1
        <5> QED BY <4>1, <5>1, <5>2
      <4>2. CASE dev.pc = "size" /\ Len(dev.size) + Len(to_dev) + Inits(to_host) <= SIZE_BYTES
        <5>1. PICK n \in Nat : n = Len(dev.size)
          BY <1>8
        <5>2. n + 1 # SIZE_BYTES /\ (n + 1) + Len(td) + Inits(th) <= SIZE_BYTES
          <6>1. PICK m \in Nat : m = Inits(to_host)
            BY <1>7
          <6>2. n + (Len(td) + 1) + m <= SIZE_BYTES /\ m > 0 /\ Inits(th) = m
            BY <1>5, <3>1, <3>2, <4>2, <5>1, <6>1
          <6> QED BY <1>5, <1>8, <6>2
        <5>3. dev'.pc = "size" /\ Len(dev'.size) = n + 1
          BY <1>1, <4>2, <5>1, <5>2 DEF DevCase
        <5> QED BY <5>2, <5>3
      <4> QED BY <1>6, <2>1, <3>2, <4>1, <4>2 DEF Answered
    <3> QED BY <3>1, <3>2
  <2>2. CASE ~ (Sending(host) \/ Has(to_host, SERIAL_LOADER_INIT_ACK))
    <3>1. Has(answer, SERIAL_LOADER_INIT_ACK)
      BY <1>3, <1>5, <2>2, HasPut, LineNumbers
    <3>2. answer = <<SERIAL_LOADER_INIT_ACK>>
      BY <1>1, <1>6, <3>1, Answers
    <3>3. dev.pc = "wait_init" /\ dev'.pc = "size" /\ dev'.size = <<>>
      <4>1. byte # SERIAL_LOADER_INIT_ACK
        BY <1>5, <1>6 DEF NoEcho, Has
      <4> QED BY <1>1, <3>2, <4>1, FourSignals DEF DevCase
    <3>4. Inits(th) = Inits(to_host) /\ Len(dev'.size) = 0
      BY <1>7, <3>3
    <3>5. ASSUME NEW p \in 1 .. Len(td), td[p] = SERIAL_LOADER_INIT PROVE Slot(dev', p)
      <4>1. (p + 1) + Inits(to_host) <= MaxPending
        BY <1>5, <1>6, <3>5 DEF Bounded
      <4>2. 0 + p <= SIZE_BYTES
        BY <1>5, <1>7, <1>8, <4>1
      <4> QED BY <3>3, <3>4, <4>2 DEF Slot
    <3>6. Inits(th) > 0 => Len(dev'.size) + Len(td) + Inits(th) <= SIZE_BYTES
      BY <1>5, <1>7, <1>14, <3>4
    <3> QED BY <3>3, <3>5, <3>6
  <2> QED BY <2>1, <2>2
<1>16. ASSUME NEW k \in 1 .. Len(th), k > Len(to_host), th[k] = SERIAL_LOADER_INIT_ACK
       PROVE  answer = <<SERIAL_LOADER_INIT_ACK>>
  <2>1. Has(answer, SERIAL_LOADER_INIT_ACK)
    <3>1. k \notin 1 .. Len(to_host)
      BY <1>8, <1>16
    <3>2. k - Len(to_host) \in 1 .. Len(answer) /\ answer[k - Len(to_host)] = SERIAL_LOADER_INIT_ACK
      BY <1>5, <1>16, <3>1
    <3> QED BY <3>2 DEF Has
  <2> QED BY <1>1, <1>6, <2>1, Answers
<1>17. AckLast(th)
  <2> SUFFICES ASSUME NEW k \in 1 .. Len(th), NEW l \in 1 .. Len(th), k < l,
                      th[k] = SERIAL_LOADER_INIT_ACK, th[l] = SERIAL_LOADER_INIT
               PROVE  FALSE
    BY DEF AckLast
  <2>1. CASE l \in 1 .. Len(to_host)
    <3>1. k \in 1 .. Len(to_host) /\ th[k] = to_host[k] /\ th[l] = to_host[l]
      BY <1>5, <1>8, <2>1
    <3> QED BY <1>6, <2>1, <3>1 DEF AckLast
  <2>2. CASE l \notin 1 .. Len(to_host)
    <3>1. l - Len(to_host) \in 1 .. Len(answer) /\ answer[l - Len(to_host)] = SERIAL_LOADER_INIT
      BY <1>5, <2>2
    <3>2. Has(answer, SERIAL_LOADER_INIT)
      BY <3>1 DEF Has
    <3>3. dev.pc = "data" /\ byte = SERIAL_LOADER_INIT /\ answer # <<SERIAL_LOADER_INIT_ACK>>
      <4>1. dev.pc = "data" /\ byte = SERIAL_LOADER_INIT
        BY <1>1, <3>2, AnswerHas, FourSignals
      <4>2. ASSUME answer = <<SERIAL_LOADER_INIT_ACK>> PROVE FALSE
        BY <3>2, <4>2, HasOne, FourSignals
      <4> QED BY <4>1, <4>2
    <3>4. k \in 1 .. Len(to_host) /\ th[k] = to_host[k]
      BY <1>5, <1>8, <1>16, <3>3
    <3>5. Has(to_host, SERIAL_LOADER_INIT_ACK)
      BY <3>4 DEF Has
    <3> QED BY <1>4, <3>3, <3>5, NoEchoedInit
  <2> QED BY <2>1, <2>2
<1>18. Started(host, dev', th, confirmed)
  <2> SUFFICES ASSUME dev'.pc = "kernel"
               PROVE  dev'.buffer = confirmed /\ th = <<>> /\ ~ Sending(host)
    BY DEF Started
  <2>1. dev.pc = "end_ack" /\ byte = SERIAL_LOADER_END_ACK /\ answer = <<>> /\ dev'.buffer = dev.buffer
    <3>1. dev.pc # "kernel"
      BY <1>4 DEF LoaderStates
    <3>2. dev' # dev
      BY <3>1
    <3> QED BY <1>1, <3>2, Zenon DEF DevCase
  <2>2. dev.buffer = confirmed /\ to_host = <<>> /\ ~ Sending(host)
    BY <1>5, <1>6, <2>1, Zenon DEF Acknowledged
  <2> QED BY <1>3, <2>1, <2>2
<1>19. Acknowledged(host, dev', td, th, confirmed)
  <2> SUFFICES ASSUME NEW q \in 1 .. Len(td), td[q] = SERIAL_LOADER_END_ACK
               PROVE  /\ \A p \in 1 .. Len(td) :
                             p < q => td[p] # SERIAL_LOADER_INIT /\ td[p] # SERIAL_LOADER_END_ACK
                      /\ th = <<>> /\ ~ Sending(host) /\ dev'.pc = "wait_init"
    BY DEF Acknowledged
  <2>1. /\ q + 1 \in 1 .. Len(to_dev) /\ to_dev[q + 1] = SERIAL_LOADER_END_ACK /\ 1 < q + 1
    BY <1>5
  <2>2. /\ \A p \in 1 .. Len(to_dev) :
               p < q + 1 => to_dev[p] # SERIAL_LOADER_INIT /\ to_dev[p] # SERIAL_LOADER_END_ACK
        /\ to_host = <<>> /\ ~ Sending(host) /\ dev.pc \in {"wait_init", "end_ack"}
    BY <1>6, <2>1, Zenon DEF Acknowledged
  <2>3. byte # SERIAL_LOADER_INIT /\ byte # SERIAL_LOADER_END_ACK
    BY <1>5, <2>1, <2>2
  <2>4. dev'.pc = "wait_init" /\ answer = <<>>
    BY <1>1, <2>2, <2>3 DEF DevCase
  <2>5. ASSUME NEW p \in 1 .. Len(td), p < q PROVE td[p] # SERIAL_LOADER_INIT /\ td[p] # SERIAL_LOADER_END_ACK
    <3>1. p + 1 < q + 1
      BY <2>5
    <3> QED BY <1>5, <2>2, <3>1
  <2> QED BY <1>3, <2>2, <2>4, <2>5
<1>20. EndAlone(host, td, th)
  <2> SUFFICES ASSUME NEW k \in 1 .. Len(th), th[k] = SERIAL_LOADER_END,
                      Sending(host) \/ \E l \in 1 .. Len(th) : l < k /\ th[l] = SERIAL_LOADER_INIT_ACK
               PROVE  k = Len(th) /\ ~ Has(td, SERIAL_LOADER_INIT) /\ Inits(th) = 0
    BY DEF EndAlone
  <2>0. Has(td, SERIAL_LOADER_INIT) => Has(to_dev, SERIAL_LOADER_INIT)
    BY <1>2, <1>4, HasTaken, LineNumbers
  <2>1. CASE k \in 1 .. Len(to_host)
    <3>1. to_host[k] = SERIAL_LOADER_END
      BY <1>5, <2>1
    <3>2. Sending(host) \/ \E l \in 1 .. Len(to_host) : l < k /\ to_host[l] = SERIAL_LOADER_INIT_ACK
      <4>1. ASSUME NEW l \in 1 .. Len(th), l < k, th[l] = SERIAL_LOADER_INIT_ACK
            PROVE  l \in 1 .. Len(to_host) /\ to_host[l] = SERIAL_LOADER_INIT_ACK
        BY <1>5, <1>8, <2>1, <4>1
      <4> QED BY <4>1
    <3>3. k = Len(to_host) /\ ~ Has(to_dev, SERIAL_LOADER_INIT) /\ Inits(to_host) = 0
      BY <1>6, <2>1, <3>1, <3>2, Zenon DEF EndAlone
    <3>4. dev.pc \notin {"size", "data"}
      BY <1>6, <1>8, <2>1, <3>1, <3>3 DEF EndLast
    <3>5. byte # SERIAL_LOADER_INIT
      BY <1>5, <3>3 DEF Has
    <3>6. answer # <<SERIAL_LOADER_INIT_ACK>>
      <4>1. byte # SERIAL_LOADER_INIT_ACK
        BY <1>5, <1>6 DEF NoEcho, Has
      <4>2. ASSUME Has(answer, SERIAL_LOADER_INIT_ACK) PROVE FALSE
        BY <1>1, <3>5, <4>1, <4>2, AnswerHas, FourSignals
      <4> QED BY <4>2, HasOne
    <3>7. answer = <<>>
      BY <1>1, <1>6, <3>4, <3>6, Answers
    <3>8. Len(answer) = 0
      BY <3>7
    <3> QED BY <1>5, <1>7, <1>8, <2>0, <3>3, <3>4, <3>8
  <2>2. CASE k \notin 1 .. Len(to_host)
    <3>1. k > Len(to_host) /\ k - Len(to_host) \in 1 .. Len(answer) /\ answer[k - Len(to_host)] = SERIAL_LOADER_END
      BY <1>5, <2>2
    <3>2. Has(answer, SERIAL_LOADER_END)
      BY <3>1 DEF Has
    <3>3. byte # SERIAL_LOADER_END
      BY <1>5, <1>6 DEF NoEcho, Has
    <3>4. /\ answer # <<SERIAL_LOADER_INIT_ACK>> /\ dev'.pc = "end_ack"
          /\ dev.pc = "data" \/ (dev.pc = "size" /\ Len(dev.size) + 1 = SIZE_BYTES)
      <4>1. ASSUME answer = <<SERIAL_LOADER_INIT_ACK>> PROVE FALSE
        BY <3>2, <4>1, HasOne, FourSignals
      <4>2. /\ dev'.pc = "end_ack"
            /\ dev.pc = "data" \/ (dev.pc = "size" /\ Len(dev.size) + 1 = SIZE_BYTES)
        BY <1>1, <3>2, <3>3, AnswerHas, FourSignals
      <4> QED BY <4>1, <4>2
    <3>5. k - Len(to_host) = Len(answer)
      BY <1>1, <1>6, <3>1, <3>4, Answers
    <3>6. k = Len(th)
      BY <1>5, <1>8, <3>5
    <3>7. Sending(host) \/ Has(to_host, SERIAL_LOADER_INIT_ACK)
      <4>1. ASSUME NEW l \in 1 .. Len(th), th[l] = SERIAL_LOADER_INIT_ACK
            PROVE  Has(to_host, SERIAL_LOADER_INIT_ACK)
        <5>1. l \in 1 .. Len(to_host) /\ to_host[l] = SERIAL_LOADER_INIT_ACK
          BY <1>5, <1>8, <1>16, <3>4, <4>1
        <5> QED BY <5>1 DEF Has
      <4> QED BY <4>1
    <3>8. /\ Inits(th) = Inits(to_host)
          /\ \A p \in 1 .. Len(td) : td[p] = SERIAL_LOADER_INIT => Slot(dev', p)
      BY <1>13, <3>7
    <3>9. ~ Has(td, SERIAL_LOADER_INIT)
      BY <3>4, <3>8 DEF Has, Slot
    <3>10. Inits(to_host) = 0
      <4>1. ASSUME Inits(to_host) > 0 PROVE FALSE
        <5>1. \/ dev.pc \in {"off", "wait_init"}
              \/ dev.pc = "size" /\ Len(dev.size) + Len(to_dev) + Inits(to_host) <= SIZE_BYTES
          BY <1>6, <3>7, <4>1 DEF Answered
        <5>2. /\ dev.pc = "size" /\ Len(dev.size) + 1 = SIZE_BYTES
              /\ Len(dev.size) + Len(to_dev) + Inits(to_host) <= SIZE_BYTES
          BY <3>4, <5>1
        <5>3. PICK n \in Nat : n = Len(dev.size)
          BY <1>8
        <5>4. PICK m \in Nat : m = Inits(to_host)
          BY <1>7
        <5>5. n + 1 = SIZE_BYTES /\ n + (Len(td) + 1) + m <= SIZE_BYTES /\ m > 0
          BY <1>5, <4>1, <5>2, <5>3, <5>4
        <5> QED BY <1>5, <1>8, <5>5
      <4> QED BY <1>7, <4>1
    <3> QED BY <3>6, <3>8, <3>9, <3>10
  <2> QED BY <2>1, <2>2
<1> QED BY <1>4, <1>10, <1>11, <1>12, <1>15, <1>17, <1>18, <1>19, <1>20 DEF LaunchInv

\* Every step keeps the invariant.
LEMMA NextLaunch ==
    ASSUME MaxPending <= SIZE_BYTES + 1, BaseInv, BaseInv', Late, SuccessInv, LaunchInv, [Next]_vars
    PROVE  LaunchInv'
<1>1. ASSUME UNCHANGED <<dev, to_dev, confirmed>>, Sending(host') => Sending(host),
             to_host' = to_host \/ to_host' = <<>> \/ (to_host # <<>> /\ to_host' = Tail(to_host))
      PROVE  LaunchInv'
  <2>1. PICK th \in Seq(Bytes) : th = to_host'
    BY DEF BaseInv, LinePlace
  <2>2. PICK h : h = host'
    OBVIOUS
  <2>3. th = to_host \/ th = <<>> \/ (to_host # <<>> /\ th = Tail(to_host))
    BY <1>1, <2>1, Zenon
  <2>4. Sending(h) => Sending(host)
    BY <1>1, <2>2, Zenon
  <2>5. /\ Bounded(to_dev, th) /\ EchoesFirst(h, to_dev, th) /\ Answered(h, dev, to_dev, th)
        /\ AckLast(th) /\ EndAlone(h, to_dev, th)
        /\ Acknowledged(h, dev, to_dev, th, confirmed) /\ Started(h, dev, th, confirmed)
    BY <2>3, <2>4, LaunchReads, Zenon
  <2>6. Early(dev, to_dev)
    BY DEF LaunchInv
  <2> QED BY <1>1, <2>1, <2>2, <2>5, <2>6 DEF LaunchInv
<1>2. CASE Asks
  BY <1>2, LaunchAsks
<1>3. CASE Starts
  BY <1>3, LaunchStarts
<1>4. CASE Feeds
  BY <1>4, LaunchFeeds
<1>5. CASE Sends
  BY <1>5, LaunchSends
<1>6. CASE Advances
  <2>1. /\ UNCHANGED <<dev, to_dev, confirmed>> /\ Sending(host) /\ to_host # <<>> /\ to_host' = Tail(to_host)
    BY <1>6 DEF Advances, Reads, Sending
  <2> QED BY <1>1, <2>1, Zenon
<1>7. CASE Leaves
  <2>1. /\ UNCHANGED <<dev, to_dev, confirmed>> /\ ~ Sending(host')
        /\ to_host' = to_host \/ to_host' = <<>> \/ (to_host # <<>> /\ to_host' = Tail(to_host))
    BY <1>7, Zenon DEF Leaves
  <2> QED BY <1>1, <2>1, Zenon
<1>8. CASE Ends
  BY <1>8, LaunchEnds
<1>9. CASE Restarts
  BY <1>9, LaunchRestarts
<1>10. CASE Receives
  BY <1>10, LaunchReceives
<1>11. CASE UNCHANGED <<host, dev, to_dev, to_host, punctual, confirmed>>
  BY <1>1, <1>11, Zenon
<1> QED BY <1>2, <1>3, <1>4, <1>5, <1>6, <1>7, <1>8, <1>9, <1>10, <1>11, StepCases

\* The initial states.
LEMMA InitLaunch == Init => LaunchInv
<1> SUFFICES ASSUME Init PROVE LaunchInv
  OBVIOUS
<1>1. to_dev = <<>> /\ to_host = <<>> /\ host.pc = "closed" /\ dev.pc = "off"
  BY DEF Init
<1>2. Len(to_dev) = 0 /\ Len(to_host) = 0 /\ Inits(to_host) = 0 /\ ~ Has(to_host, SERIAL_LOADER_INIT_ACK)
      /\ ~ Sending(host) /\ MaxPending \in Nat
  <2>1. MaxPending \in Nat
    BY LineAssumption, Zenon
  <2> QED BY <1>1, <2>1, NoInits, HasOne DEF Sending
<1>3. Bounded(to_dev, to_host) /\ Early(dev, to_dev) /\ EchoesFirst(host, to_dev, to_host)
  BY <1>2 DEF Bounded, Early, EchoesFirst
<1>4. Answered(host, dev, to_dev, to_host) /\ AckLast(to_host) /\ EndAlone(host, to_dev, to_host)
  BY <1>2 DEF Answered, AckLast, EndAlone
<1>5. Acknowledged(host, dev, to_dev, to_host, confirmed) /\ Started(host, dev, to_host, confirmed)
  BY <1>1, <1>2 DEF Acknowledged, Started
<1> QED BY <1>3, <1>4, <1>5 DEF LaunchInv

-----------------------------------------------------------------------------
(* A punctual line: sessions of any images                                 *)

\* What the loader makes of the bytes on their way to it: it never has one to
\* spare after the last byte of an image, unless it is the answer to END.
Quiet(d, td, c) ==
    \/ td = <<>>
    \/ d.pc = "wait_init" /\ Len(td) <= SIZE_BYTES + 1
    \/ /\ d.pc = "size" /\ Len(d.size) + Len(td) <= SIZE_BYTES + 1
       /\ Len(d.size) + Len(td) = SIZE_BYTES + 1 =>
              \E k \in 1 .. SIZE_BYTES : (d.size \o td)[k] # 0
    \/ d.pc = "data" /\ Len(d.buffer) + Len(td) <= d.datasize
    \/ d.pc = "end_ack" /\ td = <<SERIAL_LOADER_INIT>>
    \/ d.pc = "end_ack" /\ td = <<SERIAL_LOADER_END_ACK>> /\ d.buffer = c

\* Before a session: at most one INIT is on its way, and INIT_ACK is the last
\* answer.
Asking(d, td, th) ==
    /\ td # <<>> => /\ td = <<SERIAL_LOADER_INIT>> /\ d.pc # "kernel"
                    /\ th = <<>> \/ (th = <<SERIAL_LOADER_END>> /\ d.pc \in {"wait_init", "end_ack"})
    /\ \/ th = <<>>
       \/ th = <<SERIAL_LOADER_INIT>> /\ td = <<>> /\ d.pc # "kernel"
       \/ /\ th = <<SERIAL_LOADER_INIT, SERIAL_LOADER_END>> \/ th = <<SERIAL_LOADER_END>>
          /\ d.pc \in {"off", "wait_init", "end_ack"}
       \/ /\ th = <<SERIAL_LOADER_INIT_ACK>> \/ th = <<SERIAL_LOADER_END, SERIAL_LOADER_INIT_ACK>>
          /\ d.pc \in {"off", "wait_init"} \/ (d.pc = "size" /\ d.size = <<>>)

\* The image as far as its bytes are stored.
Stored(d, h, n) == Len(d.buffer) = n /\ \A k \in 1 .. n : d.buffer[k] = h.image[k]

\* In step: the size is on its way, with the first byte of the image or not.
Sizing(h, d, td, th) ==
    /\ d.pc = "size" /\ th = <<>> /\ h.idx = 0
    /\ d.size \o td = IF h.pc = "echo" THEN ToBytes(Len(h.image)) \o <<h.image[1]>>
                      ELSE ToBytes(Len(h.image))

\* In step: every byte of the image is echoed before the next one is sent.
Echoing(h, d, td, th) ==
    /\ d.pc = "data" /\ d.datasize = Len(h.image)
    /\ \/ h.pc = "send" /\ td = <<>> /\ th = <<>> /\ Stored(d, h, h.idx)
       \/ h.pc = "echo" /\ td = <<h.image[h.idx + 1]>> /\ th = <<>> /\ Stored(d, h, h.idx)
       \/ h.pc = "echo" /\ td = <<>> /\ th = <<h.image[h.idx + 1]>> /\ Stored(d, h, h.idx + 1)

\* In step: the image is there.
Complete(h, d, td, th) ==
    /\ d.pc = "end_ack" /\ td = <<>> /\ Stored(d, h, Len(h.image))
    /\ \/ h.pc = "echo" /\ th = <<h.image[h.idx + 1], SERIAL_LOADER_END>> /\ h.idx + 1 = Len(h.image)
       \/ h.pc = "final" /\ th = <<SERIAL_LOADER_END>>

\* The board was reset: answers that were on their way are left.
Gone(h, d, td, th) ==
    /\ d.pc \in {"off", "wait_init"} /\ td = <<>>
    /\ \/ th = <<>>
       \/ h.pc = "send" /\ th = <<SERIAL_LOADER_INIT_ACK>> /\ h.idx = 0
       \/ h.pc = "echo" /\ th = <<h.image[h.idx + 1]>>
       \/ h.pc = "echo" /\ th = <<h.image[h.idx + 1], SERIAL_LOADER_END>> /\ h.idx + 1 = Len(h.image)
       \/ h.pc = "final" /\ th = <<SERIAL_LOADER_END>>

\* The loader skips the bytes of a session that it does not know of.
Skipping(h, d, td, th) ==
    /\ d.pc = "wait_init" /\ th = <<>> /\ td # <<>>
    /\ \/ h.pc = "send" /\ h.idx = 0 /\ Len(td) <= SIZE_BYTES
       \/ /\ h.pc = "echo" /\ td[Len(td)] = h.image[h.idx + 1]
          /\ Len(td) = 1 \/ (h.idx = 0 /\ Len(td) <= SIZE_BYTES + 1)
       \/ h.pc = "final" /\ ~ Has(td, SERIAL_LOADER_INIT) /\ Len(td) <= SIZE_BYTES

\* It met INIT among the bytes of the size and answered.
Misled(h, d, td, th) ==
    LET size == d.size \o td IN
    /\ d.pc = "size" /\ th = <<SERIAL_LOADER_INIT_ACK>> /\ h.idx = 0
    /\ \/ h.pc = "send" /\ Len(size) < SIZE_BYTES
       \/ /\ h.pc = "echo" /\ h.image[1] = SERIAL_LOADER_INIT_ACK
          /\ Len(size) \in 1 .. SIZE_BYTES /\ size[Len(size)] = SERIAL_LOADER_INIT_ACK

\* The tool took the answer for the echo of the first byte of the image, which
\* is now part of a size.
Sunk(h, d, td, th) ==
    LET size == d.size \o td IN
    /\ d.pc = "size" /\ th = <<>> /\ Has(size, SERIAL_LOADER_INIT_ACK)
    /\ \/ /\ h.pc = "send" /\ Len(size) <= SIZE_BYTES
          /\ Len(size) = SIZE_BYTES => size[SIZE_BYTES] = SERIAL_LOADER_INIT_ACK
       \/ /\ h.pc = "echo" /\ Len(size) <= SIZE_BYTES + 1
          /\ Len(size) = SIZE_BYTES + 1 => /\ size[SIZE_BYTES] = SERIAL_LOADER_INIT_ACK
                                           /\ size[SIZE_BYTES + 1] = h.image[h.idx + 1]
       \/ h.pc = "final" /\ Len(size) <= SIZE_BYTES

\* The same, and the board was reset before it took that byte.
Passing(h, d, td, th) ==
    /\ d.pc = "wait_init"
    /\ \/ /\ h.pc = "echo" /\ h.image[h.idx + 1] = SERIAL_LOADER_INIT_ACK
          /\ td = <<SERIAL_LOADER_INIT_ACK>> /\ th = <<SERIAL_LOADER_INIT_ACK>>
       \/ h.pc \in {"send", "final"} /\ td = <<SERIAL_LOADER_INIT_ACK>> /\ th = <<>>
       \/ h.pc = "echo" /\ td = <<SERIAL_LOADER_INIT_ACK, h.image[h.idx + 1]>> /\ th = <<>>

\* No answer is left to come, or one that ends the tool.
Stuck(h, td, th) == h.pc \in {"echo", "final"} /\ td = <<>> /\ th = <<>>
Doomed(h, d, td, th) ==
    /\ h.pc = "echo" /\ th # <<>> /\ th[1] # h.image[h.idx + 1]
    /\ d.pc = "end_ack" => td = <<>>

Session(h, d, td, th) ==
    \/ Sizing(h, d, td, th) \/ Echoing(h, d, td, th) \/ Complete(h, d, td, th)
    \/ Gone(h, d, td, th) \/ Skipping(h, d, td, th) \/ Misled(h, d, td, th) \/ Sunk(h, d, td, th)
    \/ Passing(h, d, td, th) \/ Stuck(h, td, th) \/ Doomed(h, d, td, th)

PunctualInv ==
    /\ Quiet(dev, to_dev, confirmed)
    /\ dev.pc = "kernel" => dev.buffer = confirmed /\ ~ Sending(host)
    /\ host.pc = "handshake" => Asking(dev, to_dev, to_host)
    /\ Sending(host) => Session(host, dev, to_dev, to_host)

-----------------------------------------------------------------------------
(* A punctual line: few bytes                                              *)

\* Lines of one and two bytes.
LEMMA Small ==
    ASSUME NEW a \in Bytes, NEW b \in Bytes
    PROVE  /\ <<a>> \in Seq(Bytes) /\ <<a, b>> \in Seq(Bytes) /\ <<>> \in Seq(Bytes)
           /\ <<a>> # <<>> /\ <<a, b>> # <<>>
           /\ <<a>>[1] = a /\ <<a, b>>[1] = a /\ <<a, b>>[2] = b
           /\ Tail(<<a>>) = <<>> /\ Tail(<<a, b>>) = <<b>>
           /\ Len(<<a>>) = 1 /\ Len(<<a, b>>) = 2 /\ Len(<<>>) = 0
           /\ <<>> \o <<a>> = <<a>> /\ <<>> \o <<a, b>> = <<a, b>> /\ <<a>> \o <<b>> = <<a, b>>
<1>1. <<a>> \in Seq(Bytes) /\ <<b>> \in Seq(Bytes) /\ <<a, b>> \in Seq(Bytes) /\ <<>> \in Seq(Bytes)
  OBVIOUS
<1>2. /\ <<a>> # <<>> /\ <<a, b>> # <<>> /\ <<a>>[1] = a /\ <<b>>[1] = b
      /\ <<a, b>>[1] = a /\ <<a, b>>[2] = b
      /\ Len(<<a>>) = 1 /\ Len(<<b>>) = 1 /\ Len(<<a, b>>) = 2 /\ Len(<<>>) = 0
  OBVIOUS
<1>3. Tail(<<a>>) = <<>>
  OBVIOUS
<1>4. Tail(<<a, b>>) = <<b>>
  OBVIOUS
<1>5. <<>> \o <<a>> = <<a>> /\ <<>> \o <<a, b>> = <<a, b>>
  BY <1>1, EmptyPut
<1>6. <<a>> \o <<b>> = <<a, b>>
  <2>1. <<a>> \o <<b>> \in Seq(Bytes) /\ Len(<<a>> \o <<b>>) = 2
    BY <1>1, <1>2, Put
  <2>2. (<<a>> \o <<b>>)[1] = a /\ (<<a>> \o <<b>>)[2] = b
    OBVIOUS
  <2>3. \A i \in 1 .. 2 : (<<a>> \o <<b>>)[i] = <<a, b>>[i]
    BY <1>2, <2>2
  <2> QED BY <1>1, <1>2, <2>1, <2>3, SameBytes, ZenonT(60)
<1> QED BY <1>1, <1>2, <1>3, <1>4, <1>5, <1>6

\* Nothing is put after.
LEMMA PutEmpty ==
    ASSUME NEW s \in Seq(Bytes)
    PROVE  s \o <<>> = s
OBVIOUS

\* A line without bytes.
LEMMA NoBytes ==
    ASSUME NEW s \in Seq(Bytes)
    PROVE  (s = <<>> <=> Len(s) = 0) /\ Len(s) \in Nat
OBVIOUS

\* What the tool and the board hold.
LEMMA Kinds ==
    ASSUME BaseInv
    PROVE  /\ to_dev \in Seq(Bytes) /\ to_host \in Seq(Bytes)
           /\ dev.size \in Seq(Bytes) /\ dev.buffer \in Seq(Bytes) /\ dev.datasize \in Nat
           /\ host.image \in Seq(Bytes) /\ host.idx \in Nat /\ Len(host.image) \in Nat
           /\ host.idx <= Len(host.image)
           /\ dev.pc \in DevStates /\ host.pc \in HostStates
<1>1. host.image \in AllImages /\ host.idx \in Nat /\ host.pc \in HostStates /\ host.idx <= Len(host.image)
  <2>1. host \in HostRecords /\ host.idx <= Len(host.image)
    BY DEF BaseInv, HostPlace
  <2> QED BY <2>1 DEF HostRecords
<1>2. host.image \in Seq(Bytes) /\ Len(host.image) \in Nat
  BY <1>1, ImageBytes
<1>3. dev.size \in Seq(Bytes) /\ dev.buffer \in Seq(Bytes) /\ dev.datasize \in Nat /\ dev.pc \in DevStates
  BY Numbers DEF BaseInv, DevPlace, DevRecords
<1> QED BY <1>1, <1>2, <1>3 DEF BaseInv, LinePlace

\* A byte is taken for the size.
LEMMA SizeTaken ==
    ASSUME NEW s \in Seq(Bytes), NEW t \in Seq(Bytes), t # <<>>
    PROVE  /\ Append(s, Head(t)) \in Seq(Bytes) /\ Len(Append(s, Head(t))) = Len(s) + 1
           /\ Append(s, Head(t)) \o Tail(t) = s \o t
           /\ \A k \in 1 .. Len(s) + 1 : (s \o t)[k] = Append(s, Head(t))[k]
           /\ \A k \in 1 .. Len(Tail(t)) : Tail(t)[k] = (s \o t)[Len(s) + 1 + k]
<1>1. Head(t) \in Bytes /\ Tail(t) \in Seq(Bytes) /\ Len(Tail(t)) = Len(t) - 1 /\ Len(t) \in Nat \ {0}
      /\ Head(t) = t[1] /\ \A k \in 1 .. Len(t) - 1 : Tail(t)[k] = t[k + 1]
  BY Taken
<1>2. PICK a \in Seq(Bytes) : a = Append(s, Head(t))
  <2>1. PICK x \in Bytes : x = Head(t)
    BY <1>1
  <2>2. Append(s, x) \in Seq(Bytes)
    OBVIOUS
  <2> QED BY <2>1, <2>2, Zenon
<1>3. Len(a) = Len(s) + 1 /\ a[Len(s) + 1] = t[1] /\ Len(s) \in Nat /\ \A k \in 1 .. Len(s) : a[k] = s[k]
  BY <1>1, <1>2
<1>4. s \o t \in Seq(Bytes) /\ a \o Tail(t) \in Seq(Bytes) /\ Len(s \o t) = Len(s) + Len(t)
      /\ Len(a \o Tail(t)) = Len(s) + Len(t)
  <2>1. s \o t \in Seq(Bytes) /\ Len(s \o t) = Len(s) + Len(t)
    BY Put
  <2>2. a \o Tail(t) \in Seq(Bytes) /\ Len(a \o Tail(t)) = Len(a) + Len(Tail(t))
    BY <1>1, <1>2, Put, Zenon
  <2>3. (Len(s) + 1) + (Len(t) - 1) = Len(s) + Len(t)
    BY <1>1, <1>3
  <2> QED BY <1>1, <1>3, <2>1, <2>2, <2>3
<1>5. ASSUME NEW k \in 1 .. Len(s) + 1 PROVE (s \o t)[k] = a[k]
  <2>1. CASE k <= Len(s)
    BY <1>3, <2>1, Put
  <2>2. CASE k = Len(s) + 1
    <3>1. (s \o t)[Len(s) + 1] = t[1]
      BY <1>1, Put
    <3> QED BY <1>3, <2>2, <3>1
  <2> QED BY <1>3, <2>1, <2>2
<1>6. ASSUME NEW k \in 1 .. Len(Tail(t)) PROVE Tail(t)[k] = (s \o t)[Len(s) + 1 + k]
  <2>1. k + 1 \in 1 .. Len(t)
    BY <1>1
  <2>2. (s \o t)[Len(s) + (k + 1)] = t[k + 1]
    BY <2>1, Put
  <2>3. Len(s) + (k + 1) = Len(s) + 1 + k
    BY <1>3
  <2> QED BY <1>1, <2>2, <2>3
<1>7. ASSUME NEW k \in 1 .. Len(s) + Len(t) PROVE (a \o Tail(t))[k] = (s \o t)[k]
  <2>1. CASE k <= Len(s) + 1
    <3>1. (a \o Tail(t))[k] = a[k]
      BY <1>1, <1>3, <2>1, Put
    <3> QED BY <1>3, <1>5, <2>1, <3>1
  <2>2. CASE ~ k <= Len(s) + 1
    <3>1. PICK j \in 1 .. Len(Tail(t)) : k = Len(s) + 1 + j
      <4>1. k - (Len(s) + 1) \in 1 .. Len(Tail(t)) /\ k = Len(s) + 1 + (k - (Len(s) + 1))
        BY <1>1, <1>3, <2>2
      <4> QED BY <4>1
    <3>2. (a \o Tail(t))[Len(a) + j] = Tail(t)[j]
      BY <1>1, Put
    <3> QED BY <1>3, <1>6, <3>1, <3>2
  <2> QED BY <2>1, <2>2
<1>8. a \o Tail(t) = s \o t
  BY <1>4, <1>7, SameBytes
<1> QED BY <1>2, <1>3, <1>5, <1>6, <1>8

\* A size whose most significant byte is INIT_ACK does not fit.
LEMMA Misfit ==
    ASSUME NEW size \in Seq(Bytes), Len(size) = SIZE_BYTES, size[SIZE_BYTES] = SERIAL_LOADER_INIT_ACK
    PROVE  ~ Fits(FromBytes(size))
<1>1. size \in [1 .. SIZE_BYTES -> Bytes]
  OBVIOUS
<1>2. FromBytes(size) > KERNEL_MAX_SIZE
  BY <1>1, SizeAssumption, Zenon
<1>3. FromBytes(size) \in Nat /\ KERNEL_MAX_SIZE \in Nat
  BY FromBytesType, Numbers
<1> QED BY <1>2, <1>3 DEF Fits

\* INIT and INIT_ACK are not 0.
LEMMA NonZero == SERIAL_LOADER_INIT # 0 /\ SERIAL_LOADER_INIT_ACK # 0
BY LineAssumption DEF SERIAL_LOADER_INIT, SERIAL_LOADER_INIT_ACK

-----------------------------------------------------------------------------
(* A punctual line: the loader takes the bytes on their way                *)

\* A line that is quiet stays so, and the loader starts only what was confirmed.
LEMMA QuietReceives ==
    ASSUME BaseInv, Quiet(dev, to_dev, confirmed), NEW answer, DevTakes(answer), DevCase(answer),
           DevPlace(dev')
    PROVE  /\ Quiet(dev', to_dev', confirmed)
           /\ dev'.pc = "end_ack" => to_dev' = <<>>
           /\ dev'.pc = "kernel" => dev'.buffer = confirmed /\ dev.pc = "end_ack"
<1>1. /\ to_dev \in Seq(Bytes) /\ to_dev # <<>> /\ dev.size \in Seq(Bytes) /\ dev.buffer \in Seq(Bytes)
      /\ dev.datasize \in Nat /\ to_dev' = Tail(to_dev)
  BY Kinds DEF DevTakes
<1>2. PICK td \in Seq(Bytes) : td = to_dev'
  BY <1>1, Taken
<1>3. PICK t \in Nat : Len(td) = t /\ Len(to_dev) = t + 1 /\ (t = 0 => td = <<>>)
  <2>1. Len(to_dev) \in Nat \ {0} /\ Len(td) = Len(to_dev) - 1
    BY <1>1, <1>2, Taken
  <2>2. Len(td) = 0 => td = <<>>
    BY NoBytes
  <2> QED BY <2>1, <2>2
<1>4. PICK m \in Nat \ {0} : m = SIZE_BYTES
  BY Numbers
<1>5. CASE dev.pc = "wait_init"
  <2>1. t + 1 <= m + 1
    BY <1>1, <1>3, <1>4, <1>5 DEF Quiet
  <2>2. CASE dev' = dev
    BY <1>2, <1>3, <1>4, <1>5, <2>1, <2>2 DEF Quiet
  <2>3. CASE dev'.pc = "size" /\ dev'.size = <<>>
    <3>1. Len(dev'.size) = 0
      BY <2>3
    <3>2. Len(dev'.size) + Len(td) <= m /\ ~ (Len(dev'.size) + Len(td) = m + 1) /\ m <= m + 1
      BY <1>3, <2>1, <3>1
    <3>3. Quiet(dev', td, confirmed)
      BY <1>3, <1>4, <2>1, <2>3, <3>1, <3>2 DEF Quiet
    <3> QED BY <1>2, <2>3, <3>3
  <2> QED BY <1>5, <2>2, <2>3 DEF DevCase
<1>6. CASE dev.pc = "size"
  <2>1. PICK n \in Nat : n = Len(dev.size)
    BY <1>1, NoBytes
  <2>2. n + (t + 1) <= m + 1 /\ (n + (t + 1) = m + 1 => \E k \in 1 .. m : (dev.size \o to_dev)[k] # 0)
    BY <1>1, <1>3, <1>4, <1>6, <2>1 DEF Quiet
  <2>3. PICK size \in Seq(Bytes) : size = Append(dev.size, byte)
    BY <1>1, SizeTaken DEF byte
  <2>4. /\ Len(size) = n + 1 /\ size \o td = dev.size \o to_dev
        /\ \A k \in 1 .. n + 1 : (dev.size \o to_dev)[k] = size[k]
    <3>1. /\ Len(Append(dev.size, Head(to_dev))) = Len(dev.size) + 1
          /\ Append(dev.size, Head(to_dev)) \o Tail(to_dev) = dev.size \o to_dev
          /\ \A k \in 1 .. Len(dev.size) + 1 :
                (dev.size \o to_dev)[k] = Append(dev.size, Head(to_dev))[k]
      BY <1>1, SizeTaken, Zenon
    <3> QED BY <1>1, <1>2, <2>1, <2>3, <3>1, Zenon DEF byte
  <2>5. CASE dev'.pc = "size" /\ dev'.size = size
    <3>1. (n + 1) + t = n + (t + 1)
      OBVIOUS
    <3>2. Quiet(dev', td, confirmed)
      BY <1>3, <1>4, <2>2, <2>4, <2>5, <3>1 DEF Quiet
    <3> QED BY <1>2, <2>5, <3>2
  <2>6. CASE n + 1 = m /\ dev'.pc \in {"wait_init", "data", "end_ack"}
             /\ (dev'.pc = "end_ack" => FromBytes(size) = 0)
             /\ dev'.buffer = <<>>
    <3>1. t <= 1 /\ (t = 1 => \E k \in 1 .. m : size[k] # 0)
      BY <2>2, <2>4, <2>6
    <3>2. t = 1 => FromBytes(size) # 0
      BY <2>4, <2>6, <3>1, ZeroSize
    <3>3. CASE dev'.pc = "end_ack"
      <4>1. t = 0
        BY <2>6, <3>1, <3>2, <3>3
      <4> QED BY <1>2, <1>3, <3>3, <4>1 DEF Quiet
    <3>4. CASE dev'.pc = "wait_init"
      BY <1>2, <1>3, <1>4, <3>1, <3>4 DEF Quiet
    <3>5. CASE dev'.pc = "data"
      <4>1. Len(dev'.buffer) < dev'.datasize /\ Len(dev'.buffer) = 0 /\ dev'.datasize \in Nat
        BY <2>6, <3>5, Numbers DEF DevPlace, DevRecords
      <4>2. Len(dev'.buffer) + t <= dev'.datasize
        BY <3>1, <4>1
      <4> QED BY <1>2, <1>3, <3>5, <4>2 DEF Quiet
    <3> QED BY <2>6, <3>3, <3>4, <3>5
  <2> QED BY <1>4, <1>6, <2>1, <2>3, <2>5, <2>6 DEF DevCase
<1>7. CASE dev.pc = "data"
  <2>1. PICK n \in Nat : n = Len(dev.buffer)
    BY <1>1, NoBytes
  <2>2. n + (t + 1) <= dev.datasize
    BY <1>1, <1>3, <1>7, <2>1 DEF Quiet
  <2>3. Len(Append(dev.buffer, byte)) = n + 1
    BY <1>1, <2>1, SizeTaken DEF byte
  <2>4. CASE dev'.pc = "data" /\ dev'.buffer = Append(dev.buffer, byte) /\ dev'.datasize = dev.datasize
    <3>1. Len(dev'.buffer) + t <= dev'.datasize
      BY <1>1, <2>2, <2>3, <2>4
    <3> QED BY <1>2, <1>3, <2>4, <3>1 DEF Quiet
  <2>5. CASE dev'.pc = "end_ack" /\ n + 1 = dev.datasize
    <3>1. t = 0
      BY <1>1, <2>2, <2>5
    <3> QED BY <1>2, <1>3, <2>5, <3>1 DEF Quiet
  <2> QED BY <1>7, <2>1, <2>4, <2>5 DEF DevCase
<1>8. CASE dev.pc = "end_ack"
  <2>1. \/ to_dev = <<SERIAL_LOADER_INIT>>
        \/ to_dev = <<SERIAL_LOADER_END_ACK>> /\ dev.buffer = confirmed
    BY <1>1, <1>8 DEF Quiet
  <2>2. to_dev' = <<>>
    BY <1>1, <2>1, FourSignals, Small
  <2>3. CASE byte = SERIAL_LOADER_END_ACK /\ dev'.pc = "kernel" /\ dev'.buffer = dev.buffer
    <3>1. to_dev # <<SERIAL_LOADER_INIT>>
      BY <2>3, FourSignals, Small DEF byte
    <3> QED BY <1>8, <2>1, <2>2, <2>3, <3>1 DEF Quiet
  <2>4. CASE dev'.pc = "wait_init"
    BY <2>2, <2>4 DEF Quiet
  <2> QED BY <1>8, <2>3, <2>4 DEF DevCase
<1> QED BY <1>5, <1>6, <1>7, <1>8 DEF DevTakes, LoaderStates

\* Before a session.
LEMMA AskingReceives ==
    ASSUME BaseInv, Asking(dev, to_dev, to_host), NEW answer, DevTakes(answer), DevCase(answer),
           DevPlace(dev')
    PROVE  Asking(dev', to_dev', to_host') /\ dev'.pc # "kernel"
<1>1. /\ to_dev = <<SERIAL_LOADER_INIT>>
      /\ to_host = <<>> \/ (to_host = <<SERIAL_LOADER_END>> /\ dev.pc \in {"wait_init", "end_ack"})
  BY DEF Asking, DevTakes
<1>2. to_dev' = <<>> /\ byte = SERIAL_LOADER_INIT /\ to_host' = to_host \o answer
  BY <1>1, FourSignals, Small DEF DevTakes, byte
<1>3. /\ <<>> \o <<>> = <<>> /\ <<SERIAL_LOADER_END>> \o <<>> = <<SERIAL_LOADER_END>>
      /\ <<>> \o <<SERIAL_LOADER_INIT>> = <<SERIAL_LOADER_INIT>>
      /\ <<>> \o <<SERIAL_LOADER_INIT_ACK>> = <<SERIAL_LOADER_INIT_ACK>>
      /\ <<>> \o <<SERIAL_LOADER_INIT, SERIAL_LOADER_END>> = <<SERIAL_LOADER_INIT, SERIAL_LOADER_END>>
      /\ <<SERIAL_LOADER_END>> \o <<SERIAL_LOADER_INIT_ACK>> = <<SERIAL_LOADER_END, SERIAL_LOADER_INIT_ACK>>
  BY FourSignals, Small, PutEmpty
<1>4. CASE dev.pc = "wait_init"
  <2>1. answer = <<SERIAL_LOADER_INIT_ACK>> /\ dev'.pc = "size" /\ dev'.size = <<>>
    BY <1>2, <1>4 DEF DevCase
  <2> QED BY <1>1, <1>2, <1>3, <2>1 DEF Asking
<1>5. CASE dev.pc = "size"
  <2>1. to_host = <<>>
    BY <1>1, <1>5
  <2>2. FromBytes(Append(dev.size, byte)) # 0
    <3>1. PICK s \in Seq(Bytes) : s = Append(dev.size, byte)
      BY <1>1, FourSignals, Small, Kinds, SizeTaken DEF byte
    <3>2. Len(s) = Len(dev.size) + 1 /\ s[Len(dev.size) + 1] = SERIAL_LOADER_INIT /\ Len(dev.size) \in Nat
      BY <1>2, <3>1, Kinds, FourSignals
    <3>3. Len(s) \in 1 .. Len(s) /\ s[Len(s)] # 0
      BY <3>2, NonZero
    <3> QED BY <3>1, <3>3, ZeroSize
  <2>3. answer = <<>> /\ dev'.pc \in {"size", "wait_init", "data"}
    BY <1>5, <2>2 DEF DevCase
  <2> QED BY <1>2, <1>3, <2>1, <2>3 DEF Asking
<1>6. CASE dev.pc = "data"
  <2>1. to_host = <<>>
    BY <1>1, <1>6
  <2>2. \/ answer = <<SERIAL_LOADER_INIT>> /\ dev'.pc = "data"
        \/ answer = <<SERIAL_LOADER_INIT, SERIAL_LOADER_END>> /\ dev'.pc = "end_ack"
    BY <1>2, <1>6 DEF DevCase
  <2> QED BY <1>2, <1>3, <2>1, <2>2 DEF Asking
<1>7. CASE dev.pc = "end_ack"
  <2>1. answer = <<>> /\ dev'.pc = "wait_init"
    BY <1>2, <1>7, FourSignals DEF DevCase
  <2> QED BY <1>1, <1>2, <1>3, <2>1 DEF Asking
<1> QED BY <1>4, <1>5, <1>6, <1>7 DEF DevTakes, LoaderStates

-----------------------------------------------------------------------------
(* A punctual line: the loader inside a session                            *)

\* A line of one byte.
LEMMA OneByte ==
    ASSUME NEW s \in Seq(Bytes), Len(s) = 1
    PROVE  s = <<s[1]>> /\ s # <<>> /\ Tail(s) = <<>> /\ Head(s) = s[1]
<1>1. s # <<>> /\ s[1] \in Bytes
  <2>1. s # <<>>
    BY NoBytes
  <2> QED BY <2>1, Taken
<1>2. <<s[1]>> \in Seq(Bytes) /\ Len(<<s[1]>>) = 1 /\ <<s[1]>>[1] = s[1]
  BY <1>1
<1>3. s = <<s[1]>>
  <2>1. \A i \in 1 .. 1 : s[i] = <<s[1]>>[i]
    BY <1>2
  <2> QED BY <1>2, <2>1, SameBytes
<1>4. s # <<>> /\ Head(s) = s[1] /\ Len(Tail(s)) = 0 /\ Tail(s) \in Seq(Bytes)
  BY <1>1, Taken
<1> QED BY <1>3, <1>4, NoBytes

\* The line and the size when the loader takes a byte of the size.
LEMMA SizeSteps ==
    ASSUME BaseInv, dev.pc = "size", NEW answer, DevTakes(answer), DevCase(answer), DevPlace(dev')
    PROVE  \E size \in Seq(Bytes), all \in Seq(Bytes), td \in Seq(Bytes), m \in Nat \ {0} :
              /\ size = Append(dev.size, byte) /\ all = dev.size \o to_dev /\ td = to_dev' /\ m = SIZE_BYTES
              /\ Len(size) <= m /\ Len(all) = Len(size) + Len(td) /\ Len(size) \in Nat /\ Len(td) \in Nat
              /\ \A k \in 1 .. Len(size) : all[k] = size[k]
              /\ \A k \in 1 .. Len(td) : td[k] = all[Len(size) + k]
              /\ \/ /\ dev'.pc = "size" /\ dev'.size = size /\ answer = <<>>
                    /\ dev'.size \o td = all /\ Len(size) < m
                 \/ /\ Len(size) = m /\ dev'.buffer = <<>> /\ Len(dev'.buffer) = 0
                    /\ \/ dev'.pc = "wait_init" /\ answer = <<>> /\ FromBytes(size) # 0
                       \/ /\ dev'.pc = "data" /\ answer = <<>> /\ FromBytes(size) # 0
                          /\ dev'.datasize = FromBytes(size) /\ Fits(FromBytes(size))
                       \/ /\ dev'.pc = "end_ack" /\ answer = <<SERIAL_LOADER_END>>
                          /\ FromBytes(size) = 0
<1>1. /\ to_dev \in Seq(Bytes) /\ to_dev # <<>> /\ dev.size \in Seq(Bytes) /\ to_dev' = Tail(to_dev)
  BY Kinds DEF DevTakes
<1>2. PICK td \in Seq(Bytes) : td = to_dev'
  BY <1>1, Taken
<1>3. PICK m \in Nat \ {0} : m = SIZE_BYTES
  BY Numbers
<1>4. PICK size \in Seq(Bytes) : size = Append(dev.size, byte)
  BY <1>1, SizeTaken DEF byte
<1>5. PICK all \in Seq(Bytes) : all = dev.size \o to_dev
  BY <1>1, Put
<1>6. /\ Len(size) = Len(dev.size) + 1 /\ size \o td = all
      /\ \A k \in 1 .. Len(dev.size) + 1 : all[k] = size[k]
      /\ \A k \in 1 .. Len(td) : td[k] = all[Len(dev.size) + 1 + k]
  <2>1. /\ Len(Append(dev.size, Head(to_dev))) = Len(dev.size) + 1
        /\ Append(dev.size, Head(to_dev)) \o Tail(to_dev) = dev.size \o to_dev
        /\ \A k \in 1 .. Len(dev.size) + 1 : (dev.size \o to_dev)[k] = Append(dev.size, Head(to_dev))[k]
        /\ \A k \in 1 .. Len(Tail(to_dev)) : Tail(to_dev)[k] = (dev.size \o to_dev)[Len(dev.size) + 1 + k]
    BY <1>1, SizeTaken, Zenon
  <2> QED BY <1>1, <1>2, <1>4, <1>5, <2>1, Zenon DEF byte
<1>7. Len(all) = Len(size) + Len(td) /\ Len(size) \in Nat /\ Len(td) \in Nat
  BY <1>6, Put, NoBytes
<1>8. PICK n \in Nat : n = Len(dev.size)
  BY <1>1, NoBytes
<1>9. n < m
  BY <1>3, <1>8 DEF BaseInv, DevPlace
<1>10. /\ Len(size) = n + 1 /\ Len(size) <= m
       /\ \A k \in 1 .. Len(size) : all[k] = size[k]
       /\ \A k \in 1 .. Len(td) : td[k] = all[Len(size) + k]
  BY <1>6, <1>8, <1>9
<1>11. CASE dev'.pc = "size" /\ dev'.size = size /\ answer = <<>>
  <2>1. Len(size) < m
    BY <1>3, <1>11 DEF DevPlace
  <2>2. dev'.size \o td = all
    BY <1>6, <1>11
  <2> QED BY <1>2, <1>3, <1>4, <1>5, <1>7, <1>10, <1>11, <2>1, <2>2, Zenon
<1>12. CASE /\ Len(dev.size) + 1 = SIZE_BYTES /\ dev'.buffer = <<>>
            /\ \/ dev'.pc = "wait_init" /\ answer = <<>> /\ FromBytes(size) # 0
               \/ /\ dev'.pc = "data" /\ answer = <<>> /\ FromBytes(size) # 0
                  /\ dev'.datasize = FromBytes(size) /\ Fits(FromBytes(size))
               \/ /\ dev'.pc = "end_ack" /\ answer = <<SERIAL_LOADER_END>>
                  /\ FromBytes(size) = 0
  <2>1. Len(size) = m /\ Len(dev'.buffer) = 0
    BY <1>3, <1>6, <1>12
  <2>2. /\ Len(size) = m /\ dev'.buffer = <<>> /\ Len(dev'.buffer) = 0
        /\ \/ dev'.pc = "wait_init" /\ answer = <<>> /\ FromBytes(size) # 0
           \/ /\ dev'.pc = "data" /\ answer = <<>> /\ FromBytes(size) # 0
              /\ dev'.datasize = FromBytes(size) /\ Fits(FromBytes(size))
           \/ /\ dev'.pc = "end_ack" /\ answer = <<SERIAL_LOADER_END>>
              /\ FromBytes(size) = 0
    BY <1>12, <2>1, Zenon
  <2>3. /\ size = Append(dev.size, byte) /\ all = dev.size \o to_dev /\ td = to_dev' /\ m = SIZE_BYTES
        /\ Len(size) <= m /\ Len(all) = Len(size) + Len(td) /\ Len(size) \in Nat /\ Len(td) \in Nat
        /\ \A k \in 1 .. Len(size) : all[k] = size[k]
        /\ \A k \in 1 .. Len(td) : td[k] = all[Len(size) + k]
    BY <1>2, <1>3, <1>4, <1>5, <1>7, <1>10, Zenon
  <2> QED BY <1>2, <1>3, <1>4, <1>5, <2>2, <2>3, Zenon
<1>13. \/ dev'.pc = "size" /\ dev'.size = size /\ answer = <<>>
       \/ /\ Len(dev.size) + 1 = SIZE_BYTES /\ dev'.buffer = <<>>
          /\ \/ dev'.pc = "wait_init" /\ answer = <<>> /\ FromBytes(size) # 0
             \/ /\ dev'.pc = "data" /\ answer = <<>> /\ FromBytes(size) # 0
                /\ dev'.datasize = FromBytes(size) /\ Fits(FromBytes(size))
             \/ /\ dev'.pc = "end_ack" /\ answer = <<SERIAL_LOADER_END>>
                /\ FromBytes(size) = 0
  BY <1>4 DEF DevCase
<1> QED BY <1>11, <1>12, <1>13

\* The size and the first byte of the image.
LEMMA SizingReceives ==
    ASSUME BaseInv, Sending(host), host.image \in Images, Sizing(host, dev, to_dev, to_host),
           NEW answer, DevTakes(answer), DevCase(answer), DevPlace(dev')
    PROVE  Session(host, dev', to_dev', to_host')
<1>1. PICK I \in Seq(Bytes) : I = host.image
  BY Kinds
<1>2. PICK n \in Nat : n = Len(I)
  BY NoBytes
<1>3. PICK S \in Seq(Bytes) : S = ToBytes(n) /\ Len(S) = SIZE_BYTES
  BY ToBytesType
<1>4. FromBytes(S) = n
  BY <1>1, <1>2, <1>3, SizeReads, SizeAssumption, Zenon
<1>5. PICK size \in Seq(Bytes), all \in Seq(Bytes), td \in Seq(Bytes), m \in Nat \ {0} :
              /\ size = Append(dev.size, byte) /\ all = dev.size \o to_dev /\ td = to_dev' /\ m = SIZE_BYTES
              /\ Len(size) <= m /\ Len(all) = Len(size) + Len(td) /\ Len(size) \in Nat /\ Len(td) \in Nat
              /\ \A k \in 1 .. Len(size) : all[k] = size[k]
              /\ \A k \in 1 .. Len(td) : td[k] = all[Len(size) + k]
              /\ \/ /\ dev'.pc = "size" /\ dev'.size = size /\ answer = <<>>
                    /\ dev'.size \o td = all /\ Len(size) < m
                 \/ /\ Len(size) = m /\ dev'.buffer = <<>> /\ Len(dev'.buffer) = 0
                    /\ \/ dev'.pc = "wait_init" /\ answer = <<>> /\ FromBytes(size) # 0
                       \/ /\ dev'.pc = "data" /\ answer = <<>> /\ FromBytes(size) # 0
                          /\ dev'.datasize = FromBytes(size) /\ Fits(FromBytes(size))
                       \/ /\ dev'.pc = "end_ack" /\ answer = <<SERIAL_LOADER_END>>
                          /\ FromBytes(size) = 0
  <2>1. dev.pc = "size"
    BY DEF Sizing
  <2> QED BY <2>1, SizeSteps, Zenon
<1>50. /\ Len(all) = Len(size) + Len(td) /\ Len(size) \in Nat /\ Len(td) \in Nat
       /\ \A k \in 1 .. Len(td) : td[k] = all[Len(size) + k]
  BY <1>5, Zenon
<1>6. /\ to_host = <<>> /\ host.idx = 0 /\ dev.pc = "size" /\ to_host' = to_host \o answer
      /\ all = IF host.pc = "echo" THEN S \o <<I[1]>> ELSE S
  BY <1>1, <1>2, <1>3, <1>5 DEF Sizing, DevTakes
<1>7. /\ answer = <<>> => to_host' = <<>>
      /\ answer = <<SERIAL_LOADER_END>> => to_host' = <<SERIAL_LOADER_END>>
  BY <1>6, FourSignals, Small, PutEmpty
<1>8. host.pc \in {"send", "echo"} => n > 0 /\ I[1] \in Bytes
  <2>1. host.pc \in {"send", "echo"} => host.idx < Len(host.image)
    BY DEF BaseInv, HostPlace
  <2> QED BY <1>1, <1>2, <1>6, <2>1
<1>9. host.pc = "final" => n = 0
  BY <1>1, <1>2, <1>6 DEF BaseInv, HostPlace
<1>10. host.pc \in {"send", "echo", "final"}
  BY DEF Sending
<1>11. CASE dev'.pc = "size" /\ dev'.size = size /\ answer = <<>> /\ dev'.size \o td = all
  <2>1. Sizing(host, dev', to_dev', to_host')
    BY <1>1, <1>2, <1>3, <1>5, <1>6, <1>7, <1>11 DEF Sizing
  <2> QED BY <2>1 DEF Session
<1>12. ASSUME Len(size) = m
       PROVE  /\ FromBytes(size) = n
              /\ host.pc # "echo" => td = <<>>
              /\ host.pc = "echo" => td = <<I[1]>> /\ Len(td) = 1 /\ td[1] = I[1] /\ td # <<>>
  <2>1. Len(S) = m
    BY <1>3, <1>5
  <2>2. /\ host.pc # "echo" => Len(all) = m
        /\ host.pc = "echo" => Len(all) = m + 1 /\ all[m + 1] = I[1]
        /\ \A k \in 1 .. m : all[k] = S[k]
    <3>1. CASE host.pc # "echo"
      BY <1>6, <2>1, <3>1
    <3>2. CASE host.pc = "echo"
      <4>1. <<I[1]>> \in Seq(Bytes) /\ Len(<<I[1]>>) = 1 /\ <<I[1]>>[1] = I[1]
        BY <1>8, <3>2, Small
      <4>2. all = S \o <<I[1]>>
        BY <1>6, <3>2
      <4>3. /\ Len(S \o <<I[1]>>) = Len(S) + 1 /\ \A k \in 1 .. Len(S) : (S \o <<I[1]>>)[k] = S[k]
            /\ (S \o <<I[1]>>)[Len(S) + 1] = <<I[1]>>[1]
        BY <4>1, Put
      <4> QED BY <2>1, <3>2, <4>1, <4>2, <4>3
    <3> QED BY <3>1, <3>2
  <2>3. size = S
    <3>1. \A k \in 1 .. m : size[k] = S[k]
      BY <1>5, <1>12, <2>2
    <3> QED BY <1>12, <2>1, <3>1, SameBytes
  <2>4. host.pc # "echo" => td = <<>>
    <3>1. host.pc # "echo" => Len(td) = 0
      BY <1>12, <1>50, <2>2
    <3> QED BY <3>1, NoBytes
  <2>5. host.pc = "echo" => Len(td) = 1 /\ td[1] = I[1]
    <3> SUFFICES ASSUME host.pc = "echo" PROVE Len(td) = 1 /\ td[1] = I[1]
      OBVIOUS
    <3>1. PICK t \in Nat : t = Len(td)
      BY <1>50
    <3>2. m + 1 = m + t
      BY <1>12, <1>50, <2>2, <3>1
    <3>3. t = 1 /\ 1 \in 1 .. t
      BY <3>2
    <3>4. td[1] = all[m + 1]
      BY <1>12, <1>50, <3>1, <3>3
    <3> QED BY <2>2, <3>1, <3>3, <3>4
  <2> QED BY <1>4, <2>3, <2>4, <2>5, OneByte
<1>13. CASE Len(size) = m /\ dev'.pc = "wait_init" /\ answer = <<>>
  <2>1. CASE host.pc # "echo"
    <3>1. Gone(host, dev', to_dev', to_host')
      BY <1>5, <1>7, <1>12, <1>13, <2>1 DEF Gone
    <3> QED BY <3>1 DEF Session
  <2>2. CASE host.pc = "echo"
    <3>0. td = to_dev' /\ td # <<>> /\ Len(td) = 1 /\ td[Len(td)] = host.image[host.idx + 1]
      <4>1. td = to_dev'
        BY <1>5, Zenon
      <4>2. host.idx + 1 = 1
        BY <1>6
      <4> QED BY <1>1, <1>12, <1>13, <2>2, <4>1, <4>2
    <3>1. Skipping(host, dev', to_dev', to_host')
      BY <1>7, <1>13, <2>2, <3>0, Zenon DEF Skipping
    <3> QED BY <3>1 DEF Session
  <2> QED BY <2>1, <2>2
<1>14. CASE /\ Len(size) = m /\ Len(dev'.buffer) = 0 /\ dev'.pc = "data" /\ answer = <<>>
            /\ FromBytes(size) # 0 /\ dev'.datasize = FromBytes(size)
  <2>1. dev'.datasize = Len(host.image) /\ n # 0
    BY <1>1, <1>2, <1>12, <1>14
  <2>2. host.pc \in {"send", "echo"}
    BY <1>9, <1>10, <2>1
  <2>3. Stored(dev', host, host.idx)
    BY <1>6, <1>14 DEF Stored
  <2>4. Echoing(host, dev', to_dev', to_host')
    BY <1>1, <1>5, <1>6, <1>7, <1>12, <1>14, <2>1, <2>2, <2>3 DEF Echoing
  <2> QED BY <2>4 DEF Session
<1>15. CASE /\ Len(size) = m /\ Len(dev'.buffer) = 0 /\ dev'.pc = "end_ack"
            /\ answer = <<SERIAL_LOADER_END>> /\ FromBytes(size) = 0
  <2>1. n = 0 /\ host.pc = "final"
    BY <1>8, <1>10, <1>12, <1>15
  <2>2. Stored(dev', host, Len(host.image))
    BY <1>1, <1>2, <1>15, <2>1 DEF Stored
  <2>3. Complete(host, dev', to_dev', to_host')
    BY <1>5, <1>7, <1>12, <1>15, <2>1, <2>2 DEF Complete
  <2> QED BY <2>3 DEF Session
<1> QED BY <1>5, <1>11, <1>13, <1>14, <1>15, Zenon

\* A byte of the image.
LEMMA EchoingReceives ==
    ASSUME BaseInv, Echoing(host, dev, to_dev, to_host),
           NEW answer, DevTakes(answer), DevCase(answer), DevPlace(dev')
    PROVE  Session(host, dev', to_dev', to_host')
<1>1. /\ host.pc = "echo" /\ dev.pc = "data" /\ dev.datasize = Len(host.image)
      /\ to_dev = <<host.image[host.idx + 1]>> /\ to_host = <<>> /\ Stored(dev, host, host.idx)
      /\ to_dev' = Tail(to_dev) /\ to_host' = to_host \o answer
  BY DEF Echoing, DevTakes
<1>2. PICK x \in Bytes : x = host.image[host.idx + 1]
  BY <1>1, ImageByte
<1>3. to_dev' = <<>> /\ byte = x
  BY <1>1, <1>2, Small DEF byte
<1>4. PICK n \in Nat : n = host.idx
  BY Kinds
<1>5. PICK b \in Seq(Bytes) : b = Append(dev.buffer, x)
  <2>1. dev.buffer \in Seq(Bytes)
    BY Kinds
  <2>2. Append(dev.buffer, x) \in Seq(Bytes)
    BY <2>1
  <2> QED BY <2>2, Zenon
<1>6. Len(b) = n + 1 /\ \A k \in 1 .. n + 1 : b[k] = host.image[k]
  <2>1. dev.buffer \in Seq(Bytes) /\ Len(dev.buffer) = n /\ \A k \in 1 .. n : dev.buffer[k] = host.image[k]
    BY <1>1, <1>4, Kinds DEF Stored
  <2>2. Len(b) = n + 1 /\ b[n + 1] = x /\ \A k \in 1 .. n : b[k] = dev.buffer[k]
    BY <1>5, <2>1
  <2>3. ASSUME NEW k \in 1 .. n + 1 PROVE b[k] = host.image[k]
    <3>1. CASE k = n + 1
      BY <1>2, <1>4, <2>2, <3>1
    <3>2. CASE k \in 1 .. n
      BY <2>1, <2>2, <3>2
    <3> QED BY <3>1, <3>2
  <2> QED BY <2>2, <2>3
<1>7. CASE answer = <<byte>> /\ dev'.pc = "data" /\ dev'.buffer = b /\ dev'.datasize = dev.datasize
  <2>1. to_host' = <<x>>
    BY <1>1, <1>2, <1>3, <1>7, Small
  <2>2. Stored(dev', host, host.idx + 1)
    BY <1>4, <1>6, <1>7 DEF Stored
  <2>3. Echoing(host, dev', to_dev', to_host')
    BY <1>1, <1>2, <1>3, <1>7, <2>1, <2>2 DEF Echoing
  <2> QED BY <2>3 DEF Session
<1>8. CASE /\ answer = <<byte, SERIAL_LOADER_END>> /\ dev'.pc = "end_ack" /\ dev'.buffer = b
           /\ Len(dev.buffer) + 1 = dev.datasize
  <2>1. to_host' = <<x, SERIAL_LOADER_END>>
    BY <1>1, <1>2, <1>3, <1>8, Small, FourSignals
  <2>2. n + 1 = Len(host.image)
    BY <1>1, <1>4, <1>8 DEF Stored
  <2>3. Stored(dev', host, Len(host.image))
    BY <1>6, <1>8, <2>2 DEF Stored
  <2>4. Complete(host, dev', to_dev', to_host')
    BY <1>1, <1>2, <1>3, <1>4, <1>8, <2>1, <2>2, <2>3 DEF Complete
  <2> QED BY <2>4 DEF Session
<1> QED BY <1>1, <1>3, <1>5, <1>7, <1>8 DEF DevCase

\* A byte that the loader skips or takes for the start signal.
LEMMA SkippingReceives ==
    ASSUME BaseInv, Quiet(dev, to_dev, confirmed), Skipping(host, dev, to_dev, to_host),
           NEW answer, DevTakes(answer), DevCase(answer), DevPlace(dev')
    PROVE  Session(host, dev', to_dev', to_host')
<1>1. /\ to_dev \in Seq(Bytes) /\ to_dev # <<>> /\ dev.pc = "wait_init" /\ to_host = <<>>
      /\ to_dev' = Tail(to_dev) /\ to_host' = to_host \o answer
  BY Kinds DEF DevTakes, Skipping
<1>2. PICK td \in Seq(Bytes) : td = to_dev'
  BY <1>1, Taken
<1>3. PICK t \in Nat : Len(td) = t /\ Len(to_dev) = t + 1 /\ (t = 0 <=> td = <<>>)
  <2>1. Len(to_dev) \in Nat \ {0} /\ Len(td) = Len(to_dev) - 1
    BY <1>1, <1>2, Taken
  <2>2. Len(td) = 0 <=> td = <<>>
    BY NoBytes
  <2> QED BY <2>1, <2>2
<1>4. t # 0 => td[t] = to_dev[t + 1]
  BY <1>1, <1>2, <1>3, Taken
<1>5. t = 0 => to_dev[Len(to_dev)] = byte
  <2>1. byte = to_dev[1]
    BY <1>1, Taken DEF byte
  <2> QED BY <1>3, <2>1
<1>6. PICK m \in Nat \ {0} : m = SIZE_BYTES
  BY Numbers
<1>7. CASE dev' = dev /\ answer = <<>>
  <2>1. to_host' = <<>>
    BY <1>1, <1>7, PutEmpty
  <2>2. CASE t = 0
    <3>1. Gone(host, dev', to_dev', to_host')
      BY <1>1, <1>2, <1>3, <1>7, <2>1, <2>2 DEF Gone
    <3> QED BY <3>1 DEF Session
  <2>3. CASE t # 0
    <3>1. ~ Has(to_dev, SERIAL_LOADER_INIT) => ~ Has(td, SERIAL_LOADER_INIT)
      BY <1>1, <1>2, HasTaken
    <3>2. CASE host.pc = "send"
      <4>1. host.idx = 0 /\ t + 1 <= m
        BY <1>3, <1>6, <3>2 DEF Skipping
      <4>2. Len(td) <= SIZE_BYTES /\ td # <<>>
        BY <1>3, <1>6, <2>3, <4>1
      <4>3. Skipping(host, dev', to_dev', to_host')
        BY <1>1, <1>2, <1>7, <2>1, <3>2, <4>1, <4>2, Zenon DEF Skipping
      <4> QED BY <4>3 DEF Session
    <3>3. CASE host.pc = "echo"
      <4>1. /\ to_dev[Len(to_dev)] = host.image[host.idx + 1]
            /\ t + 1 = 1 \/ (host.idx = 0 /\ t + 1 <= m + 1)
        BY <1>3, <1>6, <3>3 DEF Skipping
      <4>2. Len(td) <= SIZE_BYTES + 1 /\ td # <<>> /\ host.idx = 0 /\ td[Len(td)] = host.image[host.idx + 1]
        BY <1>3, <1>4, <1>6, <2>3, <4>1
      <4>3. Skipping(host, dev', to_dev', to_host')
        BY <1>1, <1>2, <1>7, <2>1, <3>3, <4>2, Zenon DEF Skipping
      <4> QED BY <4>3 DEF Session
    <3>4. CASE host.pc = "final"
      <4>1. ~ Has(to_dev, SERIAL_LOADER_INIT) /\ t + 1 <= m
        BY <1>3, <1>6, <3>4 DEF Skipping
      <4>2. Len(td) <= SIZE_BYTES /\ td # <<>>
        BY <1>3, <1>6, <2>3, <4>1
      <4>3. Skipping(host, dev', to_dev', to_host')
        BY <1>1, <1>2, <1>7, <2>1, <3>1, <3>4, <4>1, <4>2, Zenon DEF Skipping
      <4> QED BY <4>3 DEF Session
    <3> QED BY <3>2, <3>3, <3>4 DEF Skipping
  <2> QED BY <2>2, <2>3
<1>8. CASE /\ byte = SERIAL_LOADER_INIT /\ answer = <<SERIAL_LOADER_INIT_ACK>>
           /\ dev'.pc = "size" /\ dev'.size = <<>>
  <2>1. /\ to_host' = <<SERIAL_LOADER_INIT_ACK>> /\ to_host' # <<>>
        /\ to_host'[1] = SERIAL_LOADER_INIT_ACK
    BY <1>1, <1>8, Small, FourSignals
  <2>2. dev'.size \o td = td
    BY <1>8, EmptyPut
  <2>3. ASSUME host.pc = "echo", host.image[host.idx + 1] # SERIAL_LOADER_INIT_ACK
        PROVE  Session(host, dev', to_dev', to_host')
    BY <1>8, <2>1, <2>3 DEF Session, Doomed
  <2>4. CASE host.pc = "send"
    <3>1. host.idx = 0 /\ t + 1 <= m
      BY <1>3, <1>6, <2>4 DEF Skipping
    <3>2. Len(dev'.size \o td) < SIZE_BYTES
      BY <1>3, <1>6, <2>2, <3>1
    <3>3. Misled(host, dev', to_dev', to_host')
      BY <1>2, <1>8, <2>1, <2>4, <3>1, <3>2, Zenon DEF Misled
    <3> QED BY <3>3 DEF Session
  <2>5. CASE host.pc = "echo" /\ t = 0
    <3>1. host.image[host.idx + 1] = SERIAL_LOADER_INIT
      BY <1>5, <1>8, <2>5 DEF Skipping
    <3> QED BY <2>3, <2>5, <3>1, FourSignals
  <2>6. CASE host.pc = "echo" /\ t # 0 /\ host.image[host.idx + 1] = SERIAL_LOADER_INIT_ACK
    <3>1. /\ to_dev[Len(to_dev)] = host.image[host.idx + 1]
          /\ t + 1 = 1 \/ (host.idx = 0 /\ t + 1 <= m + 1)
      BY <1>3, <1>6, <2>6 DEF Skipping
    <3>2. host.idx = 0 /\ t \in 1 .. m /\ td[t] = SERIAL_LOADER_INIT_ACK
      BY <1>3, <1>4, <2>6, <3>1
    <3>3. host.idx + 1 = 1
      BY <3>2
    <3>4. host.image[1] = SERIAL_LOADER_INIT_ACK
      BY <2>6, <3>3
    <3>5. /\ Len(dev'.size \o td) \in 1 .. SIZE_BYTES
          /\ (dev'.size \o td)[Len(dev'.size \o td)] = SERIAL_LOADER_INIT_ACK
      BY <1>3, <1>6, <2>2, <3>2
    <3>6. Misled(host, dev', to_dev', to_host')
      BY <1>2, <1>8, <2>1, <2>6, <3>2, <3>4, <3>5, Zenon DEF Misled
    <3> QED BY <3>6 DEF Session
  <2>7. CASE host.pc = "final"
    <3>1. Has(to_dev, SERIAL_LOADER_INIT)
      BY <1>1, <1>8, Taken DEF Has, byte
    <3> QED BY <2>7, <3>1 DEF Skipping
  <2> QED BY <2>3, <2>4, <2>5, <2>6, <2>7 DEF Skipping
<1> QED BY <1>1, <1>7, <1>8 DEF DevCase

\* A size that is not one.
LEMMA MisledReceives ==
    ASSUME BaseInv, Misled(host, dev, to_dev, to_host),
           NEW answer, DevTakes(answer), DevCase(answer), DevPlace(dev')
    PROVE  Session(host, dev', to_dev', to_host')
<1>1. PICK size \in Seq(Bytes), all \in Seq(Bytes), td \in Seq(Bytes), m \in Nat \ {0} :
              /\ size = Append(dev.size, byte) /\ all = dev.size \o to_dev /\ td = to_dev' /\ m = SIZE_BYTES
              /\ Len(size) <= m /\ Len(all) = Len(size) + Len(td) /\ Len(size) \in Nat /\ Len(td) \in Nat
              /\ \A k \in 1 .. Len(size) : all[k] = size[k]
              /\ \A k \in 1 .. Len(td) : td[k] = all[Len(size) + k]
              /\ \/ /\ dev'.pc = "size" /\ dev'.size = size /\ answer = <<>>
                    /\ dev'.size \o td = all /\ Len(size) < m
                 \/ /\ Len(size) = m /\ dev'.buffer = <<>> /\ Len(dev'.buffer) = 0
                    /\ \/ dev'.pc = "wait_init" /\ answer = <<>> /\ FromBytes(size) # 0
                       \/ /\ dev'.pc = "data" /\ answer = <<>> /\ FromBytes(size) # 0
                          /\ dev'.datasize = FromBytes(size) /\ Fits(FromBytes(size))
                       \/ /\ dev'.pc = "end_ack" /\ answer = <<SERIAL_LOADER_END>>
                          /\ FromBytes(size) = 0
  <2>1. dev.pc = "size"
    BY DEF Misled
  <2> QED BY <2>1, SizeSteps, Zenon
<1>2. /\ Len(all) = Len(size) + Len(td) /\ Len(size) \in Nat /\ Len(td) \in Nat /\ Len(size) <= m
      /\ \A k \in 1 .. Len(size) : all[k] = size[k]
      /\ td = to_dev' /\ m = SIZE_BYTES
  BY <1>1, Zenon
<1>3. /\ dev.pc = "size" /\ to_host = <<SERIAL_LOADER_INIT_ACK>> /\ host.idx = 0
      /\ \/ host.pc = "send" /\ Len(all) < m
         \/ /\ host.pc = "echo" /\ host.image[1] = SERIAL_LOADER_INIT_ACK
            /\ Len(all) \in 1 .. m /\ all[Len(all)] = SERIAL_LOADER_INIT_ACK
      /\ to_host' = to_host \o answer
  BY <1>1 DEF Misled, DevTakes
<1>4. answer = <<>> => to_host' = <<SERIAL_LOADER_INIT_ACK>>
  BY <1>3, Small, PutEmpty, FourSignals
<1>5. CASE dev'.pc = "size" /\ answer = <<>> /\ dev'.size \o td = all
  <2>1. Misled(host, dev', to_dev', to_host')
    BY <1>2, <1>3, <1>4, <1>5, Zenon DEF Misled
  <2> QED BY <2>1 DEF Session
<1>6. CASE Len(size) = m
  <2>1. host.pc = "echo" /\ Len(all) = m /\ Len(td) = 0
    BY <1>2, <1>3, <1>6
  <2>2. size[m] = SERIAL_LOADER_INIT_ACK
    BY <1>2, <1>3, <1>6, <2>1
  <2>3. ~ Fits(FromBytes(size)) /\ FromBytes(size) # 0
    <3>1. ~ Fits(FromBytes(size))
      BY <1>2, <1>6, <2>2, Misfit
    <3> QED BY <3>1, Numbers DEF Fits
  <2>4. dev'.pc = "wait_init" /\ answer = <<>>
    <3>1. ~ (Len(size) < m)
      BY <1>2, <1>6
    <3> QED BY <1>1, <2>3, <3>1, Zenon
  <2>5. td = <<>>
    BY <2>1, NoBytes
  <2>6. host.image[host.idx + 1] = SERIAL_LOADER_INIT_ACK
    <3>1. host.idx + 1 = 1
      BY <1>3
    <3> QED BY <1>3, <2>1, <3>1
  <2>7. Gone(host, dev', to_dev', to_host')
    BY <1>2, <1>4, <2>1, <2>4, <2>5, <2>6 DEF Gone
  <2> QED BY <2>7 DEF Session
<1> QED BY <1>1, <1>5, <1>6, Zenon

\* A size that holds the first byte of the image.
LEMMA SunkReceives ==
    ASSUME BaseInv, Sunk(host, dev, to_dev, to_host),
           NEW answer, DevTakes(answer), DevCase(answer), DevPlace(dev')
    PROVE  Session(host, dev', to_dev', to_host')
<1>1. PICK size \in Seq(Bytes), all \in Seq(Bytes), td \in Seq(Bytes), m \in Nat \ {0} :
              /\ size = Append(dev.size, byte) /\ all = dev.size \o to_dev /\ td = to_dev' /\ m = SIZE_BYTES
              /\ Len(size) <= m /\ Len(all) = Len(size) + Len(td) /\ Len(size) \in Nat /\ Len(td) \in Nat
              /\ \A k \in 1 .. Len(size) : all[k] = size[k]
              /\ \A k \in 1 .. Len(td) : td[k] = all[Len(size) + k]
              /\ \/ /\ dev'.pc = "size" /\ dev'.size = size /\ answer = <<>>
                    /\ dev'.size \o td = all /\ Len(size) < m
                 \/ /\ Len(size) = m /\ dev'.buffer = <<>> /\ Len(dev'.buffer) = 0
                    /\ \/ dev'.pc = "wait_init" /\ answer = <<>> /\ FromBytes(size) # 0
                       \/ /\ dev'.pc = "data" /\ answer = <<>> /\ FromBytes(size) # 0
                          /\ dev'.datasize = FromBytes(size) /\ Fits(FromBytes(size))
                       \/ /\ dev'.pc = "end_ack" /\ answer = <<SERIAL_LOADER_END>>
                          /\ FromBytes(size) = 0
  <2>1. dev.pc = "size"
    BY DEF Sunk
  <2> QED BY <2>1, SizeSteps, Zenon
<1>2. /\ Len(all) = Len(size) + Len(td) /\ Len(size) \in Nat /\ Len(td) \in Nat /\ Len(size) <= m
      /\ \A k \in 1 .. Len(size) : all[k] = size[k]
      /\ \A k \in 1 .. Len(td) : td[k] = all[Len(size) + k]
      /\ td = to_dev' /\ m = SIZE_BYTES
  BY <1>1, Zenon
<1>3. /\ dev.pc = "size" /\ to_host = <<>> /\ Has(all, SERIAL_LOADER_INIT_ACK)
      /\ \/ /\ host.pc = "send" /\ Len(all) <= m
            /\ Len(all) = m => all[m] = SERIAL_LOADER_INIT_ACK
         \/ /\ host.pc = "echo" /\ Len(all) <= m + 1
            /\ Len(all) = m + 1 => /\ all[m] = SERIAL_LOADER_INIT_ACK
                                   /\ all[m + 1] = host.image[host.idx + 1]
         \/ host.pc = "final" /\ Len(all) <= m
      /\ to_host' = to_host \o answer
  BY <1>1 DEF Sunk, DevTakes
<1>4. answer = <<>> => to_host' = <<>>
  BY <1>3, PutEmpty
<1>5. CASE dev'.pc = "size" /\ answer = <<>> /\ dev'.size \o td = all
  <2>1. Sunk(host, dev', to_dev', to_host')
    BY <1>2, <1>3, <1>4, <1>5, Zenon DEF Sunk
  <2> QED BY <2>1 DEF Session
<1>6. CASE Len(size) = m
  <2>1. m \in 1 .. m /\ m <= Len(all) /\ all[m] = size[m]
    BY <1>2, <1>6
  <2>2. ASSUME all[m] = SERIAL_LOADER_INIT_ACK
        PROVE  dev'.pc = "wait_init" /\ answer = <<>>
    <3>1. ~ Fits(FromBytes(size))
      BY <1>2, <1>6, <2>1, <2>2, Misfit
    <3>2. FromBytes(size) # 0
      BY <3>1, Numbers DEF Fits
    <3>3. ~ (Len(size) < m)
      BY <1>2, <1>6
    <3> QED BY <1>1, <3>1, <3>2, <3>3, Zenon
  <2>3. CASE host.pc = "send"
    <3>1. Len(all) = m /\ Len(td) = 0
      BY <1>2, <1>3, <1>6, <2>3
    <3>2. td = <<>> /\ dev'.pc = "wait_init" /\ answer = <<>>
      BY <1>3, <2>2, <2>3, <3>1, NoBytes
    <3>3. Gone(host, dev', to_dev', to_host')
      BY <1>2, <1>4, <3>2 DEF Gone
    <3> QED BY <3>3 DEF Session
  <2>4. CASE host.pc = "echo" /\ Len(all) = m + 1
    <3>1. all[m] = SERIAL_LOADER_INIT_ACK /\ all[m + 1] = host.image[host.idx + 1]
      BY <1>3, <2>4
    <3>2. dev'.pc = "wait_init" /\ answer = <<>>
      BY <2>2, <3>1
    <3>3. PICK t \in Nat : t = Len(td)
      BY <1>2
    <3>4. m + 1 = m + t
      BY <1>2, <1>6, <2>4, <3>3
    <3>5. t = 1 /\ 1 \in 1 .. t
      BY <3>4
    <3>6. td[1] = all[m + 1]
      BY <1>2, <1>6, <3>3, <3>5
    <3>7. td # <<>> /\ Len(td) = 1 /\ td[Len(td)] = host.image[host.idx + 1]
      <4>1. Len(td) = 1 /\ td[1] = host.image[host.idx + 1]
        BY <3>1, <3>3, <3>5, <3>6
      <4>2. Len(td) # 0
        BY <4>1
      <4> QED BY <4>1, <4>2, NoBytes
    <3>8. Skipping(host, dev', to_dev', to_host')
      BY <1>2, <1>4, <2>4, <3>2, <3>7, Zenon DEF Skipping
    <3> QED BY <3>8 DEF Session
  <2>5. CASE host.pc \in {"echo", "final"} /\ Len(all) = m
    <3>1. Len(td) = 0
      BY <1>2, <1>6, <2>5
    <3>2. td = <<>>
      BY <3>1, NoBytes
    <3>3. FromBytes(size) # 0
      <4>1. PICK k \in 1 .. Len(all) : all[k] = SERIAL_LOADER_INIT_ACK
        BY <1>3 DEF Has
      <4>2. k \in 1 .. Len(size) /\ size[k] # 0
        BY <1>2, <1>6, <2>5, <4>1, NonZero
      <4> QED BY <4>2, ZeroSize
    <3>4. answer = <<>>
      BY <1>1, <3>3, Zenon
    <3>5. Stuck(host, to_dev', to_host')
      BY <1>2, <1>4, <2>5, <3>2, <3>4 DEF Stuck
    <3> QED BY <3>5 DEF Session
  <2>6. \/ host.pc = "send"
        \/ host.pc = "echo" /\ Len(all) = m + 1
        \/ host.pc \in {"echo", "final"} /\ Len(all) = m
    <3>1. Len(all) \in Nat
      BY NoBytes
    <3> QED BY <1>3, <2>1, <3>1
  <2> QED BY <2>3, <2>4, <2>5, <2>6
<1> QED BY <1>1, <1>5, <1>6, Zenon

\* The first byte of the image when the board was reset.
LEMMA PassingReceives ==
    ASSUME BaseInv, Passing(host, dev, to_dev, to_host),
           NEW answer, DevTakes(answer), DevCase(answer), DevPlace(dev')
    PROVE  Session(host, dev', to_dev', to_host')
<1>1. dev.pc = "wait_init" /\ to_dev' = Tail(to_dev) /\ to_host' = to_host \o answer
  BY DEF Passing, DevTakes
<1>2. host.pc = "echo" => host.image[host.idx + 1] \in Bytes
  BY ImageByte
<1>3. byte = SERIAL_LOADER_INIT_ACK
  BY <1>2, Small, FourSignals DEF Passing, byte
<1>4. dev' = dev /\ answer = <<>>
  BY <1>1, <1>3, FourSignals DEF DevCase
<1>5. to_host' = to_host
  BY <1>1, <1>4, Kinds, PutEmpty
<1>6. CASE /\ host.pc = "echo" /\ host.image[host.idx + 1] = SERIAL_LOADER_INIT_ACK
           /\ to_dev = <<SERIAL_LOADER_INIT_ACK>> /\ to_host = <<SERIAL_LOADER_INIT_ACK>>
  <2>1. to_dev' = <<>>
    BY <1>1, <1>6, Small, FourSignals
  <2>2. Gone(host, dev', to_dev', to_host')
    BY <1>1, <1>4, <1>5, <1>6, <2>1 DEF Gone
  <2> QED BY <2>2 DEF Session
<1>7. CASE to_dev = <<SERIAL_LOADER_INIT_ACK>> /\ to_host = <<>>
  <2>1. to_dev' = <<>>
    BY <1>1, <1>7, Small, FourSignals
  <2>2. Gone(host, dev', to_dev', to_host')
    BY <1>1, <1>4, <1>5, <1>7, <2>1 DEF Gone
  <2> QED BY <2>2 DEF Session
<1>8. CASE /\ host.pc = "echo" /\ to_host = <<>>
           /\ to_dev = <<SERIAL_LOADER_INIT_ACK, host.image[host.idx + 1]>>
  <2>1. to_dev' = <<host.image[host.idx + 1]>>
    BY <1>1, <1>2, <1>8, Small, FourSignals
  <2>2. /\ to_dev' # <<>> /\ Len(to_dev') = 1 /\ to_dev'[1] = host.image[host.idx + 1]
    BY <1>2, <1>8, <2>1, Small
  <2>3. Skipping(host, dev', to_dev', to_host')
    BY <1>1, <1>4, <1>5, <1>8, <2>2 DEF Skipping
  <2> QED BY <2>3 DEF Session
<1> QED BY <1>6, <1>7, <1>8 DEF Passing

\* The answer that ends the tool stays the first.
LEMMA DoomedReceives ==
    ASSUME BaseInv, Quiet(dev, to_dev, confirmed), Doomed(host, dev, to_dev, to_host),
           NEW answer, DevTakes(answer), DevCase(answer), DevPlace(dev')
    PROVE  Session(host, dev', to_dev', to_host')
<1>1. /\ to_host \in Seq(Bytes) /\ to_host # <<>> /\ answer \in Seq(Bytes) /\ to_host' = to_host \o answer
      /\ host.pc = "echo" /\ to_host[1] # host.image[host.idx + 1]
  BY Kinds DEF DevTakes, Doomed
<1>2. PICK n \in Nat \ {0} : n = Len(to_host)
  BY <1>1, Taken
<1>3. /\ to_host \o answer \in Seq(Bytes) /\ Len(to_host \o answer) = n + Len(answer) /\ Len(answer) \in Nat
      /\ \A k \in 1 .. n : (to_host \o answer)[k] = to_host[k]
  BY <1>1, <1>2, Put
<1>4. to_host' # <<>> /\ to_host'[1] = to_host[1]
  <2>1. Len(to_host \o answer) # 0 /\ 1 \in 1 .. n
    BY <1>2, <1>3
  <2>2. to_host \o answer # <<>>
    BY <1>3, <2>1, NoBytes
  <2> QED BY <1>1, <1>3, <2>1, <2>2
<1>5. dev'.pc = "end_ack" => to_dev' = <<>>
  BY QuietReceives
<1> QED BY <1>1, <1>4, <1>5 DEF Session, Doomed

\* The loader takes a byte inside a session.
LEMMA SessionReceives ==
    ASSUME BaseInv, Quiet(dev, to_dev, confirmed), Sending(host), host.image \in Images,
           Session(host, dev, to_dev, to_host),
           NEW answer, DevTakes(answer), DevCase(answer), DevPlace(dev')
    PROVE  Session(host, dev', to_dev', to_host') /\ dev.pc # "end_ack"
<1>1. to_dev # <<>>
  BY DEF DevTakes
<1>2. dev.pc # "end_ack"
  BY <1>1 DEF Session, Sizing, Echoing, Complete, Gone, Skipping, Misled, Sunk, Passing, Stuck, Doomed
<1>3. ~ Complete(host, dev, to_dev, to_host) /\ ~ Gone(host, dev, to_dev, to_host)
      /\ ~ Stuck(host, to_dev, to_host)
  BY <1>1 DEF Complete, Gone, Stuck
<1> QED BY <1>2, <1>3, SizingReceives, EchoingReceives, SkippingReceives, MisledReceives, SunkReceives,
           PassingReceives, DoomedReceives DEF Session


-----------------------------------------------------------------------------
(* A punctual line: the tool and the board                                 *)

\* A byte that the tool writes.
LEMMA WritesByte ==
    ASSUME BaseInv, NEW x \in Bytes
    PROVE  /\ dev.pc \in LoaderStates => Written(<<x>>) = to_dev \o <<x>>
           /\ dev.pc \in LoaderStates /\ to_dev = <<>> => Written(<<x>>) = <<x>>
           /\ dev.pc \notin LoaderStates => Written(<<x>>) = <<>>
<1>1. <<>> \o <<x>> = <<x>>
  BY Small
<1> QED BY <1>1 DEF Written

\* The start signal.
LEMMA QuietInit ==
    ASSUME BaseInv, dev.pc \in LoaderStates => to_dev = <<>>
    PROVE  /\ Written(<<SERIAL_LOADER_INIT>>) =
                  IF dev.pc \in LoaderStates THEN <<SERIAL_LOADER_INIT>> ELSE <<>>
           /\ Quiet(dev, Written(<<SERIAL_LOADER_INIT>>), confirmed)
<1>1. Written(<<SERIAL_LOADER_INIT>>) =
                  IF dev.pc \in LoaderStates THEN <<SERIAL_LOADER_INIT>> ELSE <<>>
  BY WritesByte, FourSignals
<1>2. PICK w : w = Written(<<SERIAL_LOADER_INIT>>)
  OBVIOUS
<1>3. CASE dev.pc \notin LoaderStates
  <2>1. w = <<>>
    BY <1>1, <1>2, <1>3
  <2> QED BY <1>1, <1>2, <2>1 DEF Quiet
<1>4. CASE dev.pc \in LoaderStates
  <2>1. w = <<SERIAL_LOADER_INIT>> /\ Len(w) = 1
    BY <1>1, <1>2, <1>4, Small, FourSignals
  <2>2. PICK m \in Nat \ {0} : m = SIZE_BYTES
    BY Numbers
  <2>3. CASE dev.pc = "wait_init"
    <3>1. Len(w) <= SIZE_BYTES + 1
      BY <2>1, <2>2
    <3> QED BY <1>1, <1>2, <2>3, <3>1 DEF Quiet
  <2>4. CASE dev.pc = "size"
    <3>1. Len(dev.size) \in Nat /\ Len(dev.size) < m
      <4>1. Len(dev.size) < SIZE_BYTES
        BY <2>4 DEF BaseInv, DevPlace
      <4> QED BY <2>2, <4>1, Kinds, NoBytes
    <3>2. Len(dev.size) + Len(w) <= SIZE_BYTES + 1 /\ Len(dev.size) + Len(w) # SIZE_BYTES + 1
      BY <2>1, <2>2, <3>1
    <3>3. Quiet(dev, w, confirmed)
      BY <2>4, <3>2 DEF Quiet
    <3> QED BY <1>1, <1>2, <3>3
  <2>5. CASE dev.pc = "data"
    <3>1. Len(dev.buffer) < dev.datasize
      BY <2>5 DEF BaseInv, DevPlace
    <3>2. Len(dev.buffer) \in Nat /\ dev.datasize \in Nat
      BY Kinds, NoBytes
    <3>3. Len(dev.buffer) + Len(w) <= dev.datasize
      BY <2>1, <3>1, <3>2
    <3> QED BY <1>1, <1>2, <2>5, <3>3 DEF Quiet
  <2>6. CASE dev.pc = "end_ack"
    BY <1>1, <1>2, <2>1, <2>6 DEF Quiet
  <2> QED BY <1>4, <2>3, <2>4, <2>5, <2>6 DEF LoaderStates
<1> QED BY <1>3, <1>4

\* The first byte on a line with a few bytes.
LEMMA Shapes ==
    /\ \A a \in Bytes : /\ <<a>>[1] = a /\ Tail(<<a>>) = <<>> /\ <<a>> # <<>>
    /\ \A a, b \in Bytes : /\ <<a, b>>[1] = a /\ Tail(<<a, b>>) = <<b>> /\ <<a, b>> # <<>>
BY Small

\* Nothing waits for a board that is off or runs the kernel.
LEMMA NothingWaits ==
    ASSUME BaseInv, Quiet(dev, to_dev, confirmed), Settled
    PROVE  to_dev = <<>>
<1>1. CASE dev.pc \in LoaderStates
  BY <1>1 DEF Settled
<1>2. CASE dev.pc \notin LoaderStates
  BY <1>2 DEF Quiet, LoaderStates
<1> QED BY <1>1, <1>2

\* The tool asks, feeds the loader, drops a byte or is opened.
LEMMA AskingSteps ==
    ASSUME BaseInv, punctual, PunctualInv, Asks \/ Feeds \/ (Leaves /\ host'.pc # "closed")
    PROVE  PunctualInv'
<1>1. /\ Quiet(dev, to_dev, confirmed) /\ dev' = dev /\ confirmed' = confirmed
      /\ dev.pc = "kernel" => dev.buffer = confirmed
      /\ ~ Sending(host')
  BY DEF PunctualInv, Asks, Feeds, Leaves, Reads, Sending
<1>2. ASSUME Quiet(dev, to_dev', confirmed), Asking(dev, to_dev', to_host') PROVE PunctualInv'
  BY <1>1, <1>2 DEF PunctualInv
<1>3. CASE Asks
  <2>1. to_dev = <<>> /\ to_host' = <<>> /\ to_dev' = Written(<<SERIAL_LOADER_INIT>>)
    BY <1>1, <1>3, NothingWaits DEF Asks
  <2>2. Quiet(dev, to_dev', confirmed)
    BY <2>1, QuietInit
  <2>3. to_dev' # <<>> => to_dev' = <<SERIAL_LOADER_INIT>> /\ dev.pc # "kernel"
    BY <2>1, QuietInit DEF LoaderStates
  <2> QED BY <1>2, <2>1, <2>2, <2>3 DEF Asking
<1>4. CASE Feeds
  <2>1. /\ Asking(dev, to_dev, to_host) /\ to_host[1] = SERIAL_LOADER_INIT /\ to_host # <<>>
        /\ to_host' = Tail(to_host) /\ to_dev' = Written(<<SERIAL_LOADER_INIT>>)
    BY <1>4 DEF PunctualInv, Feeds, Reads
  <2>2. \/ to_host = <<SERIAL_LOADER_INIT>> /\ dev.pc # "kernel"
        \/ to_host = <<SERIAL_LOADER_INIT, SERIAL_LOADER_END>> /\ dev.pc \in {"off", "wait_init", "end_ack"}
    BY <2>1, Shapes, FourSignals DEF Asking
  <2>3. to_dev = <<>>
    BY <2>1, <2>2, Shapes, FourSignals DEF Asking
  <2>4. \/ to_host' = <<>> /\ dev.pc # "kernel"
        \/ to_host' = <<SERIAL_LOADER_END>> /\ dev.pc \in {"off", "wait_init", "end_ack"}
    <3>1. /\ Tail(<<SERIAL_LOADER_INIT>>) = <<>>
          /\ Tail(<<SERIAL_LOADER_INIT, SERIAL_LOADER_END>>) = <<SERIAL_LOADER_END>>
      BY Shapes, FourSignals, Zenon
    <3> QED BY <2>1, <2>2, <3>1, Zenon
  <2>5. Quiet(dev, to_dev', confirmed)
    BY <2>1, <2>3, QuietInit
  <2>6. to_dev' # <<>> => to_dev' = <<SERIAL_LOADER_INIT>> /\ dev.pc \in LoaderStates
    BY <2>1, <2>3, QuietInit
  <2>7. Asking(dev, to_dev', to_host')
    BY <2>4, <2>6 DEF Asking, LoaderStates
  <2> QED BY <1>2, <2>5, <2>7
<1>5. CASE Leaves /\ Opens
  <2>1. to_dev = <<>> /\ to_dev' = to_dev /\ to_host' = <<>>
    BY <1>1, <1>5, NothingWaits DEF Leaves, Opens
  <2>2. Asking(dev, to_dev', to_host')
    BY <2>1 DEF Asking
  <2>3. Quiet(dev, to_dev', confirmed)
    BY <1>1, <2>1
  <2> QED BY <1>2, <2>2, <2>3
<1>6. CASE Leaves /\ Drops
  <2>1. /\ Asking(dev, to_dev, to_host) /\ to_host[1] # SERIAL_LOADER_INIT /\ to_host # <<>>
        /\ to_host[1] # SERIAL_LOADER_INIT_ACK
        /\ to_host' = Tail(to_host) /\ to_dev' = to_dev
    BY <1>6 DEF PunctualInv, Drops, Leaves, Reads
  <2>2. \/ to_host = <<SERIAL_LOADER_END>>
        \/ /\ to_host = <<SERIAL_LOADER_END, SERIAL_LOADER_INIT_ACK>>
           /\ dev.pc \in {"off", "wait_init"} \/ (dev.pc = "size" /\ dev.size = <<>>)
    BY <2>1, Shapes, FourSignals DEF Asking
  <2>3. \/ to_host' = <<>>
        \/ /\ to_host' = <<SERIAL_LOADER_INIT_ACK>> /\ to_host = <<SERIAL_LOADER_END, SERIAL_LOADER_INIT_ACK>>
           /\ dev.pc \in {"off", "wait_init"} \/ (dev.pc = "size" /\ dev.size = <<>>)
    <3>1. /\ Tail(<<SERIAL_LOADER_END>>) = <<>>
          /\ Tail(<<SERIAL_LOADER_END, SERIAL_LOADER_INIT_ACK>>) = <<SERIAL_LOADER_INIT_ACK>>
      BY Shapes, FourSignals, Zenon
    <3> QED BY <2>1, <2>2, <3>1, Zenon
  <2>4. to_host = <<SERIAL_LOADER_END, SERIAL_LOADER_INIT_ACK>> => to_dev = <<>>
    <3>1. /\ <<SERIAL_LOADER_END, SERIAL_LOADER_INIT_ACK>> # <<>>
          /\ <<SERIAL_LOADER_END, SERIAL_LOADER_INIT_ACK>> # <<SERIAL_LOADER_END>>
      BY Shapes, FourSignals
    <3> QED BY <2>1, <3>1 DEF Asking
  <2>5. to_dev # <<>> => to_dev = <<SERIAL_LOADER_INIT>> /\ dev.pc # "kernel"
    BY <2>1 DEF Asking
  <2>6. Asking(dev, to_dev', to_host')
    BY <2>1, <2>3, <2>4, <2>5 DEF Asking
  <2> QED BY <1>1, <1>2, <2>1, <2>6
<1> QED BY <1>3, <1>4, <1>5, <1>6 DEF Leaves

\* The tool begins a transfer.
LEMMA StartSteps ==
    ASSUME BaseInv, BaseInv', punctual, PunctualInv, Starts
    PROVE  PunctualInv'
<1>1. /\ Asking(dev, to_dev, to_host) /\ to_host[1] = SERIAL_LOADER_INIT_ACK /\ to_host # <<>>
      /\ to_host' = Tail(to_host) /\ dev' = dev /\ confirmed' = confirmed
      /\ host'.image = host.image /\ host'.idx = 0 /\ host'.pc \in {"send", "final"}
      /\ to_dev' = Written(ToBytes(Len(host.image))) /\ Sending(host')
  BY DEF PunctualInv, Starts, Reads
<1>2. /\ to_host = <<SERIAL_LOADER_INIT_ACK>>
      /\ dev.pc \in {"off", "wait_init"} \/ (dev.pc = "size" /\ dev.size = <<>>)
  BY <1>1, Shapes, FourSignals DEF Asking
<1>3. to_dev = <<>> /\ to_host' = <<>>
  <2>1. /\ <<SERIAL_LOADER_INIT_ACK>> # <<SERIAL_LOADER_END>>
    BY Shapes, FourSignals
  <2> QED BY <1>1, <1>2, <2>1, Shapes, FourSignals DEF Asking
<1>4. PICK S \in Seq(Bytes) : S = ToBytes(Len(host.image)) /\ Len(S) = SIZE_BYTES
  BY Kinds, ToBytesType
<1>5. ASSUME Quiet(dev, to_dev', confirmed), Session(host', dev, to_dev', to_host') PROVE PunctualInv'
  <2>1. dev'.pc # "kernel" /\ host'.pc # "handshake"
    BY <1>1, <1>2
  <2> QED BY <1>1, <1>5, <2>1 DEF PunctualInv
<1>6. CASE dev.pc = "off"
  <2>1. to_dev' = <<>>
    BY <1>1, <1>6 DEF Written, LoaderStates
  <2>2. Quiet(dev, to_dev', confirmed) /\ Gone(host', dev, to_dev', to_host')
    BY <1>3, <1>6, <2>1 DEF Quiet, Gone
  <2> QED BY <1>5, <2>2 DEF Session
<1>7. CASE dev.pc # "off"
  <2>1. to_dev' = S
    <3>1. to_dev' = to_dev \o S
      BY <1>1, <1>2, <1>4, <1>7 DEF Written, LoaderStates
    <3> QED BY <1>3, <3>1, EmptyPut
  <2>2. PICK m \in Nat \ {0} : m = SIZE_BYTES
    BY Numbers
  <2>3. S # <<>> /\ Len(S) <= SIZE_BYTES /\ Len(S) <= SIZE_BYTES + 1
    <3>1. Len(S) # 0 /\ Len(S) <= SIZE_BYTES /\ Len(S) <= SIZE_BYTES + 1
      BY <1>4, <2>2
    <3> QED BY <3>1, NoBytes
  <2>4. CASE dev.pc = "wait_init"
    <3>1. host'.pc = "final" => ~ Has(S, SERIAL_LOADER_INIT)
      <4> SUFFICES ASSUME host'.pc = "final" PROVE ~ Has(S, SERIAL_LOADER_INIT)
        OBVIOUS
      <4>1. Len(host.image) = 0
        BY <1>1 DEF BaseInv, HostPlace
      <4>2. \A k \in 1 .. Len(S) : S[k] = 0
        BY <1>4, <4>1, ZeroBytes
      <4> QED BY <4>2, NonZero DEF Has
    <3>2. Skipping(host', dev, to_dev', to_host')
      BY <1>1, <1>3, <2>1, <2>3, <2>4, <3>1 DEF Skipping
    <3>3. Quiet(dev, to_dev', confirmed)
      BY <2>1, <2>3, <2>4 DEF Quiet
    <3> QED BY <1>5, <3>2, <3>3 DEF Session
  <2>5. CASE dev.pc = "size" /\ dev.size = <<>>
    <3>1. dev.size \o to_dev' = S /\ host'.pc # "echo"
      BY <1>1, <2>1, <2>5, EmptyPut
    <3>2. Sizing(host', dev, to_dev', to_host')
      BY <1>1, <1>3, <1>4, <2>5, <3>1 DEF Sizing
    <3>3. Len(dev.size) = 0
      BY <2>5
    <3>4. Len(dev.size) + Len(to_dev') <= SIZE_BYTES + 1 /\ Len(dev.size) + Len(to_dev') # SIZE_BYTES + 1
      BY <1>4, <2>1, <2>2, <3>3
    <3>5. Quiet(dev, to_dev', confirmed)
      BY <2>5, <3>4 DEF Quiet
    <3> QED BY <1>5, <3>2, <3>5 DEF Session
  <2> QED BY <1>2, <1>7, <2>4, <2>5
<1> QED BY <1>6, <1>7

\* A byte after those of a size, read or on their way.
LEMMA Behind ==
    ASSUME NEW s \in Seq(Bytes), NEW t \in Seq(Bytes), NEW x \in Bytes, NEW u, u = s \o t
    PROVE  /\ s \o (t \o <<x>>) = u \o <<x>> /\ Len(u \o <<x>>) = Len(u) + 1
           /\ Len(t \o <<x>>) = Len(t) + 1 /\ t \o <<x>> # <<>> /\ (t \o <<x>>)[Len(t) + 1] = x
           /\ \A k \in 1 .. Len(u) : (u \o <<x>>)[k] = u[k]
           /\ (u \o <<x>>)[Len(u) + 1] = x
<1>1. /\ <<x>> \in Seq(Bytes) /\ Len(<<x>>) = 1 /\ <<x>>[1] = x /\ 1 \in 1 .. Len(<<x>>)
  BY Small
<1>2. u \in Seq(Bytes) /\ Len(t) \in Nat
  BY Put
<1>3. /\ t \o <<x>> \in Seq(Bytes) /\ Len(t \o <<x>>) = Len(t) + 1 /\ (t \o <<x>>)[Len(t) + 1] = x
  BY <1>1, <1>2, Put
<1>4. t \o <<x>> # <<>>
  <2>1. Len(t \o <<x>>) # 0
    BY <1>2, <1>3
  <2> QED BY <1>3, <2>1, NoBytes
<1>5. /\ Len(u \o <<x>>) = Len(u) + 1 /\ (u \o <<x>>)[Len(u) + 1] = x
      /\ \A k \in 1 .. Len(u) : (u \o <<x>>)[k] = u[k]
  BY <1>1, <1>2, Put
<1>6. s \o (t \o <<x>>) = u \o <<x>>
  <2>1. s \o (t \o <<x>>) = (s \o t) \o <<x>>
    BY <1>1
  <2> QED BY <2>1
<1> QED BY <1>3, <1>4, <1>5, <1>6

\* The tool sends a byte of the image.
LEMMA SendSteps ==
    ASSUME BaseInv, BaseInv', punctual, host.image \in Images, PunctualInv, Sends
    PROVE  PunctualInv'
<1>1. /\ Quiet(dev, to_dev, confirmed) /\ Session(host, dev, to_dev, to_host) /\ dev.pc # "kernel"
      /\ host.pc = "send" /\ dev' = dev /\ confirmed' = confirmed /\ to_host' = to_host
      /\ host'.image = host.image /\ host'.idx = host.idx /\ host'.pc = "echo" /\ Sending(host')
      /\ to_dev' = Written(<<host.image[host.idx + 1]>>)
  BY DEF PunctualInv, Sends, Sending
<1>2. ASSUME Quiet(dev, to_dev', confirmed), Session(host', dev, to_dev', to_host) PROVE PunctualInv'
  <2>1. dev'.pc # "kernel" /\ host'.pc # "handshake"
    BY <1>1
  <2> QED BY <1>1, <1>2, <2>1 DEF PunctualInv
<1>3. PICK x \in Bytes : x = host.image[host.idx + 1]
  BY <1>1, ImageByte
<1>4. /\ dev.pc \in LoaderStates => to_dev' = to_dev \o <<x>>
      /\ dev.pc \in LoaderStates /\ to_dev = <<>> => to_dev' = <<x>>
      /\ dev.pc \notin LoaderStates => to_dev' = <<>>
  BY <1>1, <1>3, WritesByte
<1>5. PICK m \in Nat \ {0} : m = SIZE_BYTES
  BY Numbers
<1>6. /\ <<x>> # <<>> /\ Len(<<x>>) = 1 /\ <<x>>[1] = x
  BY Small
<1>7. x = host'.image[host'.idx + 1]
  BY <1>1, <1>3
<1>8. PICK all \in Seq(Bytes), a \in Nat, s \in Nat, t \in Nat :
          all = dev.size \o to_dev /\ a = Len(all) /\ s = Len(dev.size) /\ t = Len(to_dev) /\ a = s + t
  <2>1. dev.size \in Seq(Bytes) /\ to_dev \in Seq(Bytes)
    BY Kinds
  <2>2. dev.size \o to_dev \in Seq(Bytes) /\ Len(dev.size \o to_dev) = Len(dev.size) + Len(to_dev)
        /\ Len(dev.size) \in Nat /\ Len(to_dev) \in Nat
    BY <2>1, Put
  <2>3. PICK p \in Nat, q \in Nat : p = Len(dev.size) /\ q = Len(to_dev)
    BY <2>2
  <2>4. p + q \in Nat /\ Len(dev.size \o to_dev) = p + q
    BY <2>2, <2>3
  <2> QED BY <2>2, <2>3, <2>4
<1>9. dev.pc = "size" =>
         /\ dev.size \o to_dev' = all \o <<x>> /\ Len(all \o <<x>>) = a + 1
         /\ \A k \in 1 .. a : (all \o <<x>>)[k] = all[k]
         /\ (all \o <<x>>)[a + 1] = x
         /\ Len(to_dev') = t + 1
  <2> SUFFICES ASSUME dev.pc = "size"
               PROVE  /\ dev.size \o to_dev' = all \o <<x>> /\ Len(all \o <<x>>) = a + 1
                      /\ \A k \in 1 .. a : (all \o <<x>>)[k] = all[k]
                      /\ (all \o <<x>>)[a + 1] = x
                      /\ Len(to_dev') = t + 1
    OBVIOUS
  <2>1. to_dev' = to_dev \o <<x>> /\ dev.size \in Seq(Bytes) /\ to_dev \in Seq(Bytes)
    BY <1>4, Kinds DEF LoaderStates
  <2>2. PICK sz \in Seq(Bytes), td \in Seq(Bytes) : sz = dev.size /\ td = to_dev
    BY <2>1
  <2>3. all = sz \o td /\ Len(all) = a /\ Len(td) = t
    BY <1>8, <2>2, Zenon
  <2>4. sz \o (td \o <<x>>) = all \o <<x>> /\ Len(all \o <<x>>) = Len(all) + 1
    BY <2>3, Behind
  <2>5. Len(td \o <<x>>) = Len(td) + 1 /\ (all \o <<x>>)[Len(all) + 1] = x
    BY <2>3, Behind
  <2>6. \A k \in 1 .. Len(all) : (all \o <<x>>)[k] = all[k]
    BY <2>3, Behind
  <2> QED BY <2>1, <2>2, <2>3, <2>4, <2>5, <2>6, Zenon
<1>10. dev.pc = "wait_init" => /\ Len(to_dev') = t + 1 /\ to_dev' # <<>> /\ to_dev'[t + 1] = x
  <2> SUFFICES ASSUME dev.pc = "wait_init"
               PROVE  Len(to_dev') = t + 1 /\ to_dev' # <<>> /\ to_dev'[t + 1] = x
    OBVIOUS
  <2>1. to_dev' = to_dev \o <<x>> /\ to_dev \in Seq(Bytes) /\ dev.size \in Seq(Bytes)
    BY <1>4, Kinds DEF LoaderStates
  <2> QED BY <1>8, <2>1, Behind
<1>11. ASSUME dev.pc = "wait_init", t <= m PROVE Quiet(dev, to_dev', confirmed)
  <2>1. Len(to_dev') <= SIZE_BYTES + 1
    BY <1>5, <1>10, <1>11
  <2> QED BY <1>11, <2>1 DEF Quiet
<1>12. ASSUME dev.pc = "size", a <= m,
              a = m => \E k \in 1 .. m : all[k] # 0
       PROVE  Quiet(dev, to_dev', confirmed)
  <2>1. /\ Len(dev.size) + Len(to_dev') = a + 1
    BY <1>8, <1>9, <1>12
  <2>2. Len(dev.size) + Len(to_dev') <= SIZE_BYTES + 1
    BY <1>5, <1>12, <2>1
  <2>3. Len(dev.size) + Len(to_dev') = SIZE_BYTES + 1 =>
            \E k \in 1 .. SIZE_BYTES : (dev.size \o to_dev')[k] # 0
    <3> SUFFICES ASSUME Len(dev.size) + Len(to_dev') = SIZE_BYTES + 1
                 PROVE  \E k \in 1 .. SIZE_BYTES : (dev.size \o to_dev')[k] # 0
      OBVIOUS
    <3>1. a = m
      BY <1>5, <1>8, <2>1
    <3>2. PICK k \in 1 .. m : all[k] # 0
      BY <1>12, <3>1
    <3>3. (dev.size \o to_dev')[k] = all[k]
      BY <1>9, <1>12, <3>1
    <3> QED BY <1>5, <3>2, <3>3
  <2> QED BY <1>12, <2>2, <2>3 DEF Quiet
<1>13. CASE Sizing(host, dev, to_dev, to_host)
  <2>1. dev.pc = "size" /\ to_host = <<>> /\ host.idx = 0 /\ all = ToBytes(Len(host.image))
    BY <1>1, <1>8, <1>13 DEF Sizing
  <2>2. x = host'.image[1]
    BY <1>1, <1>3, <2>1
  <2>3. Sizing(host', dev, to_dev', to_host)
    BY <1>1, <1>9, <2>1, <2>2 DEF Sizing
  <2>4. a = m /\ FromBytes(all) = Len(host.image) /\ Len(host.image) \in Nat
    BY <1>5, <1>8, <2>1, Kinds, ToBytesType, SizeReads, SizeAssumption
  <2>5. Len(host.image) # 0
    <3>1. host.idx < Len(host.image)
      BY <1>1 DEF BaseInv, HostPlace
    <3> QED BY <2>1, <2>4, <3>1
  <2>6. \E k \in 1 .. m : all[k] # 0
    BY <1>8, <2>4, <2>5, ZeroSize
  <2>7. Quiet(dev, to_dev', confirmed)
    BY <1>12, <2>1, <2>4, <2>6
  <2> QED BY <1>2, <2>3, <2>7 DEF Session
<1>14. CASE Echoing(host, dev, to_dev, to_host)
  <2>1. /\ dev.pc = "data" /\ to_dev = <<>> /\ to_host = <<>> /\ Stored(dev, host, host.idx)
        /\ dev.datasize = Len(host.image)
    BY <1>1, <1>14 DEF Echoing
  <2>2. to_dev' = <<x>>
    BY <1>4, <2>1 DEF LoaderStates
  <2>3. Stored(dev, host', host'.idx)
    BY <1>1, <2>1 DEF Stored
  <2>4. Echoing(host', dev, to_dev', to_host)
    BY <1>1, <1>7, <2>1, <2>2, <2>3 DEF Echoing
  <2>5. Len(dev.buffer) < dev.datasize
    BY <2>1 DEF BaseInv, DevPlace
  <2>6. Len(dev.buffer) \in Nat /\ dev.datasize \in Nat
    BY Kinds, NoBytes
  <2>7. Len(dev.buffer) + Len(to_dev') <= dev.datasize
    BY <1>6, <2>2, <2>5, <2>6
  <2>8. Quiet(dev, to_dev', confirmed)
    BY <2>1, <2>7 DEF Quiet
  <2> QED BY <1>2, <2>4, <2>8 DEF Session
<1>15. CASE Gone(host, dev, to_dev, to_host)
  <2>1. /\ dev.pc \in {"off", "wait_init"} /\ to_dev = <<>>
        /\ to_host = <<>> \/ to_host = <<SERIAL_LOADER_INIT_ACK>>
    BY <1>1, <1>15 DEF Gone
  <2>2. t = 0
    BY <1>8, <2>1
  <2>3. /\ dev.pc = "off" => to_dev' = <<>>
        /\ dev.pc = "wait_init" => to_dev' = <<x>>
    BY <1>4, <2>1 DEF LoaderStates
  <2>4. Quiet(dev, to_dev', confirmed)
    <3>1. dev.pc = "wait_init" => Quiet(dev, to_dev', confirmed)
      BY <1>5, <1>11, <2>2
    <3> QED BY <2>1, <2>3, <3>1 DEF Quiet
  <2>5. CASE to_host = <<SERIAL_LOADER_INIT_ACK>> /\ x # SERIAL_LOADER_INIT_ACK
    <3>1. to_host # <<>> /\ to_host[1] # x
      BY <2>5, Shapes, FourSignals
    <3>2. Doomed(host', dev, to_dev', to_host)
      BY <1>1, <1>7, <2>1, <3>1 DEF Doomed
    <3> QED BY <1>2, <2>4, <3>2 DEF Session
  <2>6. CASE dev.pc = "off" /\ (to_host = <<>> \/ x = SERIAL_LOADER_INIT_ACK)
    <3>1. Gone(host', dev, to_dev', to_host)
      BY <1>1, <1>7, <2>1, <2>3, <2>6 DEF Gone
    <3> QED BY <1>2, <2>4, <3>1 DEF Session
  <2>7. CASE dev.pc = "wait_init" /\ to_host = <<>>
    <3>1. to_dev' # <<>> /\ Len(to_dev') = 1 /\ to_dev'[1] = x
      BY <1>6, <2>3, <2>7
    <3>2. Skipping(host', dev, to_dev', to_host)
      BY <1>1, <1>7, <2>7, <3>1 DEF Skipping
    <3> QED BY <1>2, <2>4, <3>2 DEF Session
  <2>8. CASE dev.pc = "wait_init" /\ to_host = <<SERIAL_LOADER_INIT_ACK>> /\ x = SERIAL_LOADER_INIT_ACK
    <3>1. Passing(host', dev, to_dev', to_host)
      BY <1>1, <1>7, <2>3, <2>8 DEF Passing
    <3> QED BY <1>2, <2>4, <3>1 DEF Session
  <2> QED BY <2>1, <2>5, <2>6, <2>7, <2>8
<1>16. CASE Skipping(host, dev, to_dev, to_host)
  <2>1. dev.pc = "wait_init" /\ to_host = <<>> /\ host.idx = 0 /\ t <= m
    BY <1>1, <1>5, <1>8, <1>16 DEF Skipping
  <2>2. /\ Len(to_dev') <= SIZE_BYTES + 1 /\ to_dev' # <<>> /\ to_dev'[Len(to_dev')] = x
    BY <1>5, <1>10, <2>1
  <2>3. Skipping(host', dev, to_dev', to_host)
    BY <1>1, <1>7, <2>1, <2>2, Zenon DEF Skipping
  <2> QED BY <1>2, <1>11, <2>1, <2>3 DEF Session
<1>17. CASE Misled(host, dev, to_dev, to_host)
  <2>1. dev.pc = "size" /\ to_host = <<SERIAL_LOADER_INIT_ACK>> /\ host.idx = 0 /\ a < m
    BY <1>1, <1>5, <1>8, <1>17 DEF Misled
  <2>2. a <= m /\ a # m
    BY <2>1
  <2>3. Quiet(dev, to_dev', confirmed)
    BY <1>12, <2>1, <2>2
  <2>4. CASE x = SERIAL_LOADER_INIT_ACK
    <3>1. host'.image[1] = SERIAL_LOADER_INIT_ACK
      BY <1>1, <1>3, <2>1, <2>4
    <3>2. /\ Len(all \o <<x>>) \in 1 .. SIZE_BYTES
          /\ (all \o <<x>>)[Len(all \o <<x>>)] = SERIAL_LOADER_INIT_ACK
      BY <1>5, <1>9, <2>1, <2>4
    <3>3. dev.size \o to_dev' = all \o <<x>>
      BY <1>9, <2>1
    <3>4. Misled(host', dev, to_dev', to_host)
      BY <1>1, <2>1, <3>1, <3>2, <3>3, Zenon DEF Misled
    <3> QED BY <1>2, <2>3, <3>4 DEF Session
  <2>5. CASE x # SERIAL_LOADER_INIT_ACK
    <3>1. to_host # <<>> /\ to_host[1] # x
      BY <2>1, <2>5, Shapes, FourSignals
    <3>2. Doomed(host', dev, to_dev', to_host)
      BY <1>1, <1>7, <2>1, <3>1 DEF Doomed
    <3> QED BY <1>2, <2>3, <3>2 DEF Session
  <2> QED BY <2>4, <2>5
<1>18. CASE Sunk(host, dev, to_dev, to_host)
  <2>1. /\ dev.pc = "size" /\ to_host = <<>> /\ Has(all, SERIAL_LOADER_INIT_ACK) /\ a <= m
        /\ a = m => all[m] = SERIAL_LOADER_INIT_ACK
    BY <1>1, <1>5, <1>8, <1>18 DEF Sunk
  <2>2. PICK all2 : all2 = all \o <<x>>
    OBVIOUS
  <2>3. dev.size \o to_dev' = all2 /\ Len(all2) = a + 1 /\ (\A k \in 1 .. a : all2[k] = all[k]) /\ all2[a + 1] = x
    BY <1>9, <2>1, <2>2
  <2>4. Has(all2, SERIAL_LOADER_INIT_ACK)
    BY <1>8, <2>1, <2>3 DEF Has
  <2>5. Len(all2) <= SIZE_BYTES + 1
    BY <1>5, <2>1, <2>3
  <2>6. Len(all2) = SIZE_BYTES + 1 => all2[SIZE_BYTES] = SERIAL_LOADER_INIT_ACK /\ all2[SIZE_BYTES + 1] = x
    BY <1>5, <2>1, <2>3
  <2>7. Sunk(host', dev, to_dev', to_host)
    BY <1>1, <1>7, <2>1, <2>3, <2>4, <2>5, <2>6, Zenon DEF Sunk
  <2>8. a = m => \E k \in 1 .. m : all[k] # 0
    BY <2>1, NonZero
  <2>9. Quiet(dev, to_dev', confirmed)
    BY <1>12, <2>1, <2>8
  <2> QED BY <1>2, <2>7, <2>9 DEF Session
<1>19. CASE Passing(host, dev, to_dev, to_host)
  <2>1. dev.pc = "wait_init" /\ to_dev = <<SERIAL_LOADER_INIT_ACK>> /\ to_host = <<>>
    BY <1>1, <1>19 DEF Passing
  <2>2. to_dev' = <<SERIAL_LOADER_INIT_ACK, x>>
    BY <1>4, <2>1, Small, FourSignals DEF LoaderStates
  <2>3. Passing(host', dev, to_dev', to_host)
    BY <1>1, <1>7, <2>1, <2>2 DEF Passing
  <2>4. t <= m
    <3>1. t = 1
      BY <1>8, <2>1, Small, FourSignals
    <3> QED BY <3>1
  <2> QED BY <1>2, <1>11, <2>1, <2>3, <2>4 DEF Session
<1> QED BY <1>1, <1>13, <1>14, <1>15, <1>16, <1>17, <1>18, <1>19 DEF Session, Complete, Stuck, Doomed

\* The tool reads the echo.
LEMMA AdvanceSteps ==
    ASSUME BaseInv, BaseInv', punctual, PunctualInv, Advances
    PROVE  PunctualInv'
<1>1. /\ Quiet(dev, to_dev, confirmed) /\ Session(host, dev, to_dev, to_host) /\ dev.pc # "kernel"
      /\ host.pc = "echo" /\ dev' = dev /\ confirmed' = confirmed /\ to_dev' = to_dev
      /\ to_host # <<>> /\ to_host[1] = host.image[host.idx + 1] /\ to_host' = Tail(to_host)
      /\ host'.image = host.image /\ host'.idx = host.idx + 1 /\ host'.pc \in {"send", "final"}
      /\ Sending(host')
  BY DEF PunctualInv, Advances, Reads, Sending
<1>2. ASSUME Session(host', dev, to_dev, to_host') PROVE PunctualInv'
  <2>1. dev'.pc # "kernel" /\ host'.pc # "handshake"
    BY <1>1
  <2> QED BY <1>1, <1>2, <2>1 DEF PunctualInv
<1>3. PICK x \in Bytes : x = host.image[host.idx + 1]
  BY <1>1, ImageByte
<1>4. /\ to_host = <<x>> => to_host' = <<>>
      /\ to_host = <<x, SERIAL_LOADER_END>> => to_host' = <<SERIAL_LOADER_END>>
  <2>1. Tail(<<x>>) = <<>> /\ Tail(<<x, SERIAL_LOADER_END>>) = <<SERIAL_LOADER_END>>
    BY Small, FourSignals, Zenon
  <2> QED BY <1>1, <2>1, Zenon
<1>5. /\ host'.pc = "send" => host.idx + 1 < Len(host.image)
      /\ host'.pc = "final" => host.idx + 1 = Len(host.image)
  BY <1>1 DEF BaseInv, HostPlace
<1>6. host.idx \in Nat /\ Len(host.image) \in Nat
  BY Kinds
<1>7. host.idx + 1 = Len(host.image) => host'.pc = "final"
  BY <1>1, <1>5, <1>6
<1>8. CASE Echoing(host, dev, to_dev, to_host)
  <2>1. /\ dev.pc = "data" /\ to_dev = <<>> /\ to_host = <<x>> /\ Stored(dev, host, host.idx + 1)
        /\ dev.datasize = Len(host.image)
    BY <1>1, <1>3, <1>8 DEF Echoing
  <2>2. host'.pc = "send"
    <3>1. Len(dev.buffer) < dev.datasize
      BY <2>1 DEF BaseInv, DevPlace
    <3>2. Len(dev.buffer) = host.idx + 1
      BY <2>1 DEF Stored
    <3> QED BY <1>1, <1>5, <1>6, <2>1, <3>1, <3>2
  <2>3. Stored(dev, host', host'.idx)
    BY <1>1, <2>1 DEF Stored
  <2>4. Echoing(host', dev, to_dev, to_host')
    BY <1>1, <1>4, <2>1, <2>2, <2>3 DEF Echoing
  <2> QED BY <1>2, <2>4 DEF Session
<1>9. CASE Complete(host, dev, to_dev, to_host)
  <2>1. /\ dev.pc = "end_ack" /\ to_dev = <<>> /\ Stored(dev, host, Len(host.image))
        /\ to_host = <<x, SERIAL_LOADER_END>> /\ host.idx + 1 = Len(host.image)
    BY <1>1, <1>3, <1>9 DEF Complete
  <2>2. Stored(dev, host', Len(host'.image))
    BY <1>1, <2>1 DEF Stored
  <2>3. Complete(host', dev, to_dev, to_host')
    BY <1>4, <1>7, <2>1, <2>2 DEF Complete
  <2> QED BY <1>2, <2>3 DEF Session
<1>10. CASE Gone(host, dev, to_dev, to_host)
  <2>1. /\ dev.pc \in {"off", "wait_init"} /\ to_dev = <<>>
        /\ \/ to_host = <<x>>
           \/ to_host = <<x, SERIAL_LOADER_END>> /\ host.idx + 1 = Len(host.image)
    BY <1>1, <1>3, <1>10 DEF Gone
  <2>2. Gone(host', dev, to_dev, to_host')
    BY <1>4, <1>7, <2>1 DEF Gone
  <2> QED BY <1>2, <2>2 DEF Session
<1>11. CASE Misled(host, dev, to_dev, to_host)
  <2>1. PICK all \in Seq(Bytes) : all = dev.size \o to_dev
    BY Kinds, Put
  <2>2. /\ dev.pc = "size" /\ to_host = <<SERIAL_LOADER_INIT_ACK>> /\ host.idx = 0
        /\ Len(all) \in 1 .. SIZE_BYTES /\ all[Len(all)] = SERIAL_LOADER_INIT_ACK
    BY <1>1, <1>11, <2>1 DEF Misled
  <2>3. to_host' = <<>>
    BY <1>1, <2>2, Small, FourSignals
  <2>4. PICK m \in Nat \ {0} : m = SIZE_BYTES
    BY Numbers
  <2>5. Has(all, SERIAL_LOADER_INIT_ACK) /\ Len(all) <= SIZE_BYTES
    BY <2>2, <2>4 DEF Has
  <2>6. Len(all) = SIZE_BYTES => all[SIZE_BYTES] = SERIAL_LOADER_INIT_ACK
    BY <2>2
  <2>7. Sunk(host', dev, to_dev, to_host')
    BY <1>1, <2>1, <2>2, <2>3, <2>5, <2>6, Zenon DEF Sunk
  <2> QED BY <1>2, <2>7 DEF Session
<1>12. CASE Passing(host, dev, to_dev, to_host)
  <2>1. /\ dev.pc = "wait_init" /\ to_dev = <<SERIAL_LOADER_INIT_ACK>>
        /\ to_host = <<SERIAL_LOADER_INIT_ACK>>
    BY <1>1, <1>12 DEF Passing
  <2>2. to_host' = <<>>
    BY <1>1, <2>1, Small, FourSignals
  <2>3. Passing(host', dev, to_dev, to_host')
    BY <1>1, <2>1, <2>2 DEF Passing
  <2> QED BY <1>2, <2>3 DEF Session
<1> QED BY <1>1, <1>8, <1>9, <1>10, <1>11, <1>12 DEF Session, Sizing, Skipping, Sunk, Stuck, Doomed

\* What the tool finds when it reads END for the final acknowledge.
LEMMA FinalShapes ==
    ASSUME BaseInv, host.pc = "final", to_host # <<>>, Session(host, dev, to_dev, to_host)
    PROVE  \/ Complete(host, dev, to_dev, to_host) /\ dev.buffer = host.image
           \/ Gone(host, dev, to_dev, to_host)
<1>1. \/ Complete(host, dev, to_dev, to_host)
      \/ Gone(host, dev, to_dev, to_host)
  BY DEF Session, Sizing, Echoing, Skipping, Misled, Sunk, Passing, Stuck, Doomed
<1>2. ASSUME Complete(host, dev, to_dev, to_host) PROVE dev.buffer = host.image
  <2>1. Stored(dev, host, Len(host.image))
    BY <1>2 DEF Complete
  <2>2. dev.buffer \in Seq(Bytes) /\ host.image \in Seq(Bytes)
    BY Kinds
  <2> QED BY <2>1, <2>2, SameBytes DEF Stored
<1> QED BY <1>1, <1>2

\* The tool reports success.
LEMMA EndSteps ==
    ASSUME BaseInv, punctual, PunctualInv, Ends
    PROVE  PunctualInv'
<1>1. /\ Session(host, dev, to_dev, to_host) /\ dev.pc # "kernel"
      /\ host.pc = "final" /\ to_host # <<>> /\ dev' = dev /\ host'.pc = "closed" /\ ~ Sending(host')
      /\ to_dev' = Written(<<SERIAL_LOADER_END_ACK>>) /\ confirmed' = host.image
  BY DEF PunctualInv, Ends, Reads, Sending
<1>2. ASSUME Quiet(dev, to_dev', confirmed') PROVE PunctualInv'
  <2>1. dev'.pc # "kernel" /\ host'.pc # "handshake"
    BY <1>1
  <2> QED BY <1>1, <1>2, <2>1 DEF PunctualInv
<1>3. /\ dev.pc \in LoaderStates /\ to_dev = <<>> => to_dev' = <<SERIAL_LOADER_END_ACK>>
      /\ dev.pc \notin LoaderStates => to_dev' = <<>>
  BY <1>1, WritesByte, FourSignals
<1>4. CASE Complete(host, dev, to_dev, to_host) /\ dev.buffer = host.image
  <2>1. dev.pc = "end_ack" /\ to_dev' = <<SERIAL_LOADER_END_ACK>>
    BY <1>3, <1>4 DEF Complete, LoaderStates
  <2>2. Quiet(dev, to_dev', confirmed')
    BY <1>1, <1>4, <2>1 DEF Quiet
  <2> QED BY <1>2, <2>2
<1>5. CASE Gone(host, dev, to_dev, to_host)
  <2>1. \/ dev.pc = "off" /\ to_dev' = <<>>
        \/ dev.pc = "wait_init" /\ to_dev' = <<SERIAL_LOADER_END_ACK>>
    BY <1>3, <1>5 DEF Gone, LoaderStates
  <2>2. PICK m \in Nat \ {0} : m = SIZE_BYTES
    BY Numbers
  <2>3. Len(<<SERIAL_LOADER_END_ACK>>) <= SIZE_BYTES + 1
    BY <2>2
  <2>4. Quiet(dev, to_dev', confirmed')
    BY <2>1, <2>3 DEF Quiet
  <2> QED BY <1>2, <2>4
<1> QED BY <1>1, <1>4, <1>5, FinalShapes

\* The board is switched on or off.
LEMMA RestartSteps ==
    ASSUME BaseInv, PunctualInv, Restarts
    PROVE  PunctualInv'
<1>1. /\ dev'.pc \in {"off", "wait_init"} /\ to_dev' = <<>> /\ host' = host /\ to_host' = to_host
  BY DEF Restarts
<1>2. Quiet(dev', to_dev', confirmed') /\ dev'.pc # "kernel"
  BY <1>1 DEF Quiet
<1>3. Asking(dev, to_dev, to_host) => Asking(dev', to_dev', to_host')
  BY <1>1 DEF Asking
<1>4. ASSUME Sending(host), Session(host, dev, to_dev, to_host)
      PROVE  Session(host', dev', to_dev', to_host')
  <2>1. CASE Doomed(host, dev, to_dev, to_host)
    BY <1>1, <2>1 DEF Session, Doomed
  <2>2. CASE Misled(host, dev, to_dev, to_host)
    <3>1. to_host = <<SERIAL_LOADER_INIT_ACK>> /\ host.idx = 0
          /\ (host.pc = "send" \/ (host.pc = "echo" /\ host.image[1] = SERIAL_LOADER_INIT_ACK))
      BY <2>2 DEF Misled
    <3>2. host.idx + 1 = 1
      BY <3>1
    <3>3. host.pc = "echo" => to_host = <<host.image[host.idx + 1]>>
      BY <3>1, <3>2
    <3>4. Gone(host', dev', to_dev', to_host')
      BY <1>1, <3>1, <3>3 DEF Gone
    <3> QED BY <3>4 DEF Session
  <2>3. CASE Passing(host, dev, to_dev, to_host)
    <3>1. to_host = <<>> \/ (host.pc = "echo" /\ to_host = <<host.image[host.idx + 1]>>)
      BY <2>3 DEF Passing
    <3>2. Gone(host', dev', to_dev', to_host')
      BY <1>1, <3>1 DEF Gone
    <3> QED BY <3>2 DEF Session
  <2>4. CASE Complete(host, dev, to_dev, to_host) \/ Gone(host, dev, to_dev, to_host)
    <3>1. Gone(host', dev', to_dev', to_host')
      BY <1>1, <2>4 DEF Gone, Complete
    <3> QED BY <3>1 DEF Session
  <2>5. CASE Echoing(host, dev, to_dev, to_host)
    <3>1. Gone(host', dev', to_dev', to_host')
      BY <1>1, <2>5 DEF Gone, Echoing
    <3> QED BY <3>1 DEF Session
  <2>6. CASE \/ Sizing(host, dev, to_dev, to_host) \/ Skipping(host, dev, to_dev, to_host)
             \/ Sunk(host, dev, to_dev, to_host) \/ Stuck(host, to_dev, to_host)
    <3>1. to_host = <<>>
      BY <2>6 DEF Sizing, Skipping, Sunk, Stuck
    <3>2. Gone(host', dev', to_dev', to_host')
      BY <1>1, <3>1 DEF Gone
    <3> QED BY <3>2 DEF Session
  <2> QED BY <1>4, <2>1, <2>2, <2>3, <2>4, <2>5, <2>6 DEF Session
<1> QED BY <1>1, <1>2, <1>3, <1>4 DEF PunctualInv

\* The loader takes a byte.
LEMMA ReceiveSteps ==
    ASSUME BaseInv, punctual, PunctualInv, Receives
    PROVE  PunctualInv'
<1>1. PICK answer : DevTakes(answer) /\ DevCase(answer) /\ DevPlace(dev')
  BY DEF Receives
<1>2. host' = host /\ confirmed' = confirmed /\ Quiet(dev, to_dev, confirmed)
  BY <1>1 DEF DevTakes, PunctualInv
<1>3. /\ Quiet(dev', to_dev', confirmed)
      /\ dev'.pc = "kernel" => dev'.buffer = confirmed /\ dev.pc = "end_ack"
  BY <1>1, <1>2, QuietReceives
<1>4. host.pc = "handshake" => Asking(dev', to_dev', to_host')
  BY <1>1, AskingReceives DEF PunctualInv
<1>5. Sending(host) => Session(host, dev', to_dev', to_host') /\ dev.pc # "end_ack"
  <2> SUFFICES ASSUME Sending(host)
               PROVE  Session(host, dev', to_dev', to_host') /\ dev.pc # "end_ack"
    OBVIOUS
  <2>1. host.image \in Images
    BY DEF BaseInv, HostImage, Sending
  <2>2. Session(host, dev, to_dev, to_host)
    BY DEF PunctualInv
  <2> QED BY <1>1, <1>2, <2>1, <2>2, SessionReceives
<1> QED BY <1>2, <1>3, <1>4, <1>5 DEF PunctualInv

\* Every step over a punctual line keeps the invariant.
LEMMA NextPunctualInv ==
    ASSUME BaseInv, BaseInv', punctual, PunctualInv, [Next]_vars
    PROVE  PunctualInv'
<1>1. CASE Asks \/ Feeds
  BY <1>1, AskingSteps
<1>2. CASE Leaves /\ host'.pc # "closed"
  BY <1>2, AskingSteps
<1>3. CASE Leaves /\ host'.pc = "closed"
  <2>1. host'.pc # "handshake" /\ ~ Sending(host')
    BY <1>3 DEF Sending
  <2>2. UNCHANGED <<dev, to_dev, confirmed>>
    BY <1>3 DEF Leaves
  <2> QED BY <2>1, <2>2 DEF PunctualInv
<1>4. CASE Starts
  BY <1>4, StartSteps
<1>5. CASE Sends
  <2>1. host.image \in Images
    BY <1>5 DEF BaseInv, HostImage, Sends
  <2> QED BY <1>5, <2>1, SendSteps
<1>6. CASE Advances
  BY <1>6, AdvanceSteps
<1>7. CASE Ends
  BY <1>7, EndSteps
<1>8. CASE Restarts
  BY <1>8, RestartSteps
<1>9. CASE Receives
  BY <1>9, ReceiveSteps
<1>10. CASE UNCHANGED <<host, dev, to_dev, to_host, punctual, confirmed>>
  BY <1>10 DEF PunctualInv
<1> QED BY <1>1, <1>2, <1>3, <1>4, <1>5, <1>6, <1>7, <1>8, <1>9, <1>10, StepCases

\* The initial states.
LEMMA InitPunctualInv == Init => PunctualInv
<1> SUFFICES ASSUME Init PROVE PunctualInv
  OBVIOUS
<1>1. host.pc = "closed" /\ dev.pc = "off" /\ to_dev = <<>>
  BY DEF Init
<1> QED BY <1>1 DEF PunctualInv, Quiet, Sending

-----------------------------------------------------------------------------
(* Both lines                                                              *)

\* The tool and the loader are in step, or the tool has lost the loader and ends
\* without reporting success: over a punctual line for every image, signals
\* among its bytes included, and over a late one for images without signals.
THEOREM InStep == Spec => []((punctual => PunctualInv) /\ (Late => SuccessInv))
<1>1. Init => (punctual => PunctualInv)
  BY InitPunctualInv
<1>2. BaseInv /\ BaseInv' /\ (punctual => PunctualInv) /\ [Next]_vars => (punctual => PunctualInv)'
  <2> SUFFICES ASSUME BaseInv, BaseInv', punctual => PunctualInv, [Next]_vars, punctual'
               PROVE  PunctualInv'
    OBVIOUS
  <2>1. punctual
    BY NextPunctual
  <2> QED BY <2>1, NextPunctualInv
<1> QED BY <1>1, <1>2, Places, LateInStep, PTL DEF Spec

\* When the tool reports success, the board holds the whole image or has gone
\* on: for every image over a punctual line, and over a late one, however late,
\* for every image without a signal.
THEOREM SuccessHolds == Spec => SuccessMeansReceived
<1> DEFINE A == (/\ host.pc = "final" /\ host'.pc = "closed"
                 /\ to_host # <<>> /\ to_host' # to_host /\ Head(to_host) = SERIAL_LOADER_END)
                => \/ dev.pc \in {"end_ack", "kernel"} /\ dev.buffer = host.image
                   \/ dev.pc \in {"off", "wait_init"}
                   \/ ~ punctual /\ to_host' # <<>> /\ Head(to_host') = SERIAL_LOADER_INIT_ACK
<1>1. BaseInv /\ (punctual => PunctualInv) /\ (Late => SuccessInv) /\ [Next]_vars => [A]_vars
  <2> SUFFICES ASSUME BaseInv, punctual => PunctualInv, Late => SuccessInv, [Next]_vars,
                      host.pc = "final", host'.pc = "closed",
                      to_host # <<>>, to_host' # to_host, Head(to_host) = SERIAL_LOADER_END
               PROVE  \/ dev.pc \in {"end_ack", "kernel"} /\ dev.buffer = host.image
                      \/ dev.pc \in {"off", "wait_init"}
                      \/ ~ punctual /\ to_host' # <<>> /\ Head(to_host') = SERIAL_LOADER_INIT_ACK
    BY DEF A
  <2>1. CASE punctual
    <3>1. Session(host, dev, to_dev, to_host)
      BY <2>1 DEF PunctualInv, Sending
    <3>2. \/ Complete(host, dev, to_dev, to_host) /\ dev.buffer = host.image
          \/ Gone(host, dev, to_dev, to_host)
      BY <3>1, FinalShapes
    <3> QED BY <3>2 DEF Complete, Gone
  <2>2. CASE ~ punctual
    <3>1. SuccessInv
      BY <2>2 DEF Late
    <3>2. to_host[1] = SERIAL_LOADER_END
      BY HostReads
    <3>3. to_host' = Tail(to_host)
      <4>1. ~ Receives
        BY DEF Receives, DevTakes
      <4>2. ~ (ReceiveInit \/ ReceiveSize \/ ReceiveData \/ ReceiveEndAck)
        BY <4>1, InitReceived, SizeReceived, DataReceived, EndAckReceived
      <4>3. ~ UNCHANGED vars /\ ~ Operator /\ ~ Interrupt /\ ~ Reset /\ ~ PowerOn
        BY DEF vars, Operator, Open, Interrupt, Reset, PowerOn
      <4>4. Tool
        BY <4>2, <4>3 DEF Next, Loader
      <4> QED BY <4>4 DEF Tool, HandshakeTimeout, HandshakeRead, SendByte, ReadEcho, ReadFinal,
                          TransferTimeout
    <3> QED BY <2>2, <3>1, <3>2, <3>3, FinalRead
  <2> QED BY <2>1, <2>2
<1>2. Spec => [][A]_vars
  BY <1>1, Places, InStep, PTL DEF Spec
<1> QED BY <1>2 DEF SuccessMeansReceived, A

\* A kernel that runs holds, byte for byte, the image of the session that
\* acknowledged the end of its transfer, for every number of interruptions and
\* resets: every image, signals among its bytes included, over a punctual line;
\* over a late one every image without a signal, when the tool repeats INIT at
\* most SIZE_BYTES + 1 times before the loader reads the first.
THEOREM LaunchHolds ==
    ASSUME MaxPending <= SIZE_BYTES + 1
    PROVE  Spec => []LaunchedIntact
<1>1. Init => (Late => LaunchInv)
  BY InitLaunch
<1>2. BaseInv /\ BaseInv' /\ (Late => SuccessInv) /\ (Late => LaunchInv) /\ [Next]_vars
      => (Late => LaunchInv)'
  <2> SUFFICES ASSUME BaseInv, BaseInv', Late => SuccessInv, Late => LaunchInv, [Next]_vars, Late'
               PROVE  LaunchInv'
    OBVIOUS
  <2>1. Late
    BY NextPunctual DEF Late
  <2> QED BY <2>1, NextLaunch
<1>3. BaseInv /\ (Late => LaunchInv) /\ (punctual => PunctualInv) => LaunchedIntact
  BY DEF BaseInv, Late, LaunchInv, Started, LaunchedIntact, PunctualInv
<1> QED BY <1>1, <1>2, <1>3, Places, InStep, PTL DEF Spec
=============================================================================
