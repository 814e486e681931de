------------------------- MODULE SolverModelProofs --------------------------
(***************************************************************************)
(* What the runs check of the samples that the solver draws and of the     *)
(* problem that it solves over them, for every message and every problem.  *)
(***************************************************************************)
EXTENDS SolverInput, Composition, Sums, SequenceTheorems

-----------------------------------------------------------------------------
(* SolverInput: the varint of a number                                     *)

\* The bytes of a message: none is 0.
Bytes == Seq(1 .. 255)

\* A varint goes up to its first byte without the high bit.
IsVarint(v) ==
    /\ v \in Bytes
    /\ Len(v) >= 1 /\ v[Len(v)] < 128
    /\ \A i \in 1 .. Len(v) : i < Len(v) => v[i] >= 128

\* No varint is cut at the end.
IsWhole(b) == b \in Bytes /\ (Len(b) > 0 => b[Len(b)] < 128)

LEMMA VarintSizeIs ==
    ASSUME NEW n \in Int32
    PROVE  /\ VarintSize(n) \in 1 .. 10
           /\ n < 0 => VarintSize(n) = 10
           /\ n >= 0 => /\ VarintSize(n) \in 1 .. 5
                        /\ VarintSize(n) < 5 => n < Radix[VarintSize(n) + 1]
                        /\ VarintSize(n) > 1 => n >= Radix[VarintSize(n)]
<1>1. CASE n < 0
  BY <1>1, SMT DEF VarintSize, Int32
<1>2. CASE n >= 0
  <2>1. \E size \in 1 .. 5 : /\ size < 5 => n < Radix[size + 1]
                             /\ size > 1 => n >= Radix[size]
    <3>1. CASE n < 128
      BY <1>2, <3>1, SMT DEF Radix, Int32
    <3>2. CASE n >= 128 /\ n < 16384
      BY <1>2, <3>2, SMT DEF Radix, Int32
    <3>3. CASE n >= 16384 /\ n < 2097152
      BY <1>2, <3>3, SMT DEF Radix, Int32
    <3>4. CASE n >= 2097152 /\ n < 268435456
      BY <1>2, <3>4, SMT DEF Radix, Int32
    <3>5. CASE n >= 268435456
      BY <1>2, <3>5, SMT DEF Radix, Int32
    <3> QED
      BY <3>1, <3>2, <3>3, <3>4, <3>5, SMT DEF Int32
  <2>2. VarintSize(n) = CHOOSE size \in 1 .. 5 : /\ size < 5 => n < Radix[size + 1]
                                                 /\ size > 1 => n >= Radix[size]
    BY <1>2, SMT DEF VarintSize, Int32
  <2>3. /\ VarintSize(n) \in 1 .. 5
        /\ VarintSize(n) < 5 => n < Radix[VarintSize(n) + 1]
        /\ VarintSize(n) > 1 => n >= Radix[VarintSize(n)]
    BY <2>1, <2>2, Zenon
  <2> QED
    BY <1>2, <2>3, SMT DEF Int32
<1> QED
  BY <1>1, <1>2, SMT DEF Int32

LEMMA SeptetIs ==
    ASSUME NEW n \in Int32, NEW i \in 1 .. 10
    PROVE  /\ Septet(n, i) \in 0 .. 127
           /\ Septet(n, 1) = n % 128
           /\ Septet(n, 2) = (n \div 128) % 128
           /\ Septet(n, 3) = (n \div 16384) % 128
           /\ Septet(n, 4) = (n \div 2097152) % 128
           /\ Septet(n, 5) = (n \div 268435456) % 128
<1>1. /\ Septet(n, 1) = (n \div 1) % 128
      /\ Septet(n, 2) = (n \div 128) % 128
      /\ Septet(n, 3) = (n \div 16384) % 128
      /\ Septet(n, 4) = (n \div 2097152) % 128
      /\ Septet(n, 5) = (n \div 268435456) % 128
  BY SMT DEF Septet, Radix
<1>2. n \div 1 = n
  BY SMT DEF Int32
<1>3. \A x \in Int : x % 128 \in 0 .. 127
  OBVIOUS
<1>4. i <= 5 => n \div Radix[i] \in Int
  BY SMT DEF Radix, Int32
<1>5. Septet(n, i) \in 0 .. 127
  <2>1. CASE i <= 5
    <3>1. Septet(n, i) = (n \div Radix[i]) % 128
      BY <2>1 DEF Septet
    <3> QED
      BY <1>3, <1>4, <2>1, <3>1
  <2>2. CASE ~ (i <= 5)
    <3>1. Septet(n, i) = (-1) % 128
      BY <2>2 DEF Septet
    <3>2. -1 \in Int
      OBVIOUS
    <3> QED
      BY <1>3, <3>1, <3>2, Zenon
  <2> QED
    BY <2>1, <2>2
<1> QED
  BY <1>1, <1>2, <1>5

\* The bytes of a number that is not 0 are a varint without a byte 0.
LEMMA VarintIsVarint ==
    ASSUME NEW n \in Int32
    PROVE  /\ Len(Varint(n)) = VarintSize(n)
           /\ \A i \in 1 .. VarintSize(n) :
                 Varint(n)[i] = IF i < VarintSize(n) THEN 128 + Septet(n, i)
                                ELSE IF n < 0 THEN 1 ELSE Septet(n, i)
           /\ n # 0 => IsVarint(Varint(n))
<1> DEFINE z == VarintSize(n)
<1>1. z \in 1 .. 10
  BY VarintSizeIs
<1>2. \A i \in 1 .. z : Varint(n)[i] = IF i < z THEN 128 + Septet(n, i)
                                       ELSE IF n < 0 THEN 1 ELSE Septet(n, i)
  BY DEF Varint
<1>3. ASSUME NEW i \in 1 .. z
      PROVE  /\ Varint(n)[i] \in 0 .. 255
             /\ n # 0 => Varint(n)[i] \in 1 .. 255
             /\ i < z => Varint(n)[i] >= 128
             /\ i = z => Varint(n)[i] < 128
  <2>1. Septet(n, i) \in 0 .. 127
    BY <1>1, SeptetIs
  <2>2. CASE i < z
    BY <1>2, <2>1, <2>2
  <2>3. CASE i = z /\ n < 0
    BY <1>2, <2>3
  <2>4. CASE i = z /\ n >= 0
    <3>1. Varint(n)[i] = Septet(n, z)
      BY <1>1, <1>2, <2>4, SMT DEF Int32
    <3>2. n # 0 => Septet(n, z) # 0
      <4>1. z \in 1 .. 5 /\ (z < 5 => n < Radix[z + 1]) /\ (z > 1 => n >= Radix[z])
        BY <2>4, VarintSizeIs
      <4>a. /\ Septet(n, 1) = n % 128
            /\ Septet(n, 2) = (n \div 128) % 128
            /\ Septet(n, 3) = (n \div 16384) % 128
            /\ Septet(n, 4) = (n \div 2097152) % 128
            /\ Septet(n, 5) = (n \div 268435456) % 128
        BY <1>1, SeptetIs, SMT
      <4> HIDE DEF z
      <4>2. CASE z = 1
        BY <2>4, <4>1, <4>2, <4>a, SMT DEF Radix, Int32
      <4>3. CASE z = 2
        BY <2>4, <4>1, <4>3, <4>a, SMT DEF Radix, Int32
      <4>4. CASE z = 3
        BY <2>4, <4>1, <4>4, <4>a, SMT DEF Radix, Int32
      <4>5. CASE z = 4
        BY <2>4, <4>1, <4>5, <4>a, SMT DEF Radix, Int32
      <4>6. CASE z = 5
        BY <2>4, <4>1, <4>6, <4>a, SMT DEF Radix, Int32
      <4> QED
        BY <4>1, <4>2, <4>3, <4>4, <4>5, <4>6
    <3> QED
      BY <2>1, <2>4, <3>1, <3>2
  <2> QED
    BY <1>1, <2>2, <2>3, <2>4, SMT DEF Int32
<1>4. Varint(n) \in [1 .. z -> 0 .. 255]
  BY <1>3 DEF Varint
<1>5. Len(Varint(n)) = z
  BY <1>1, <1>4
<1>6. n # 0 => Varint(n) \in Bytes
  <2>1. n # 0 => Varint(n) \in [1 .. z -> 1 .. 255]
    BY <1>3 DEF Varint
  <2> QED
    <3>1. z \in Nat
      BY <1>1
    <3> HIDE DEF z
    <3> QED
      BY <2>1, <3>1, SeqDef DEF Bytes
<1>7. n # 0 => IsVarint(Varint(n))
  <2> HIDE DEF z
  <2> QED
    BY <1>1, <1>3, <1>5, <1>6 DEF IsVarint
<1> QED
  BY <1>2, <1>5, <1>7

\* What is written as a varint is read back.
LEMMA ValueOfVarint ==
    ASSUME NEW n \in Int32
    PROVE  Value(Varint(n)) = n
<1> DEFINE z == VarintSize(n)
           v == Varint(n)
           D(i) == IF i <= Len(v) THEN v[i] % 128 ELSE 0
<1>1. z \in 1 .. 10 /\ Len(v) = z
  BY VarintSizeIs, VarintIsVarint
<1>2. /\ Septet(n, 1) = n % 128
      /\ Septet(n, 2) = (n \div 128) % 128
      /\ Septet(n, 3) = (n \div 16384) % 128
      /\ Septet(n, 4) = (n \div 2097152) % 128
      /\ Septet(n, 5) = (n \div 268435456) % 128
  BY <1>1, SeptetIs, SMT
<1>3. \A i \in 1 .. 5 : D(i) = Septet(n, i)
  <2> TAKE i \in 1 .. 5
  <2>1. Septet(n, i) \in 0 .. 127
    BY SeptetIs
  <2>2. CASE i < z
    <3>1. v[i] = 128 + Septet(n, i)
      BY <1>1, <2>2, VarintIsVarint
    <3>2. \A x \in 0 .. 127 : (128 + x) % 128 = x
      OBVIOUS
    <3>3. D(i) = v[i] % 128
      BY <1>1, <2>2
    <3> QED
      BY <2>1, <3>1, <3>2, <3>3, Zenon
  <2>3. CASE i = z
    <3>1. n >= 0
      BY <2>3, VarintSizeIs, SMT DEF Int32
    <3>2. v[i] = Septet(n, i)
      BY <1>1, <2>3, <3>1, VarintIsVarint, SMT DEF Int32
    <3>3. \A x \in 0 .. 127 : x % 128 = x
      OBVIOUS
    <3>4. D(i) = v[i] % 128
      BY <1>1, <2>3
    <3> QED
      BY <2>1, <3>2, <3>3, <3>4, Zenon
  <2>4. CASE i > z
    <3>1. /\ n >= 0 /\ z \in 1 .. 4 /\ n < Radix[z + 1]
      BY <1>1, <2>4, VarintSizeIs, SMT DEF Int32
    <3>2. D(i) = 0
      BY <1>1, <2>4
    <3>3. Septet(n, i) = 0
      <4> HIDE DEF z, D
      <4>1. CASE i = 2
        BY <1>2, <2>4, <3>1, <4>1, SMT DEF Radix, Int32
      <4>2. CASE i = 3
        BY <1>2, <2>4, <3>1, <4>2, SMT DEF Radix, Int32
      <4>3. CASE i = 4
        BY <1>2, <2>4, <3>1, <4>3, SMT DEF Radix, Int32
      <4>4. CASE i = 5
        BY <1>2, <2>4, <3>1, <4>4, SMT DEF Radix, Int32
      <4> QED
        BY <2>4, <3>1, <4>1, <4>2, <4>3, <4>4
    <3> QED
      BY <3>2, <3>3
  <2> QED
    BY <1>1, <2>2, <2>3, <2>4
<1>4. Value(v) = D(1) + D(2) * Radix[2] + D(3) * Radix[3] + D(4) * Radix[4]
                 + (IF D(5) % 16 < 8 THEN D(5) % 16 ELSE (D(5) % 16) - 16) * Radix[5]
  BY SMT DEF Value
<1>5. /\ D(1) = n % 128 /\ D(2) = (n \div 128) % 128 /\ D(3) = (n \div 16384) % 128
      /\ D(4) = (n \div 2097152) % 128 /\ D(5) = (n \div 268435456) % 128
  <2> HIDE DEF D
  <2> QED
    BY <1>2, <1>3, SMT
<1> HIDE DEF D, v, z
<1>6. D(1) + D(2) * 128 + D(3) * 16384 + D(4) * 2097152
      + (IF D(5) % 16 < 8 THEN D(5) % 16 ELSE (D(5) % 16) - 16) * 268435456 = n
  <2>1. n = (n % 128) + 128 * (n \div 128)
    BY SMT DEF Int32
  <2>2. n \div 128 = ((n \div 128) % 128) + 128 * (n \div 16384)
    BY SMT DEF Int32
  <2>3. n \div 16384 = ((n \div 16384) % 128) + 128 * (n \div 2097152)
    BY SMT DEF Int32
  <2>4. n \div 2097152 = ((n \div 2097152) % 128) + 128 * (n \div 268435456)
    BY SMT DEF Int32
  <2>5. PICK q \in Int : q = n \div 268435456 /\ -8 <= q /\ q <= 7
    BY SMT DEF Int32
  <2>6. (IF (q % 128) % 16 < 8 THEN (q % 128) % 16 ELSE ((q % 128) % 16) - 16) = q
    BY <2>5, SMT
  <2>7. (IF D(5) % 16 < 8 THEN D(5) % 16 ELSE (D(5) % 16) - 16) = q
    BY <1>5, <2>5, <2>6, SMT
  <2>8. /\ D(1) \in Int /\ D(2) \in Int /\ D(3) \in Int /\ D(4) \in Int
        /\ n \in Int /\ n \div 128 \in Int /\ n \div 16384 \in Int
        /\ n \div 2097152 \in Int
    BY <1>5, SMT DEF Int32
  <2>9. /\ n = D(1) + 128 * (n \div 128)
        /\ n \div 128 = D(2) + 128 * (n \div 16384)
        /\ n \div 16384 = D(3) + 128 * (n \div 2097152)
        /\ n \div 2097152 = D(4) + 128 * q
    BY <1>5, <2>1, <2>2, <2>3, <2>4, <2>5, SMT
  <2>10. \A a, b, c, d, e, f, g, h, k \in Int :
             a = b + 128 * c /\ c = d + 128 * e /\ e = f + 128 * g /\ g = h + 128 * k
             => b + d * 128 + f * 16384 + h * 2097152 + k * 268435456 = a
    BY SMT
  <2> QED
    BY <2>7, <2>8, <2>9, <2>10, SMT
<1> QED
  BY <1>4, <1>6, SMT DEF Radix, v

\* The numbers of the fields differ, and so do their tags.
LEMMA TagsDiffer ==
    ASSUME NEW f \in Fields, NEW g \in Fields, Tag(f) = Tag(g)
    PROVE  f = g
<1>1. \A h \in Fields : 8 * Number[h] \in Int32 /\ Number[h] \in Int
  BY SMT DEF Fields, Number, Int32
<1>2. Value(Tag(f)) = 8 * Number[f] /\ Value(Tag(g)) = 8 * Number[g]
  BY <1>1, ValueOfVarint, Zenon DEF Tag
<1>3. Number[f] = Number[g]
  BY <1>1, <1>2
<1> QED
  BY <1>3 DEF Fields, Number

LEMMA TagIsVarint == \A f \in Fields : IsVarint(Tag(f))
<1>1. \A h \in Fields : 8 * Number[h] \in Int32 /\ 8 * Number[h] # 0
  BY SMT DEF Fields, Number, Int32
<1> QED
  BY <1>1, VarintIsVarint, Zenon DEF Tag

-----------------------------------------------------------------------------
(* SolverInput: the varints of a string of bytes                           *)

LEMMA ByteOf ==
    ASSUME NEW b \in Bytes, NEW i \in 1 .. Len(b)
    PROVE  b[i] \in 1 .. 255
  BY ElementOfSeq DEF Bytes

\* The index of the last byte of the varint at p.
EndOf(b, p) == Min({j \in Ends(b) : j >= p} \union {Len(b)})

\* c is b and a varint v after it.
Extends(b, v, c) == IsWhole(b) /\ IsVarint(v) /\ c = b \o v

LEMMA ExtendedBytes ==
    ASSUME NEW b, NEW v, NEW c, Extends(b, v, c)
    PROVE  /\ c \in Bytes /\ Len(c) = Len(b) + Len(v) /\ Len(b) \in Nat /\ Len(v) \in Nat
           /\ Len(v) >= 1 /\ DOMAIN b = 1 .. Len(b) /\ DOMAIN c = 1 .. Len(c)
           /\ \A i \in 1 .. Len(b) : c[i] = b[i]
           /\ \A i \in 1 .. Len(v) : c[Len(b) + i] = v[i]
<1>1. b \in Seq(1 .. 255) /\ v \in Seq(1 .. 255) /\ c = b \o v /\ Len(v) >= 1
  BY DEF Extends, IsWhole, IsVarint, Bytes
<1>2. /\ b \o v \in Seq(1 .. 255) /\ Len(b \o v) = Len(b) + Len(v)
      /\ \A i \in 1 .. Len(b) + Len(v) :
            (b \o v)[i] = IF i <= Len(b) THEN b[i] ELSE v[i - Len(b)]
  BY <1>1, ConcatProperties
<1>3. Len(b) \in Nat /\ Len(v) \in Nat /\ DOMAIN b = 1 .. Len(b)
  BY <1>1
<1>4. c \in Seq(1 .. 255) /\ Len(c) = Len(b) + Len(v) /\ DOMAIN c = 1 .. Len(c)
  BY <1>1, <1>2
<1>5. \A i \in 1 .. Len(b) : c[i] = b[i]
  BY <1>1, <1>2, <1>3
<1>6. ASSUME NEW i \in 1 .. Len(v) PROVE c[Len(b) + i] = v[i]
  <2>1. Len(b) + i \in 1 .. Len(b) + Len(v) /\ ~ (Len(b) + i <= Len(b)) /\ Len(b) + i - Len(b) = i
    BY <1>3
  <2> QED
    BY <1>1, <1>2, <2>1
<1> QED
  BY <1>1, <1>3, <1>4, <1>5, <1>6 DEF Bytes

LEMMA EndsOfExtended ==
    ASSUME NEW b, NEW v, NEW c, Extends(b, v, c)
    PROVE  /\ IsWhole(c)
           /\ Ends(c) = Ends(b) \union {Len(c)}
           /\ Len(b) > 0 => Len(b) \in Ends(b)
<1>1. /\ c \in Bytes /\ Len(c) = Len(b) + Len(v) /\ Len(b) \in Nat /\ Len(v) \in Nat
      /\ Len(v) >= 1 /\ DOMAIN b = 1 .. Len(b) /\ DOMAIN c = 1 .. Len(c)
      /\ \A i \in 1 .. Len(b) : c[i] = b[i]
      /\ \A i \in 1 .. Len(v) : c[Len(b) + i] = v[i]
  BY ExtendedBytes
<1>2. /\ v[Len(v)] < 128 /\ \A i \in 1 .. Len(v) : i < Len(v) => v[i] >= 128
      /\ v \in Bytes /\ b \in Bytes
      /\ Len(b) > 0 => b[Len(b)] < 128
  BY DEF Extends, IsVarint, IsWhole
<1>3. c[Len(c)] < 128
  <2>1. Len(v) \in 1 .. Len(v)
    BY <1>1
  <2> QED
    BY <1>1, <1>2, <2>1
<1>4. ASSUME NEW j \in 1 .. Len(c)
      PROVE  c[j] < 128 <=> j \in Ends(b) \/ j = Len(c)
  <2>1. CASE j <= Len(b)
    <3>1. j \in 1 .. Len(b)
      BY <1>1, <2>1
    <3>2. c[j] = b[j] /\ j # Len(c)
      BY <1>1, <3>1
    <3> QED
      BY <1>1, <3>1, <3>2 DEF Ends
  <2>2. CASE j > Len(b)
    <3>1. j - Len(b) \in 1 .. Len(v) /\ Len(b) + (j - Len(b)) = j
      BY <1>1, <2>2
    <3>2. c[j] = v[j - Len(b)]
      BY <1>1, <3>1
    <3>3. j \notin Ends(b)
      BY <1>1, <2>2 DEF Ends
    <3>4. j # Len(c) => v[j - Len(b)] >= 128
      BY <1>1, <1>2, <3>1
    <3>5. v[j - Len(b)] \in 1 .. 255
      BY <1>2, <3>1, ByteOf, Zenon
    <3>6. \A x \in 1 .. 255 : x >= 128 => ~ (x < 128)
      OBVIOUS
    <3>7. j # Len(c) => ~ (c[j] < 128)
      BY <3>2, <3>4, <3>5, <3>6, Zenon
    <3> QED
      BY <1>3, <3>3, <3>7, Zenon
  <2> QED
    BY <1>1, <2>1, <2>2
<1>5. Ends(b) \subseteq 1 .. Len(c) /\ Len(c) \in 1 .. Len(c)
  BY <1>1 DEF Ends
<1>6. Ends(c) = {j \in 1 .. Len(c) : c[j] < 128}
  BY <1>1 DEF Ends
<1>7. Ends(c) = Ends(b) \union {Len(c)}
  BY <1>4, <1>5, <1>6
<1>8. Len(b) > 0 => Len(b) \in Ends(b)
  BY <1>1, <1>2 DEF Ends
<1> QED
  BY <1>1, <1>3, <1>7, <1>8 DEF IsWhole

LEMMA EndOfIs ==
    ASSUME NEW b \in Bytes, NEW p \in 1 .. Len(b), NEW e \in Ends(b), e >= p,
           \A j \in Ends(b) : j >= p => e =< j
    PROVE  EndOf(b, p) = e
<1> DEFINE S == {j \in Ends(b) : j >= p} \union {Len(b)}
<1>1. Ends(b) \subseteq 1 .. Len(b) /\ Len(b) \in Nat
  BY DEF Ends, Bytes
<1>2. S \in SUBSET Int /\ e \in S
  BY <1>1
<1>3. \A y \in S : e =< y
  BY <1>1
<1> HIDE DEF S
<1>4. Min(S) = e
  BY <1>2, <1>3, MinIsLeast
<1> QED
  BY <1>4 DEF EndOf, S

\* A varint after the others changes none of them and is the next one.
LEMMA VarintsOfExtended ==
    ASSUME NEW b, NEW v, NEW c, Extends(b, v, c)
    PROVE  /\ \A p \in 1 .. Len(b) : VarintAt(c, p) = VarintAt(b, p)
           /\ VarintAt(c, Len(b) + 1) = v
<1>1. /\ c \in Bytes /\ Len(c) = Len(b) + Len(v) /\ Len(b) \in Nat /\ Len(v) \in Nat
      /\ Len(v) >= 1
      /\ \A i \in 1 .. Len(b) : c[i] = b[i]
      /\ \A i \in 1 .. Len(v) : c[Len(b) + i] = v[i]
  BY ExtendedBytes
<1>2. /\ Ends(c) = Ends(b) \union {Len(c)}
      /\ Len(b) > 0 => Len(b) \in Ends(b)
  BY EndsOfExtended
<1>3. b \in Bytes /\ v \in Bytes
  BY DEF Extends, IsWhole, IsVarint
<1>4. Ends(b) \subseteq 1 .. Len(b)
  BY <1>3 DEF Ends, Bytes
<1>5. ASSUME NEW p \in 1 .. Len(b) PROVE VarintAt(c, p) = VarintAt(b, p)
  <2> DEFINE T == {j \in Ends(b) : j >= p}
  <2>1. T \in SUBSET Nat /\ T # {}
    BY <1>1, <1>2, <1>4
  <2>2. PICK e \in T : \A j \in T : e <= j
    <3> HIDE DEF T
    <3> QED
      BY <2>1, LeastNat
  <2>3. e \in Ends(b) /\ e >= p /\ \A j \in Ends(b) : j >= p => e =< j
    BY <2>2
  <2>4. EndOf(b, p) = e
    BY <1>3, <2>3, EndOfIs
  <2>5. e \in 1 .. Len(b) /\ e \in Ends(c) /\ p \in 1 .. Len(c)
    BY <1>1, <1>2, <1>4, <2>3
  <2>6. \A j \in Ends(c) : j >= p => e =< j
    <3> SUFFICES ASSUME NEW j \in Ends(c), j >= p PROVE e =< j
      OBVIOUS
    <3>1. CASE j \in Ends(b)
      BY <2>3, <3>1
    <3>2. CASE j = Len(c)
      <4>1. e <= Len(b)
        BY <1>1, <2>5
      <4> QED
        BY <1>1, <2>5, <3>2, <4>1
    <3> QED
      BY <1>2, <3>1, <3>2
  <2>7. EndOf(c, p) = e
    BY <1>1, <2>3, <2>5, <2>6, EndOfIs
  <2>8. SubSeq(c, p, e) = SubSeq(b, p, e)
    <3>1. \A i \in p .. e : c[i] \in 1 .. 255 /\ b[i] \in 1 .. 255 /\ c[i] = b[i]
      <4> TAKE i \in p .. e
      <4>1. i \in 1 .. Len(b) /\ i \in 1 .. Len(c)
        BY <1>1, <2>5
      <4> QED
        BY <1>1, <1>3, <4>1, ByteOf
    <3>2. /\ SubSeq(c, p, e) \in Seq(1 .. 255) /\ Len(SubSeq(c, p, e)) = e - p + 1
          /\ \A i \in 1 .. e - p + 1 : SubSeq(c, p, e)[i] = c[p + i - 1]
      BY <2>3, <2>5, <3>1, SubSeqProperties
    <3>3. /\ SubSeq(b, p, e) \in Seq(1 .. 255) /\ Len(SubSeq(b, p, e)) = e - p + 1
          /\ \A i \in 1 .. e - p + 1 : SubSeq(b, p, e)[i] = b[p + i - 1]
      BY <2>3, <2>5, <3>1, SubSeqProperties
    <3>4. \A i \in 1 .. e - p + 1 : SubSeq(c, p, e)[i] = SubSeq(b, p, e)[i]
      <4> TAKE i \in 1 .. e - p + 1
      <4>1. p + i - 1 \in p .. e
        BY <2>5
      <4> QED
        BY <3>1, <3>2, <3>3, <4>1
    <3> QED
      BY <3>2, <3>3, <3>4, SeqEqual
  <2> QED
    BY <2>4, <2>7, <2>8 DEF VarintAt, EndOf
<1>6. VarintAt(c, Len(b) + 1) = v
  <2> DEFINE p == Len(b) + 1
             e == Len(c)
  <2>1. p \in 1 .. Len(c) /\ e \in Ends(c) /\ e >= p
    BY <1>1, <1>2
  <2>2. \A j \in Ends(c) : j >= p => e =< j
    BY <1>1, <1>2, <1>4
  <2>3. EndOf(c, p) = e
    BY <1>1, <2>1, <2>2, EndOfIs
  <2>4. SubSeq(c, p, e) = v
    <3>1. \A i \in p .. e : c[i] \in 1 .. 255
      <4> TAKE i \in p .. e
      <4>1. i \in 1 .. Len(c)
        BY <1>1, <2>1
      <4> QED
        BY <1>1, <4>1, ByteOf
    <3>2. /\ SubSeq(c, p, e) \in Seq(1 .. 255) /\ Len(SubSeq(c, p, e)) = e - p + 1
          /\ \A i \in 1 .. e - p + 1 : SubSeq(c, p, e)[i] = c[p + i - 1]
      BY <1>1, <2>1, <3>1, SubSeqProperties
    <3>3. e - p + 1 = Len(v)
      BY <1>1
    <3>4. \A i \in 1 .. Len(v) : SubSeq(c, p, e)[i] = v[i]
      <4> TAKE i \in 1 .. Len(v)
      <4>1. p + i - 1 = Len(b) + i
        BY <1>1
      <4> QED
        BY <1>1, <3>2, <3>3, <4>1
    <3> QED
      BY <1>3, <3>2, <3>3, <3>4, SeqEqual DEF Bytes
  <2> QED
    BY <2>3, <2>4 DEF VarintAt, EndOf
<1> QED
  BY <1>5, <1>6

-----------------------------------------------------------------------------
(* SolverInput: the tags, every other varint                               *)

\* The ends of the varints before a byte.
EndsBefore(b, i) == {j \in Ends(b) : j < i}

\* A byte of b begins a tag.
BeginsTag(b, i) == i \in Tags(b)

LEMMA TagsAre ==
    ASSUME NEW b \in Bytes, NEW i
    PROVE  BeginsTag(b, i) <=> /\ i \in 1 .. Len(b)
                               /\ i = 1 \/ i - 1 \in Ends(b)
                               /\ Cardinality(EndsBefore(b, i)) % 2 = 0
<1>1. Ends(b) \subseteq 1 .. Len(b) /\ Len(b) \in Nat
  BY DEF Ends, Bytes
<1>2. BeginsTag(b, i) <=> /\ i = 1 \/ \E j \in Ends(b) : i = j + 1
                          /\ i <= Len(b)
                          /\ Cardinality(EndsBefore(b, i)) % 2 = 0
  BY DEF BeginsTag, Tags, EndsBefore
<1>3. (\E j \in Ends(b) : i = j + 1) => i \in Nat /\ i >= 1 /\ i - 1 \in Ends(b)
  BY <1>1
<1>4. i \in 1 .. Len(b) /\ i - 1 \in Ends(b) => \E j \in Ends(b) : i = j + 1
  BY <1>1
<1> QED
  BY <1>1, <1>2, <1>3, <1>4

\* Two varints after the others: the first is a tag, the second is not.
LEMMA TagsOfExtended ==
    ASSUME NEW b, NEW t, NEW c, NEW v, NEW d, Extends(b, t, c), Extends(c, v, d),
           Cardinality(Ends(b)) % 2 = 0
    PROVE  /\ \A i \in Tags(b) : i \in 1 .. Len(b) /\ i \in Tags(d)
           /\ Len(b) + 1 \in Tags(d)
           /\ \A i \in Tags(d) : i \in Tags(b) \/ i = Len(b) + 1
           /\ Cardinality(Ends(d)) % 2 = 0
<1>1. /\ Len(b) \in Nat /\ Len(c) \in Nat /\ Len(d) \in Nat
      /\ Len(b) < Len(c) /\ Len(c) < Len(d)
      /\ b \in Bytes /\ c \in Bytes /\ d \in Bytes
      /\ Len(c) = Len(b) + Len(t)
  <2>1. /\ Len(b) \in Nat /\ Len(t) \in Nat /\ Len(t) >= 1 /\ Len(c) = Len(b) + Len(t)
        /\ c \in Bytes
    BY ExtendedBytes
  <2>2. Len(v) \in Nat /\ Len(v) >= 1 /\ Len(d) = Len(c) + Len(v) /\ d \in Bytes
    BY ExtendedBytes
  <2>3. b \in Bytes
    BY DEF Extends, IsWhole
  <2> QED
    BY <2>1, <2>2, <2>3
<1>2. /\ Ends(c) = Ends(b) \union {Len(c)}
      /\ Ends(d) = Ends(c) \union {Len(d)}
      /\ Len(b) > 0 => Len(b) \in Ends(b)
  BY EndsOfExtended
<1>3. Ends(b) \subseteq 1 .. Len(b)
  BY <1>1 DEF Ends, Bytes
<1>4. IsFiniteSet(Ends(b))
  <2>1. IsFiniteSet(1 .. Len(b))
    BY <1>1, FS_Interval
  <2> QED
    BY <1>3, <2>1, FS_Subset
<1>5. Cardinality(Ends(b)) \in Nat
  BY <1>4, FS_CardinalityType
<1>6. IsFiniteSet(Ends(c)) /\ Cardinality(Ends(c)) = Cardinality(Ends(b)) + 1
  <2>1. Len(c) \notin Ends(b)
    BY <1>1, <1>3
  <2> QED
    BY <1>2, <1>4, <2>1, FS_AddElement
<1>7. Cardinality(Ends(d)) = Cardinality(Ends(c)) + 1
  <2>1. Len(d) \notin Ends(c)
    BY <1>1, <1>2, <1>3
  <2> QED
    BY <1>2, <1>6, <2>1, FS_AddElement
<1>8. ASSUME NEW i \in 1 .. Len(b) PROVE i \in Tags(b) <=> i \in Tags(d)
  <2>1. EndsBefore(d, i) = EndsBefore(b, i)
    BY <1>1, <1>2, <1>3 DEF EndsBefore
  <2>2. i - 1 \in Ends(d) <=> i - 1 \in Ends(b)
    BY <1>1, <1>2, <1>3
  <2>3. i \in 1 .. Len(d)
    BY <1>1
  <2>4. BeginsTag(b, i) <=> BeginsTag(d, i)
    BY <1>1, <2>1, <2>2, <2>3, TagsAre
  <2> QED
    BY <2>4, Zenon DEF BeginsTag
<1>9. Len(b) + 1 \in Tags(d)
  <2>1. EndsBefore(d, Len(b) + 1) = Ends(b)
    BY <1>1, <1>2, <1>3 DEF EndsBefore
  <2>2. Len(b) + 1 = 1 \/ Len(b) + 1 - 1 \in Ends(d)
    BY <1>1, <1>2
  <2>3. Len(b) + 1 \in 1 .. Len(d)
    BY <1>1
  <2>4. BeginsTag(d, Len(b) + 1)
    BY <1>1, <2>1, <2>2, <2>3, TagsAre
  <2> QED
    BY <2>4 DEF BeginsTag
<1>10. ASSUME NEW i \in Tags(d) PROVE i \in 1 .. Len(b) \/ i = Len(b) + 1
  <2>1. BeginsTag(d, i)
    BY DEF BeginsTag
  <2>2. /\ i \in 1 .. Len(d) /\ (i = 1 \/ i - 1 \in Ends(d))
        /\ Cardinality(EndsBefore(d, i)) % 2 = 0
    BY <1>1, <2>1, TagsAre
  <2>3. i # Len(c) + 1
    <3> SUFFICES ASSUME i = Len(c) + 1 PROVE FALSE
      OBVIOUS
    <3>1. EndsBefore(d, i) = Ends(c)
      BY <1>1, <1>2, <1>3 DEF EndsBefore
    <3>2. (Cardinality(Ends(b)) + 1) % 2 = 0
      BY <1>6, <2>2, <3>1
    <3> QED
      BY <1>5, <3>2
  <2> QED
    BY <1>1, <1>2, <1>3, <2>2, <2>3
<1>11. \A i \in Tags(b) : i \in 1 .. Len(b)
  <2> TAKE i \in Tags(b)
  <2>1. BeginsTag(b, i)
    BY DEF BeginsTag
  <2> QED
    BY <1>1, <2>1, TagsAre
<1>12. Cardinality(Ends(d)) % 2 = 0
  BY <1>5, <1>6, <1>7
<1> QED
  BY <1>8, <1>9, <1>10, <1>11, <1>12

-----------------------------------------------------------------------------
(* SolverInput: the fields                                                 *)

\* The field f of m begins at a byte of b: its tag, and its value after it.
FieldAt(b, i, m, f) ==
    /\ VarintAt(b, i) = Tag(f)
    /\ i + Len(Tag(f)) <= Len(b)
    /\ VarintAt(b, i + Len(Tag(f))) = Varint(m[f])

\* The bytes are the fields of m in a set, those that are not 0.
Tells(b, m, told) ==
    /\ IsWhole(b)
    /\ Cardinality(Ends(b)) % 2 = 0
    /\ \A i \in Tags(b) : \E f \in told : m[f] # 0 /\ FieldAt(b, i, m, f)
    /\ \A f \in told : m[f] # 0 => \E i \in Tags(b) : FieldAt(b, i, m, f)

LEMMA NothingTold == \A m : Tells(<<>>, m, {})
<1>1. <<>> \in Bytes /\ Len(<<>>) = 0
  BY DEF Bytes
<1>2. Ends(<<>>) = {}
  BY DEF Ends
<1>3. Cardinality(Ends(<<>>)) % 2 = 0
  BY <1>2, FS_EmptySet
<1>4. \A i : i \notin Tags(<<>>)
  BY <1>1, <1>2 DEF Tags
<1> QED
  BY <1>1, <1>3, <1>4 DEF Tells, IsWhole

\* What Serialized writes of a field.
Written(m, f) == IF m[f] = 0 THEN <<>> ELSE Tag(f) \o Varint(m[f])

LEMMA WrittenIsBytes ==
    ASSUME NEW m \in Messages, NEW f \in Fields
    PROVE  Written(m, f) \in Bytes
<1>1. CASE m[f] = 0
  BY <1>1 DEF Written, Bytes
<1>2. CASE m[f] # 0
  <2>1. m[f] \in Int32
    BY InputAssumption
  <2>2. Tag(f) \in Bytes /\ Varint(m[f]) \in Bytes
    BY <1>2, <2>1, TagIsVarint, VarintIsVarint DEF IsVarint
  <2> QED
    BY <1>2, <2>2, ConcatProperties DEF Written, Bytes
<1> QED
  BY <1>1, <1>2

LEMMA OneMoreTold ==
    ASSUME NEW m \in Messages, NEW told \in SUBSET Fields, NEW f \in Fields, NEW b,
           Tells(b, m, told)
    PROVE  Tells(b \o Written(m, f), m, told \union {f})
<1>0. b \in Bytes /\ IsWhole(b)
  BY DEF Tells, IsWhole
<1>1. CASE m[f] = 0
  <2>1. b \o Written(m, f) = b
    BY <1>0, <1>1, ConcatEmptySeq DEF Written, Bytes
  <2>2. Tells(b, m, told \union {f})
    BY <1>1 DEF Tells
  <2> QED
    BY <2>1, <2>2
<1>2. CASE m[f] # 0
  <2> DEFINE t == Tag(f)
             v == Varint(m[f])
             c == b \o t
             d == c \o v
  <2>1. m[f] \in Int32
    BY InputAssumption
  <2>2. IsVarint(t) /\ IsVarint(v)
    BY <1>2, <2>1, TagIsVarint, VarintIsVarint
  <2>3. Extends(b, t, c)
    BY <1>0, <2>2 DEF Extends
  <2>4. IsWhole(c) /\ Len(c) = Len(b) + Len(t) /\ Len(b) \in Nat /\ Len(t) \in Nat /\ Len(t) >= 1
    <3> HIDE DEF t, c
    <3> QED
      BY <2>3, ExtendedBytes, EndsOfExtended
  <2>5. Extends(c, v, d)
    <3> HIDE DEF c, v
    <3> QED
      BY <2>2, <2>4 DEF Extends
  <2>6. b \o Written(m, f) = d
    <3>1. Written(m, f) = t \o v
      BY <1>2 DEF Written
    <3>2. b \in Seq(1 .. 255) /\ t \in Seq(1 .. 255) /\ v \in Seq(1 .. 255)
      BY <1>0, <2>2 DEF IsVarint, Bytes
    <3>3. (b \o t) \o v = b \o (t \o v)
      <4> HIDE DEF t, v
      <4> QED
        BY <3>2, ConcatAssociative
    <3> HIDE DEF t, v
    <3> QED
      BY <3>1, <3>3
  <2> HIDE DEF c, d, v
  <2>7. /\ \A i \in Tags(b) : i \in 1 .. Len(b) /\ i \in Tags(d)
        /\ Len(b) + 1 \in Tags(d)
        /\ \A i \in Tags(d) : i \in Tags(b) \/ i = Len(b) + 1
        /\ Cardinality(Ends(d)) % 2 = 0
    <3> HIDE DEF t
    <3>1. Cardinality(Ends(b)) % 2 = 0
      BY DEF Tells
    <3> QED
      BY <2>3, <2>5, <3>1, TagsOfExtended
  <2>8. /\ \A p \in 1 .. Len(b) : VarintAt(c, p) = VarintAt(b, p)
        /\ VarintAt(c, Len(b) + 1) = t
    <3> HIDE DEF t
    <3> QED
      BY <2>3, VarintsOfExtended
  <2>9. /\ \A p \in 1 .. Len(c) : VarintAt(d, p) = VarintAt(c, p)
        /\ VarintAt(d, Len(c) + 1) = v
    BY <2>5, VarintsOfExtended
  <2>10. IsWhole(d) /\ Len(d) = Len(c) + Len(v) /\ Len(v) \in Nat /\ Len(v) >= 1
    BY <2>5, ExtendedBytes, EndsOfExtended
  <2>11. FieldAt(d, Len(b) + 1, m, f)
    <3>1. Len(b) + 1 \in 1 .. Len(c)
      BY <2>4
    <3>2. VarintAt(d, Len(b) + 1) = t
      BY <2>8, <2>9, <3>1
    <3>3. Len(b) + 1 + Len(t) = Len(c) + 1 /\ Len(c) + 1 <= Len(d)
      BY <2>4, <2>10
    <3> QED
      BY <2>9, <3>2, <3>3 DEF FieldAt, v
  <2>12. ASSUME NEW i \in Tags(b), NEW g \in told, FieldAt(b, i, m, g)
         PROVE  FieldAt(d, i, m, g)
    <3>1. i \in 1 .. Len(b) /\ i \in 1 .. Len(c)
      BY <2>4, <2>7
    <3>2. Tag(g) \in Bytes
      BY TagIsVarint DEF IsVarint
    <3>3. Len(Tag(g)) \in Nat
      BY <3>2 DEF Bytes
    <3>4. i + Len(Tag(g)) <= Len(b)
      BY <2>12 DEF FieldAt
    <3>5. i + Len(Tag(g)) \in 1 .. Len(b) /\ i + Len(Tag(g)) \in 1 .. Len(c)
          /\ i + Len(Tag(g)) <= Len(d)
      <4> HIDE DEF t
      <4> QED
        BY <2>4, <2>10, <3>1, <3>3, <3>4
    <3>6. VarintAt(d, i) = VarintAt(b, i)
      BY <2>8, <2>9, <3>1
    <3>7. VarintAt(d, i + Len(Tag(g))) = VarintAt(b, i + Len(Tag(g)))
      BY <2>8, <2>9, <3>5
    <3> QED
      BY <2>12, <3>5, <3>6, <3>7 DEF FieldAt
  <2>13. \A i \in Tags(d) : \E g \in told \union {f} : m[g] # 0 /\ FieldAt(d, i, m, g)
    <3> TAKE i \in Tags(d)
    <3>1. CASE i \in Tags(b)
      <4>1. PICK g \in told : m[g] # 0 /\ FieldAt(b, i, m, g)
        BY <3>1 DEF Tells
      <4> QED
        BY <2>12, <3>1, <4>1
    <3>2. CASE i = Len(b) + 1
      BY <1>2, <2>11, <3>2
    <3> QED
      BY <2>7, <3>1, <3>2
  <2>14. ASSUME NEW g \in told \union {f}, m[g] # 0
         PROVE  \E i \in Tags(d) : FieldAt(d, i, m, g)
    <3>1. CASE g \in told
      <4>1. PICK i \in Tags(b) : FieldAt(b, i, m, g)
        BY <2>14, <3>1 DEF Tells
      <4> QED
        BY <2>7, <2>12, <3>1, <4>1
    <3>2. CASE g = f
      BY <2>7, <2>11, <3>2
    <3> QED
      BY <3>1, <3>2
  <2>15. Tells(d, m, told \union {f})
    BY <2>7, <2>10, <2>13, <2>14 DEF Tells
  <2> QED
    BY <2>6, <2>15
<1> QED
  BY <1>1, <1>2

\* The bytes of the whole are told by the function that FlattenSeq iterates.
Parts(m) == [i \in DOMAIN InOrderOfNumber |->
                 LET f == InOrderOfNumber[i] IN IF m[f] = 0 THEN <<>> ELSE Tag(f) \o Varint(m[f])]

\* A function joins the parts one by one.
Joins(g, s, n) == g = [i \in 1 .. n |-> IF i = 1 THEN s[i] ELSE g[i - 1] \o s[i]]

LEMMA JoinExists ==
    ASSUME NEW s, NEW n \in Nat, n >= 1
    PROVE  \E g : Joins(g, s, n)
<1> DEFINE Good == {k \in 1 .. n : \E g : Joins(g, s, k)}
<1>1. 1 \in Good
  <2> DEFINE g == [i \in 1 .. 1 |-> s[1]]
  <2>1. Joins(g, s, 1)
    BY DEF Joins
  <2> QED
    BY <2>1
<1>2. ASSUME NEW k \in 1 .. n - 1, k \in Good PROVE k + 1 \in Good
  <2>1. PICK g : Joins(g, s, k)
    BY <1>2
  <2> DEFINE h == [i \in 1 .. k + 1 |-> IF i = k + 1 THEN g[k] \o s[k + 1] ELSE g[i]]
  <2>2. ASSUME NEW i \in 1 .. k + 1
        PROVE  h[i] = IF i = 1 THEN s[i] ELSE h[i - 1] \o s[i]
    <3>1. CASE i = k + 1
      <4>1. i # 1 /\ i - 1 = k /\ k \in 1 .. k + 1 /\ k # k + 1
        BY <3>1
      <4>2. h[i] = g[k] \o s[i] /\ h[i - 1] = g[k]
        BY <3>1, <4>1
      <4> QED
        BY <4>1, <4>2
    <3>2. CASE i # k + 1
      <4>1. i \in 1 .. k
        BY <3>2
      <4>2. h[i] = g[i] /\ g[i] = IF i = 1 THEN s[i] ELSE g[i - 1] \o s[i]
        BY <2>1, <3>2, <4>1 DEF Joins
      <4>3. i # 1 => i - 1 \in 1 .. k + 1 /\ i - 1 # k + 1
        BY <4>1
      <4>4. i # 1 => h[i - 1] = g[i - 1]
        BY <4>3
      <4> QED
        BY <4>2, <4>4
    <3> QED
      BY <3>1, <3>2
  <2>3. h = [i \in 1 .. k + 1 |-> h[i]]
    OBVIOUS
  <2> HIDE DEF h
  <2>4. Joins(h, s, k + 1)
    <3> DEFINE q == [i \in 1 .. k + 1 |-> IF i = 1 THEN s[i] ELSE h[i - 1] \o s[i]]
    <3>1. \A i \in 1 .. k + 1 : h[i] = q[i]
      BY <2>2
    <3>2. h = q
      BY <2>3, <3>1
    <3> QED
      BY <3>2 DEF Joins
  <2>5. k + 1 \in 1 .. n
    OBVIOUS
  <2> QED
    BY <2>4, <2>5
<1>3. \A k \in 1 .. n : k \in Good
  <2> HIDE DEF Good
  <2> QED
    BY <1>1, <1>2, UpTo
<1>4. n \in 1 .. n
  OBVIOUS
<1> QED
  BY <1>3, <1>4

LEMMA FieldsInOrder ==
    /\ DOMAIN InOrderOfNumber = 1 .. 15
    /\ \A i \in 1 .. 15 : InOrderOfNumber[i] \in Fields
    /\ \A f \in Fields : \E i \in 1 .. 15 : f = InOrderOfNumber[i]
<1>1. InOrderOfNumber \in Seq(Fields) /\ Len(InOrderOfNumber) = 15
  BY DEF InOrderOfNumber, Fields, Number
<1>2. DOMAIN InOrderOfNumber = 1 .. 15
  BY <1>1
<1>3. \A i \in 1 .. 15 : InOrderOfNumber[i] \in Fields
  BY <1>1, ElementOfSeq
<1>4. \A f \in Fields : \E i \in 1 .. 15 : f = InOrderOfNumber[i]
  BY DEF InOrderOfNumber, Fields, Number
<1> QED
  BY <1>2, <1>3, <1>4

LEMMA AllTold ==
    ASSUME NEW m \in Messages
    PROVE  Tells(Serialized(m), m, Fields)
<1> DEFINE s == Parts(m)
           g == CHOOSE g : Joins(g, s, 15)
           Told(k) == {InOrderOfNumber[i] : i \in 1 .. k}
           Good == {k \in 1 .. 15 : Tells(g[k], m, Told(k))}
<1>1. DOMAIN InOrderOfNumber = 1 .. 15 /\ \A i \in 1 .. 15 : InOrderOfNumber[i] \in Fields
  BY FieldsInOrder
<1>2. \A i \in 1 .. 15 : s[i] = Written(m, InOrderOfNumber[i])
  BY <1>1 DEF Parts, Written
<1>3. Len(s) = 15
  BY <1>1 DEF Parts
<1>4. Serialized(m) = g[15]
  <2>1. Serialized(m) = FlattenSeq(s)
    BY DEF Serialized, Parts
  <2> HIDE DEF s
  <2> QED
    BY <1>3, <2>1 DEF FlattenSeq, Joins
<1>5. Joins(g, s, 15)
  BY JoinExists
<1> HIDE DEF g, s
<1>6. g[1] = s[1] /\ \A k \in 1 .. 14 : g[k + 1] = g[k] \o s[k + 1]
  <2>1. ASSUME NEW i \in 1 .. 15 PROVE g[i] = IF i = 1 THEN s[i] ELSE g[i - 1] \o s[i]
    BY <1>5 DEF Joins
  <2>2. g[1] = s[1]
    BY <2>1
  <2>3. ASSUME NEW k \in 1 .. 14 PROVE g[k + 1] = g[k] \o s[k + 1]
    <3>1. k + 1 \in 1 .. 15 /\ k + 1 # 1 /\ (k + 1) - 1 = k
      OBVIOUS
    <3>2. g[k + 1] = IF k + 1 = 1 THEN s[k + 1] ELSE g[(k + 1) - 1] \o s[k + 1]
      BY <2>1, <3>1, Zenon
    <3> QED
      BY <3>1, <3>2
  <2> QED
    BY <2>2, <2>3
<1>7. 1 \in Good
  <2>1. Tells(<<>> \o Written(m, InOrderOfNumber[1]), m, {} \union {InOrderOfNumber[1]})
    <3>1. InOrderOfNumber[1] \in Fields
      BY <1>1
    <3>2. Tells(<<>>, m, {}) /\ {} \in SUBSET Fields
      BY NothingTold
    <3> QED
      BY <3>1, <3>2, OneMoreTold
  <2>2. <<>> \o Written(m, InOrderOfNumber[1]) = g[1]
    <3>1. Written(m, InOrderOfNumber[1]) \in Seq(1 .. 255)
      <4>1. InOrderOfNumber[1] \in Fields
        BY <1>1
      <4> QED
        BY <4>1, WrittenIsBytes DEF Bytes
    <3>2. <<>> \o Written(m, InOrderOfNumber[1]) = Written(m, InOrderOfNumber[1])
      BY <3>1, ConcatEmptySeq
    <3>3. Written(m, InOrderOfNumber[1]) = s[1]
      BY <1>2
    <3> QED
      BY <1>6, <3>2, <3>3
  <2>3. Told(1) = {} \union {InOrderOfNumber[1]}
    OBVIOUS
  <2> QED
    BY <2>1, <2>2, <2>3
<1>8. ASSUME NEW k \in 1 .. 15 - 1, k \in Good PROVE k + 1 \in Good
  <2>1. Tells(g[k], m, Told(k)) /\ k + 1 \in 1 .. 15 /\ k \in 1 .. 14
    BY <1>8
  <2>2. Told(k) \in SUBSET Fields /\ InOrderOfNumber[k + 1] \in Fields
    BY <1>1, <2>1
  <2>3. Tells(g[k] \o Written(m, InOrderOfNumber[k + 1]), m, Told(k) \union {InOrderOfNumber[k + 1]})
    <3> HIDE DEF Told
    <3> QED
      BY <2>1, <2>2, OneMoreTold
  <2>4. g[k] \o Written(m, InOrderOfNumber[k + 1]) = g[k + 1]
    BY <1>2, <1>6, <2>1
  <2>5. Told(k + 1) = Told(k) \union {InOrderOfNumber[k + 1]}
    OBVIOUS
  <2> QED
    BY <2>1, <2>3, <2>4, <2>5
<1>9. \A k \in 1 .. 15 : k \in Good
  <2> HIDE DEF Good
  <2> QED
    BY <1>7, <1>8, UpTo
<1>10. Told(15) = Fields
  BY <1>1, FieldsInOrder
<1>11. Tells(g[15], m, Told(15))
  BY <1>9
<1> HIDE DEF Told
<1> QED
  BY <1>4, <1>10, <1>11

\* What is read of the bytes is what was written.
LEMMA ReadsBack ==
    ASSUME NEW m \in Messages, NEW b, Tells(b, m, Fields)
    PROVE  UpToZero(b) = b /\ Parsed(b) = m
<1>1. b \in Bytes /\ Len(b) \in Nat /\ DOMAIN b = 1 .. Len(b)
  BY DEF Tells, IsWhole, Bytes
<1>2. UpToZero(b) = b
  <2>1. \A i \in 1 .. Len(b) : b[i] # 0
    <3> TAKE i \in 1 .. Len(b)
    <3>1. b[i] \in 1 .. 255
      BY <1>1, ByteOf, Zenon
    <3>2. \A x \in 1 .. 255 : x # 0
      OBVIOUS
    <3> QED
      BY <3>1, <3>2, Zenon
  <2>2. {i \in DOMAIN b : b[i] = 0} \union {Len(b) + 1} = {Len(b) + 1}
    BY <1>1, <2>1
  <2>3. Min({Len(b) + 1}) = Len(b) + 1
    BY <1>1, MinIsLeast
  <2>4. UpToZero(b) = SubSeq(b, 1, Len(b))
    <3>1. UpToZero(b) = SubSeq(b, 1, (Len(b) + 1) - 1)
      BY <2>2, <2>3, Zenon DEF UpToZero
    <3>2. (Len(b) + 1) - 1 = Len(b)
      BY <1>1
    <3> QED
      BY <3>1, <3>2
  <2> QED
    BY <1>1, <2>4, SubSeqFull DEF Bytes
<1>3. ASSUME NEW f \in Fields
      PROVE  LET found == {i \in Tags(b) : VarintAt(b, i) = Tag(f) /\ i + Len(Tag(f)) <= Len(b)}
             IN  (IF found = {} THEN 0
                  ELSE Value(VarintAt(b, Max(found) + Len(Tag(f))))) = m[f]
  <2> DEFINE found == {i \in Tags(b) : VarintAt(b, i) = Tag(f) /\ i + Len(Tag(f)) <= Len(b)}
  <2>1. ASSUME NEW i \in found PROVE m[f] # 0 /\ FieldAt(b, i, m, f)
    <3>1. PICK g \in Fields : m[g] # 0 /\ FieldAt(b, i, m, g)
      BY DEF Tells
    <3>2. Tag(g) = Tag(f)
      BY <3>1 DEF FieldAt
    <3>3. g = f
      BY <3>2, TagsDiffer
    <3> QED
      BY <3>1, <3>3
  <2>2. CASE m[f] = 0
    <3>1. found = {}
      BY <2>1, <2>2
    <3> QED
      BY <2>2, <3>1
  <2>3. CASE m[f] # 0
    <3>1. PICK i \in Tags(b) : FieldAt(b, i, m, f)
      BY <2>3 DEF Tells
    <3>2. found # {}
      BY <3>1 DEF FieldAt
    <3>3. found \in SUBSET (1 .. Len(b))
      <4> SUFFICES ASSUME NEW j \in found PROVE j \in 1 .. Len(b)
        OBVIOUS
      <4>1. BeginsTag(b, j)
        BY DEF BeginsTag
      <4> QED
        BY <1>1, <4>1, TagsAre
    <3>4. Max(found) \in found
      <4> HIDE DEF found
      <4> QED
        BY <1>1, <3>2, <3>3, MaxOfNats
    <3>5. VarintAt(b, Max(found) + Len(Tag(f))) = Varint(m[f])
      <4> HIDE DEF found
      <4> QED
        BY <2>1, <3>4 DEF FieldAt
    <3>6. m[f] \in Int32
      BY InputAssumption
    <3>7. Value(Varint(m[f])) = m[f]
      BY <3>6, ValueOfVarint
    <3> QED
      BY <3>2, <3>5, <3>7
  <2> QED
    BY <2>2, <2>3
<1>4. Parsed(b) = [f \in Fields |-> m[f]]
  BY <1>3 DEF Parsed
<1>5. m = [f \in Fields |-> m[f]]
  BY InputAssumption
<1> QED
  BY <1>2, <1>4, <1>5

\* A message that is followed by a byte 0 is read as it was written.
LEMMA MessageIsRead ==
    ASSUME NEW m \in Messages
    PROVE  Parsed(UpToZero(Serialized(m))) = m
<1>1. Tells(Serialized(m), m, Fields)
  BY AllTold
<1>2. UpToZero(Serialized(m)) = Serialized(m) /\ Parsed(Serialized(m)) = m
  BY <1>1, ReadsBack
<1> QED
  BY <1>2

\* What the solver takes out of its buffer is what the bot has sent.
FieldsInv ==
    /\ message \in Messages
    /\ exchange # "sent" /\ clean => game_state = message

\* The solver has every field of the message (writeTo of the bot, the buffer that
\* main.cpp reads up to a byte 0, _InternalParse), whatever the 32-bit numbers in
\* it, if a 0 follows the message: no byte of it is 0, a field of value 0 being
\* left out, and no value is taken for a tag.
THEOREM MessagesArrive == InputSpec => []FieldsArrive
<1>1. InputInit => FieldsInv
  BY DEF InputInit, FieldsInv
<1>2. FieldsInv /\ [InputNext]_input_vars => FieldsInv'
  <2> SUFFICES ASSUME FieldsInv, [InputNext]_input_vars PROVE FieldsInv'
    OBVIOUS
  <2>1. CASE Receive
    <3>1. message' = message /\ clean' = clean
      BY <2>1 DEF Receive
    <3>2. clean => game_state' = Parsed(UpToZero(Serialized(message)))
      BY <2>1 DEF Receive
    <3>3. clean => game_state' = message
      BY <3>2, MessageIsRead DEF FieldsInv
    <3> QED
      BY <3>1, <3>3 DEF FieldsInv
  <2>2. ASSUME NEW t \in UnitTypes, Draw(t) PROVE FieldsInv'
    BY <2>2 DEF Draw, Sampling, FieldsInv
  <2>3. CASE EndSample
    BY <2>3 DEF EndSample, Sampling, FieldsInv
  <2>4. CASE Solve
    BY <2>4 DEF Solve, Sampling, FieldsInv
  <2>5. CASE UNCHANGED input_vars
    BY <2>5 DEF input_vars, FieldsInv
  <2> QED
    BY <2>1, <2>2, <2>3, <2>4, <2>5 DEF InputNext
<1>3. FieldsInv => FieldsArrive
  BY DEF FieldsInv, FieldsArrive
<1> QED
  BY <1>1, <1>2, <1>3, PTL DEF InputSpec

-----------------------------------------------------------------------------
(* SolverInput: the estimate and the samples                               *)

LEMMA FieldsOfMessage ==
    ASSUME NEW m \in Messages
    PROVE  /\ m.time \in Nat /\ m.loss \in Nat /\ m.workers \in Nat
           /\ m.min_distance \in Int /\ m.max_distance \in Int
           /\ m.heavy_cost \in Nat /\ m.light_cost \in Nat /\ m.ranged_cost \in Nat
           /\ \A t \in UnitTypes : m[t] \in Nat
<1>1. \A f \in Fields : m[f] \in Int
  BY InputAssumption, SMT DEF Int32
<1>2. \A f \in Fields \ {"min_distance", "max_distance"} : m[f] >= 0
  BY InputAssumption
<1>3. /\ "time" \in Fields /\ "loss" \in Fields /\ "workers" \in Fields
      /\ "min_distance" \in Fields /\ "max_distance" \in Fields
      /\ "heavy_cost" \in Fields /\ "light_cost" \in Fields /\ "ranged_cost" \in Fields
      /\ "heavy" \in Fields /\ "light" \in Fields /\ "ranged" \in Fields
  BY DEF Fields, Number
<1> QED
  BY <1>1, <1>2, <1>3 DEF UnitTypes

LEMMA MaxWithZero == \A n \in Int : Max({0, n}) \in Nat
<1> TAKE n \in Int
<1>1. \E x \in {0, n} : \A y \in {0, n} : x >= y
  OBVIOUS
<1>2. Max({0, n}) \in {0, n} /\ \A y \in {0, n} : Max({0, n}) >= y
  BY <1>1 DEF Max
<1> QED
  BY <1>2

\* What the solver has read are numbers, whatever followed the message.
Numbers == [Fields -> Int]
Amounts == [UnitTypes -> Int]
Armies == [UnitTypes -> Nat]

LEMMA FieldsAreNumbers == Messages \subseteq Numbers /\ Garbled \subseteq Numbers
  BY InputAssumption, SMT DEF Int32, Numbers

LEMMA CostsAreInts ==
    ASSUME NEW m \in Numbers
    PROVE  /\ m.heavy_cost \in Int /\ m.light_cost \in Int /\ m.ranged_cost \in Int
           /\ \A t \in UnitTypes : m[t] \in Int
<1>1. /\ "heavy_cost" \in Fields /\ "light_cost" \in Fields /\ "ranged_cost" \in Fields
      /\ "heavy" \in Fields /\ "light" \in Fields /\ "ranged" \in Fields
  BY DEF Fields, Number
<1> QED
  BY <1>1 DEF Numbers, UnitTypes

LEMMA WorthIsInt ==
    ASSUME NEW m \in Numbers, NEW units \in Amounts
    PROVE  Worth(m, units) \in Int
  BY CostsAreInts DEF Worth, Amounts, UnitTypes

\* The parts of a division.
LEMMA Division ==
    ASSUME NEW w \in Int, NEW d \in Int, d > 0
    PROVE  /\ w \div d \in Int /\ w % d \in Int
           /\ w = (w \div d) * d + (w % d) /\ 0 <= w % d /\ w % d < d
  OBVIOUS

\* The parts of the estimate: what has been gathered is the whole number of trips
\* times what one brings, or one less if that number is exact.
LEMMA PartsOfEstimate ==
    ASSUME NEW m \in Messages
    PROVE  /\ Rules.initial_resources \in Nat /\ Rules.missing \in Nat /\ m.loss \in Nat
           /\ TripTime(m) \in Nat /\ TripTime(m) > 0 /\ Work(m) \in Nat
           /\ UnitsSeen(m) \in Armies /\ Worth(m, UnitsSeen(m)) \in Int
           /\ \A n \in Gathered(m) :
                /\ n \in Int
                /\ n * TripTime(m) <= Work(m) /\ Work(m) <= (n + 1) * TripTime(m)
<1>1. /\ Rules.initial_resources \in Nat /\ Rules.harvest_amount \in Nat
      /\ Rules.move_time \in Nat /\ Rules.harvest_time \in Nat
      /\ Rules.return_time \in Nat /\ Rules.missing \in Nat
  BY InputAssumption
<1>2. TripTime(m) \in Int
  BY <1>1, FieldsOfMessage DEF TripTime
<1>3. TripTime(m) > 0
  BY TripAssumption
<1>4. Work(m) \in Nat
  <2>1. \A x \in Nat, y \in Nat : x * y \in Nat
    OBVIOUS
  <2>2. Rules.harvest_amount * m.workers \in Nat /\ m.time \in Nat
    BY <1>1, <2>1, FieldsOfMessage
  <2> QED
    BY <2>1, <2>2 DEF Work
<1>5. UnitsSeen(m) \in Armies
  BY FieldsOfMessage DEF UnitsSeen, Armies
<1>6. Worth(m, UnitsSeen(m)) \in Int
  BY <1>5, FieldsAreNumbers, WorthIsInt DEF Armies, Amounts
<1>7. PICK w \in Nat, d \in Nat : w = Work(m) /\ d = TripTime(m) /\ d > 0
  BY <1>2, <1>3, <1>4
<1>8. PICK q \in Int, x \in Int : q = w \div d /\ x = w % d
  BY <1>7
<1>9. w = q * d + x /\ 0 <= x /\ x < d
  <2>1. w \in Int /\ d \in Int /\ d > 0
    BY <1>7
  <2>2. /\ w = (w \div d) * d + (w % d) /\ 0 <= w % d /\ w % d < d
    BY <2>1, Division, Zenon
  <2> QED
    BY <1>8, <2>2, Zenon
<1>10. PICK p \in Int : p = q * d
  BY <1>8
<1>11. (q + 1) * d = p + d /\ (q - 1) * d = p - d
  BY <1>7, <1>8, <1>10
<1>12. ASSUME NEW n \in Gathered(m)
       PROVE  n \in Int /\ n * d <= w /\ w <= (n + 1) * d
  <2>1. n = q \/ (n = q - 1 /\ x = 0)
    <3>1. \/ n \in {Work(m) \div TripTime(m)}
          \/ n \in {k \in {Work(m) \div TripTime(m) - 1} : MayFallShort(m)}
      BY <1>12, Zenon DEF Gathered
    <3>2. q = Work(m) \div TripTime(m) /\ x = Work(m) % TripTime(m)
      BY <1>7, <1>8, Zenon
    <3>3. \/ n \in {q}
          \/ n \in {k \in {q - 1} : MayFallShort(m)}
      BY <3>1, <3>2, Zenon
    <3>4. MayFallShort(m) => x = 0
      BY <3>2, Zenon DEF MayFallShort
    <3> QED
      BY <3>3, <3>4, Zenon
  <2>2. CASE n = q
    <3>1. n * d = p /\ (n + 1) * d = p + d
      BY <1>10, <1>11, <2>2, Zenon
    <3>2. w = p + x
      BY <1>9, <1>10, Zenon
    <3>3. 0 <= x /\ x < d /\ n \in Int
      BY <1>8, <1>9, <2>2, Zenon
    <3>4. PICK v \in Int : v = n * d
      BY <1>10, <3>1, Zenon
    <3>5. v = p /\ d \in Nat /\ x \in Int
      BY <1>7, <1>8, <3>1, <3>4, Zenon
    <3>6. v <= w /\ w <= v + d
      BY <3>2, <3>3, <3>4, <3>5
    <3> QED
      BY <1>10, <3>1, <3>3, <3>4, <3>5, <3>6, Zenon
  <2>3. CASE n = q - 1 /\ x = 0
    <3>1. n + 1 = q /\ w = p
      BY <1>8, <1>9, <1>10, <2>3
    <3>2. (n + 1) * d = p /\ n * d = p - d
      BY <1>10, <1>11, <2>3, <3>1
    <3> QED
      BY <1>7, <1>8, <1>10, <2>3, <3>1, <3>2
  <2> QED
    BY <2>1, <2>2, <2>3
<1> QED
  BY <1>1, <1>2, <1>3, <1>4, <1>5, <1>6, <1>7, <1>12, FieldsOfMessage

LEMMA RemainingIsNat ==
    ASSUME NEW m \in Messages, NEW r \in Remaining(m)
    PROVE  r \in Nat
<1>1. PICK n \in Gathered(m) : r = Max({0, Rules.initial_resources + n - Paid(m, UnitsSeen(m))})
  BY DEF Remaining
<1>2. Paid(m, UnitsSeen(m)) \in Int
  BY PartsOfEstimate DEF Paid
<1>3. Rules.initial_resources + n - Paid(m, UnitsSeen(m)) \in Int
  BY <1>2, PartsOfEstimate
<1> QED
  BY <1>1, <1>3, MaxWithZero

LEMMA MinCostIsLeast ==
    ASSUME NEW m \in Numbers, NEW t \in UnitTypes
    PROVE  CostOf(m, t) \in Int /\ MinCost(m) \in Int /\ MinCost(m) <= CostOf(m, t)
  BY CostsAreInts DEF CostOf, MinCost, UnitTypes

\* One more unit costs its price.
LEMMA WorthOfOneMore ==
    ASSUME NEW m \in Numbers, NEW units \in [UnitTypes -> Nat], NEW t \in UnitTypes
    PROVE  Worth(m, [units EXCEPT ![t] = @ + 1]) = Worth(m, units) + CostOf(m, t)
<1> DEFINE more == [units EXCEPT ![t] = @ + 1]
<1>1. \A u \in Nat, c \in Int : (u + 1) * c = u * c + c /\ u * c \in Int
  OBVIOUS
<1>2. /\ units["heavy"] \in Nat /\ units["light"] \in Nat /\ units["ranged"] \in Nat
      /\ m.heavy_cost \in Int /\ m.light_cost \in Int /\ m.ranged_cost \in Int
  BY CostsAreInts DEF UnitTypes
<1>3. Worth(m, units) = units["heavy"] * m.heavy_cost + units["light"] * m.light_cost
                        + units["ranged"] * m.ranged_cost
  BY DEF Worth
<1>4. Worth(m, more) = more["heavy"] * m.heavy_cost + more["light"] * m.light_cost
                       + more["ranged"] * m.ranged_cost
  BY DEF Worth
<1>5. /\ units["heavy"] * m.heavy_cost \in Int /\ units["light"] * m.light_cost \in Int
      /\ units["ranged"] * m.ranged_cost \in Int
  BY <1>1, <1>2
<1>6. PICK a \in Int, b \in Int, c \in Int :
          /\ a = units["heavy"] * m.heavy_cost /\ b = units["light"] * m.light_cost
          /\ c = units["ranged"] * m.ranged_cost
  BY <1>5
<1>7. Worth(m, units) = a + b + c
  BY <1>3, <1>6, Zenon
<1>8. CASE t = "heavy"
  <2>1. more["heavy"] = units["heavy"] + 1 /\ more["light"] = units["light"]
        /\ more["ranged"] = units["ranged"] /\ CostOf(m, t) = m.heavy_cost
    BY <1>8 DEF UnitTypes, CostOf
  <2>2. more["heavy"] * m.heavy_cost = units["heavy"] * m.heavy_cost + m.heavy_cost
    BY <1>1, <1>2, <2>1
  <2> HIDE DEF more
  <2>3. Worth(m, more) = (a + m.heavy_cost) + b + c
    BY <1>4, <1>6, <2>1, <2>2, Zenon
  <2>4. Worth(m, more) = Worth(m, units) + m.heavy_cost
    BY <1>2, <1>7, <2>3
  <2> QED
    BY <2>1, <2>4 DEF more
<1>9. CASE t = "light"
  <2>1. more["light"] = units["light"] + 1 /\ more["heavy"] = units["heavy"]
        /\ more["ranged"] = units["ranged"] /\ CostOf(m, t) = m.light_cost
    BY <1>9 DEF UnitTypes, CostOf
  <2>2. more["light"] * m.light_cost = units["light"] * m.light_cost + m.light_cost
    BY <1>1, <1>2, <2>1
  <2> HIDE DEF more
  <2>3. Worth(m, more) = a + (b + m.light_cost) + c
    BY <1>4, <1>6, <2>1, <2>2, Zenon
  <2>4. Worth(m, more) = Worth(m, units) + m.light_cost
    BY <1>2, <1>7, <2>3
  <2> QED
    BY <2>1, <2>4 DEF more
<1>10. CASE t = "ranged"
  <2>1. more["ranged"] = units["ranged"] + 1 /\ more["heavy"] = units["heavy"]
        /\ more["light"] = units["light"] /\ CostOf(m, t) = m.ranged_cost
    BY <1>10 DEF UnitTypes, CostOf
  <2>2. more["ranged"] * m.ranged_cost = units["ranged"] * m.ranged_cost + m.ranged_cost
    BY <1>1, <1>2, <2>1
  <2> HIDE DEF more
  <2>3. Worth(m, more) = a + b + (c + m.ranged_cost)
    BY <1>4, <1>6, <2>1, <2>2, Zenon
  <2>4. Worth(m, more) = Worth(m, units) + m.ranged_cost
    BY <1>2, <1>7, <2>3
  <2> QED
    BY <2>1, <2>4 DEF more
<1> QED
  BY <1>8, <1>9, <1>10 DEF UnitTypes

\* A sample that has been taken is spent.
IsSpent(sample) ==
    LET built == [t \in UnitTypes |-> sample[t] - game_state[t]]
        rest  == estimated_remaining_resources - Worth(game_state, built)
    IN  built \in Armies /\ rest >= 0 /\ \A t \in UnitTypes : rest < CostOf(game_state, t)

AllSpent == \A i \in DOMAIN samples : IsSpent(samples[i])

\* What the solver has read, and what it makes of it.
ReadInv ==
    /\ game_state \in Numbers
    /\ estimated_remaining_resources \in Nat
    /\ clean => game_state = message /\ estimated_remaining_resources \in Remaining(message)

\* While a sample is drawn, what is left is what the estimate has not spent yet.
SpendingInv ==
    /\ message \in Messages
    /\ estimated \in Armies
    /\ samples \in Seq(Amounts)
    /\ exchange = "sent" => samples = <<>> /\ estimated = NoUnits
    /\ exchange # "sent" =>
         /\ ReadInv
         /\ estimated_resources \in Nat
         /\ estimated_resources = estimated_remaining_resources - Worth(game_state, estimated)
    /\ AllSpent

LEMMA NoUnitsWorthNothing == \A m \in Numbers : Worth(m, NoUnits) = 0
  BY CostsAreInts DEF Worth, NoUnits, UnitTypes

\* The message is read, with or without what follows it.
LEMMA ReceiveReads ==
    ASSUME message \in Messages, Receive
    PROVE  ReadInv'
<1>1. CASE clean
  <2>1. game_state' = message
    BY <1>1, MessageIsRead DEF Receive
  <2>2. estimated_remaining_resources' \in Remaining(message)
    BY <1>1, <2>1 DEF Receive
  <2>3. estimated_remaining_resources' \in Nat /\ message \in Numbers
    BY <2>2, RemainingIsNat, FieldsAreNumbers
  <2>4. Remaining(message)' = Remaining(message)
    BY DEF Receive, Remaining, Gathered, MayFallShort, Work, TripTime, Paid, UnitsSeen, Worth
  <2> QED
    BY <2>1, <2>2, <2>3, <2>4 DEF ReadInv, Receive
<1>2. CASE ~ clean
  BY <1>2, FieldsAreNumbers, InputAssumption DEF ReadInv, Receive
<1> QED
  BY <1>1, <1>2

LEMMA SpendingInvariant == InputSpec => []SpendingInv
<1>1. InputInit => SpendingInv
  BY DEF InputInit, SpendingInv, NoUnits, Armies, AllSpent
<1>2. SpendingInv /\ [InputNext]_input_vars => SpendingInv'
  <2> SUFFICES ASSUME SpendingInv, [InputNext]_input_vars PROVE SpendingInv'
    OBVIOUS
  <2>1. CASE Receive
    <3>1. ReadInv'
      BY <2>1, ReceiveReads DEF SpendingInv
    <3>2. samples' = <<>> /\ estimated' = NoUnits /\ message' = message
      BY <2>1 DEF Receive, SpendingInv
    <3>3. estimated_resources' = estimated_remaining_resources'
      BY <2>1 DEF Receive
    <3>4. game_state' \in Numbers /\ estimated_remaining_resources' \in Nat
      BY <3>1 DEF ReadInv
    <3>5. Worth(game_state', estimated') = 0
      BY <3>2, <3>4, NoUnitsWorthNothing
    <3>6. estimated_resources' = estimated_remaining_resources' - Worth(game_state', estimated')
      <4>1. \A r \in Nat : r = r - 0
        OBVIOUS
      <4> QED
        BY <3>3, <3>4, <3>5, <4>1, Zenon
    <3>7. exchange' # "sent"
      BY <2>1 DEF Receive
    <3>8. estimated' \in Armies /\ samples' \in Seq(Amounts)
      BY <3>2 DEF NoUnits, Armies
    <3> QED
      BY <3>1, <3>2, <3>3, <3>4, <3>6, <3>7, <3>8 DEF SpendingInv, AllSpent
  <2>2. ASSUME NEW t \in UnitTypes, Draw(t) PROVE SpendingInv'
    <3>1. /\ exchange = "sampling" /\ exchange' = "sampling"
          /\ UNCHANGED <<message, clean, game_state, estimated_remaining_resources, samples>>
          /\ ReadInv
      BY <2>2 DEF Draw, Sampling, SpendingInv
    <3>2. estimated_resources' = estimated_resources - CostOf(game_state, t)
          /\ estimated_resources >= CostOf(game_state, t)
      BY <2>2 DEF Draw
    <3>3. estimated' = [estimated EXCEPT ![t] = @ + 1]
      BY <2>2 DEF Draw
    <3>4. estimated \in Armies /\ estimated' \in Armies
      BY <3>3 DEF Armies, SpendingInv
    <3>5. Worth(game_state, estimated') = Worth(game_state, estimated) + CostOf(game_state, t)
      BY <3>1, <3>3, <3>4, WorthOfOneMore DEF Armies, ReadInv
    <3>6. /\ CostOf(game_state, t) \in Int /\ Worth(game_state, estimated) \in Int
          /\ estimated_remaining_resources \in Nat
      <4>1. estimated \in Amounts
        BY <3>4 DEF Armies, Amounts
      <4> QED
        BY <3>1, <4>1, MinCostIsLeast, WorthIsInt DEF ReadInv
    <3>7. estimated_resources \in Nat
          /\ estimated_resources = estimated_remaining_resources - Worth(game_state, estimated)
      BY <3>1 DEF SpendingInv
    <3>8. estimated_resources' \in Nat
          /\ estimated_resources' = estimated_remaining_resources - Worth(game_state, estimated')
      BY <3>2, <3>5, <3>6, <3>7
    <3>9. AllSpent'
      BY <3>1 DEF SpendingInv, AllSpent, IsSpent
    <3>10. ReadInv'
      BY <3>1 DEF ReadInv
    <3> QED
      BY <3>1, <3>4, <3>8, <3>9, <3>10 DEF SpendingInv
  <2>3. CASE EndSample
    <3> DEFINE sample == [t \in UnitTypes |-> estimated[t] + game_state[t]]
    <3>1. /\ exchange = "sampling" /\ exchange' = "sampling"
          /\ UNCHANGED <<message, clean, game_state, estimated_remaining_resources>>
          /\ ReadInv
      BY <2>3 DEF EndSample, Sampling, SpendingInv
    <3>2. /\ estimated_resources < MinCost(game_state)
          /\ samples' = Append(samples, sample)
          /\ estimated' = NoUnits
          /\ estimated_resources' = estimated_remaining_resources
      BY <2>3 DEF EndSample
    <3>3. sample \in Amounts
      BY <3>1, CostsAreInts DEF SpendingInv, Armies, Amounts, ReadInv
    <3>4. samples \in Seq(Amounts) /\ samples' \in Seq(Amounts)
      BY <3>2, <3>3 DEF SpendingInv
    <3>5. IsSpent(sample)
      <4>1. [t \in UnitTypes |-> sample[t] - game_state[t]] = estimated /\ estimated \in Armies
        BY <3>1, CostsAreInts DEF SpendingInv, Armies, ReadInv
      <4>2. estimated_resources \in Nat
            /\ estimated_resources = estimated_remaining_resources - Worth(game_state, estimated)
        BY <3>1 DEF SpendingInv
      <4>3. estimated_resources >= 0 /\ \A t \in UnitTypes : estimated_resources < CostOf(game_state, t)
        BY <3>1, <3>2, <4>2, MinCostIsLeast DEF ReadInv
      <4> HIDE DEF sample
      <4> QED
        BY <4>1, <4>2, <4>3, Zenon DEF IsSpent
    <3>6. AllSpent'
      <4>1. ASSUME NEW i \in DOMAIN samples' PROVE IsSpent(samples'[i])
        <5>1. DOMAIN samples' = 1 .. Len(samples) + 1 /\ DOMAIN samples = 1 .. Len(samples)
          BY <3>2, <3>4
        <5>2. CASE i \in 1 .. Len(samples)
          <6>1. samples'[i] = samples[i]
            BY <3>2, <3>4, <5>2
          <6> QED
            BY <5>1, <5>2, <6>1 DEF SpendingInv, AllSpent
        <5>3. CASE i = Len(samples) + 1
          <6>1. samples'[i] = sample
            BY <3>2, <3>4, <5>3
          <6> HIDE DEF sample
          <6> QED
            BY <3>5, <6>1
        <5> QED
          BY <3>4, <5>1, <5>2, <5>3
      <4>2. game_state' = game_state /\ estimated_remaining_resources' = estimated_remaining_resources
        BY <3>1
      <4> QED
        BY <4>1, <4>2 DEF AllSpent, IsSpent
    <3>7. Worth(game_state, NoUnits) = 0 /\ estimated_remaining_resources \in Nat
      BY <3>1, NoUnitsWorthNothing DEF ReadInv
    <3>8. NoUnits \in Armies
      BY DEF NoUnits, Armies
    <3>9. ReadInv'
      BY <3>1 DEF ReadInv
    <3> HIDE DEF sample
    <3> QED
      BY <3>1, <3>2, <3>4, <3>6, <3>7, <3>8, <3>9 DEF SpendingInv
  <2>4. CASE Solve
    BY <2>4 DEF Solve, SpendingInv, AllSpent, IsSpent, ReadInv
  <2>5. CASE UNCHANGED input_vars
    BY <2>5 DEF input_vars, SpendingInv, AllSpent, IsSpent, ReadInv
  <2> QED
    BY <2>1, <2>2, <2>3, <2>4, <2>5 DEF InputNext
<1> QED
  BY <1>1, <1>2, PTL DEF InputSpec

\* What a sample is worth is what was seen and what the solver added.
LEMMA WorthOfSample ==
    ASSUME NEW m \in Numbers, NEW sample \in Amounts
    PROVE  Worth(m, sample) =
             Worth(m, [t \in UnitTypes |-> sample[t] - m[t]]) + Worth(m, UnitsSeen(m))
<1>1. \A u \in Int, v \in Int, c \in Int : u * c = (u - v) * c + v * c /\ v * c \in Int
                                            /\ (u - v) * c \in Int
  OBVIOUS
<1>2. /\ m.heavy_cost \in Int /\ m.light_cost \in Int /\ m.ranged_cost \in Int
      /\ m["heavy"] \in Int /\ m["light"] \in Int /\ m["ranged"] \in Int
      /\ sample["heavy"] \in Int /\ sample["light"] \in Int /\ sample["ranged"] \in Int
  BY CostsAreInts DEF Amounts, UnitTypes
<1>3. ASSUME NEW u \in Int, NEW v \in Int, NEW c \in Int
      PROVE  \E x \in Int, y \in Int : x = (u - v) * c /\ y = v * c /\ u * c = x + y
  BY <1>1
<1>4. PICK a \in Int, d \in Int :
        /\ a = (sample["heavy"] - m["heavy"]) * m.heavy_cost /\ d = m["heavy"] * m.heavy_cost
        /\ sample["heavy"] * m.heavy_cost = a + d
  <2>1. PICK u \in Int, v \in Int, k \in Int :
            u = sample["heavy"] /\ v = m["heavy"] /\ k = m.heavy_cost
    BY <1>2
  <2>2. \E x \in Int, y \in Int : x = (u - v) * k /\ y = v * k /\ u * k = x + y
    BY <1>3
  <2> QED
    BY <2>1, <2>2, Zenon
<1>5. PICK b \in Int, e \in Int :
        /\ b = (sample["light"] - m["light"]) * m.light_cost /\ e = m["light"] * m.light_cost
        /\ sample["light"] * m.light_cost = b + e
  <2>1. PICK u \in Int, v \in Int, k \in Int :
            u = sample["light"] /\ v = m["light"] /\ k = m.light_cost
    BY <1>2
  <2>2. \E x \in Int, y \in Int : x = (u - v) * k /\ y = v * k /\ u * k = x + y
    BY <1>3
  <2> QED
    BY <2>1, <2>2, Zenon
<1>6. PICK c \in Int, f \in Int :
        /\ c = (sample["ranged"] - m["ranged"]) * m.ranged_cost /\ f = m["ranged"] * m.ranged_cost
        /\ sample["ranged"] * m.ranged_cost = c + f
  <2>1. PICK u \in Int, v \in Int, k \in Int :
            u = sample["ranged"] /\ v = m["ranged"] /\ k = m.ranged_cost
    BY <1>2
  <2>2. \E x \in Int, y \in Int : x = (u - v) * k /\ y = v * k /\ u * k = x + y
    BY <1>3
  <2> QED
    BY <2>1, <2>2, Zenon
<1>7. Worth(m, sample) = (a + d) + (b + e) + (c + f)
  BY <1>4, <1>5, <1>6, Zenon DEF Worth
<1>8. Worth(m, [t \in UnitTypes |-> sample[t] - m[t]]) = a + b + c
  BY <1>4, <1>5, <1>6, Zenon DEF Worth, UnitTypes
<1>9. Worth(m, UnitsSeen(m)) = d + e + f
  BY <1>4, <1>5, <1>6, Zenon DEF Worth, UnitTypes, UnitsSeen
<1> QED
  BY <1>7, <1>8, <1>9

\* Units that were added have a price.
LEMMA UnitsAreWorth ==
    ASSUME NEW m \in Messages, NEW units \in Armies, units # NoUnits
    PROVE  Worth(m, units) > 0
<1>1. /\ m.heavy_cost \in Nat /\ m.light_cost \in Nat /\ m.ranged_cost \in Nat
      /\ m.heavy_cost > 0 /\ m.light_cost > 0 /\ m.ranged_cost > 0
  BY FieldsOfMessage, InputAssumption
<1>2. /\ units["heavy"] \in Nat /\ units["light"] \in Nat /\ units["ranged"] \in Nat
  BY DEF Armies, UnitTypes
<1>3. units["heavy"] > 0 \/ units["light"] > 0 \/ units["ranged"] > 0
  <2> SUFFICES ASSUME ~ (units["heavy"] > 0 \/ units["light"] > 0 \/ units["ranged"] > 0)
               PROVE  units = NoUnits
    OBVIOUS
  <2>1. units["heavy"] = 0 /\ units["light"] = 0 /\ units["ranged"] = 0
    BY <1>2
  <2> QED
    BY <2>1 DEF Armies, NoUnits, UnitTypes
<1>4. \A u \in Nat, c \in Nat : u * c \in Nat /\ (u > 0 /\ c > 0 => u * c > 0)
  OBVIOUS
<1>5. PICK a \in Nat, b \in Nat, c \in Nat :
        /\ a = units["heavy"] * m.heavy_cost /\ b = units["light"] * m.light_cost
        /\ c = units["ranged"] * m.ranged_cost
  BY <1>1, <1>2, <1>4
<1>6. a > 0 \/ b > 0 \/ c > 0
  BY <1>1, <1>2, <1>3, <1>4, <1>5
<1>7. Worth(m, units) = a + b + c
  BY <1>5, Zenon DEF Worth
<1> QED
  BY <1>5, <1>6, <1>7

\* A sample that spends an estimate costs what the workers can have carried.
LEMMA SampleIsCarried ==
    ASSUME NEW m \in Messages, NEW r \in Remaining(m), NEW sample \in Amounts,
           NEW built \in Armies, built = [t \in UnitTypes |-> sample[t] - m[t]],
           r - Worth(m, built) >= 0,
           \A t \in UnitTypes : r - Worth(m, built) < CostOf(m, t)
    PROVE  LET carried == Paid(m, sample) - Rules.initial_resources IN
           /\ built # NoUnits => carried * TripTime(m) <= Work(m)
           /\ \A t \in UnitTypes : Work(m) <= (carried + CostOf(m, t)) * TripTime(m)
<1> DEFINE carried == Paid(m, sample) - Rules.initial_resources
<1>1. PICK n \in Gathered(m) : r = Max({0, Rules.initial_resources + n - Paid(m, UnitsSeen(m))})
  BY DEF Remaining
<1>2. m \in Numbers /\ built \in Amounts
  BY FieldsAreNumbers DEF Armies, Amounts
<1>3. PICK i \in Nat, miss \in Nat, loss \in Nat, b \in Int, s \in Int, d \in Nat, w \in Nat :
        /\ i = Rules.initial_resources /\ miss = Rules.missing /\ loss = m.loss
        /\ b = Worth(m, built) /\ s = Worth(m, UnitsSeen(m)) /\ d = TripTime(m) /\ w = Work(m)
        /\ d > 0
  BY <1>2, PartsOfEstimate, WorthIsInt
<1>4. n \in Int /\ n * d <= w /\ w <= (n + 1) * d
  BY <1>3, PartsOfEstimate
<1>5. Worth(m, sample) = b + s
  BY <1>2, <1>3, WorthOfSample
<1>6. Paid(m, UnitsSeen(m)) = miss + loss + s /\ Paid(m, sample) = miss + loss + (b + s)
  BY <1>3, <1>5, Zenon DEF Paid
<1>7. PICK k \in Int : k = carried
  BY <1>3, <1>6
<1>8. k = (miss + loss + (b + s)) - i
  BY <1>3, <1>6, <1>7, Zenon
<1>9. r \in {0, i + n - (miss + loss + s)} /\ r >= i + n - (miss + loss + s) /\ r \in Nat
  <2>1. PICK z \in Int : z = i + n - (miss + loss + s)
    BY <1>3, <1>4
  <2>2. r = Max({0, z})
    BY <1>1, <1>3, <1>6, <2>1, Zenon
  <2>3. Max({0, z}) \in {0, z} /\ \A y \in {0, z} : Max({0, z}) >= y
    <3>1. \E x \in {0, z} : \A y \in {0, z} : x >= y
      OBVIOUS
    <3> QED
      BY <3>1 DEF Max
  <2> QED
    BY <2>1, <2>2, <2>3
<1>10. ASSUME built # NoUnits PROVE k * d <= w
  <2>1. b > 0
    BY <1>3, <1>10, UnitsAreWorth
  <2>2. r - b >= 0
    BY <1>3
  <2>3. k <= n
    BY <1>3, <1>4, <1>8, <1>9, <2>1, <2>2
  <2>4. \A x \in Int, y \in Int : x <= y => x * d <= y * d
    BY <1>3
  <2>5. k * d <= n * d /\ k * d \in Int /\ n * d \in Int
    BY <1>3, <1>4, <1>7, <2>3, <2>4
  <2> QED
    BY <1>3, <1>4, <2>5
<1>11. ASSUME NEW t \in UnitTypes PROVE w <= (k + CostOf(m, t)) * d
  <2>1. PICK c \in Int : c = CostOf(m, t)
    BY <1>2, MinCostIsLeast
  <2>2. r - b < c
    BY <1>3, <2>1
  <2>3. n + 1 <= k + c
    BY <1>3, <1>4, <1>8, <1>9, <2>1, <2>2
  <2>4. \A x \in Int, y \in Int : x <= y => x * d <= y * d
    BY <1>3
  <2>5. (n + 1) * d <= (k + c) * d /\ (n + 1) * d \in Int /\ (k + c) * d \in Int
    BY <1>3, <1>4, <1>7, <2>1, <2>3, <2>4
  <2> QED
    BY <1>3, <1>4, <2>1, <2>5
<1> HIDE DEF carried
<1>12. /\ built # NoUnits => carried * TripTime(m) <= Work(m)
       /\ \A t \in UnitTypes : Work(m) <= (carried + CostOf(m, t)) * TripTime(m)
  BY <1>3, <1>7, <1>10, <1>11, Zenon
<1> QED
  BY <1>12 DEF carried

\* Every sample the solver takes (main.cpp, the loop of nb_samples) spends the
\* estimate until nothing can be paid, and no more, whatever was read; and if all of
\* the message came, what the opponent paid with it is what its workers can have
\* carried, for all costs and counts, whichever way the estimate is rounded.
THEOREM SamplesAreSpent == InputSpec => []SampleIsSpent
<1>1. SpendingInv => SampleIsSpent
  <2> SUFFICES ASSUME SpendingInv, NEW i \in DOMAIN samples
               PROVE  LET built == [t \in UnitTypes |-> samples[i][t] - game_state[t]]
                          rest  == estimated_remaining_resources - Worth(game_state, built)
                          carried == Paid(game_state, samples[i]) - Rules.initial_resources
                      IN  /\ rest >= 0 /\ \A t \in UnitTypes : rest < CostOf(game_state, t)
                          /\ clean =>
                               /\ built # NoUnits => carried * TripTime(game_state) <= Work(game_state)
                               /\ \A t \in UnitTypes :
                                    Work(game_state) <= (carried + CostOf(game_state, t)) * TripTime(game_state)
    BY Zenon DEF SampleIsSpent
  <2> DEFINE built == [t \in UnitTypes |-> samples[i][t] - game_state[t]]
             rest  == estimated_remaining_resources - Worth(game_state, built)
             carried == Paid(game_state, samples[i]) - Rules.initial_resources
  <2>1. built \in Armies /\ rest >= 0 /\ \A t \in UnitTypes : rest < CostOf(game_state, t)
    BY Zenon DEF SpendingInv, AllSpent, IsSpent
  <2>2. samples[i] \in Amounts /\ exchange # "sent"
    BY DEF SpendingInv
  <2>3. ASSUME clean
        PROVE  /\ built # NoUnits => carried * TripTime(game_state) <= Work(game_state)
               /\ \A t \in UnitTypes :
                    Work(game_state) <= (carried + CostOf(game_state, t)) * TripTime(game_state)
    <3>1. game_state \in Messages /\ estimated_remaining_resources \in Remaining(game_state)
      BY <2>2, <2>3 DEF SpendingInv, ReadInv
    <3> QED
      BY <2>1, <2>2, <3>1, SampleIsCarried, Zenon
  <2> QED
    BY <2>1, <2>3, Zenon
<1> QED
  BY <1>1, SpendingInvariant, PTL

\* What of the sampling is left to do, for it to become less by each step: the
\* samples, and then what the opponent can spend on the one that is drawn.
SamplingLeft ==
    (game_state.nb_samples - Len(samples)) * (estimated_remaining_resources + 1) + estimated_resources

\* The samples taken are not too many, and a sample has no more to spend than there
\* was at its start.
LoopInv ==
    clean /\ exchange = "sampling" =>
        /\ Len(samples) <= game_state.nb_samples
        /\ estimated_resources <= estimated_remaining_resources

\* There is a type to draw, or nothing can be paid any more.
IsDrawable(t) ==
    /\ Weight(game_state, t) > 0 /\ CostOf(game_state, t) > 0
    /\ estimated_resources >= CostOf(game_state, t)
SamplingIsNotStuck ==
    Sampling /\ estimated_resources >= MinCost(game_state) => \E t \in UnitTypes : IsDrawable(t)

LEMMA SampleFields ==
    ASSUME NEW m \in Messages
    PROVE  /\ m.nb_samples \in Nat
           /\ \A t \in UnitTypes : CostOf(m, t) > 0 /\ Weight(m, t) > 0
           /\ \E t \in UnitTypes : MinCost(m) = CostOf(m, t)
<1>1. /\ "nb_samples" \in Fields /\ "heavy_in_total" \in Fields /\ "light_in_total" \in Fields
      /\ "ranged_in_total" \in Fields
      /\ \A f \in {"nb_samples", "heavy_in_total", "light_in_total", "ranged_in_total"} :
           f \in Fields \ {"min_distance", "max_distance"}
  BY DEF Fields, Number
<1>2. \A f \in Fields : m[f] \in Int
  BY InputAssumption, SMT DEF Int32
<1>3. \A f \in Fields \ {"min_distance", "max_distance"} : m[f] >= 0
  BY InputAssumption
<1>4. /\ m.nb_samples \in Nat /\ m.heavy_in_total \in Nat /\ m.light_in_total \in Nat
      /\ m.ranged_in_total \in Nat
  BY <1>1, <1>2, <1>3
<1>5. m.heavy_cost > 0 /\ m.light_cost > 0 /\ m.ranged_cost > 0
  BY InputAssumption
<1>6. ASSUME NEW t \in UnitTypes PROVE CostOf(m, t) > 0 /\ Weight(m, t) > 0
  <2>1. InTotal(m, t) \in Nat
    BY <1>4 DEF InTotal
  <2>2. m[t] \in Nat
    BY FieldsOfMessage
  <2> QED
    BY <1>5, <2>1, <2>2 DEF CostOf, Weight
<1>7. \E t \in UnitTypes : MinCost(m) = CostOf(m, t)
  <2>1. MinCost(m) \in {m.heavy_cost, m.light_cost, m.ranged_cost}
    BY DEF MinCost
  <2>2. /\ CostOf(m, "heavy") = m.heavy_cost /\ CostOf(m, "light") = m.light_cost
        /\ CostOf(m, "ranged") = m.ranged_cost
    BY DEF CostOf
  <2> QED
    BY <2>1, <2>2 DEF UnitTypes
<1> QED
  BY <1>4, <1>6, <1>7

\* What one step of the sampling takes off.
LEMMA SamplingTakesOff ==
    \A n \in Nat, l \in Nat, r \in Nat, e \in Nat :
      /\ l <= n => (n - l) * (r + 1) + e \in Nat
      /\ (n - (l + 1)) * (r + 1) + r = ((n - l) * (r + 1) + e) - (1 + e)
<1> TAKE n \in Nat, l \in Nat, r \in Nat, e \in Nat
<1>1. l <= n => n - l \in Nat
  OBVIOUS
<1>2. \A k \in Int : (k - 1) * (r + 1) = k * (r + 1) - (r + 1) /\ k * (r + 1) \in Int
  OBVIOUS
<1>3. \A k \in Nat : k * (r + 1) \in Nat
  OBVIOUS
<1>4. PICK k \in Int : k = n - l
  OBVIOUS
<1>5. n - (l + 1) = k - 1
  BY <1>4
<1>6. (k - 1) * (r + 1) = k * (r + 1) - (r + 1) /\ k * (r + 1) \in Int
  BY <1>2
<1>7. PICK p \in Int : p = k * (r + 1)
  BY <1>6
<1>8. (n - (l + 1)) * (r + 1) = p - (r + 1) /\ (n - l) * (r + 1) = p
  BY <1>4, <1>5, <1>6, <1>7
<1>9. l <= n => p \in Nat
  BY <1>1, <1>3, <1>4, <1>7
<1> QED
  BY <1>8, <1>9

\* If all of the message came, and nothing else, the loops of samples (main.cpp) have
\* no endless run of steps, and no point where they wait for nothing: whatever the
\* opponent has shown, a type can be drawn as long as anything can be paid, and every
\* draw that is paid and every sample taken leave less to do.  Without fairness, for
\* all costs and counts.
THEOREM SamplingGoesOn ==
    InputSpec =>
        /\ [](clean => SamplingIsNotStuck)
        /\ [](clean /\ exchange = "sampling" => SamplingLeft \in Nat)
        /\ [][clean /\ Sampling => SamplingLeft' < SamplingLeft]_input_vars
<1>1. InputInit => LoopInv
  BY DEF InputInit, LoopInv
<1>2. SpendingInv /\ LoopInv /\ [InputNext]_input_vars =>
          LoopInv' /\ [clean /\ Sampling => SamplingLeft' < SamplingLeft]_input_vars
  <2> SUFFICES ASSUME SpendingInv, LoopInv, [InputNext]_input_vars
               PROVE  LoopInv' /\ [clean /\ Sampling => SamplingLeft' < SamplingLeft]_input_vars
    OBVIOUS
  <2>0. clean' = clean
    <3>1. CASE Receive
      BY <3>1 DEF Receive
    <3>2. CASE \E t \in UnitTypes : Draw(t)
      BY <3>2 DEF Draw
    <3>3. CASE EndSample \/ Solve
      BY <3>3 DEF EndSample, Solve
    <3>4. CASE UNCHANGED input_vars
      BY <3>4 DEF input_vars
    <3> QED
      BY <3>1, <3>2, <3>3, <3>4 DEF InputNext
  <2> SUFFICES ASSUME clean
               PROVE  LoopInv' /\ [Sampling => SamplingLeft' < SamplingLeft]_input_vars
    BY <2>0 DEF LoopInv
  <2>1. CASE Receive
    <3>1. /\ exchange = "sent" /\ samples' = <<>>
          /\ estimated_resources' = estimated_remaining_resources'
      BY <2>1 DEF Receive, SpendingInv
    <3>2. ReadInv' /\ message' = message /\ clean'
      BY <2>1, ReceiveReads DEF SpendingInv, Receive
    <3>3. game_state' \in Messages /\ estimated_remaining_resources' \in Nat
      BY <3>2 DEF SpendingInv, ReadInv
    <3>4. game_state'.nb_samples \in Nat
      BY <3>3, SampleFields
    <3>5. Len(samples') = 0
      BY <3>1
    <3> QED
      BY <3>1, <3>3, <3>4, <3>5 DEF LoopInv, Sampling
  <2>2. CASE (\E t \in UnitTypes : Draw(t)) \/ EndSample
    <3>1. /\ exchange = "sampling" /\ exchange' = "sampling"
          /\ game_state' = game_state
          /\ estimated_remaining_resources' = estimated_remaining_resources
          /\ Len(samples) < game_state.nb_samples
      BY <2>2 DEF Draw, EndSample, Sampling
    <3>2. /\ game_state \in Messages /\ samples \in Seq(Amounts)
          /\ estimated_resources \in Nat /\ estimated_remaining_resources \in Nat
      BY <3>1 DEF SpendingInv, ReadInv
    <3>3. PICK n \in Nat, l \in Nat, r \in Nat, e \in Nat :
              /\ n = game_state.nb_samples /\ l = Len(samples)
              /\ r = estimated_remaining_resources /\ e = estimated_resources
      BY <3>2, SampleFields
    <3>4. SamplingLeft = (n - l) * (r + 1) + e /\ l < n /\ e <= r
      BY <3>1, <3>3 DEF SamplingLeft, LoopInv
    <3>5. ASSUME NEW t \in UnitTypes, Draw(t)
          PROVE  LoopInv' /\ SamplingLeft' < SamplingLeft
      <4>1. samples' = samples /\ estimated_resources' = e - CostOf(game_state, t)
        BY <3>3, <3>5 DEF Draw
      <4>2. CostOf(game_state, t) \in Int /\ CostOf(game_state, t) > 0
        BY <3>2, SampleFields, MinCostIsLeast, FieldsAreNumbers
      <4>3. SamplingLeft' = (n - l) * (r + 1) + (e - CostOf(game_state, t))
        BY <3>1, <3>3, <4>1 DEF SamplingLeft
      <4>4. PICK p \in Int : p = (n - l) * (r + 1)
        OBVIOUS
      <4>5. SamplingLeft' < SamplingLeft
        BY <3>4, <4>2, <4>3, <4>4
      <4>6. estimated_resources' <= r
        BY <3>4, <4>1, <4>2
      <4> QED
        BY <3>1, <3>3, <3>4, <4>1, <4>5, <4>6 DEF LoopInv
    <3>6. CASE EndSample
      <4>1. /\ samples' = Append(samples, [t \in UnitTypes |-> estimated[t] + game_state[t]])
            /\ estimated_resources' = r
        BY <3>3, <3>6 DEF EndSample
      <4>2. [t \in UnitTypes |-> estimated[t] + game_state[t]] \in Amounts
        BY <3>2, FieldsOfMessage DEF SpendingInv, Armies, Amounts
      <4>3. Len(samples') = l + 1
        BY <3>2, <3>3, <4>1, <4>2
      <4>4. SamplingLeft' = (n - (l + 1)) * (r + 1) + r
        BY <3>1, <3>3, <4>1, <4>3 DEF SamplingLeft
      <4>5. SamplingLeft' = SamplingLeft - (1 + e) /\ SamplingLeft \in Nat
        BY <3>4, <4>4, SamplingTakesOff
      <4>6. SamplingLeft' < SamplingLeft
        BY <4>5
      <4> QED
        BY <3>1, <3>3, <3>4, <4>1, <4>3, <4>6 DEF LoopInv
    <3> QED
      BY <2>2, <3>5, <3>6
  <2>3. CASE Solve
    BY <2>3 DEF Solve, LoopInv
  <2>4. CASE UNCHANGED input_vars
    BY <2>4 DEF input_vars, LoopInv
  <2> QED
    BY <2>1, <2>2, <2>3, <2>4 DEF InputNext
<1>3. SpendingInv /\ LoopInv => (clean /\ exchange = "sampling" => SamplingLeft \in Nat)
  <2> SUFFICES ASSUME SpendingInv, LoopInv, clean, exchange = "sampling"
               PROVE  SamplingLeft \in Nat
    OBVIOUS
  <2>1. /\ game_state \in Messages /\ samples \in Seq(Amounts)
        /\ estimated_resources \in Nat /\ estimated_remaining_resources \in Nat
    BY DEF SpendingInv, ReadInv
  <2>2. PICK n \in Nat, l \in Nat, r \in Nat, e \in Nat :
            /\ n = game_state.nb_samples /\ l = Len(samples)
            /\ r = estimated_remaining_resources /\ e = estimated_resources
    BY <2>1, SampleFields
  <2> QED
    BY <2>2, SamplingTakesOff DEF SamplingLeft, LoopInv
<1>4. SpendingInv => (clean => SamplingIsNotStuck)
  <2> SUFFICES ASSUME SpendingInv, clean, Sampling, estimated_resources >= MinCost(game_state)
               PROVE  \E t \in UnitTypes : IsDrawable(t)
    BY DEF SamplingIsNotStuck
  <2>1. game_state \in Messages
    BY DEF Sampling, SpendingInv, ReadInv
  <2> QED
    BY <2>1, SampleFields DEF IsDrawable
<1> QED
  BY <1>1, <1>2, <1>3, <1>4, SpendingInvariant, PTL DEF InputSpec

-----------------------------------------------------------------------------
(* Composition                                                             *)

CompositionTypeOK ==
    /\ problem \in Problems
    /\ solver_type = Attitude(problem)
    /\ values \in [0 .. 11 -> Nat]

LEMMA CompositionTypeInv == CompositionSpec => []CompositionTypeOK
<1>1. CompositionInit => CompositionTypeOK
  BY DEF CompositionInit, CompositionTypeOK
<1>2. CompositionTypeOK /\ [CompositionNext]_composition_vars => CompositionTypeOK'
  <2> SUFFICES ASSUME CompositionTypeOK, [CompositionNext]_composition_vars
               PROVE  CompositionTypeOK'
    OBVIOUS
  <2>1. ASSUME NEW i \in 0 .. 11, Move(i) PROVE CompositionTypeOK'
    <3>1. PICK x \in {values[i] - 1, values[i] + 1} :
              x >= 0 /\ values' = [values EXCEPT ![i] = x]
      BY <2>1 DEF Move
    <3>2. x \in Nat
      BY <3>1 DEF CompositionTypeOK
    <3> QED
      BY <2>1, <3>1, <3>2 DEF Move, CompositionTypeOK, Attitude
  <2>2. CASE UNCHANGED composition_vars
    BY <2>2 DEF composition_vars, CompositionTypeOK, Attitude
  <2> QED
    BY <2>1, <2>2 DEF CompositionNext
<1> QED
  BY <1>1, <1>2, PTL DEF CompositionSpec

\* Every unit that is possessed or ordered fights exactly once in a solution of
\* the constraints of constraints_rts.cpp, for every army, whatever the local
\* search does to the variables.
THEOREM UnitsFight == CompositionSpec => []UnitsFightOnce
<1>1. CompositionTypeOK => UnitsFightOnce
  <2> SUFFICES ASSUME CompositionTypeOK, Satisfied, NEW t \in Army3
               PROVE  values[Assign[t]["heavy"]] + values[Assign[t]["light"]]
                        + values[Assign[t]["ranged"]] = problem.possessed[t] + Answer[t]
    BY DEF UnitsFightOnce
  <2>1. problem.possessed[t] \in Nat
    BY CompositionAssumption DEF CompositionTypeOK
  <2>2. \A i \in 0 .. 11 : values[i] \in Nat
    BY DEF CompositionTypeOK
  <2>3. AssignmentError(t) = 0
    BY DEF Satisfied
  <2>4. CASE t = "heavy"
    <3>1. Scope(t) = <<0, 3, 6, 9>>
      BY <2>4 DEF Scope
    <3>2. LET assigned == values[0] + values[3] + values[6]
              own == problem.possessed[t] + values[9]
          IN  0 = IF assigned >= own THEN assigned - own ELSE own - assigned
      BY <2>3, <3>1 DEF AssignmentError
    <3>3. values[0] + values[3] + values[6] = problem.possessed[t] + values[9]
      BY <2>1, <2>2, <3>2
    <3>4. Assign[t]["heavy"] = 0 /\ Assign[t]["light"] = 3 /\ Assign[t]["ranged"] = 6
      BY <2>4 DEF Assign
    <3>5. Answer[t] = values[9]
      BY <2>4 DEF Answer
    <3> QED
      BY <3>3, <3>4, <3>5
  <2>5. CASE t = "light"
    <3>1. Scope(t) = <<1, 4, 7, 10>>
      BY <2>5 DEF Scope
    <3>2. LET assigned == values[1] + values[4] + values[7]
              own == problem.possessed[t] + values[10]
          IN  0 = IF assigned >= own THEN assigned - own ELSE own - assigned
      BY <2>3, <3>1 DEF AssignmentError
    <3>3. values[1] + values[4] + values[7] = problem.possessed[t] + values[10]
      BY <2>1, <2>2, <3>2
    <3>4. Assign[t]["heavy"] = 1 /\ Assign[t]["light"] = 4 /\ Assign[t]["ranged"] = 7
      BY <2>5 DEF Assign
    <3>5. Answer[t] = values[10]
      BY <2>5 DEF Answer
    <3> QED
      BY <3>3, <3>4, <3>5
  <2>6. CASE t = "ranged"
    <3>1. Scope(t) = <<2, 5, 8, 11>>
      BY <2>6 DEF Scope
    <3>2. LET assigned == values[2] + values[5] + values[8]
              own == problem.possessed[t] + values[11]
          IN  0 = IF assigned >= own THEN assigned - own ELSE own - assigned
      BY <2>3, <3>1 DEF AssignmentError
    <3>3. values[2] + values[5] + values[8] = problem.possessed[t] + values[11]
      BY <2>1, <2>2, <3>2
    <3>4. Assign[t]["heavy"] = 2 /\ Assign[t]["light"] = 5 /\ Assign[t]["ranged"] = 8
      BY <2>6 DEF Assign
    <3>5. Answer[t] = values[11]
      BY <2>6 DEF Answer
    <3> QED
      BY <3>3, <3>4, <3>5
  <2> QED
    BY <2>4, <2>5, <2>6 DEF Army3
<1> QED
  BY <1>1, CompositionTypeInv, PTL

-----------------------------------------------------------------------------
(* Sorted numbers                                                          *)

\* sorting gives the indices of the worths in rising order.
IsSorting(sorting, worths, n) ==
    /\ sorting \in [1 .. n -> 1 .. n]
    /\ \A k, l \in 1 .. n : sorting[k] = sorting[l] => k = l
    /\ \A i \in 1 .. n : \E k \in 1 .. n : sorting[k] = i
    /\ \A k, l \in 1 .. n : k <= l => worths[sorting[k]] <= worths[sorting[l]]
    /\ \A k \in 1 .. n : Sorted(worths)[k] = worths[sorting[k]]

\* Sorted() does sort.
LEMMA SortedSorts ==
    ASSUME NEW n \in Nat, NEW worths \in [1 .. n -> Int]
    PROVE  \E sorting : IsSorting(sorting, worths, n)
<1> DEFINE D == {<<worths[i], i>> : i \in 1 .. n}
           Before(d) == {e \in D : e[1] < d[1] \/ (e[1] = d[1] /\ e[2] <= d[2])}
<1>1. IsFiniteSet(1 .. n) /\ Cardinality(1 .. n) = n
  BY FS_Interval
<1>2. IsFiniteSet(D) /\ Cardinality(D) = n
  <2> DEFINE f == [i \in 1 .. n |-> <<worths[i], i>>]
  <2>1. f \in Surjection(1 .. n, D)
    BY DEF Surjection
  <2>2. f \in Injection(1 .. n, D)
    BY DEF Injection, IsInjective
  <2> HIDE DEF f, D
  <2> QED
    BY <1>1, <2>1, <2>2, FS_Surjection
<1>3. \A d \in D : d[1] \in Int /\ d[2] \in 1 .. n /\ d[1] = worths[d[2]] /\ d = <<d[1], d[2]>>
  OBVIOUS
<1>4. \A d \in D : Rank(D, d) = Cardinality(Before(d)) /\ Before(d) \in SUBSET D /\ d \in Before(d)
  BY <1>3 DEF Rank
<1>5. ASSUME NEW d \in D, NEW e \in D, e \notin Before(d)
      PROVE  Before(d) \in SUBSET Before(e) /\ Before(d) # Before(e)
  <2>1. d[1] < e[1] \/ (d[1] = e[1] /\ d[2] < e[2])
    BY <1>3, <1>5
  <2>2. \A c \in Before(d) : c \in Before(e)
    BY <1>3, <2>1
  <2> QED
    BY <1>4, <1>5, <2>2
<1>6. \A d, e \in D : e \in Before(d) /\ d \in Before(e) => d = e
  BY <1>3
<1>7. \A d, e \in D : e \in Before(d) => e[1] <= d[1]
  BY <1>3
<1> HIDE DEF Before
<1>8. \A d \in D : IsFiniteSet(Before(d)) /\ Cardinality(Before(d)) \in 1 .. n
  <2> TAKE d \in D
  <2>1. IsFiniteSet(Before(d)) /\ Cardinality(Before(d)) <= n
    BY <1>2, <1>4, FS_Subset
  <2>2. Cardinality(Before(d)) \in Nat /\ Cardinality(Before(d)) # 0
    BY <1>4, <2>1, FS_CardinalityType, FS_EmptySet
  <2> QED
    BY <2>1, <2>2
<1>9. ASSUME NEW d \in D, NEW e \in D, e \notin Before(d) PROVE Rank(D, d) < Rank(D, e)
  <2>1. Before(d) \in SUBSET Before(e) /\ Before(d) # Before(e)
    BY <1>5, <1>9
  <2>2. Cardinality(Before(d)) <= Cardinality(Before(e)) /\ Cardinality(Before(d)) # Cardinality(Before(e))
    BY <1>8, <2>1, FS_Subset
  <2> QED
    BY <1>4, <1>8, <2>2
<1> DEFINE rank == [d \in D |-> Rank(D, d)]
<1>10. rank \in [D -> 1 .. n]
  BY <1>4, <1>8
<1>11. \A d, e \in D : rank[d] = rank[e] => d = e
  <2> TAKE d, e \in D
  <2>1. rank[d] \in 1 .. n /\ rank[e] \in 1 .. n
    BY <1>10
  <2>2. rank[d] = Rank(D, d) /\ rank[e] = Rank(D, e)
    OBVIOUS
  <2>3. e \notin Before(d) => rank[d] < rank[e]
    BY <1>9, <2>2
  <2>4. d \notin Before(e) => rank[e] < rank[d]
    BY <1>9, <2>2
  <2>5. d # e => e \notin Before(d) \/ d \notin Before(e)
    BY <1>6
  <2> HIDE DEF rank, D
  <2> QED
    BY <2>1, <2>3, <2>4, <2>5
<1>12. \A k \in 1 .. n : \E d \in D : rank[d] = k
  <2> HIDE DEF D, rank
  <2>1. rank \in Injection(D, 1 .. n)
    BY <1>10, <1>11 DEF Injection, IsInjective
  <2>2. rank \in Surjection(D, 1 .. n)
    BY <1>1, <1>2, <2>1, FS_Injection
  <2> QED
    BY <2>2 DEF Surjection
<1> DEFINE At(k) == CHOOSE d \in D : Rank(D, d) = k
<1>13. \A k \in 1 .. n : At(k) \in D /\ Rank(D, At(k)) = k
  <2> TAKE k \in 1 .. n
  <2>1. \E d \in D : Rank(D, d) = k
    BY <1>12
  <2> HIDE DEF D
  <2> QED
    BY <2>1
<1>14. \A k \in 1 .. n : Sorted(worths)[k] = At(k)[1]
  BY DEF Sorted
<1> DEFINE sorting == [k \in 1 .. n |-> At(k)[2]]
<1> HIDE DEF At, D
<1>15. sorting \in [1 .. n -> 1 .. n] /\ \A k \in 1 .. n : worths[sorting[k]] = At(k)[1]
  BY <1>3, <1>13
<1>16. \A k, l \in 1 .. n : sorting[k] = sorting[l] => k = l
  <2> TAKE k, l \in 1 .. n
  <2>1. SUFFICES ASSUME sorting[k] = sorting[l] PROVE k = l
    OBVIOUS
  <2>2. At(k) = At(l)
    BY <1>3, <1>13, <2>1
  <2> QED
    BY <1>13, <2>2
<1>17. \A i \in 1 .. n : \E k \in 1 .. n : sorting[k] = i
  <2> TAKE i \in 1 .. n
  <2>1. <<worths[i], i>> \in D
    BY DEF D
  <2>2. PICK d \in D : d = <<worths[i], i>>
    BY <2>1
  <2>3. PICK k \in 1 .. n : k = Rank(D, d)
    BY <1>10
  <2>4. At(k) = d
    BY <1>11, <1>13, <2>3
  <2> QED
    BY <2>2, <2>4
<1>18. ASSUME NEW k \in 1 .. n, NEW l \in 1 .. n, k <= l PROVE At(k)[1] <= At(l)[1]
  <2>1. At(k) \in Before(At(l))
    BY <1>9, <1>13, <1>18
  <2> QED
    BY <1>7, <1>13, <2>1
<1> HIDE DEF sorting
<1>19. \A k, l \in 1 .. n : k <= l => worths[sorting[k]] <= worths[sorting[l]]
  BY <1>15, <1>18
<1>20. \A k \in 1 .. n : Sorted(worths)[k] = worths[sorting[k]]
  BY <1>14, <1>15
<1>21. IsSorting(sorting, worths, n)
  BY <1>15, <1>16, <1>17, <1>19, <1>20, Zenon DEF IsSorting
<1> QED
  BY <1>21

\* Numbers that do not fall leave the sorted numbers where they are or above.
LEMMA SortedKeepsOrder ==
    ASSUME NEW n \in Nat, NEW low \in [1 .. n -> Int], NEW high \in [1 .. n -> Int],
           \A i \in 1 .. n : low[i] <= high[i], NEW k \in 1 .. n
    PROVE  Sorted(low)[k] <= Sorted(high)[k]
<1>1. PICK s : IsSorting(s, low, n)
  BY SortedSorts
<1>2. PICK t : IsSorting(t, high, n)
  BY SortedSorts
<1>3. Sorted(low)[k] = low[s[k]] /\ Sorted(high)[k] = high[t[k]]
  BY <1>1, <1>2 DEF IsSorting
<1>4. /\ s \in [1 .. n -> 1 .. n] /\ t \in [1 .. n -> 1 .. n]
      /\ \A i \in 1 .. n : \E j \in 1 .. n : s[j] = i
      /\ \A i, j \in 1 .. n : i <= j => low[s[i]] <= low[s[j]]
      /\ \A i, j \in 1 .. n : i <= j => high[t[i]] <= high[t[j]]
      /\ \A i, j \in 1 .. n : t[i] = t[j] => i = j
  BY <1>1, <1>2 DEF IsSorting
<1>5. SUFFICES ASSUME high[t[k]] < low[s[k]] PROVE FALSE
  <2>1. high[t[k]] \in Int /\ low[s[k]] \in Int
    BY <1>4
  <2> QED
    BY <1>3, <2>1
<1> DEFINE f == [m \in 1 .. k |-> CHOOSE p \in 1 .. n : s[p] = t[m]]
<1>6. ASSUME NEW m \in 1 .. k PROVE f[m] \in 1 .. k - 1 /\ s[f[m]] = t[m]
  <2>1. m \in 1 .. n /\ m <= k /\ t[m] \in 1 .. n
    BY <1>4
  <2>2. \E p \in 1 .. n : s[p] = t[m]
    BY <1>4, <2>1
  <2>3. f[m] \in 1 .. n /\ s[f[m]] = t[m]
    BY <2>2
  <2>4. PICK p \in 1 .. n : p = f[m] /\ s[p] = t[m]
    BY <2>3
  <2>5. low[t[m]] <= high[t[m]] /\ high[t[m]] <= high[t[k]]
    BY <1>4, <2>1
  <2>6. low[t[m]] \in Int /\ high[t[m]] \in Int /\ high[t[k]] \in Int /\ low[s[k]] \in Int
    BY <1>4, <2>1
  <2>7. low[s[p]] < low[s[k]]
    BY <1>5, <2>4, <2>5, <2>6
  <2>8. k <= p => low[s[k]] <= low[s[p]]
    BY <1>4
  <2>9. ~ (k <= p)
    BY <2>4, <2>6, <2>7, <2>8
  <2> QED
    BY <2>4, <2>9
<1>7. f \in [1 .. k -> 1 .. k - 1]
  <2>1. f = [m \in 1 .. k |-> f[m]]
    OBVIOUS
  <2> HIDE DEF f
  <2> QED
    BY <1>6, <2>1
<1>8. /\ IsFiniteSet(1 .. k) /\ IsFiniteSet(1 .. k - 1)
      /\ Cardinality(1 .. k - 1) < Cardinality(1 .. k)
  <2>1. k \in Int /\ k - 1 \in Int /\ 1 \in Int /\ k >= 1
    OBVIOUS
  <2>2. IsFiniteSet(1 .. k) /\ Cardinality(1 .. k) = k
    BY <2>1, FS_Interval
  <2>3. IsFiniteSet(1 .. k - 1) /\ Cardinality(1 .. k - 1) = k - 1
    BY <2>1, FS_Interval
  <2> QED
    BY <2>1, <2>2, <2>3
<1> HIDE DEF f
<1>9. PICK x \in 1 .. k, y \in 1 .. k : x # y /\ f[x] = f[y]
  BY <1>7, <1>8, FS_PigeonHole
<1>10. t[x] = t[y] /\ x \in 1 .. n /\ y \in 1 .. n
  <2>1. s[f[x]] = t[x] /\ s[f[y]] = t[y]
    BY <1>6
  <2> QED
    BY <1>9, <2>1
<1> QED
  BY <1>4, <1>9, <1>10

\* The sum of the sorted numbers is the sum of the numbers.
LEMMA SortedKeepsSum ==
    ASSUME NEW n \in Nat, n >= 1, NEW worths \in [1 .. n -> Int]
    PROVE  SumFunctionOnSet(Sorted(worths), 1 .. n) = SumFunctionOnSet(worths, 1 .. n)
<1>1. PICK s : IsSorting(s, worths, n)
  BY SortedSorts
<1>2. /\ s \in [1 .. n -> 1 .. n]
      /\ \A i \in 1 .. n : \E j \in 1 .. n : s[j] = i
      /\ \A i, j \in 1 .. n : s[i] = s[j] => i = j
      /\ \A i \in 1 .. n : Sorted(worths)[i] = worths[s[i]] /\ worths[s[i]] \in Int
  BY <1>1 DEF IsSorting
<1> DEFINE r == Sorted(worths)
           First(m) == {s[i] : i \in 1 .. m}
           Good == {m \in 1 .. n :
                      SumFunctionOnSet(r, 1 .. m) = SumFunctionOnSet(worths, First(m))}
<1>3. ASSUME NEW m \in 0 .. n - 1
      PROVE  /\ IsFiniteSet(First(m + 1)) /\ First(m + 1) \in SUBSET (1 .. n)
             /\ s[m + 1] \in First(m + 1) /\ First(m + 1) \ {s[m + 1]} = First(m)
  <2>a. \A i \in 1 .. m + 1 : i \in 1 .. n
    OBVIOUS
  <2>b. \A i \in 1 .. m + 1 : s[i] \in 1 .. n
    BY <1>2, <2>a
  <2>1. First(m + 1) \in SUBSET (1 .. n)
    BY <2>b
  <2>c. IsFiniteSet(1 .. n)
    BY FS_Interval
  <2>2. IsFiniteSet(First(m + 1))
    BY <2>1, <2>c, FS_Subset
  <2>3. s[m + 1] \in First(m + 1)
    OBVIOUS
  <2>4. \A i \in 1 .. m + 1 : i = m + 1 \/ (i \in 1 .. m /\ s[i] # s[m + 1])
    BY <1>2
  <2>5. \A i \in 1 .. m : i \in 1 .. m + 1
    OBVIOUS
  <2>6. First(m + 1) \ {s[m + 1]} = First(m)
    BY <2>4, <2>5
  <2> QED
    BY <2>1, <2>2, <2>3, <2>6
<1> HIDE DEF First
<1>4. ASSUME NEW m \in 0 .. n - 1
      PROVE  SumFunctionOnSet(worths, First(m + 1))
               = worths[s[m + 1]] + SumFunctionOnSet(worths, First(m))
  <2>1. \A i \in First(m + 1) : worths[i] \in Int
    BY <1>3
  <2>a. PICK F, e : F = First(m + 1) /\ e = s[m + 1]
    OBVIOUS
  <2>b. IsFiniteSet(F) /\ e \in F /\ \A i \in F : worths[i] \in Int
    BY <1>3, <2>1, <2>a
  <2>c. SumFunctionOnSet(worths, F) = worths[e] + SumFunctionOnSet(worths, F \ {e})
    BY <2>b, SumRemove
  <2>2. SumFunctionOnSet(worths, First(m + 1))
          = worths[s[m + 1]] + SumFunctionOnSet(worths, First(m + 1) \ {s[m + 1]})
    BY <2>a, <2>c
  <2> QED
    BY <1>3, <2>2
<1>5. ASSUME NEW m \in 0 .. n - 1
      PROVE  SumFunctionOnSet(r, 1 .. m + 1) = SumFunctionOnSet(r, 1 .. m) + worths[s[m + 1]]
  <2>a. \A i \in 1 .. m + 1 : i \in 1 .. n
    OBVIOUS
  <2>1. \A i \in 1 .. m + 1 : r[i] \in Int
    BY <1>2, <2>a
  <2>2. m \in Nat /\ m + 1 \in 1 .. n
    OBVIOUS
  <2> HIDE DEF r
  <2>3. SumFunctionOnSet(r, 1 .. m + 1) = SumFunctionOnSet(r, 1 .. m) + r[m + 1]
    BY <2>1, <2>2, SumUpTo
  <2>4. r[m + 1] = worths[s[m + 1]]
    BY <1>2, <2>2 DEF r
  <2> QED
    BY <2>3, <2>4
<1>6. ASSUME NEW m \in 0 .. n
      PROVE SumFunctionOnSet(r, 1 .. m) \in Int
  <2>1. IsFiniteSet(1 .. m)
    BY FS_Interval
  <2>a. \A i \in 1 .. m : i \in 1 .. n
    OBVIOUS
  <2>2. \A i \in 1 .. m : r[i] \in Int
    BY <1>2, <2>a
  <2> QED
    BY <2>1, <2>2, SumInt
<1>7. 1 \in Good
  <2>1. 1 .. 0 = {} /\ First(0) = {}
    BY DEF First
  <2>2. SumFunctionOnSet(r, 1 .. 0) = 0 /\ SumFunctionOnSet(worths, First(0)) = 0
    BY <2>1, SumEmpty
  <2>3. worths[s[1]] \in Int /\ 0 \in 0 .. n - 1 /\ 0 + 1 = 1
    BY <1>2
  <2> HIDE DEF r
  <2>4. SumFunctionOnSet(r, 1 .. 1) = SumFunctionOnSet(r, 1 .. 0) + worths[s[1]]
    BY <1>5, <2>3
  <2>5. SumFunctionOnSet(worths, First(1)) = worths[s[1]] + SumFunctionOnSet(worths, First(0))
    BY <1>4, <2>3
  <2> QED
    BY <2>2, <2>3, <2>4, <2>5
<1>8. ASSUME NEW m \in 1 .. n - 1, m \in Good PROVE m + 1 \in Good
  <2>1. m \in 0 .. n - 1 /\ m + 1 \in 1 .. n /\ m \in 0 .. n
    OBVIOUS
  <2>2. worths[s[m + 1]] \in Int
    BY <1>2, <2>1
  <2> HIDE DEF r
  <2> QED
    BY <1>4, <1>5, <1>6, <1>8, <2>1, <2>2
<1> HIDE DEF Good
<1>9. n \in Good
  <2>1. \A m \in 1 .. n - 1 : m \in Good => m + 1 \in Good
    BY <1>8
  <2>2. \A m \in 1 .. n : m \in Good
    BY <1>7, <2>1, UpTo
  <2> QED
    BY <2>2
<1>10. First(n) = 1 .. n
  <2>1. \A i \in 1 .. n : i \in {s[j] : j \in 1 .. n}
    BY <1>2
  <2>2. \A j \in 1 .. n : s[j] \in 1 .. n
    BY <1>2
  <2> QED
    BY <2>1, <2>2 DEF First
<1> QED
  BY <1>9, <1>10 DEF Good

-----------------------------------------------------------------------------
(* Rank dependent utility                                                  *)

\* phi weighs the steps between n sorted numbers, in hundredths.
IsPhi(phi, n) ==
    /\ phi \in [1 .. n - 1 -> 0 .. 100]
    /\ \A i \in 1 .. n - 2 : phi[i + 1] <= phi[i]

IsRising(r, n) ==
    /\ r \in [1 .. n -> Int]
    /\ \A i \in 1 .. n - 1 : r[i] <= r[i + 1]

\* reward accumulates what the numbers are worth, step by step.
Accumulates(reward, r, phi, n) ==
    /\ reward \in [1 .. n -> Int]
    /\ reward[1] = 100 * r[1]
    /\ \A i \in 1 .. n - 1 : reward[i + 1] = reward[i] + (r[i + 1] - r[i]) * phi[i]

\* What each step adds.
IsGain(gain, r, phi, n) == gain = [i \in 1 .. n - 1 |-> (r[i + 1] - r[i]) * phi[i]]

\* total is where the accumulation ends.
IsReward(total, r, phi, n) ==
    \E reward : Accumulates(reward, r, phi, n) /\ reward[n] = total

\* The sum that required_cost() computes is the last number of the accumulation.
LEMMA RewardAccumulates ==
    ASSUME NEW n \in Nat, n >= 1, NEW r, IsRising(r, n), NEW phi, IsPhi(phi, n),
           NEW gain, IsGain(gain, r, phi, n)
    PROVE  IsReward(100 * r[1] + SumFunction(gain), r, phi, n)
<1>a. r \in [1 .. n -> Int]
  BY DEF IsRising
<1>b. phi \in [1 .. n - 1 -> 0 .. 100]
  BY DEF IsPhi
<1>c. phi \in [1 .. n - 1 -> Int]
  <2>1. ASSUME NEW i \in 1 .. n - 1 PROVE phi[i] \in Int
    <3>1. phi[i] \in 0 .. 100
      BY <1>b, Zenon
    <3> QED
      BY <3>1
  <2>2. phi = [i \in 1 .. n - 1 |-> phi[i]]
    BY <1>b
  <2> HIDE <1>b
  <2> QED
    BY <2>1, <2>2, Zenon
<1>d. gain = [i \in 1 .. n - 1 |-> (r[i + 1] - r[i]) * phi[i]]
  BY DEF IsGain
<1> USE <1>a, <1>c, <1>d
<1>1. \A i \in 1 .. n - 1 : gain[i] = (r[i + 1] - r[i]) * phi[i] /\ gain[i] \in Int
  <2> TAKE i \in 1 .. n - 1
  <2>1. i \in 1 .. n /\ i + 1 \in 1 .. n
    OBVIOUS
  <2>a. r[i + 1] - r[i] \in Int /\ phi[i] \in Int
    BY <2>1
  <2>2. PICK x \in Int, y \in Int : x = r[i + 1] - r[i] /\ y = phi[i]
    BY <2>a
  <2>3. x * y \in Int
    OBVIOUS
  <2> QED
    BY <2>2, <2>3
<1> DEFINE Sum(m) == SumFunctionOnSet(gain, 1 .. m)
           reward == [m \in 1 .. n |-> 100 * r[1] + Sum(m - 1)]
<1>2. ASSUME NEW m \in 0 .. n - 1 PROVE Sum(m) \in Int
  <2>1. IsFiniteSet(1 .. m)
    BY FS_Interval
  <2>2. \A i \in 1 .. m : gain[i] \in Int
    BY <1>1
  <2> QED
    BY <2>1, <2>2, SumInt
<1>3. Sum(0) = 0
  <2>1. 1 .. 0 = {}
    OBVIOUS
  <2>2. SumFunctionOnSet(gain, {}) = 0
    BY SumEmpty
  <2> QED
    BY <2>1, <2>2
<1>4. ASSUME NEW i \in 1 .. n - 1 PROVE Sum(i) = Sum(i - 1) + gain[i]
  <2>1. i - 1 \in Nat /\ (i - 1) + 1 = i /\ \A j \in 1 .. i : j \in 1 .. n - 1
    OBVIOUS
  <2>2. \A j \in 1 .. (i - 1) + 1 : gain[j] \in Int
    BY <1>1, <2>1
  <2>3. SumFunctionOnSet(gain, 1 .. (i - 1) + 1)
          = SumFunctionOnSet(gain, 1 .. i - 1) + gain[(i - 1) + 1]
    BY <2>1, <2>2, SumUpTo
  <2> QED
    BY <2>1, <2>3
<1> HIDE DEF Sum
<1>5. r[1] \in Int /\ 1 \in 1 .. n /\ n \in 1 .. n
  OBVIOUS
<1>6. \A m \in 1 .. n : reward[m] = 100 * r[1] + Sum(m - 1) /\ reward[m] \in Int
  <2> TAKE m \in 1 .. n
  <2>1. Sum(m - 1) \in Int
    BY <1>2
  <2> QED
    BY <1>5, <2>1
<1>7. reward \in [1 .. n -> Int]
  BY <1>6
<1> HIDE DEF reward
<1>8. reward[1] = 100 * r[1]
  <2>1. reward[1] = 100 * r[1] + Sum(1 - 1) /\ 1 - 1 = 0
    BY <1>5, <1>6
  <2> QED
    BY <1>3, <1>5, <2>1
<1>9. \A i \in 1 .. n - 1 : reward[i + 1] = reward[i] + (r[i + 1] - r[i]) * phi[i]
  <2> TAKE i \in 1 .. n - 1
  <2>1. i \in 1 .. n /\ i + 1 \in 1 .. n /\ (i + 1) - 1 = i
    OBVIOUS
  <2>2. reward[i + 1] = 100 * r[1] + Sum(i) /\ reward[i] = 100 * r[1] + Sum(i - 1)
    BY <1>6, <2>1
  <2>3. gain[i] = (r[i + 1] - r[i]) * phi[i] /\ gain[i] \in Int /\ Sum(i - 1) \in Int
    BY <1>1, <1>2
  <2>4. reward[i + 1] = reward[i] + gain[i]
    BY <1>4, <1>5, <2>2, <2>3
  <2> QED
    BY <2>3, <2>4
<1>10. reward[n] = 100 * r[1] + SumFunction(gain)
  <2>1. DOMAIN gain = 1 .. n - 1
    OBVIOUS
  <2>2. SumFunction(gain) = Sum(n - 1)
    BY <2>1 DEF SumFunction, Sum
  <2> QED
    BY <1>5, <1>6, <2>2
<1> QED
  BY <1>7, <1>8, <1>9, <1>10 DEF Accumulates, IsReward

\* One step of the sum, with its numbers named.
LEMMA RewardStep ==
    ASSUME NEW n \in Nat, NEW r, NEW phi, NEW reward,
           IsRising(r, n), IsPhi(phi, n), Accumulates(reward, r, phi, n),
           NEW m \in 1 .. n - 1
    PROVE  /\ m \in 1 .. n /\ m + 1 \in 1 .. n
           /\ r[m] \in Int /\ r[m + 1] \in Int /\ r[m] <= r[m + 1]
           /\ phi[m] \in Int /\ 0 <= phi[m] /\ phi[m] <= 100
           /\ reward[m] \in Int /\ reward[m + 1] \in Int
           /\ reward[m + 1] = reward[m] + (r[m + 1] - r[m]) * phi[m]
<1>1. m \in 1 .. n /\ m + 1 \in 1 .. n
  OBVIOUS
<1>2. r[m] \in Int /\ r[m + 1] \in Int /\ r[m] <= r[m + 1]
  BY <1>1 DEF IsRising
<1>3. phi[m] \in 0 .. 100
  BY DEF IsPhi
<1>4. reward[m] \in Int /\ reward[m + 1] \in Int
  BY <1>1 DEF Accumulates
<1>5. reward[m + 1] = reward[m] + (r[m + 1] - r[m]) * phi[m]
  BY DEF Accumulates
<1> QED
  BY <1>1, <1>2, <1>3, <1>4, <1>5

\* The reward is between the least and the greatest of the numbers.
LEMMA RewardIsBetween ==
    ASSUME NEW n \in Nat, n >= 1, NEW r, NEW phi, NEW reward,
           IsRising(r, n), IsPhi(phi, n), Accumulates(reward, r, phi, n)
    PROVE  100 * r[1] <= reward[n] /\ reward[n] <= 100 * r[n]
<1> DEFINE Good == {m \in 1 .. n : 100 * r[1] <= reward[m] /\ reward[m] <= 100 * r[m]}
<1>1. 1 \in Good
  <2>1. 1 \in 1 .. n /\ r[1] \in Int
    BY DEF IsRising
  <2> QED
    BY <2>1 DEF Accumulates
<1>2. ASSUME NEW m \in 1 .. n - 1, m \in Good PROVE m + 1 \in Good
  <2>1. PICK x \in Int, y \in Int, p \in Int, a \in Int, b \in Int :
            /\ x = r[m] /\ y = r[m + 1] /\ p = phi[m] /\ a = reward[m] /\ b = reward[m + 1]
    BY RewardStep
  <2>2. x <= y /\ 0 <= p /\ p <= 100 /\ b = a + (y - x) * p /\ m + 1 \in 1 .. n
    BY <2>1, RewardStep
  <2>3. PICK d \in Int, e \in Int : d = y - x /\ e = d * p
    OBVIOUS
  <2>4. 0 <= e /\ e <= 100 * d
    BY <2>2, <2>3
  <2>5. r[1] \in Int
    BY DEF IsRising
  <2>6. b = a + e
    BY <2>2, <2>3
  <2>7. 100 * r[1] <= a /\ a <= 100 * x
    BY <1>2, <2>1
  <2>8. 100 * r[1] <= b /\ b <= 100 * y
    BY <2>3, <2>4, <2>5, <2>6, <2>7
  <2> QED
    BY <2>1, <2>2, <2>8
<1>3. \A m \in 1 .. n - 1 : m \in Good => m + 1 \in Good
  BY <1>2
<1> HIDE DEF Good
<1>4. \A m \in 1 .. n : m \in Good
  BY <1>1, <1>3, UpTo
<1> QED
  BY <1>4 DEF Good

\* Higher numbers have a higher reward.
LEMMA RewardGrows ==
    ASSUME NEW n \in Nat, n >= 1, NEW phi, IsPhi(phi, n),
           NEW r, NEW reward, IsRising(r, n), Accumulates(reward, r, phi, n),
           NEW q, NEW other, IsRising(q, n), Accumulates(other, q, phi, n),
           \A i \in 1 .. n : r[i] <= q[i]
    PROVE  reward[n] <= other[n]
<1> DEFINE Before(m) == IF m = 1 THEN 100 ELSE phi[m - 1]
           Good == {m \in 1 .. n : other[m] - reward[m] >= Before(m) * (q[m] - r[m])}
<1>1. 1 \in Good
  <2>1. 1 \in 1 .. n /\ r[1] \in Int /\ q[1] \in Int
    BY DEF IsRising
  <2>2. reward[1] = 100 * r[1] /\ other[1] = 100 * q[1]
    BY DEF Accumulates
  <2> QED
    BY <2>1, <2>2
<1>2. ASSUME NEW m \in 1 .. n
      PROVE  Before(m) \in Int /\ Before(m) >= 0 /\ (m <= n - 1 => phi[m] <= Before(m))
  <2>1. CASE m = 1
    <3>1. m <= n - 1 => phi[m] <= 100
      <4>1. m <= n - 1 => m \in 1 .. n - 1
        OBVIOUS
      <4>2. \A i \in 1 .. n - 1 : phi[i] \in 0 .. 100
        BY DEF IsPhi
      <4> QED
        BY <4>1, <4>2
    <3> QED
      BY <2>1, <3>1
  <2>2. CASE m # 1
    <3>1. m - 1 \in 1 .. n - 1 /\ (m - 1) + 1 = m
      BY <2>2
    <3>2. phi[m - 1] \in Int /\ phi[m - 1] >= 0
      <4>1. \A i \in 1 .. n - 1 : phi[i] \in 0 .. 100
        BY DEF IsPhi
      <4> QED
        BY <3>1, <4>1
    <3>3. m <= n - 1 => m - 1 \in 1 .. n - 2
      BY <3>1
    <3>4. m <= n - 1 => phi[(m - 1) + 1] <= phi[m - 1]
      BY <3>3 DEF IsPhi
    <3> QED
      BY <2>2, <3>1, <3>2, <3>4
  <2> QED
    BY <2>1, <2>2
<1>3. ASSUME NEW m \in 1 .. n - 1, m \in Good PROVE m + 1 \in Good
  <2>1. PICK x \in Int, x2 \in Int, p \in Int, a \in Int, a2 \in Int :
            /\ x = r[m] /\ x2 = r[m + 1] /\ p = phi[m] /\ a = reward[m] /\ a2 = reward[m + 1]
            /\ 0 <= p /\ a2 = a + (x2 - x) * p
    <3>1. /\ r[m] \in Int /\ r[m + 1] \in Int /\ phi[m] \in Int /\ 0 <= phi[m]
          /\ reward[m] \in Int /\ reward[m + 1] \in Int
          /\ reward[m + 1] = reward[m] + (r[m + 1] - r[m]) * phi[m]
      BY RewardStep
    <3> QED
      BY <3>1, Zenon
  <2>2. PICK y \in Int, y2 \in Int, b \in Int, b2 \in Int :
            /\ y = q[m] /\ y2 = q[m + 1] /\ b = other[m] /\ b2 = other[m + 1]
            /\ b2 = b + (y2 - y) * p
    <3>1. /\ q[m] \in Int /\ q[m + 1] \in Int /\ other[m] \in Int /\ other[m + 1] \in Int
          /\ other[m + 1] = other[m] + (q[m + 1] - q[m]) * phi[m]
      BY RewardStep
    <3> QED
      BY <2>1, <3>1, Zenon
  <2>3. m \in 1 .. n /\ m + 1 \in 1 .. n /\ Before(m + 1) = p /\ m <= n - 1
    BY <2>1
  <2>4. PICK f \in Int : f = Before(m) /\ p <= f
    BY <1>2, <2>1, <2>3
  <2>5. x <= y /\ x2 <= y2
    BY <2>1, <2>2, <2>3
  <2>6. b - a >= f * (y - x)
    BY <1>3, <2>1, <2>2, <2>4
  <2>7. PICK d \in Int, d2 \in Int : d = y - x /\ d2 = y2 - x2
    OBVIOUS
  <2>8. (f - p) * d >= 0
    BY <2>4, <2>5, <2>7
  <2>9. f * d - p * d = (f - p) * d
    OBVIOUS
  <2>10. b2 - a2 = (b - a) + p * d2 - p * d
    <3>1. /\ (x2 - x) * p = p * x2 - p * x /\ (y2 - y) * p = p * y2 - p * y
          /\ p * d2 = p * y2 - p * x2 /\ p * d = p * y - p * x
      BY <2>7
    <3>2. PICK k1 \in Int, k2 \in Int, k3 \in Int, k4 \in Int :
              k1 = p * x /\ k2 = p * x2 /\ k3 = p * y /\ k4 = p * y2
      OBVIOUS
    <3>3. a2 = a + k2 - k1 /\ b2 = b + k4 - k3 /\ p * d2 = k4 - k2 /\ p * d = k3 - k1
      BY <2>1, <2>2, <3>1, <3>2
    <3> QED
      BY <3>3
  <2>11. b2 - a2 >= p * d2
    <3>1. PICK u \in Int, v \in Int, w \in Int : u = f * d /\ v = p * d /\ w = p * d2
      OBVIOUS
    <3>2. u - v >= 0
      BY <2>8, <2>9, <3>1
    <3>3. b - a >= u
      BY <2>6, <2>7, <3>1
    <3> QED
      BY <2>10, <3>1, <3>2, <3>3
  <2> HIDE DEF Before
  <2> QED
    BY <2>1, <2>2, <2>3, <2>7, <2>11
<1>4. \A m \in 1 .. n - 1 : m \in Good => m + 1 \in Good
  BY <1>3
<1> HIDE DEF Good
<1>5. n \in Good /\ n \in 1 .. n
  <2>1. \A m \in 1 .. n : m \in Good
    BY <1>1, <1>4, UpTo
  <2> QED
    BY <2>1
<1>6. reward[n] \in Int /\ other[n] \in Int /\ r[n] \in Int /\ q[n] \in Int /\ r[n] <= q[n]
  BY <1>5 DEF Accumulates, IsRising
<1>7. PICK f \in Int, d \in Int : f = Before(n) /\ f >= 0 /\ d = q[n] - r[n] /\ d >= 0
  BY <1>2, <1>5, <1>6
<1>8. other[n] - reward[n] >= f * d
  BY <1>5, <1>7 DEF Good
<1>9. f * d >= 0
  BY <1>7
<1> QED
  BY <1>6, <1>8, <1>9

\* What the reward is against the average of the numbers, by phi.
Averages(reward, r, phi, n) ==
    /\ (\A i \in 1 .. n - 1 : n * phi[i] >= 100 * (n - i))
         => n * reward[n] >= 100 * SumFunctionOnSet(r, 1 .. n)
    /\ (\A i \in 1 .. n - 1 : n * phi[i] = 100 * (n - i))
         => n * reward[n] = 100 * SumFunctionOnSet(r, 1 .. n)

\* A reward is above the average of the numbers if phi is above the share of
\* the numbers that are left, and at the average if phi is that share.
LEMMA RewardAverages ==
    ASSUME NEW n \in Nat, n >= 1, NEW r, NEW phi, NEW reward,
           IsRising(r, n), IsPhi(phi, n), Accumulates(reward, r, phi, n)
    PROVE  Averages(reward, r, phi, n)
<1> DEFINE Sum(m) == SumFunctionOnSet(r, 1 .. m)
           Excess(m) == n * reward[m] - 100 * (Sum(m) + (n - m) * r[m])
           Above == \A i \in 1 .. n - 1 : n * phi[i] >= 100 * (n - i)
           Even == \A i \in 1 .. n - 1 : n * phi[i] = 100 * (n - i)
           Good == {m \in 1 .. n : (Above => Excess(m) >= 0) /\ (Even => Excess(m) = 0)}
<1>1. ASSUME NEW m \in 0 .. n - 1
      PROVE  Sum(m) \in Int /\ r[m + 1] \in Int /\ Sum(m + 1) = Sum(m) + r[m + 1]
  <2>1. \A i \in 1 .. m + 1 : i \in 1 .. n
    OBVIOUS
  <2>2. \A i \in 1 .. m + 1 : r[i] \in Int
    BY <2>1 DEF IsRising
  <2> QED
    BY <2>2, SumUpTo
<1>2. Sum(0) = 0
  <2>1. 1 .. 0 = {}
    OBVIOUS
  <2>2. SumFunctionOnSet(r, {}) = 0
    BY SumEmpty
  <2> QED
    BY <2>1, <2>2
<1> HIDE DEF Sum
<1>3. 1 \in Good
  <2>1. 0 \in 0 .. n - 1 /\ 0 + 1 = 1 /\ 1 \in 1 .. n
    OBVIOUS
  <2>2. r[1] \in Int /\ Sum(1) = Sum(0) + r[1]
    BY <1>1, <2>1
  <2>3. PICK x \in Int : x = r[1]
    BY <2>2
  <2>4. Sum(1) = x /\ reward[1] = 100 * x
    BY <1>2, <2>2, <2>3 DEF Accumulates
  <2>5. n * (100 * x) = 100 * (x + (n - 1) * x)
    OBVIOUS
  <2>6. Excess(1) = 0
    BY <2>3, <2>4, <2>5
  <2> HIDE DEF Excess, Above, Even
  <2> QED
    BY <2>1, <2>6
<1>4. ASSUME NEW m \in 1 .. n - 1, m \in Good PROVE m + 1 \in Good
  <2>1. PICK x \in Int, y \in Int, p \in Int, a \in Int, b \in Int, s \in Int :
            /\ x = r[m] /\ y = r[m + 1] /\ p = phi[m] /\ a = reward[m] /\ b = reward[m + 1]
            /\ s = Sum(m)
    <3>1. m \in 0 .. n - 1
      OBVIOUS
    <3>2. Sum(m) \in Int
      BY <1>1, <3>1
    <3> QED
      BY <3>2, RewardStep
  <2>2. x <= y /\ b = a + (y - x) * p
    BY <2>1, RewardStep
  <2>3. Sum(m + 1) = s + y
    <3>1. m \in 0 .. n - 1
      OBVIOUS
    <3> QED
      BY <1>1, <2>1, <3>1
  <2>4. PICK d \in Int, slack \in Int : d = y - x /\ d >= 0 /\ slack = n * p - 100 * (n - m)
    BY <2>2
  <2>5. Excess(m) = n * a - 100 * (s + (n - m) * x)
    BY <2>1
  <2>6. Excess(m + 1) = n * b - 100 * ((s + y) + (n - (m + 1)) * y)
    BY <2>1, <2>3
  <2>7. Excess(m + 1) = Excess(m) + d * slack
    <3>1. n * b = n * a + n * (d * p)
      BY <2>2, <2>4
    <3>2. (n - (m + 1)) * y = (n - m) * y - y
      OBVIOUS
    <3>3. d * slack = n * (d * p) - 100 * ((n - m) * d)
      BY <2>4
    <3>4. (n - m) * d = (n - m) * y - (n - m) * x
      BY <2>4
    <3>5. PICK k1 \in Int, k2 \in Int, k3 \in Int, k4 \in Int, k5 \in Int, k6 \in Int :
              /\ k1 = n * a /\ k2 = n * (d * p) /\ k3 = (n - m) * y /\ k4 = (n - m) * x
              /\ k5 = (n - m) * d /\ k6 = n * b
      OBVIOUS
    <3>6. Excess(m + 1) = k6 - 100 * ((s + y) + (k3 - y))
      BY <2>6, <3>2, <3>5
    <3>7. Excess(m) = k1 - 100 * (s + k4)
      BY <2>5, <3>5
    <3>8. d * slack = k2 - 100 * k5 /\ k5 = k3 - k4 /\ k6 = k1 + k2
      BY <3>1, <3>3, <3>4, <3>5
    <3> HIDE DEF Excess
    <3> QED
      BY <3>6, <3>7, <3>8
  <2>8. (Above => slack >= 0) /\ (Even => slack = 0)
    BY <2>1, <2>4
  <2>9. (slack >= 0 => d * slack >= 0) /\ (slack = 0 => d * slack = 0)
    BY <2>4
  <2>10. Excess(m) \in Int /\ d * slack \in Int
    BY <2>5
  <2>11. (Above => Excess(m) >= 0) /\ (Even => Excess(m) = 0) /\ m + 1 \in 1 .. n
    BY <1>4
  <2> HIDE DEF Excess, Above, Even
  <2>12. PICK u \in Int : u = d * slack
    OBVIOUS
  <2> QED
    BY <2>7, <2>8, <2>9, <2>10, <2>11, <2>12
<1>5. \A m \in 1 .. n - 1 : m \in Good => m + 1 \in Good
  BY <1>4
<1> HIDE DEF Good
<1>6. n \in Good
  <2>1. \A m \in 1 .. n : m \in Good
    BY <1>3, <1>5, UpTo
  <2> QED
    BY <2>1
<1>7. (Above => Excess(n) >= 0) /\ (Even => Excess(n) = 0)
  BY <1>6 DEF Good
<1>8. Excess(n) = n * reward[n] - 100 * Sum(n) /\ n * reward[n] \in Int /\ Sum(n) \in Int
  <2>1. n \in 1 .. n /\ n - 1 \in 0 .. n - 1 /\ (n - 1) + 1 = n
    OBVIOUS
  <2>2. PICK x \in Int, a \in Int : x = r[n] /\ a = reward[n]
    BY <2>1 DEF IsRising, Accumulates
  <2>3. Sum(n) \in Int
    BY <1>1, <2>1, <2>2
  <2>4. (n - n) * x = 0 /\ n * a \in Int
    OBVIOUS
  <2>5. Excess(n) = n * a - 100 * (Sum(n) + (n - n) * x)
    BY <2>2
  <2> HIDE DEF Excess
  <2> QED
    BY <2>2, <2>3, <2>4, <2>5
<1>9. (Above => n * reward[n] >= 100 * Sum(n)) /\ (Even => n * reward[n] = 100 * Sum(n))
  <2>1. PICK u \in Int, v \in Int : u = n * reward[n] /\ v = Sum(n)
    BY <1>8
  <2>2. Excess(n) = u - 100 * v
    BY <1>8, <2>1
  <2> HIDE DEF Excess, Above, Even
  <2> QED
    BY <1>7, <2>1, <2>2
<1> QED
  BY <1>9 DEF Sum, Averages

\* How many of n numbers are x or above, and above x.
From(worths, n, x) == Cardinality({i \in 1 .. n : worths[i] >= x})
Above(worths, n, x) == Cardinality({i \in 1 .. n : worths[i] > x})

Counts(worths, r, n, m) ==
    /\ \A k \in 1 .. n : r[k] \in Int
    /\ \A k, l \in 1 .. n : k <= l => r[k] <= r[l]
    /\ (m = 0 \/ r[m] < r[m + 1]) => From(worths, n, r[m + 1]) = n - m
    /\ Above(worths, n, r[m + 1]) <= n - (m + 1)
    /\ \A x \in Int : x < r[m + 1] => Above(worths, n, x) >= n - m
    /\ \A x \in Int : From(worths, n, x) \in 0 .. n /\ Above(worths, n, x) \in 0 .. n
    /\ Range(worths) = {r[k] : k \in 1 .. n}

\* The same by the place of x among the sorted numbers.
LEMMA CountsFromPlaces ==
    ASSUME NEW n \in Nat, n >= 1, NEW worths \in [1 .. n -> Int],
           NEW r, r = Sorted(worths), NEW m \in 0 .. n - 1
    PROVE  Counts(worths, r, n, m)
<1>1. PICK s : IsSorting(s, worths, n)
  BY SortedSorts
<1>2. /\ \A k \in 1 .. n : s[k] \in 1 .. n
      /\ \A i, j \in 1 .. n : s[i] = s[j] => i = j
      /\ \A i \in 1 .. n : \E k \in 1 .. n : s[k] = i
  BY <1>1 DEF IsSorting
<1>2a. \A k \in 1 .. n : r[k] = worths[s[k]] /\ r[k] \in Int
  <2>1. \A k \in 1 .. n : Sorted(worths)[k] = worths[s[k]]
    BY <1>1 DEF IsSorting
  <2> QED
    BY <1>2, <2>1
<1>2b. \A k, l \in 1 .. n : k <= l => r[k] <= r[l]
  <2>1. \A k, l \in 1 .. n : k <= l => worths[s[k]] <= worths[s[l]]
    BY <1>1 DEF IsSorting
  <2> QED
    BY <1>2a, <2>1
<1>3. r \in [1 .. n -> Int]
  <2>1. r = [k \in 1 .. n |-> r[k]]
    BY DEF Sorted
  <2> QED
    BY <1>2a, <2>1
<1> DEFINE Rest(k) == {s[j] : j \in k + 1 .. n}
<1>4. \A j \in 0 .. n : IsFiniteSet(Rest(j)) /\ Cardinality(Rest(j)) = n - j
  <2> TAKE j \in 0 .. n
  <2>1. IsFiniteSet(j + 1 .. n) /\ Cardinality(j + 1 .. n) = n - j
    <3>1. j + 1 \in Int /\ n \in Int /\ (j + 1 > n => n - j = 0)
      OBVIOUS
    <3>2. IsFiniteSet(j + 1 .. n)
          /\ Cardinality(j + 1 .. n) = IF j + 1 > n THEN 0 ELSE n - (j + 1) + 1
      BY <3>1, FS_Interval
    <3> QED
      BY <3>1, <3>2
  <2> DEFINE f == [k \in j + 1 .. n |-> s[k]]
  <2>2. \A k \in j + 1 .. n : k \in 1 .. n
    OBVIOUS
  <2>3. f \in Surjection(j + 1 .. n, Rest(j))
    BY DEF Surjection
  <2>4. f \in Injection(j + 1 .. n, Rest(j))
    BY <1>2, <2>2 DEF Injection, IsInjective
  <2> HIDE DEF f, Rest
  <2> QED
    BY <2>1, <2>3, <2>4, FS_Surjection
<1>5. IsFiniteSet(1 .. n) /\ Cardinality(1 .. n) = n
  BY FS_Interval
<1>6. ASSUME NEW T \in SUBSET (1 .. n)
      PROVE  IsFiniteSet(T) /\ Cardinality(T) \in 0 .. n
  <2>1. IsFiniteSet(T) /\ Cardinality(T) <= n
    <3>1. PICK S : S = 1 .. n
      OBVIOUS
    <3>2. IsFiniteSet(S) /\ T \in SUBSET S /\ Cardinality(S) = n
      BY <1>5, <3>1
    <3> QED
      BY <3>2, FS_Subset
  <2> QED
    BY <2>1, FS_CardinalityType
<1>7. m + 1 \in 1 .. n /\ m \in 0 .. n /\ m + 1 \in 0 .. n /\ r[m + 1] \in Int
  BY <1>3
<1>8. ASSUME m = 0 \/ r[m] < r[m + 1]
      PROVE  {i \in 1 .. n : worths[i] >= r[m + 1]} = Rest(m)
  <2>1. ASSUME NEW k \in 1 .. n PROVE r[k] >= r[m + 1] <=> k \in m + 1 .. n
    <3>1. k \in m + 1 .. n => r[m + 1] <= r[k]
      BY <1>2b, <1>7
    <3>2. ASSUME k \notin m + 1 .. n PROVE r[k] < r[m + 1]
      <4>1. m \in 1 .. n /\ k <= m
        BY <3>2
      <4>2. r[k] <= r[m] /\ r[m] < r[m + 1]
        BY <1>2b, <1>8, <4>1
      <4> QED
        BY <1>3, <1>7, <4>1, <4>2
    <3>3. r[k] \in Int
      BY <1>3
    <3> QED
      BY <1>7, <3>1, <3>2, <3>3
  <2>a. \A k \in m + 1 .. n : k \in 1 .. n
    OBVIOUS
  <2>2. ASSUME NEW k \in 1 .. n PROVE s[k] \in Rest(m) <=> k \in m + 1 .. n
    <3>1. k \in m + 1 .. n => s[k] \in Rest(m)
      OBVIOUS
    <3>2. ASSUME s[k] \in Rest(m) PROVE k \in m + 1 .. n
      <4>1. PICK j \in m + 1 .. n : s[k] = s[j]
        BY <3>2
      <4>2. j \in 1 .. n
        BY <2>a
      <4>3. k = j
        BY <1>2, <4>1, <4>2
      <4> QED
        BY <4>3
    <3> QED
      BY <3>1, <3>2
  <2>3. \A k \in 1 .. n : worths[s[k]] >= r[m + 1] <=> s[k] \in Rest(m)
    BY <1>2a, <2>1, <2>2
  <2>4. ASSUME NEW i \in 1 .. n PROVE worths[i] >= r[m + 1] <=> i \in Rest(m)
    <3>1. PICK k \in 1 .. n : s[k] = i
      BY <1>2
    <3> HIDE DEF Rest
    <3> QED
      BY <2>3, <3>1
  <2>b. \A k \in m + 1 .. n : s[k] \in 1 .. n
    BY <1>2, <2>a
  <2>5. Rest(m) \in SUBSET (1 .. n)
    BY <2>b
  <2> HIDE DEF Rest
  <2> QED
    BY <2>4, <2>5
<1>9. {i \in 1 .. n : worths[i] > r[m + 1]} \in SUBSET Rest(m + 1)
  <2>1. ASSUME NEW i \in 1 .. n, worths[i] > r[m + 1] PROVE i \in Rest(m + 1)
    <3>1. PICK k \in 1 .. n : s[k] = i
      BY <1>2
    <3>2. r[k] > r[m + 1] /\ r[k] \in Int
      BY <1>2a, <2>1, <3>1
    <3>3. k <= m + 1 => r[k] <= r[m + 1]
      BY <1>2b, <1>7
    <3>4. k \in (m + 1) + 1 .. n
      BY <1>7, <3>2, <3>3
    <3> QED
      BY <3>1, <3>4
  <2> HIDE DEF Rest
  <2> QED
    BY <2>1
<1>10. ASSUME NEW x \in Int, x < r[m + 1]
       PROVE  Rest(m) \in SUBSET {i \in 1 .. n : worths[i] > x}
  <2>1. ASSUME NEW k \in m + 1 .. n PROVE s[k] \in 1 .. n /\ worths[s[k]] > x
    <3>1. k \in 1 .. n
      OBVIOUS
    <3>2. r[m + 1] <= r[k] /\ r[k] = worths[s[k]] /\ r[k] \in Int
      BY <1>2a, <1>2b, <1>7, <3>1
    <3>3. s[k] \in 1 .. n
      BY <1>2, <3>1
    <3> QED
      BY <1>7, <1>10, <3>2, <3>3
  <2> QED
    BY <2>1
<1>11. Range(worths) = {r[k] : k \in 1 .. n}
  <2>1. ASSUME NEW i \in 1 .. n PROVE worths[i] \in {r[k] : k \in 1 .. n}
    <3>1. PICK k \in 1 .. n : s[k] = i
      BY <1>2
    <3> QED
      BY <1>2a, <3>1
  <2>2. \A k \in 1 .. n : \E i \in 1 .. n : r[k] = worths[i]
    BY <1>2, <1>2a
  <2> QED
    BY <2>1, <2>2 DEF Range
<1> HIDE DEF Rest
<1>12. (m = 0 \/ r[m] < r[m + 1]) => From(worths, n, r[m + 1]) = n - m
  BY <1>4, <1>7, <1>8 DEF From
<1>13. Above(worths, n, r[m + 1]) <= n - (m + 1)
  <2>1. IsFiniteSet(Rest(m + 1)) /\ Cardinality(Rest(m + 1)) = n - (m + 1)
    BY <1>4, <1>7
  <2> QED
    BY <1>9, <2>1, FS_Subset DEF Above
<1>14. \A x \in Int : x < r[m + 1] => Above(worths, n, x) >= n - m
  <2> SUFFICES ASSUME NEW x \in Int, x < r[m + 1]
               PROVE  Above(worths, n, x) >= n - m
    OBVIOUS
  <2>1. PICK T \in SUBSET (1 .. n) : T = {i \in 1 .. n : worths[i] > x}
    OBVIOUS
  <2>2. Rest(m) \in SUBSET T
    BY <1>10, <2>1
  <2>3. IsFiniteSet(T) /\ Cardinality(T) \in 0 .. n
    BY <1>6
  <2>4. Cardinality(Rest(m)) <= Cardinality(T)
    BY <2>2, <2>3, FS_Subset
  <2>5. Cardinality(Rest(m)) = n - m
    BY <1>4, <1>7
  <2>6. Above(worths, n, x) = Cardinality(T)
    BY <2>1 DEF Above
  <2> QED
    BY <2>3, <2>4, <2>5, <2>6
<1>15. \A x \in Int : Above(worths, n, x) \in 0 .. n
  <2> TAKE x \in Int
  <2>1. {i \in 1 .. n : worths[i] > x} \in SUBSET (1 .. n)
    OBVIOUS
  <2> QED
    BY <1>6, <2>1 DEF Above
<1>16. \A x \in Int : From(worths, n, x) \in 0 .. n
  <2> TAKE x \in Int
  <2>1. {i \in 1 .. n : worths[i] >= x} \in SUBSET (1 .. n)
    OBVIOUS
  <2> QED
    BY <1>6, <2>1 DEF From
<1> QED
  BY <1>2a, <1>2b, <1>11, <1>12, <1>13, <1>14, <1>15, <1>16, Zenon DEF Counts

\* What each number brings, by how many are there from it on, and above it.
IsShare(share, decision, worths, n) ==
    share = [x \in Range(worths) |->
               x * (decision[From(worths, n, x)] - decision[Above(worths, n, x)])]

\* decision gives the weights phi, and all or nothing at its ends.
Decides(decision, phi, n) ==
    /\ decision \in [0 .. n -> Int] /\ decision[0] = 0 /\ decision[n] = 100
    /\ \A i \in 1 .. n - 1 : phi[i] = decision[n - i]

\* The reward of the sorted numbers is a property of their distribution.
LEMMA RewardOfDistribution ==
    ASSUME NEW n \in Nat, n >= 1, NEW worths \in [1 .. n -> Int],
           NEW decision, NEW phi, Decides(decision, phi, n),
           NEW reward, Accumulates(reward, Sorted(worths), phi, n),
           NEW share, IsShare(share, decision, worths, n)
    PROVE  reward[n] = SumFunction(share)
<1>a. decision[0] = 0 /\ decision[n] = 100
  BY DEF Decides
<1>b. decision \in [0 .. n -> Int] /\ \A i \in 1 .. n - 1 : phi[i] = decision[n - i]
  BY DEF Decides
<1> USE <1>b
<1>1. PICK r : r = Sorted(worths)
  OBVIOUS
<1>0. \A m \in 0 .. n - 1 : Counts(worths, r, n, m)
  BY <1>1, CountsFromPlaces
<1>2. /\ \A k \in 1 .. n : r[k] \in Int
      /\ \A k, l \in 1 .. n : k <= l => r[k] <= r[l]
      /\ Range(worths) = {r[k] : k \in 1 .. n}
  <2>1. 0 \in 0 .. n - 1
    OBVIOUS
  <2> QED
    BY <1>0, <2>1, Zenon DEF Counts
<1>3. \A m \in 0 .. n - 1 : (m = 0 \/ r[m] < r[m + 1]) => From(worths, n, r[m + 1]) = n - m
  BY <1>0, Zenon DEF Counts
<1>4. \A m \in 0 .. n - 1 : Above(worths, n, r[m + 1]) <= n - (m + 1)
  BY <1>0, Zenon DEF Counts
<1>5. \A m \in 0 .. n - 1 : \A x \in Int : x < r[m + 1] => Above(worths, n, x) >= n - m
  BY <1>0, Zenon DEF Counts
<1>6. \A x \in Int : From(worths, n, x) \in 0 .. n /\ Above(worths, n, x) \in 0 .. n
  <2>1. 0 \in 0 .. n - 1
    OBVIOUS
  <2> QED
    BY <1>0, <2>1, Zenon DEF Counts
<1> DEFINE Floor(m, x) == IF Above(worths, n, x) >= n - m THEN Above(worths, n, x) ELSE n - m
           part(m) == [x \in Range(worths) |-> x * (decision[From(worths, n, x)] - decision[Floor(m, x)])]
           Seen(m) == {r[k] : k \in 1 .. m}
           Sum(m) == SumFunctionOnSet(part(m), Seen(m))
           Part(m) == decision[n - m] - decision[n - (m + 1)]
           Good == {m \in 1 .. n : reward[m] - r[m] * decision[n - m] = Sum(m)}
<1>8. ASSUME NEW m \in 0 .. n, NEW x \in Range(worths)
      PROVE  /\ x \in Int /\ From(worths, n, x) \in 0 .. n /\ Above(worths, n, x) \in 0 .. n /\ Floor(m, x) \in 0 .. n
             /\ part(m)[x] = x * (decision[From(worths, n, x)] - decision[Floor(m, x)])
             /\ part(m)[x] \in Int
  <2>1. x \in Int
    BY <1>2
  <2>2. From(worths, n, x) \in 0 .. n /\ Above(worths, n, x) \in 0 .. n
    BY <1>6, <2>1
  <2>3. Floor(m, x) \in 0 .. n
    BY <2>2
  <2>4. part(m)[x] = x * (decision[From(worths, n, x)] - decision[Floor(m, x)])
    OBVIOUS
  <2> HIDE DEF Floor
  <2>5. decision[From(worths, n, x)] \in Int /\ decision[Floor(m, x)] \in Int
    BY <2>2, <2>3
  <2> HIDE DEF part
  <2> QED
    BY <2>1, <2>2, <2>3, <2>4, <2>5
<1>9. ASSUME NEW m \in 0 .. n
      PROVE  IsFiniteSet(Seen(m)) /\ Seen(m) \in SUBSET Range(worths)
  <2> DEFINE f == [k \in 1 .. m |-> r[k]]
  <2>1. f \in Surjection(1 .. m, Seen(m))
    BY DEF Surjection
  <2>2. IsFiniteSet(1 .. m)
    BY FS_Interval
  <2>3. \A k \in 1 .. m : k \in 1 .. n
    OBVIOUS
  <2>4. Seen(m) \in SUBSET Range(worths)
    BY <1>2, <2>3
  <2> HIDE DEF f, Seen
  <2> QED
    BY <2>1, <2>2, <2>4, FS_Surjection
<1>10. ASSUME NEW m \in 0 .. n - 1
       PROVE  /\ r[m + 1] \in Seen(m + 1)
              /\ Seen(m + 1) \ {r[m + 1]} = Seen(m) \ {r[m + 1]}
              /\ \A x \in Seen(m) \ {r[m + 1]} : part(m + 1)[x] = part(m)[x]
  <2>1. m + 1 \in 1 .. m + 1 /\ m + 1 \in 1 .. n /\ m \in 0 .. n /\ m + 1 \in 0 .. n
    OBVIOUS
  <2>2. Seen(m + 1) = Seen(m) \union {r[m + 1]}
    <3>1. \A k \in 1 .. m + 1 : k = m + 1 \/ k \in 1 .. m
      OBVIOUS
    <3>2. \A k \in 1 .. m : k \in 1 .. m + 1
      OBVIOUS
    <3> QED
      BY <2>1, <3>1, <3>2
  <2>3. ASSUME NEW x \in Seen(m) \ {r[m + 1]} PROVE part(m + 1)[x] = part(m)[x]
    <3>1. PICK k \in 1 .. m : x = r[k]
      OBVIOUS
    <3>2. k \in 1 .. n /\ k <= m + 1
      OBVIOUS
    <3>3. x < r[m + 1] /\ x \in Int
      <4>1. r[k] <= r[m + 1] /\ r[k] \in Int /\ r[m + 1] \in Int /\ x # r[m + 1]
        BY <1>2, <2>1, <3>2
      <4>2. \A y, z \in Int : y <= z /\ y # z => y < z
        OBVIOUS
      <4> QED
        BY <3>1, <4>1, <4>2, Zenon
    <3>4. Above(worths, n, x) >= n - m
      BY <1>5, <3>3
    <3>5. x \in Range(worths)
      BY <1>9, <2>1
    <3>6. Above(worths, n, x) \in 0 .. n
      BY <1>6, <3>3
    <3>7. Floor(m + 1, x) = Above(worths, n, x) /\ Floor(m, x) = Above(worths, n, x)
      BY <3>4, <3>6
    <3> HIDE DEF Floor, part
    <3> QED
      BY <1>8, <2>1, <3>5, <3>7
  <2> HIDE DEF Seen, part
  <2> QED
    BY <2>2, <2>3
<1> HIDE DEF Seen
<1>11. ASSUME NEW m \in 0 .. n - 1
       PROVE  /\ SumFunctionOnSet(part(m), Seen(m) \ {r[m + 1]}) \in Int
              /\ Sum(m + 1) = part(m + 1)[r[m + 1]]
                              + SumFunctionOnSet(part(m), Seen(m) \ {r[m + 1]})
              /\ r[m + 1] \in Seen(m) =>
                   Sum(m) = part(m)[r[m + 1]]
                            + SumFunctionOnSet(part(m), Seen(m) \ {r[m + 1]})
              /\ r[m + 1] \notin Seen(m) =>
                   Sum(m) = SumFunctionOnSet(part(m), Seen(m) \ {r[m + 1]})
  <2>1. m \in 0 .. n /\ m + 1 \in 0 .. n
    OBVIOUS
  <2>2. PICK f, g, S, T, x : /\ f = part(m) /\ g = part(m + 1) /\ S = Seen(m)
                             /\ T = Seen(m + 1) /\ x = r[m + 1]
    OBVIOUS
  <2>3. /\ IsFiniteSet(S) /\ IsFiniteSet(T) /\ x \in T /\ T \ {x} = S \ {x}
        /\ \A y \in S : f[y] \in Int
        /\ \A y \in T : g[y] \in Int
        /\ \A y \in S \ {x} : g[y] = f[y]
    <3> HIDE DEF part
    <3>1. IsFiniteSet(S) /\ IsFiniteSet(T) /\ S \in SUBSET Range(worths) /\ T \in SUBSET Range(worths)
      BY <1>9, <2>1, <2>2
    <3>2. (\A y \in S : f[y] \in Int) /\ (\A y \in T : g[y] \in Int)
      BY <1>8, <2>1, <2>2, <3>1
    <3>3. x \in T /\ T \ {x} = S \ {x} /\ \A y \in S \ {x} : g[y] = f[y]
      BY <1>10, <2>2
    <3> QED
      BY <3>1, <3>2, <3>3
  <2>4. IsFiniteSet(S \ {x}) /\ \A y \in S \ {x} : f[y] \in Int
    BY <2>3, FS_RemoveElement
  <2>5. SumFunctionOnSet(f, S \ {x}) \in Int
    BY <2>4, SumInt
  <2>6. SumFunctionOnSet(g, T) = g[x] + SumFunctionOnSet(g, T \ {x})
    BY <2>3, SumRemove
  <2>7. SumFunctionOnSet(g, S \ {x}) = SumFunctionOnSet(f, S \ {x})
    BY <2>3, <2>4, SumAgree
  <2>8. x \in S => SumFunctionOnSet(f, S) = f[x] + SumFunctionOnSet(f, S \ {x})
    BY <2>3, SumRemove
  <2>9. x \notin S => S \ {x} = S
    OBVIOUS
  <2>10. SumFunctionOnSet(g, T) = g[x] + SumFunctionOnSet(f, S \ {x})
    BY <2>3, <2>6, <2>7
  <2>11. Sum(m) = SumFunctionOnSet(f, S) /\ Sum(m + 1) = SumFunctionOnSet(g, T)
    BY <2>2
  <2>12. x \notin S => SumFunctionOnSet(f, S) = SumFunctionOnSet(f, S \ {x})
    BY <2>9
  <2> HIDE DEF part, Sum
  <2> QED
    BY <2>2, <2>5, <2>8, <2>10, <2>11, <2>12
<1>12. ASSUME NEW m \in 0 .. n - 1
       PROVE  /\ Part(m) \in Int /\ r[m + 1] \in Int
              /\ Floor(m + 1, r[m + 1]) = n - (m + 1)
              /\ Floor(m, r[m + 1]) = n - m
              /\ r[m + 1] \in Range(worths)
  <2>1. m + 1 \in 1 .. n
    OBVIOUS
  <2>2. r[m + 1] \in Range(worths) /\ r[m + 1] \in Int
    BY <1>2, <2>1
  <2>3. Above(worths, n, r[m + 1]) <= n - (m + 1) /\ Above(worths, n, r[m + 1]) \in 0 .. n
    BY <1>4, <1>6, <2>2
  <2>4. n - m \in 0 .. n /\ n - (m + 1) \in 0 .. n
    OBVIOUS
  <2>5. decision[n - m] \in Int /\ decision[n - (m + 1)] \in Int
    BY <2>4
  <2>6. Floor(m + 1, r[m + 1]) = n - (m + 1) /\ Floor(m, r[m + 1]) = n - m
    BY <2>3, <2>4
  <2> HIDE DEF Floor
  <2> QED
    BY <2>2, <2>5, <2>6
<1>13. ASSUME NEW m \in 0 .. n - 1, m = 0 \/ r[m] < r[m + 1] \/ r[m + 1] \in Seen(m)
       PROVE  Sum(m + 1) = Sum(m) + r[m + 1] * Part(m)
  <2>1. m \in 0 .. n /\ m + 1 \in 0 .. n
    OBVIOUS
  <2>2. PICK x \in Int : x = r[m + 1] /\ x \in Range(worths)
    BY <1>12
  <2>3. PICK a \in Int, b \in Int, c \in Int :
            a = decision[From(worths, n, x)] /\ b = decision[n - m] /\ c = decision[n - (m + 1)]
    <3>a. From(worths, n, x) \in 0 .. n
      BY <1>6
    <3>1. From(worths, n, x) \in 0 .. n /\ n - m \in 0 .. n /\ n - (m + 1) \in 0 .. n
      BY <3>a
    <3>2. decision[From(worths, n, x)] \in Int /\ decision[n - m] \in Int /\ decision[n - (m + 1)] \in Int
      BY <3>1
    <3> QED
      BY <3>2
  <2>4. part(m + 1)[x] = x * (a - c) /\ part(m)[x] = x * (a - b)
    <3>1. Floor(m + 1, x) = n - (m + 1) /\ Floor(m, x) = n - m
      BY <1>12, <2>2
    <3> HIDE DEF part, Floor
    <3>2. /\ part(m + 1)[x] = x * (decision[From(worths, n, x)] - decision[Floor(m + 1, x)])
          /\ part(m)[x] = x * (decision[From(worths, n, x)] - decision[Floor(m, x)])
      BY <1>8, <2>1, <2>2
    <3> QED
      BY <2>3, <3>1, <3>2
  <2>5. x * (a - c) = x * (a - b) + x * (b - c)
    OBVIOUS
  <2>6. PICK rest \in Int : rest = SumFunctionOnSet(part(m), Seen(m) \ {r[m + 1]})
    BY <1>11
  <2>7. Sum(m + 1) = x * (a - c) + rest
    <3> HIDE DEF part, Sum
    <3> QED
      BY <1>11, <2>2, <2>4, <2>6
  <2>8. PICK u \in Int, v \in Int, w \in Int : u = x * (a - c) /\ v = x * (a - b) /\ w = x * (b - c)
    OBVIOUS
  <2>9. r[m + 1] * Part(m) = w
    BY <2>2, <2>3, <2>8
  <2>10. CASE r[m + 1] \in Seen(m)
    <3> HIDE DEF part, Sum, Part
    <3>1. Sum(m) = v + rest
      BY <1>11, <2>2, <2>4, <2>6, <2>8, <2>10
    <3> QED
      BY <2>5, <2>7, <2>8, <2>9, <3>1
  <2>11. CASE r[m + 1] \notin Seen(m)
    <3>1. From(worths, n, x) = n - m
      BY <1>3, <1>13, <2>2, <2>11
    <3>2. a = b
      BY <2>3, <3>1
    <3> HIDE DEF part, Sum, Part
    <3>3. Sum(m) = rest
      BY <1>11, <2>6, <2>11
    <3> QED
      BY <2>7, <2>8, <2>9, <3>2, <3>3
  <2> QED
    BY <2>10, <2>11
<1> HIDE DEF part, Floor
<1>14. ASSUME NEW m \in 0 .. n - 1
       PROVE  m = 0 \/ r[m] < r[m + 1] \/ r[m + 1] \in Seen(m)
  <2>1. m # 0 => m \in 1 .. n /\ m + 1 \in 1 .. n /\ m <= m + 1 /\ m \in 1 .. m
    OBVIOUS
  <2>2. m # 0 => r[m] \in Int /\ r[m + 1] \in Int /\ r[m] <= r[m + 1]
    BY <1>2, <2>1
  <2>3. m # 0 => r[m] \in Seen(m)
    BY <2>1 DEF Seen
  <2>4. m # 0 => r[m] < r[m + 1] \/ r[m] = r[m + 1]
    <3>1. \A x, y \in Int : x <= y => x < y \/ x = y
      OBVIOUS
    <3> QED
      BY <2>2, <3>1, Zenon
  <2> QED
    BY <2>3, <2>4
<1>15. Sum(0) = 0
  <2>1. Seen(0) = {}
    BY DEF Seen
  <2>2. SumFunctionOnSet(part(0), {}) = 0
    BY SumEmpty
  <2> QED
    BY <2>1, <2>2
<1>16. \A m \in 0 .. n - 1 : Sum(m + 1) = Sum(m) + r[m + 1] * Part(m)
  BY <1>13, <1>14
<1>17. /\ \A m \in 1 .. n : reward[m] \in Int
       /\ reward[1] = 100 * r[1]
       /\ \A m \in 1 .. n - 1 : reward[m + 1] = reward[m] + (r[m + 1] - r[m]) * phi[m]
  BY <1>1 DEF Accumulates
<1> HIDE DEF Sum
<1>18. 1 \in Good
  <2>1. 0 \in 0 .. n - 1 /\ 0 + 1 = 1 /\ 1 \in 1 .. n /\ n - 1 \in 0 .. n /\ n - 0 = n
    OBVIOUS
  <2>2. PICK x \in Int, c \in Int : x = r[1] /\ c = decision[n - 1]
    BY <1>2, <2>1
  <2>3. Sum(0 + 1) = Sum(0) + r[0 + 1] * Part(0)
    BY <1>16, <2>1
  <2>4. Part(0) = 100 - c
    BY <2>1, <2>2, <1>a
  <2>5. Sum(1) = x * (100 - c)
    BY <1>15, <2>1, <2>2, <2>3, <2>4
  <2>6. x * (100 - c) = 100 * x - x * c
    OBVIOUS
  <2> QED
    BY <1>17, <2>1, <2>2, <2>5, <2>6
<1>19. ASSUME NEW m \in 1 .. n - 1, m \in Good PROVE m + 1 \in Good
  <2>1. m \in 0 .. n - 1 /\ m \in 1 .. n /\ m + 1 \in 1 .. n /\ n - m \in 0 .. n
        /\ n - (m + 1) \in 0 .. n
    OBVIOUS
  <2>2. PICK x \in Int, y \in Int, b \in Int, c \in Int, p \in Int, q \in Int :
            /\ x = r[m] /\ y = r[m + 1] /\ b = decision[n - m] /\ c = decision[n - (m + 1)]
            /\ p = reward[m] /\ q = reward[m + 1]
    <3>1. r[m] \in Int /\ r[m + 1] \in Int /\ reward[m] \in Int /\ reward[m + 1] \in Int
      BY <1>2, <1>17, <2>1
    <3>2. decision[n - m] \in Int /\ decision[n - (m + 1)] \in Int
      BY <2>1
    <3> QED
      BY <3>1, <3>2
  <2>3. q = p + (y - x) * b
    BY <1>17, <2>2
  <2>4. Sum(m + 1) = Sum(m) + y * (b - c)
    BY <1>16, <2>1, <2>2
  <2>5. p - x * b = Sum(m)
    BY <1>19, <2>2
  <2>6. (y - x) * b = y * b - x * b /\ y * (b - c) = y * b - y * c
    OBVIOUS
  <2>7. PICK k1 \in Int, k2 \in Int, k3 \in Int : k1 = y * b /\ k2 = x * b /\ k3 = y * c
    OBVIOUS
  <2>8. q - y * c = Sum(m + 1)
    BY <2>3, <2>4, <2>5, <2>6, <2>7
  <2> QED
    BY <2>1, <2>2, <2>8
<1>20. \A m \in 1 .. n - 1 : m \in Good => m + 1 \in Good
  BY <1>19
<1> HIDE DEF Good
<1>21. n \in Good
  <2>1. \A m \in 1 .. n : m \in Good
    BY <1>18, <1>20, UpTo
  <2> QED
    BY <2>1
<1>22. reward[n] = Sum(n)
  <2>1. reward[n] - r[n] * decision[n - n] = Sum(n)
    BY <1>21 DEF Good
  <2>2. n \in 1 .. n /\ n - n = 0
    OBVIOUS
  <2>3. PICK x \in Int, a \in Int : x = r[n] /\ a = reward[n]
    BY <1>2, <1>17, <2>2
  <2>4. a - x * 0 = Sum(n)
    BY <2>1, <2>2, <2>3, <1>a
  <2> QED
    BY <2>3, <2>4
<1>23. part(n) = share
  <2>1. \A x \in Range(worths) : Floor(n, x) = Above(worths, n, x)
    <3> TAKE x \in Range(worths)
    <3>1. Above(worths, n, x) \in 0 .. n
      BY <1>2, <1>6
    <3> QED
      BY <3>1 DEF Floor
  <2> QED
    BY <2>1 DEF part, IsShare
<1>24. Seen(n) = Range(worths)
  BY <1>2 DEF Seen
<1>25. SumFunction(share) = SumFunctionOnSet(share, Range(worths))
  <2>1. DOMAIN share = Range(worths)
    BY DEF IsShare
  <2> QED
    BY <2>1 DEF SumFunction
<1> QED
  BY <1>22, <1>23, <1>24, <1>25 DEF Sum

-----------------------------------------------------------------------------
(* The objective of a composition                                          *)

\* The weights of the steps between the samples.
Weights(N) == [i \in 1 .. N - 1 |-> Phi[solver_type][<<N - i, N>>]]

\* A greater superiority counts for more, where it jumps too.
LEMMA RegulationGrows ==
    ASSUME NEW x \in Int, NEW y \in Int, x <= y
    PROVE  Regulation(x) \in Int /\ Regulation(y) \in Int /\ Regulation(x) <= Regulation(y)
<1>1. PICK a \in Int, b \in Int : a = x * x /\ b = y * y /\ a >= 0 /\ b >= 0
  <2>1. x * x \in Int /\ x * x >= 0 /\ y * y \in Int /\ y * y >= 0
    OBVIOUS
  <2> QED
    BY <2>1
<1>2. x < 0 /\ y < 0 => b <= a
  BY <1>1
<1>3. /\ Regulation(x) = IF x >= 0 THEN 100 * x ELSE -a - 10000
      /\ Regulation(y) = IF y >= 0 THEN 100 * y ELSE -b - 10000
  BY <1>1 DEF Regulation
<1> QED
  BY <1>1, <1>2, <1>3

\* u assigns as many units as v to each fight, or more.
AssignsMore(v, u) ==
    v \in [0 .. 11 -> Nat] /\ u \in [0 .. 11 -> Nat] /\ \A i \in 0 .. 8 : v[i] <= u[i]

\* The superiority over a type grows with the units assigned against it.
LEMMA SuperiorityGrows ==
    ASSUME NEW v, NEW u, AssignsMore(v, u), NEW k \in {0, 3, 6}, NEW number \in Nat
    PROVE  /\ Superiority(v, k, number) \in Int /\ Superiority(u, k, number) \in Int
           /\ Superiority(v, k, number) <= Superiority(u, k, number)
<1>1. PICK c1 \in Nat, c2 \in Nat, c3 \in Nat :
          c1 = Coefficient[k + 1] /\ c2 = Coefficient[k + 2] /\ c3 = Coefficient[k + 3]
  <2>1. Coefficient[k + 1] \in Nat /\ Coefficient[k + 2] \in Nat /\ Coefficient[k + 3] \in Nat
    BY DEF Coefficient
  <2> QED
    BY <2>1
<1>2. PICK v1 \in Nat, v2 \in Nat, v3 \in Nat :
          v1 = v[k] /\ v2 = v[k + 1] /\ v3 = v[k + 2]
  <2>1. v[k] \in Nat /\ v[k + 1] \in Nat /\ v[k + 2] \in Nat
    BY DEF AssignsMore
  <2> QED
    BY <2>1
<1>3. PICK u1 \in Nat, u2 \in Nat, u3 \in Nat :
          u1 = u[k] /\ u2 = u[k + 1] /\ u3 = u[k + 2] /\ v1 <= u1 /\ v2 <= u2 /\ v3 <= u3
  <2>1. u[k] \in Nat /\ u[k + 1] \in Nat /\ u[k + 2] \in Nat
    BY DEF AssignsMore
  <2>2. v[k] <= u[k] /\ v[k + 1] <= u[k + 1] /\ v[k + 2] <= u[k + 2]
    BY DEF AssignsMore
  <2> QED
    BY <1>2, <2>1, <2>2
<1>4. c1 * v1 <= c1 * u1 /\ c2 * v2 <= c2 * u2 /\ c3 * v3 <= c3 * u3
  BY <1>3
<1>5. PICK m \in Int, l \in Int :
          /\ m = c1 * v1 + c2 * v2 + c3 * v3 - 100 * number
          /\ l = c1 * u1 + c2 * u2 + c3 * u3 - 100 * number
          /\ m <= l
  <2>1. PICK k1 \in Int, k2 \in Int, k3 \in Int, l1 \in Int, l2 \in Int, l3 \in Int :
            k1 = c1 * v1 /\ k2 = c2 * v2 /\ k3 = c3 * v3
            /\ l1 = c1 * u1 /\ l2 = c2 * u2 /\ l3 = c3 * u3
    OBVIOUS
  <2> QED
    BY <1>4, <2>1
<1>6. PICK x \in Int, y \in Int :
          /\ x = IF m > 100 THEN 100 ELSE m
          /\ y = IF l > 100 THEN 100 ELSE l
          /\ x <= y
  <2>1. (IF m > 100 THEN 100 ELSE m) \in Int /\ (IF l > 100 THEN 100 ELSE l) \in Int
    OBVIOUS
  <2>2. PICK x \in Int, y \in Int :
            x = (IF m > 100 THEN 100 ELSE m) /\ y = (IF l > 100 THEN 100 ELSE l)
    BY <2>1
  <2>3. x <= y
    BY <1>5, <2>2
  <2> QED
    BY <2>2, <2>3
<1>7. Superiority(v, k, number) = Regulation(x) /\ Superiority(u, k, number) = Regulation(y)
  BY <1>1, <1>2, <1>3, <1>5, <1>6 DEF Superiority
<1> QED
  BY <1>6, <1>7, RegulationGrows

Drawn == Len(problem.samples)

\* There are samples.
LEMMA SamplesThere ==
    ASSUME problem \in Problems
    PROVE  /\ problem.samples \in Seq([Army3 -> Nat])
           /\ Drawn \in Nat /\ Drawn >= 1
           /\ DOMAIN problem.samples = 1 .. Drawn
<1>1. PICK s : s = problem.samples /\ s \in Seq([Army3 -> Nat]) /\ s # <<>>
  BY CompositionAssumption
<1>2. Len(s) \in Nat /\ DOMAIN s = 1 .. Len(s)
  BY <1>1, LenProperties
<1>3. Len(s) # 0
  BY <1>1, EmptySeq
<1> QED
  BY <1>1, <1>2, <1>3 DEF Drawn

\* Sums of three numbers keep the order.
LEMMA ThreeGrow ==
    \A x, y, z, p, q, r \in Int :
        /\ x + y + z \in Int /\ p + q + r \in Int
        /\ x <= p /\ y <= q /\ z <= r => x + y + z <= p + q + r
OBVIOUS

\* More units assigned are worth more against each sample.
LEMMA WorthsGrow ==
    ASSUME problem \in Problems, NEW n \in Nat, n >= 1, n = Drawn,
           NEW v, NEW u, AssignsMore(v, u)
    PROVE  /\ Worths(v) \in [1 .. n -> Int] /\ Worths(u) \in [1 .. n -> Int]
           /\ \A i \in 1 .. n : Worths(v)[i] <= Worths(u)[i]
<1>1. PICK s \in Seq([Army3 -> Nat]) : s = problem.samples
  BY SamplesThere
<1>2. DOMAIN s = 1 .. n
  BY <1>1, SamplesThere
<1>3. ASSUME NEW i \in 1 .. n
      PROVE  Worths(v)[i] \in Int /\ Worths(u)[i] \in Int /\ Worths(v)[i] <= Worths(u)[i]
  <2>1. s[i] \in [Army3 -> Nat]
    BY <1>1, <1>2, ElementOfSeq DEF Drawn
  <2>2. PICK a \in Nat, b \in Nat, c \in Nat :
            a = s[i]["heavy"] /\ b = s[i]["light"] /\ c = s[i]["ranged"]
    BY <2>1 DEF Army3
  <2>3. /\ Worths(v)[i] = Superiority(v, 0, a) + Superiority(v, 3, b) + Superiority(v, 6, c)
        /\ Worths(u)[i] = Superiority(u, 0, a) + Superiority(u, 3, b) + Superiority(u, 6, c)
    BY <1>1, <1>2, <2>2 DEF Worths
  <2>4. /\ Superiority(v, 0, a) \in Int /\ Superiority(u, 0, a) \in Int
        /\ Superiority(v, 0, a) <= Superiority(u, 0, a)
    BY SuperiorityGrows
  <2>5. /\ Superiority(v, 3, b) \in Int /\ Superiority(u, 3, b) \in Int
        /\ Superiority(v, 3, b) <= Superiority(u, 3, b)
    BY SuperiorityGrows
  <2>6. /\ Superiority(v, 6, c) \in Int /\ Superiority(u, 6, c) \in Int
        /\ Superiority(v, 6, c) <= Superiority(u, 6, c)
    BY SuperiorityGrows
  <2>7. PICK x \in Int, y \in Int, z \in Int : Worths(v)[i] = x + y + z
            /\ x = Superiority(v, 0, a) /\ y = Superiority(v, 3, b) /\ z = Superiority(v, 6, c)
    BY <2>3, <2>4, <2>5, <2>6, Zenon
  <2>8. PICK p \in Int, q \in Int, r \in Int : Worths(u)[i] = p + q + r
            /\ p = Superiority(u, 0, a) /\ q = Superiority(u, 3, b) /\ r = Superiority(u, 6, c)
    BY <2>3, <2>4, <2>5, <2>6, Zenon
  <2>9. x <= p /\ y <= q /\ z <= r
    BY <2>4, <2>5, <2>6, <2>7, <2>8, Zenon
  <2>10. x + y + z \in Int /\ p + q + r \in Int /\ x + y + z <= p + q + r
    <3>1. /\ x \in Int /\ y \in Int /\ z \in Int /\ p \in Int /\ q \in Int /\ r \in Int
          /\ x <= p /\ y <= q /\ z <= r
      BY <2>7, <2>8, <2>9, Zenon
    <3> QED
      BY <3>1, ThreeGrow, Zenon
  <2> QED
    BY <2>7, <2>8, <2>10, Zenon
<1>4. Worths(v) \in [1 .. n -> Int] /\ Worths(u) \in [1 .. n -> Int]
  <2>1. /\ Worths(v) = [i \in 1 .. n |-> Worths(v)[i]]
        /\ Worths(u) = [i \in 1 .. n |-> Worths(u)[i]]
    BY <1>1, <1>2 DEF Worths
  <2> QED
    BY <1>3, <2>1
<1> QED
  BY <1>3, <1>4

\* The utility of a composition is the reward of its sorted worths.
LEMMA UtilityAccumulates ==
    ASSUME problem \in Problems, solver_type \in Attitudes,
           NEW n \in Nat, n >= 1, n = Drawn, NEW v, AssignsMore(v, v)
    PROVE  /\ Worths(v) \in [1 .. n -> Int] /\ Ranked(v) = Sorted(Worths(v))
           /\ IsRising(Ranked(v), n) /\ IsPhi(Weights(n), n)
           /\ IsReward(Utility(v), Ranked(v), Weights(n), n)
<1>1. Worths(v) \in [1 .. n -> Int]
  BY WorthsGrow
<1>2. Ranked(v) = Sorted(Worths(v))
  BY DEF Ranked
<1>3. \A m \in 0 .. n - 1 : Counts(Worths(v), Ranked(v), n, m)
  BY <1>1, <1>2, CountsFromPlaces
<1>4. /\ \A k \in 1 .. n : Ranked(v)[k] \in Int
      /\ \A k, l \in 1 .. n : k <= l => Ranked(v)[k] <= Ranked(v)[l]
  <2>1. 0 \in 0 .. n - 1
    BY <1>1
  <2> QED
    BY <1>3, <2>1, Zenon DEF Counts
<1>5. IsRising(Ranked(v), n)
  <2>1. Ranked(v) = [k \in 1 .. n |-> Ranked(v)[k]]
    <3>1. DOMAIN Worths(v) = 1 .. n
      BY <1>1
    <3> QED
      BY <1>2, <3>1 DEF Sorted
  <2>2. Ranked(v) \in [1 .. n -> Int]
    BY <1>4, <2>1
  <2>3. \A k \in 1 .. n - 1 : k \in 1 .. n /\ k + 1 \in 1 .. n /\ k <= k + 1
    BY <1>1
  <2>4. \A k \in 1 .. n - 1 : Ranked(v)[k] <= Ranked(v)[k + 1]
    BY <1>4, <2>3
  <2> QED
    BY <2>2, <2>4 DEF IsRising
<1>6. ASSUME NEW i \in 1 .. n - 1
      PROVE  <<n - i, n>> \in Ratios /\ Phi[solver_type][<<n - i, n>>] \in 0 .. 100
  <2>1. n - i \in 1 .. n - 1
    BY <1>1
  <2>2. \A j \in 1 .. n - 1 : <<j, n>> \in Ratios
    BY CompositionAssumption DEF Drawn
  <2>3. <<n - i, n>> \in Ratios
    BY <2>1, <2>2
  <2>4. Phi \in [Attitudes -> [Ratios -> 0 .. 100]]
    BY CompositionAssumption
  <2> QED
    BY <2>3, <2>4
<1>7. IsPhi(Weights(n), n)
  <2>1. Weights(n) \in [1 .. n - 1 -> 0 .. 100]
    BY <1>6 DEF Weights
  <2>2. ASSUME NEW i \in 1 .. n - 2 PROVE Weights(n)[i + 1] <= Weights(n)[i]
    <3>1. i \in 1 .. n - 1 /\ i + 1 \in 1 .. n - 1
      BY <1>1
    <3>2. PICK r, q : r = <<n - (i + 1), n>> /\ q = <<n - i, n>>
      OBVIOUS
    <3>3. r \in Ratios /\ q \in Ratios
      BY <1>6, <3>1, <3>2
    <3>4. r[1] * q[2] <= q[1] * r[2]
      <4>1. (n - (i + 1)) * n <= (n - i) * n
        BY <1>1
      <4> QED
        BY <3>2, <4>1
    <3>5. Phi[solver_type][r] <= Phi[solver_type][q]
      BY <3>3, <3>4, CompositionAssumption
    <3> QED
      BY <3>1, <3>2, <3>5 DEF Weights
  <2> QED
    BY <2>1, <2>2 DEF IsPhi
<1>8. IsReward(Utility(v), Ranked(v), Weights(n), n)
  <2>1. PICK r, w, gain : r = Ranked(v) /\ w = Weights(n) /\ gain = Gain(r, n)
    OBVIOUS
  <2>2. IsRising(r, n) /\ IsPhi(w, n)
    BY <1>5, <1>7, <2>1, Zenon
  <2>3. IsGain(gain, r, w, n)
    BY <2>1 DEF IsGain, Gain, Weights
  <2>4. IsReward(100 * r[1] + SumFunction(gain), r, w, n)
    BY <2>2, <2>3, RewardAccumulates, Zenon
  <2>5. Utility(v) = 100 * r[1] + SumFunction(gain)
    BY <2>1 DEF Utility, Drawn
  <2> QED
    BY <2>1, <2>4, <2>5
<1> QED
  BY <1>1, <1>2, <1>5, <1>7, <1>8

\* A step of the local search that only assigns more units to the fights never
\* makes the composition worth less (obj_rts.cpp), for every army, any sample and
\* each of the three attitudes: the regulation, the cap of a superiority and the
\* ranking of the samples keep the order.
THEOREM MoreUnits == CompositionSpec => MoreUnitsNeverHurt
<1>1. ASSUME CompositionTypeOK, CompositionTypeOK',
             \A i \in 0 .. 8 : values'[i] >= values[i]
      PROVE  Utility(values') >= Utility(values)
  <2>1. problem \in Problems /\ solver_type \in Attitudes
    BY <1>1 DEF CompositionTypeOK, Attitude, Attitudes
  <2>2. PICK v, u : v = values /\ u = values'
    OBVIOUS
  <2>3. AssignsMore(v, u) /\ AssignsMore(v, v) /\ AssignsMore(u, u)
    <3>1. v \in [0 .. 11 -> Nat] /\ u \in [0 .. 11 -> Nat]
      BY <1>1, <2>2 DEF CompositionTypeOK
    <3>2. \A i \in 0 .. 8 : v[i] \in Nat /\ u[i] \in Nat
      BY <3>1
    <3>3. \A i \in 0 .. 8 : u[i] >= v[i]
      BY <1>1, <2>2, Zenon
    <3> QED
      BY <3>1, <3>2, <3>3 DEF AssignsMore
  <2>4. PICK n \in Nat : n >= 1 /\ n = Drawn
    BY <2>1, SamplesThere, Zenon
  <2>5. IsRising(Ranked(v), n) /\ IsRising(Ranked(u), n) /\ IsPhi(Weights(n), n)
        /\ Ranked(v) = Sorted(Worths(v)) /\ Ranked(u) = Sorted(Worths(u))
    BY <2>1, <2>3, <2>4, UtilityAccumulates, Zenon
  <2>6. IsReward(Utility(v), Ranked(v), Weights(n), n)
        /\ IsReward(Utility(u), Ranked(u), Weights(n), n)
    BY <2>1, <2>3, <2>4, UtilityAccumulates, Zenon
  <2>7. /\ Worths(v) \in [1 .. n -> Int] /\ Worths(u) \in [1 .. n -> Int]
        /\ \A i \in 1 .. n : Worths(v)[i] <= Worths(u)[i]
    BY <2>1, <2>3, <2>4, WorthsGrow, Zenon
  <2>8. \A i \in 1 .. n : Ranked(v)[i] <= Ranked(u)[i]
    BY <2>5, <2>7, SortedKeepsOrder, Zenon
  <2>9. PICK reward, other : /\ Accumulates(reward, Ranked(v), Weights(n), n)
                             /\ Accumulates(other, Ranked(u), Weights(n), n)
                             /\ reward[n] = Utility(v) /\ other[n] = Utility(u)
    BY <2>6, Zenon DEF IsReward
  <2>10. reward[n] <= other[n]
    BY <2>4, <2>5, <2>8, <2>9, RewardGrows, Zenon
  <2>11. reward[n] \in Int /\ other[n] \in Int
    <3>1. n \in 1 .. n
      BY <2>4
    <3> QED
      BY <2>9, <3>1, Zenon DEF Accumulates
  <2>12. Utility(v) \in Int /\ Utility(u) \in Int /\ Utility(v) <= Utility(u)
    BY <2>9, <2>10, <2>11, Zenon
  <2>13. Utility(u) >= Utility(v)
    BY <2>12
  <2> QED
    BY <2>2, <2>13, Zenon
<1>2. CompositionTypeOK /\ CompositionTypeOK'
      => [(\A i \in 0 .. 8 : values'[i] >= values[i]) => Utility(values') >= Utility(values)]_values
  BY <1>1, Zenon
<1> QED
  BY <1>2, CompositionTypeInv, PTL DEF MoreUnitsNeverHurt

\* A function on 1 .. n is a sequence of length n.
LEMMA LenOfFunction ==
    ASSUME NEW n \in Nat, NEW s \in [1 .. n -> Int]
    PROVE  Len(s) = n /\ DOMAIN s = 1 .. n
<1>1. s \in Seq(Int)
  BY SeqDef
<1>2. DOMAIN s = 1 .. Len(s) /\ Len(s) \in Nat /\ DOMAIN s = 1 .. n
  BY <1>1, LenProperties
<1> QED
  BY <1>2

\* What is decided when j of the n samples are worth x or more.
IsDecision(decision, n) ==
    decision = [j \in 0 .. n |->
                  CASE j = 0 -> 0 [] j = n -> 100 [] OTHER -> Phi[solver_type][<<j, n>>]]

\* Phi and the two ends make a decision.
LEMMA DecisionOfPhi ==
    ASSUME problem \in Problems, solver_type \in Attitudes,
           NEW n \in Nat, n >= 1, n = Drawn, NEW decision, IsDecision(decision, n)
    PROVE  Decides(decision, Weights(n), n)
<1>1. \A j \in 1 .. n - 1 : Phi[solver_type][<<j, n>>] \in Int
  <2>1. \A j \in 1 .. n - 1 : <<j, n>> \in Ratios
    BY CompositionAssumption DEF Drawn
  <2>2. Phi[solver_type] \in [Ratios -> 0 .. 100]
    BY CompositionAssumption
  <2>3. \A j \in 1 .. n - 1 : Phi[solver_type][<<j, n>>] \in 0 .. 100
    BY <2>1, <2>2
  <2> QED
    BY <2>3
<1>2. ASSUME NEW j \in 0 .. n PROVE decision[j] \in Int
  <2>1. CASE j = 0
    BY <2>1 DEF IsDecision
  <2>2. CASE j = n
    BY <2>2 DEF IsDecision
  <2>3. CASE j # 0 /\ j # n
    <3>1. j \in 1 .. n - 1
      BY <2>3
    <3>2. decision[j] = Phi[solver_type][<<j, n>>]
      BY <2>3, Zenon DEF IsDecision
    <3> QED
      BY <1>1, <3>1, <3>2
  <2> QED
    BY <2>1, <2>2, <2>3
<1>3. decision = [j \in 0 .. n |-> decision[j]]
  BY DEF IsDecision
<1>4. decision \in [0 .. n -> Int]
  BY <1>2, <1>3, Zenon
<1>5. 0 \in 0 .. n /\ n \in 0 .. n /\ n # 0
  OBVIOUS
<1>6. decision[0] = 0
  BY <1>5, Zenon DEF IsDecision
<1>7. decision[n] = 100
  BY <1>5, Zenon DEF IsDecision
<1>8. ASSUME NEW i \in 1 .. n - 1 PROVE Weights(n)[i] = decision[n - i]
  <2>1. n - i \in 0 .. n /\ n - i # 0 /\ n - i # n
    OBVIOUS
  <2>2. decision[n - i] = Phi[solver_type][<<n - i, n>>]
    BY <2>1, Zenon DEF IsDecision
  <2> QED
    BY <2>2 DEF Weights
<1> QED
  BY <1>4, <1>6, <1>7, <1>8, Zenon DEF Decides

\* The utility by how many of the N numbers are x or more, and above x.
UtilityBy(sols, N) ==
    LET Decision(j) == CASE j = 0 -> 0 [] j = N -> 100 [] OTHER -> Phi[solver_type][<<j, N>>]
    IN  Utility(values) =
          SumFunction([x \in Range(sols) |->
                         x * (Decision(From(sols, N, x)) - Decision(Above(sols, N, x)))])

\* required_cost() of obj_rts.cpp is a property of the distribution of the worths:
\* the order in which the samples were drawn and ties among them do not matter,
\* for any samples and any phi.
THEOREM UtilityOfDistribution == CompositionSpec => []UtilityIsOfDistribution
<1>1. ASSUME CompositionTypeOK PROVE UtilityIsOfDistribution
  <2>1. problem \in Problems /\ solver_type \in Attitudes
    BY <1>1 DEF CompositionTypeOK, Attitude, Attitudes
  <2>2. PICK n \in Nat : n >= 1 /\ n = Drawn
    BY <2>1, SamplesThere, Zenon
  <2>3. AssignsMore(values, values)
    <3>1. values \in [0 .. 11 -> Nat]
      BY <1>1 DEF CompositionTypeOK
    <3>2. \A i \in 0 .. 8 : values[i] \in Nat
      BY <3>1
    <3> QED
      BY <3>1, <3>2 DEF AssignsMore
  <2>4. PICK worths : worths = Worths(values)
    OBVIOUS
  <2>5. worths \in [1 .. n -> Int] /\ Ranked(values) = Sorted(worths)
        /\ IsReward(Utility(values), Sorted(worths), Weights(n), n)
    BY <2>1, <2>2, <2>3, <2>4, UtilityAccumulates, Zenon
  <2>6. PICK decision : IsDecision(decision, n)
    BY DEF IsDecision
  <2>7. PICK share : IsShare(share, decision, worths, n)
    BY DEF IsShare
  <2>8. PICK reward : Accumulates(reward, Sorted(worths), Weights(n), n)
                      /\ reward[n] = Utility(values)
    BY <2>5, Zenon DEF IsReward
  <2>9. Decides(decision, Weights(n), n)
    BY <2>1, <2>2, <2>6, DecisionOfPhi, Zenon
  <2>10. reward[n] = SumFunction(share)
    BY <2>2, <2>5, <2>7, <2>8, <2>9, RewardOfDistribution, Zenon
  <2>11. Len(worths) = n /\ DOMAIN worths = 1 .. n
    BY <2>5, LenOfFunction, Zenon
  <2>12. ASSUME NEW x \in Range(worths)
         PROVE  From(worths, n, x) \in 0 .. n /\ Above(worths, n, x) \in 0 .. n
    <3>1. 0 \in 0 .. n - 1
      BY <2>2
    <3>2. Counts(worths, Sorted(worths), n, 0)
      BY <2>2, <2>5, <3>1, CountsFromPlaces, Zenon
    <3>3. x \in Int
      BY <2>5, <2>11 DEF Range
    <3> QED
      BY <3>2, <3>3, Zenon DEF Counts
  <2> DEFINE D(j) == CASE j = 0 -> 0 [] j = n -> 100 [] OTHER -> Phi[solver_type][<<j, n>>]
  <2>13. \A j \in 0 .. n : decision[j] = D(j)
    BY <2>6, Zenon DEF IsDecision
  <2> HIDE DEF D
  <2>14. share = [x \in Range(worths) |-> x * (D(From(worths, n, x)) - D(Above(worths, n, x)))]
    BY <2>7, <2>12, <2>13, Zenon DEF IsShare
  <2>15. Utility(values) =
           SumFunction([x \in Range(worths) |-> x * (D(From(worths, n, x)) - D(Above(worths, n, x)))])
    BY <2>8, <2>10, <2>14, Zenon
  <2>16. UtilityBy(worths, n)
    BY <2>15, Zenon DEF UtilityBy, D
  <2>17. UtilityBy(Worths(values), Len(Worths(values)))
    BY <2>4, <2>11, <2>16, Zenon
  <2> QED
    BY <2>17, Zenon DEF UtilityBy, UtilityIsOfDistribution, From, Above
<1> QED
  BY <1>1, CompositionTypeInv, PTL

\* Rising numbers start with the least and end with the greatest of them.
LEMMA LeastAndGreatest ==
    ASSUME NEW n \in Nat, n >= 1, NEW r, IsRising(r, n),
           NEW S, S = {r[k] : k \in 1 .. n}
    PROVE  Min(S) = r[1] /\ Max(S) = r[n]
<1>1. r \in [1 .. n -> Int] /\ \A i \in 1 .. n - 1 : r[i] <= r[i + 1]
  BY DEF IsRising
<1>2. 1 \in 1 .. n /\ n \in 1 .. n
  OBVIOUS
<1>3. \A k \in 1 .. n : r[k] \in Int
  BY <1>1
<1> DEFINE Low == {m \in 1 .. n : r[1] <= r[m]}
           High == {m \in 1 .. n : r[n + 1 - m] <= r[n]}
<1>4. \A m \in 1 .. n : m \in Low
  <2>1. 1 \in Low
    BY <1>2, <1>3
  <2>2. ASSUME NEW m \in 1 .. n - 1, m \in Low PROVE m + 1 \in Low
    <3>1. m \in 1 .. n /\ m + 1 \in 1 .. n
      OBVIOUS
    <3> QED
      BY <1>1, <1>2, <1>3, <2>2, <3>1
  <2>3. \A m \in 1 .. n - 1 : m \in Low => m + 1 \in Low
    BY <2>2
  <2> HIDE DEF Low
  <2> QED
    BY <2>1, <2>3, UpTo
<1>5. \A m \in 1 .. n : m \in High
  <2>1. 1 \in High
    BY <1>2, <1>3
  <2>2. ASSUME NEW m \in 1 .. n - 1, m \in High PROVE m + 1 \in High
    <3>1. /\ m + 1 \in 1 .. n /\ n + 1 - m \in 1 .. n /\ n + 1 - (m + 1) \in 1 .. n - 1
          /\ n + 1 - (m + 1) \in 1 .. n
          /\ (n + 1 - (m + 1)) + 1 = n + 1 - m
      OBVIOUS
    <3>2. r[n + 1 - (m + 1)] <= r[n + 1 - m]
      BY <1>1, <3>1
    <3>3. r[n + 1 - m] <= r[n]
      BY <2>2
    <3>4. r[n + 1 - (m + 1)] \in Int /\ r[n + 1 - m] \in Int /\ r[n] \in Int
      BY <1>2, <1>3, <3>1
    <3>5. r[n + 1 - (m + 1)] <= r[n]
      BY <3>2, <3>3, <3>4
    <3> QED
      BY <3>1, <3>5
  <2>3. \A m \in 1 .. n - 1 : m \in High => m + 1 \in High
    BY <2>2
  <2> HIDE DEF High
  <2> QED
    BY <2>1, <2>3, UpTo
<1>6. \A k \in 1 .. n : r[1] <= r[k] /\ r[k] <= r[n]
  <2> TAKE k \in 1 .. n
  <2>1. n + 1 - k \in 1 .. n /\ n + 1 - (n + 1 - k) = k
    OBVIOUS
  <2> QED
    BY <1>4, <1>5, <2>1
<1>7. r[1] \in S /\ r[n] \in S /\ S \subseteq Int /\ \A x \in S : r[1] <= x /\ x <= r[n]
  BY <1>2, <1>3, <1>6
<1>8. Min(S) \in S /\ Min(S) <= r[1]
  BY <1>7 DEF Min
<1>9. Max(S) \in S /\ Max(S) >= r[n]
  BY <1>7 DEF Max
<1>10. PICK low \in S, high \in S, first \in S, last \in S :
           low = Min(S) /\ high = Max(S) /\ first = r[1] /\ last = r[n]
  BY <1>7, <1>8, <1>9, Zenon
<1>11. low <= first /\ first <= low /\ high >= last /\ high <= last
  BY <1>7, <1>8, <1>9, <1>10, Zenon
<1>12. low \in Int /\ high \in Int /\ first \in Int /\ last \in Int
  BY <1>7, Zenon
<1>13. low = first /\ high = last
  BY <1>11, <1>12
<1> QED
  BY <1>10, <1>13, Zenon

\* The attitude to risk is the one that the losses call for.
LEMMA AttitudeOfLosses ==
    ASSUME problem \in Problems, solver_type = Attitude(problem),
           NEW lead, lead = problem.enemy_cost_loss - problem.my_cost_loss,
           NEW even, even = 2 * problem.cheapest
    PROVE  /\ lead >= even => solver_type = 1
           /\ -even < lead /\ lead < even => solver_type = 0
<1>1. PICK mine \in Nat, their \in Nat, cost \in Nat :
          mine = problem.my_cost_loss /\ their = problem.enemy_cost_loss
          /\ cost = problem.cheapest
  BY CompositionAssumption
<1>2. lead = their - mine /\ even = 2 * cost
  BY <1>1, Zenon
<1>3. solver_type = IF mine + 2 * cost <= their THEN 1
                    ELSE IF mine >= their + 2 * cost THEN 2 ELSE 0
  BY <1>1, Zenon DEF Attitude
<1> HIDE <1>1
<1> QED
  BY <1>2, <1>3

\* The weights of the attitudes 0 and 1, against the share that is left.
LEMMA WeightsOfAttitudes ==
    ASSUME problem \in Problems, NEW n \in Nat, n >= 1, n = Drawn, NEW i \in 1 .. n - 1
    PROVE  /\ solver_type = 0 => n * Weights(n)[i] = 100 * (n - i)
           /\ solver_type = 1 => n * Weights(n)[i] >= 100 * (n - i)
<1>1. PICK q : q = <<n - i, n>>
  OBVIOUS
<1>2. q \in Ratios /\ q[1] = n - i /\ q[2] = n
  <2>1. n - i \in 1 .. n - 1
    OBVIOUS
  <2>2. \A j \in 1 .. n - 1 : <<j, n>> \in Ratios
    BY CompositionAssumption DEF Drawn
  <2> QED
    BY <1>1, <2>1, <2>2
<1>3. Phi[0][q] \in 0 .. 100 /\ Phi[1][q] \in 0 .. 100
  <2>1. 0 \in Attitudes /\ 1 \in Attitudes
    BY DEF Attitudes
  <2>2. Phi \in [Attitudes -> [Ratios -> 0 .. 100]]
    BY CompositionAssumption
  <2> QED
    BY <1>2, <2>1, <2>2
<1>4. PICK a \in 0 .. 100, b \in 0 .. 100 : a = Phi[0][q] /\ b = Phi[1][q]
  BY <1>3, Zenon
<1>5. a * n = 100 * (n - i) /\ b >= a
  BY <1>2, <1>4, CompositionAssumption
<1>6. Weights(n)[i] = Phi[solver_type][q]
  BY <1>1 DEF Weights
<1>7. n * a = 100 * (n - i)
  BY <1>5
<1>8. n * b >= 100 * (n - i)
  <2>1. n * b >= n * a
    BY <1>5
  <2> QED
    BY <1>7, <2>1
<1>9. solver_type = 0 => Weights(n)[i] = a
  BY <1>4, <1>6, Zenon
<1>10. solver_type = 1 => Weights(n)[i] = b
  BY <1>4, <1>6, Zenon
<1> QED
  BY <1>7, <1>8, <1>9, <1>10, Zenon

\* The attitude that decideProduction() takes from the losses does to the utility
\* what it is for: the side that has clearly lost less values a composition at its
\* average over the samples or above, even losses give the average, and the
\* utility never leaves the range of the worths.
THEOREM RiskFollows == CompositionSpec => []RiskFollowsLosses
<1>1. ASSUME CompositionTypeOK PROVE RiskFollowsLosses
  <2>1. problem \in Problems /\ solver_type \in Attitudes /\ solver_type = Attitude(problem)
    BY <1>1 DEF CompositionTypeOK, Attitude, Attitudes
  <2>2. PICK n \in Nat : n >= 1 /\ n = Drawn
    BY <2>1, SamplesThere, Zenon
  <2>3. AssignsMore(values, values)
    <3>1. values \in [0 .. 11 -> Nat]
      BY <1>1 DEF CompositionTypeOK
    <3>2. \A i \in 0 .. 8 : values[i] \in Nat
      BY <3>1
    <3> QED
      BY <3>1, <3>2 DEF AssignsMore
  <2>4. PICK worths, r, phi :
            worths = Worths(values) /\ r = Sorted(worths) /\ phi = Weights(n)
    OBVIOUS
  <2>5. /\ worths \in [1 .. n -> Int] /\ Ranked(values) = r
        /\ IsRising(r, n) /\ IsPhi(phi, n) /\ IsReward(Utility(values), r, phi, n)
    BY <2>1, <2>2, <2>3, <2>4, UtilityAccumulates, Zenon
  <2>6. PICK reward : Accumulates(reward, r, phi, n) /\ reward[n] = Utility(values)
    BY <2>5, Zenon DEF IsReward
  <2>7. DOMAIN worths = 1 .. n
    BY <2>5, LenOfFunction, Zenon
  <2>8. Range(worths) = {r[k] : k \in 1 .. n}
    <3>1. 0 \in 0 .. n - 1
      BY <2>2
    <3>2. Counts(worths, r, n, 0)
      BY <2>2, <2>4, <2>5, <3>1, CountsFromPlaces, Zenon
    <3> QED
      BY <3>2, Zenon DEF Counts
  <2>9. Min(Range(worths)) = r[1] /\ Max(Range(worths)) = r[n]
    BY <2>2, <2>5, <2>8, LeastAndGreatest, Zenon
  <2>10. 100 * r[1] <= reward[n] /\ reward[n] <= 100 * r[n]
    BY <2>2, <2>5, <2>6, RewardIsBetween, Zenon
  <2>11. 100 * Min(Range(worths)) <= Utility(values)
         /\ Utility(values) <= 100 * Max(Range(worths))
    BY <2>6, <2>9, <2>10, Zenon
  <2>12. SumFunction(worths) = SumFunctionOnSet(r, 1 .. n)
    <3>1. SumFunction(worths) = SumFunctionOnSet(worths, 1 .. n)
      BY <2>7, Zenon DEF SumFunction
    <3>2. SumFunctionOnSet(r, 1 .. n) = SumFunctionOnSet(worths, 1 .. n)
      BY <2>2, <2>4, <2>5, SortedKeepsSum, Zenon
    <3> QED
      BY <3>1, <3>2, Zenon
  <2>12a. Averages(reward, r, phi, n)
    BY <2>2, <2>5, <2>6, RewardAverages, Zenon
  <2>13. solver_type = 1 => n * Utility(values) >= 100 * SumFunction(worths)
    <3>1. solver_type = 1 => \A i \in 1 .. n - 1 : n * phi[i] >= 100 * (n - i)
      BY <2>1, <2>2, <2>4, WeightsOfAttitudes, Zenon
    <3>2. solver_type = 1 => n * reward[n] >= 100 * SumFunctionOnSet(r, 1 .. n)
      BY <2>12a, <3>1, Zenon DEF Averages
    <3> QED
      BY <2>6, <2>12, <3>2, Zenon
  <2>14. solver_type = 0 => n * Utility(values) = 100 * SumFunction(worths)
    <3>1. solver_type = 0 => \A i \in 1 .. n - 1 : n * phi[i] = 100 * (n - i)
      BY <2>1, <2>2, <2>4, WeightsOfAttitudes, Zenon
    <3>2. (\A i \in 1 .. n - 1 : n * phi[i] = 100 * (n - i))
            => n * reward[n] = 100 * SumFunctionOnSet(r, 1 .. n)
      BY <2>12a, Zenon DEF Averages
    <3>3. solver_type = 0 => n * reward[n] = 100 * SumFunctionOnSet(r, 1 .. n)
      BY <3>1, <3>2, Zenon
    <3> QED
      BY <2>6, <2>12, <3>3, Zenon
  <2>15. PICK lead, even : /\ lead = problem.enemy_cost_loss - problem.my_cost_loss
                           /\ even = 2 * problem.cheapest
    OBVIOUS
  <2>16. /\ lead >= even => solver_type = 1
         /\ -even < lead /\ lead < even => solver_type = 0
    BY <2>1, <2>15, AttitudeOfLosses, Zenon
  <2>17. /\ lead >= even => n * Utility(values) >= 100 * SumFunction(worths)
         /\ -even < lead /\ lead < even => n * Utility(values) = 100 * SumFunction(worths)
    BY <2>13, <2>14, <2>16, Zenon
  <2> QED
    BY <2>2, <2>4, <2>11, <2>15, <2>17, Zenon DEF RiskFollowsLosses, Drawn
<1> QED
  BY <1>1, CompositionTypeInv, PTL
=============================================================================
