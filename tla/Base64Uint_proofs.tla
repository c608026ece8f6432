-------------------------- MODULE Base64Uint_proofs --------------------------
(***************************************************************************)
(* Theorems about Base64Uint: numbers and signatures survive their way as  *)
(* text, for numbers of any size and curves of any width.                  *)
(*                                                                         *)
(* The encoders and decoders loop over texts of any length, so most of     *)
(* this is induction.  Induction and recursion are stated with sets and    *)
(* functions in place of operators.                                        *)
(***************************************************************************)
EXTENDS Base64Uint, WellFoundedInduction, SequenceTheorems, TLAPS

-----------------------------------------------------------------------------
(* Induction and recursion.                                                *)

\* A set of numbers that has 0 and the successor of every element is Nat.
LEMMA SetInduction ==
    ASSUME NEW P, 0 \in P, \A n \in Nat : n \in P => n + 1 \in P
    PROVE  \A n \in Nat : n \in P
<1> DEFINE Less == {ij \in Nat \X Nat : ij[1] < ij[2]}
           Others == Nat \ P
<1>1. IsWellFoundedOn(Less, Nat)
  BY NatLessThanWellFounded DEF OpToRel
<1>2. SUFFICES ASSUME Others # {} PROVE FALSE
  OBVIOUS
<1>3. PICK m \in Others : \A n \in Others : <<n, m>> \notin Less
  <2> HIDE DEF Less
  <2> QED BY <1>1, <1>2, WFMin
<1>4. m \in Nat /\ m # 0 /\ m - 1 \in Nat
  OBVIOUS
<1>5. <<m - 1, m>> \in Less
  BY <1>4
<1>6. m - 1 \notin Others
  BY <1>3, <1>5
<1>7. m - 1 \in P
  BY <1>4, <1>6
<1>8. (m - 1) + 1 \in P
  BY <1>4, <1>7
<1> QED BY <1>4, <1>8

\* A nonempty set of numbers has a least one.
LEMMA LeastNumber ==
    ASSUME NEW P \in SUBSET Nat, P # {}
    PROVE  \E m \in P : \A n \in P : m <= n
<1> DEFINE Less == {ij \in Nat \X Nat : ij[1] < ij[2]}
<1>1. IsWellFoundedOn(Less, Nat)
  BY NatLessThanWellFounded DEF OpToRel
<1>2. PICK m \in P : \A n \in P : <<n, m>> \notin Less
  <2> HIDE DEF Less
  <2> QED BY <1>1, WFMin
<1>3. ASSUME NEW n \in P, n < m PROVE FALSE
  <2>1. <<n, m>> \in Less
    BY <1>3
  <2> QED BY <1>2, <2>1
<1> QED BY <1>3

\* Where a value determines the next, there is the sequence of values.
LEMMA IterationExists ==
    ASSUME NEW S, NEW start \in S, NEW n \in Nat, NEW next \in [1..n -> [S -> S]]
    PROVE  \E f \in [0..n -> S] :
              f[0] = start /\ \A i \in 1..n : f[i] = next[i][f[i - 1]]
<1> DEFINE Upto(m, f) == f[0] = start /\ \A i \in 1..m : f[i] = next[i][f[i - 1]]
           P == {m \in Nat : m <= n => \E f \in [0..m -> S] : Upto(m, f)}
<1>1. 0 \in P
  <2>1. [i \in 0..0 |-> start] \in [0..0 -> S] /\ Upto(0, [i \in 0..0 |-> start])
    OBVIOUS
  <2> QED BY <2>1
<1>2. ASSUME NEW m \in Nat, m \in P PROVE m + 1 \in P
  <2>1. SUFFICES ASSUME m + 1 <= n
                 PROVE  \E f \in [0..(m + 1) -> S] : Upto(m + 1, f)
    OBVIOUS
  <2>2. PICK f \in [0..m -> S] : Upto(m, f)
    BY <1>2, <2>1
  <2> DEFINE g == [i \in 0..(m + 1) |-> IF i <= m THEN f[i] ELSE next[m + 1][f[m]]]
  <2>3. g \in [0..(m + 1) -> S]
    BY <2>1
  <2>4. Upto(m + 1, g)
    BY <2>1, <2>2
  <2> QED BY <2>3, <2>4
<1>3. n \in P
  <2> HIDE DEF P
  <2> QED BY <1>1, <1>2, SetInduction
<1> QED BY <1>3

-----------------------------------------------------------------------------
(* Powers of two.                                                          *)

\* TwoTo is what its definition says.
LEMMA TwoToFacts ==
    /\ TwoTo \in [Nat -> Nat \ {0}]
    /\ TwoTo[0] = 1
    /\ \A n \in Nat : TwoTo[n + 1] = 2 * TwoTo[n]
<1> DEFINE S == Nat \ {0}
           twice == [x \in S |-> 2 * x]
           Powers(m, f) == f[0] = 1 /\ \A i \in 1..m : f[i] = twice[f[i - 1]]
           upto == [m \in Nat |-> CHOOSE f \in [0..m -> S] : Powers(m, f)]
           F == [m \in Nat |-> upto[m][m]]
<1>1. ASSUME NEW m \in Nat PROVE upto[m] \in [0..m -> S] /\ Powers(m, upto[m])
  <2> DEFINE next == [j \in 1..m |-> twice]
  <2>1. next \in [1..m -> [S -> S]] /\ 1 \in S
    <3>1. twice \in [S -> S]
      OBVIOUS
    <3> HIDE DEF twice
    <3> QED BY <3>1
  <2>2. \E f \in [0..m -> S] : f[0] = 1 /\ \A i \in 1..m : f[i] = next[i][f[i - 1]]
    <3> HIDE DEF next, S
    <3> QED BY <2>1, IterationExists
  <2>3. \E f \in [0..m -> S] : Powers(m, f)
    <3> HIDE DEF twice
    <3> QED BY <2>2
  <2> HIDE DEF Powers
  <2> QED BY <2>3
<1> HIDE DEF upto
<1>2. ASSUME NEW m \in Nat PROVE upto[m + 1][m] = upto[m][m]
  <2> DEFINE P == {k \in Nat : k <= m => upto[m + 1][k] = upto[m][k]}
  <2>1. Powers(m, upto[m]) /\ Powers(m + 1, upto[m + 1])
    <3> HIDE DEF Powers
    <3> QED BY <1>1
  <2>2. 0 \in P
    BY <2>1
  <2>3. ASSUME NEW k \in Nat, k \in P PROVE k + 1 \in P
    <3> HIDE DEF twice
    <3> QED BY <2>1, <2>3
  <2>4. m \in P
    <3> HIDE DEF P
    <3> QED BY <2>2, <2>3, SetInduction
  <2> QED BY <2>4
<1>3. F \in [Nat -> S]
  BY <1>1
<1>4. F[0] = 1
  BY <1>1
<1>5. ASSUME NEW m \in Nat PROVE F[m + 1] = 2 * F[m]
  <2>1. upto[m + 1] \in [0..(m + 1) -> S] /\ Powers(m + 1, upto[m + 1])
    <3> HIDE DEF Powers
    <3> QED BY <1>1
  <2>2. upto[m + 1][m] \in S
    BY <2>1
  <2>3. upto[m + 1][m + 1] = twice[upto[m + 1][m]]
    <3> HIDE DEF twice
    <3> QED BY <2>1
  <2>4. upto[m + 1][m + 1] = 2 * upto[m + 1][m]
    BY <2>2, <2>3
  <2> QED BY <2>4, <1>2
<1>6. F = [m \in Nat |-> IF m = 0 THEN 1 ELSE 2 * F[m - 1]]
  <2> HIDE DEF F
  <2>1. \A m \in Nat : F[m] = IF m = 0 THEN 1 ELSE 2 * F[m - 1]
    <3>1. ASSUME NEW m \in Nat, m # 0 PROVE F[m] = 2 * F[m - 1]
      <4>1. m - 1 \in Nat /\ (m - 1) + 1 = m
        BY <3>1
      <4> QED BY <4>1, <1>5
    <3> QED BY <3>1, <1>4
  <2> QED BY <1>3, <2>1
<1>7. TwoTo = [m \in Nat |-> IF m = 0 THEN 1 ELSE 2 * TwoTo[m - 1]]
  <2> HIDE DEF F
  <2> QED BY <1>6 DEF TwoTo
<1>8. TwoTo = F
  <2>1. TwoTo[0] = 1 /\ \A m \in Nat : TwoTo[m + 1] = 2 * TwoTo[m]
    BY <1>7
  <2> DEFINE P == {m \in Nat : TwoTo[m] = F[m]}
  <2> HIDE DEF F
  <2>2. 0 \in P
    BY <2>1, <1>4
  <2>3. ASSUME NEW m \in Nat, m \in P PROVE m + 1 \in P
    BY <2>1, <2>3, <1>5
  <2>4. \A m \in Nat : m \in P
    <3> HIDE DEF P
    <3> QED BY <2>2, <2>3, SetInduction
  <2> QED BY <2>4, <1>3, <1>7
<1> QED BY <1>3, <1>4, <1>5, <1>8

\* A power of two is above its exponent.
LEMMA TwoToAbove == \A n \in Nat : n < TwoTo[n]
<1> DEFINE P == {n \in Nat : n < TwoTo[n]}
<1>1. 0 \in P
  BY TwoToFacts
<1>2. ASSUME NEW n \in Nat, n \in P PROVE n + 1 \in P
  BY <1>2, TwoToFacts
<1> QED
  <2> HIDE DEF P
  <2>1. \A n \in Nat : n \in P
    BY <1>1, <1>2, SetInduction
  <2> QED BY <2>1 DEF P

\* Powers of two grow with their exponents.
LEMMA TwoToMonotone ==
    ASSUME NEW m \in Nat, NEW n \in Nat, m <= n
    PROVE  TwoTo[m] <= TwoTo[n]
<1> DEFINE P == {k \in Nat : TwoTo[m] <= TwoTo[m + k]}
<1>1. 0 \in P
  BY TwoToFacts
<1>2. ASSUME NEW k \in Nat, k \in P PROVE k + 1 \in P
  <2>1. TwoTo[(m + k) + 1] = 2 * TwoTo[m + k]
    BY TwoToFacts
  <2>2. m + (k + 1) = (m + k) + 1
    OBVIOUS
  <2>3. TwoTo[m] \in Nat /\ TwoTo[m + k] \in Nat
    BY TwoToFacts
  <2> QED BY <1>2, <2>1, <2>2, <2>3
<1>3. n - m \in P
  <2> HIDE DEF P
  <2> QED BY <1>1, <1>2, SetInduction
<1> QED BY <1>3

\* One byte more holds 256 times as many numbers.
LEMMA TwoToByte ==
    ASSUME NEW n \in Nat
    PROVE  TwoTo[8 * (n + 1)] = 256 * TwoTo[8 * n]
<1> DEFINE e == 8 * n
<1>1. 8 * (n + 1) = e + 8 /\ e \in Nat
  OBVIOUS
<1> HIDE DEF e
<1>2. TwoTo[e] \in Nat /\ \A k \in Nat : TwoTo[k + 1] = 2 * TwoTo[k]
  BY <1>1, TwoToFacts
<1>3. TwoTo[e + 2] = 4 * TwoTo[e]
  <2>1. TwoTo[e + 1] = 2 * TwoTo[e] /\ TwoTo[(e + 1) + 1] = 2 * TwoTo[e + 1]
    BY <1>1, <1>2
  <2> QED BY <1>1, <1>2, <2>1
<1>4. TwoTo[e + 4] = 16 * TwoTo[e]
  <2>1. TwoTo[(e + 2) + 1] = 2 * TwoTo[e + 2] /\ TwoTo[(e + 3) + 1] = 2 * TwoTo[e + 3]
    BY <1>1, <1>2
  <2>2. (e + 2) + 1 = e + 3 /\ (e + 3) + 1 = e + 4
    BY <1>1
  <2> QED BY <1>2, <1>3, <2>1, <2>2
<1>5. TwoTo[e + 6] = 64 * TwoTo[e]
  <2>1. TwoTo[(e + 4) + 1] = 2 * TwoTo[e + 4] /\ TwoTo[(e + 5) + 1] = 2 * TwoTo[e + 5]
    BY <1>1, <1>2
  <2>2. (e + 4) + 1 = e + 5 /\ (e + 5) + 1 = e + 6
    BY <1>1
  <2> QED BY <1>2, <1>4, <2>1, <2>2
<1>6. TwoTo[e + 8] = 256 * TwoTo[e]
  <2>1. TwoTo[(e + 6) + 1] = 2 * TwoTo[e + 6] /\ TwoTo[(e + 7) + 1] = 2 * TwoTo[e + 7]
    BY <1>1, <1>2
  <2>2. (e + 6) + 1 = e + 7 /\ (e + 7) + 1 = e + 8
    BY <1>1
  <2> QED BY <1>2, <1>5, <2>1, <2>2
<1> QED BY <1>1, <1>6 DEF e

\* The bit length of a number is the least exponent of a power above it.
LEMMA BitLengthFacts ==
    ASSUME NEW val \in Nat
    PROVE  /\ BitLength(val) \in Nat
           /\ val < TwoTo[BitLength(val)]
           /\ BitLength(val) > 0 => val >= TwoTo[BitLength(val) - 1]
<1> DEFINE Above == {b \in Nat : val < TwoTo[b]}
           IsLength(b) == val < TwoTo[b] /\ (b > 0 => val >= TwoTo[b - 1])
<1>1. val \in Above
  BY TwoToAbove
<1>2. PICK b \in Above : \A c \in Above : b <= c
  <2>1. Above \in SUBSET Nat /\ Above # {}
    BY <1>1
  <2> HIDE DEF Above
  <2> QED BY <2>1, LeastNumber
<1>3. b \in 0..val
  BY <1>1, <1>2
<1>4. IsLength(b)
  <2>1. ASSUME b > 0 PROVE val >= TwoTo[b - 1]
    <3>1. b - 1 \in Nat /\ b - 1 \notin Above
      BY <1>2, <2>1
    <3>2. TwoTo[b - 1] \in Nat
      BY <3>1, TwoToFacts
    <3> QED BY <3>1, <3>2
  <2> QED BY <1>2, <2>1
<1>5. BitLength(val) = CHOOSE c \in 0..val : IsLength(c)
  BY DEF BitLength
<1>6. BitLength(val) \in 0..val /\ IsLength(BitLength(val))
  <2> HIDE DEF IsLength
  <2> QED BY <1>3, <1>4, <1>5
<1> QED BY <1>6

\* A number below a power of two has no more bits than the exponent.
LEMMA BitLengthBound ==
    ASSUME NEW val \in Nat, NEW n \in Nat, val < TwoTo[n]
    PROVE  BitLength(val) <= n
<1>1. SUFFICES ASSUME BitLength(val) > n PROVE FALSE
  BY BitLengthFacts
<1>2. BitLength(val) - 1 \in Nat /\ n <= BitLength(val) - 1
  BY <1>1, BitLengthFacts
<1>3. TwoTo[n] <= TwoTo[BitLength(val) - 1]
  BY <1>2, TwoToMonotone
<1>4. TwoTo[n] \in Nat /\ TwoTo[BitLength(val) - 1] \in Nat
  BY <1>2, TwoToFacts
<1> QED BY <1>1, <1>2, <1>3, <1>4, BitLengthFacts

-----------------------------------------------------------------------------
(* Numbers as bytes.                                                       *)

\* Dividing twice is dividing by the product.
LEMMA DivideTwice ==
    ASSUME NEW val \in Nat, NEW d \in Nat, d > 0
    PROVE  /\ (val \div d) \div 256 = val \div (256 * d)
           /\ val \div d \in Nat
OBVIOUS

\* The elements of a string of bytes.
LEMMA ByteType ==
    ASSUME NEW s \in Seq(Byte)
    PROVE  /\ Len(s) \in Nat
           /\ \A i \in 1..Len(s) : s[i] \in Nat /\ s[i] < 256
<1>1. Len(s) \in Nat /\ \A i \in 1..Len(s) : s[i] \in Byte
  OBVIOUS
<1>2. \A b \in Byte : b \in Nat /\ b < 256
  BY DEF Byte
<1> QED BY <1>1, <1>2

\* The bytes of a number are bytes, as many as asked for.
LEMMA BytesOfType ==
    ASSUME NEW val \in Nat, NEW n \in Nat
    PROVE  /\ BytesOf(val, n) \in Seq(Byte)
           /\ Len(BytesOf(val, n)) = n
           /\ \A i \in 1..n : BytesOf(val, n)[i] = (val \div TwoTo[8 * (n - i)]) % 256
<1>1. ASSUME NEW i \in 1..n PROVE (val \div TwoTo[8 * (n - i)]) % 256 \in Byte
  <2>1. TwoTo[8 * (n - i)] \in Nat \ {0}
    BY TwoToFacts
  <2>2. val \div TwoTo[8 * (n - i)] \in Nat
    BY <2>1
  <2> QED BY <2>2 DEF Byte
<1> QED BY <1>1 DEF BytesOf

\* The loop of int.from_bytes: number[i] is the number in the first i bytes.
LEMMA IntFromBytesLoop ==
    ASSUME NEW s \in Seq(Byte)
    PROVE  \E number \in [0..Len(s) -> Nat] :
              /\ number[0] = 0
              /\ \A i \in 1..Len(s) : number[i] = 256 * number[i - 1] + s[i]
              /\ IntFromBytes(s) = number[Len(s)]
<1> DEFINE n == Len(s)
           Loop(f) == f = [i \in 0..n |-> IF i = 0 THEN 0 ELSE 256 * f[i - 1] + s[i]]
           next == [i \in 1..n |-> [x \in Nat |-> 256 * x + s[i]]]
<1>1. n \in Nat /\ \A i \in 1..n : s[i] \in Nat
  BY ByteType
<1> HIDE DEF n
<1>2. next \in [1..n -> [Nat -> Nat]]
  BY <1>1
<1>3. PICK f \in [0..n -> Nat] : f[0] = 0 /\ \A i \in 1..n : f[i] = next[i][f[i - 1]]
  <2> DEFINE S == Nat
  <2>1. 0 \in S /\ next \in [1..n -> [S -> S]]
    BY <1>2
  <2>2. \E f \in [0..n -> S] : f[0] = 0 /\ \A i \in 1..n : f[i] = next[i][f[i - 1]]
    <3>1. n \in Nat
      BY <1>1
    <3> HIDE DEF next, S, Loop
    <3> QED BY <2>1, <3>1, IterationExists
  <2> QED BY <2>2
<1>4. ASSUME NEW i \in 1..n PROVE f[i] = 256 * f[i - 1] + s[i]
  <2>1. f[i] = next[i][f[i - 1]]
    <3> HIDE DEF next
    <3> QED BY <1>3
  <2>2. f[i - 1] \in Nat
    BY <1>1
  <2> QED BY <2>1, <2>2
<1>5. Loop(f)
  <2>1. \A i \in 0..n : f[i] = IF i = 0 THEN 0 ELSE 256 * f[i - 1] + s[i]
    BY <1>1, <1>3, <1>4
  <2> QED BY <1>3, <2>1
<1> DEFINE g == CHOOSE h : Loop(h)
<1>6. Loop(g)
  <2> HIDE DEF Loop
  <2> QED BY <1>5
<1>7. IntFromBytes(s) = g[n]
  BY DEF IntFromBytes, n
<1> HIDE DEF g
<1>8. g[0] = 0 /\ \A i \in 1..n : g[i] = 256 * g[i - 1] + s[i]
  BY <1>1, <1>6
<1>9. \A i \in 0..n : g[i] \in Nat
  <2> DEFINE P == {i \in Nat : i <= n => g[i] \in Nat}
  <2>1. 0 \in P
    BY <1>8
  <2>2. ASSUME NEW i \in Nat, i \in P PROVE i + 1 \in P
    <3>1. SUFFICES ASSUME i + 1 <= n PROVE g[i + 1] \in Nat
      OBVIOUS
    <3>2. i + 1 \in 1..n /\ g[i] \in Nat /\ s[i + 1] \in Nat
      BY <1>1, <2>2, <3>1
    <3> QED BY <1>8, <3>2
  <2>3. \A i \in Nat : i \in P
    <3> HIDE DEF P
    <3> QED BY <2>1, <2>2, SetInduction
  <2> QED BY <1>1, <2>3
<1>10. g \in [0..n -> Nat]
  BY <1>6, <1>9
<1> QED BY <1>7, <1>8, <1>10 DEF n

\* Bytes that hold a number are read as that number.
LEMMA BytesAreRead ==
    ASSUME NEW val \in Nat, NEW n \in Nat, val < TwoTo[8 * n]
    PROVE  IntFromBytes(BytesOf(val, n)) = val
<1> DEFINE s == BytesOf(val, n)
<1>1. s \in Seq(Byte) /\ Len(s) = n
  BY BytesOfType
<1>2. \A i \in 1..n : s[i] = (val \div TwoTo[8 * (n - i)]) % 256
  BY BytesOfType
<1> HIDE DEF s
<1>3. PICK number \in [0..n -> Nat] :
         /\ number[0] = 0
         /\ \A i \in 1..n : number[i] = 256 * number[i - 1] + s[i]
         /\ IntFromBytes(s) = number[n]
  BY <1>1, IntFromBytesLoop
<1> DEFINE P == {i \in Nat : i <= n => number[i] = val \div TwoTo[8 * (n - i)]}
<1>4. 0 \in P
  <2>1. TwoTo[8 * n] \in Nat \ {0}
    BY TwoToFacts
  <2>2. val \div TwoTo[8 * n] = 0
    BY <2>1
  <2> QED BY <1>3, <2>2
<1>5. ASSUME NEW i \in Nat, i \in P PROVE i + 1 \in P
  <2>1. SUFFICES ASSUME i + 1 <= n PROVE number[i + 1] = val \div TwoTo[8 * (n - (i + 1))]
    OBVIOUS
  <2> DEFINE m == n - (i + 1)
             d == TwoTo[8 * m]
  <2>2. m \in Nat /\ n - i = m + 1
    BY <2>1
  <2>3. d \in Nat /\ d > 0 /\ TwoTo[8 * (n - i)] = 256 * d
    <3> HIDE DEF m
    <3>1. d \in Nat \ {0}
      <4>1. 8 * m \in Nat
        BY <2>2
      <4> QED BY <4>1, TwoToFacts
    <3> QED BY <2>2, <3>1, TwoToByte
  <2>4. number[i + 1] = 256 * number[i] + s[i + 1]
    BY <1>3, <2>1
  <2>5. number[i] = val \div (256 * d)
    BY <1>5, <2>1, <2>3
  <2>6. s[i + 1] = (val \div d) % 256
    BY <1>2, <2>1
  <2> HIDE DEF d
  <2>7. val \div (256 * d) = (val \div d) \div 256 /\ val \div d \in Nat
    <3>1. d \in Nat /\ d > 0
      BY <2>3
    <3> QED BY <3>1, DivideTwice
  <2>8. number[i + 1] = val \div d
    BY <2>4, <2>5, <2>6, <2>7
  <2> QED BY <2>8 DEF d
<1>6. n \in P
  <2> HIDE DEF P
  <2> QED BY <1>4, <1>5, SetInduction
<1>7. number[n] = val \div TwoTo[0]
  BY <1>6
<1>8. val \div TwoTo[0] = val
  BY TwoToFacts
<1> QED BY <1>3, <1>7, <1>8 DEF s

\* int.to_bytes fails only if the bytes asked for cannot hold the number.
LEMMA BytesFromIntFacts ==
    ASSUME NEW val \in Nat, NEW bits \in Nat \cup {None}
    PROVE  \/ /\ bits # None /\ val >= TwoTo[8 * NumBytes(bits)]
              /\ BytesFromInt(val, bits) = Fails("OverflowError")
           \/ /\ bits # None /\ val < TwoTo[8 * NumBytes(bits)]
              /\ BytesFromInt(val, bits) = Ok(BytesOf(val, NumBytes(bits)))
           \/ /\ bits = None
              /\ val < TwoTo[8 * NumBytes(BitLength(val))]
              /\ BytesFromInt(val, bits) = Ok(BytesOf(val, NumBytes(BitLength(val))))
<1>1. CASE bits = None
  <2> DEFINE b == BitLength(val)
             n == NumBytes(b)
  <2>1. b \in Nat /\ val < TwoTo[b]
    BY BitLengthFacts
  <2> HIDE DEF b
  <2>2. n \in Nat /\ 8 * n \in Nat /\ b <= 8 * n
    BY <2>1 DEF NumBytes
  <2> HIDE DEF n
  <2>3. TwoTo[b] <= TwoTo[8 * n]
    BY <2>1, <2>2, TwoToMonotone
  <2>4. TwoTo[b] \in Nat /\ TwoTo[8 * n] \in Nat
    BY <2>1, <2>2, TwoToFacts
  <2>5. val < TwoTo[8 * n]
    BY <2>1, <2>3, <2>4
  <2>6. BytesFromInt(val, bits) = IF val >= TwoTo[8 * n] THEN Fails("OverflowError")
                                  ELSE Ok(BytesOf(val, n))
    BY <1>1 DEF BytesFromInt, n, b, NumBytes
  <2>7. BytesFromInt(val, bits) = Ok(BytesOf(val, n))
    BY <2>4, <2>5, <2>6
  <2> QED BY <1>1, <2>5, <2>7 DEF n, b
<1>2. CASE bits # None
  <2>1. NumBytes(bits) \in Nat /\ TwoTo[8 * NumBytes(bits)] \in Nat
    <3>1. NumBytes(bits) \in Nat
      BY <1>2 DEF NumBytes
    <3>2. 8 * NumBytes(bits) \in Nat
      BY <3>1
    <3> QED BY <3>1, <3>2, TwoToFacts
  <2>2. BytesFromInt(val, bits) =
          IF val >= TwoTo[8 * NumBytes(bits)] THEN Fails("OverflowError")
          ELSE Ok(BytesOf(val, NumBytes(bits)))
    BY <1>2 DEF BytesFromInt, NumBytes
  <2> QED BY <1>2, <2>1, <2>2
<1> QED BY <1>1, <1>2

\* A number that fits in the bytes of a curve takes them all, in hexadecimal too.
LEMMA NumberToBytesFacts ==
    ASSUME NEW num \in Nat, NEW n \in Nat, num < TwoTo[8 * n]
    PROVE  NumberToBytes(num, n) = Ok(BytesOf(num, n))
<1> DEFINE b == BitLength(num)
<1>1. b \in Nat /\ b <= 8 * n
  <2>1. 8 * n \in Nat
    OBVIOUS
  <2> QED BY <2>1, BitLengthFacts, BitLengthBound
<1> HIDE DEF b
<1>2. (b + 3) \div 4 <= 2 * n
  BY <1>1
<1>3. HexDigits(num, n) = 2 * n
  BY <1>1, <1>2 DEF HexDigits, b
<1>4. HexDigits(num, n) % 2 # 1 /\ HexDigits(num, n) \div 2 = n
  BY <1>3
<1> QED BY <1>4 DEF NumberToBytes

\* The number of bytes of a curve holds every number below 2^bits.
LEMMA CurveBytesHold ==
    ASSUME NEW bits \in Nat, NEW num \in Nat, num < TwoTo[bits]
    PROVE  num < TwoTo[8 * NumBytes(bits)] /\ NumBytes(bits) \in Nat
<1>1. NumBytes(bits) \in Nat /\ 8 * NumBytes(bits) \in Nat /\ bits <= 8 * NumBytes(bits)
  BY DEF NumBytes
<1>2. TwoTo[bits] <= TwoTo[8 * NumBytes(bits)]
  BY <1>1, TwoToMonotone
<1>3. TwoTo[bits] \in Nat /\ TwoTo[8 * NumBytes(bits)] \in Nat
  BY <1>1, TwoToFacts
<1> QED BY <1>1, <1>2, <1>3

-----------------------------------------------------------------------------
(* base64url: writing.                                                     *)

\* The bytes the encoder takes are bytes.
LEMMA ByteAtType ==
    ASSUME NEW s \in Seq(Byte), NEW k \in Nat, k >= 1
    PROVE  ByteAt(s, k) \in Nat /\ ByteAt(s, k) < 256
<1>1. CASE k <= Len(s)
  <2>1. k \in 1..Len(s)
    BY <1>1, ByteType
  <2> QED BY <1>1, <2>1, ByteType DEF ByteAt
<1>2. CASE ~(k <= Len(s))
  BY <1>2 DEF ByteAt
<1> QED BY <1>1, <1>2

\* Four groups of six bits are three groups of eight.
LEMMA SixBits ==
    ASSUME NEW a \in Nat, a < 256, NEW b \in Nat, b < 256, NEW c \in Nat, c < 256,
           NEW T, T = (a * 256 + b) * 256 + c
    PROVE  /\ (T \div 262144) % 64 = a \div 4
           /\ (T \div 4096) % 64 = (a % 4) * 16 + b \div 16
           /\ (T \div 64) % 64 = (b % 16) * 4 + c \div 64
           /\ T % 64 = c % 64
<1> DEFINE a1 == a \div 4
           a0 == a % 4
           b1 == b \div 16
           b0 == b % 16
           c1 == c \div 64
           c0 == c % 64
<1>1. a1 \in Nat /\ a1 < 64 /\ a0 \in Nat /\ a0 < 4 /\ a = 4 * a1 + a0
  OBVIOUS
<1>2. b1 \in Nat /\ b1 < 16 /\ b0 \in Nat /\ b0 < 16 /\ b = 16 * b1 + b0
  OBVIOUS
<1>3. c1 \in Nat /\ c1 < 4 /\ c0 \in Nat /\ c0 < 64 /\ c = 64 * c1 + c0
  OBVIOUS
<1> HIDE DEF a1, a0, b1, b0, c1, c0
<1>4. (T \div 262144) % 64 = a1
  <2> DEFINE rest == 65536 * a0 + 256 * b + c
  <2>1. T = 262144 * a1 + rest /\ rest \in Nat /\ rest < 262144
    BY <1>1
  <2> HIDE DEF rest
  <2>2. T \div 262144 = a1
    BY <1>1, <2>1
  <2> QED BY <1>1, <2>2
<1>5. (T \div 4096) % 64 = a0 * 16 + b1
  <2> DEFINE quot == 64 * a1 + (16 * a0 + b1)
             rest == 256 * b0 + c
  <2>1. T = 4096 * quot + rest /\ quot \in Nat /\ rest \in Nat /\ rest < 4096
    BY <1>1, <1>2
  <2>2. quot % 64 = a0 * 16 + b1
    BY <1>1, <1>2
  <2> HIDE DEF quot, rest
  <2>3. T \div 4096 = quot
    BY <2>1
  <2> QED BY <2>2, <2>3
<1>6. (T \div 64) % 64 = b0 * 4 + c1
  <2> DEFINE quot == 64 * (16 * a + b1) + (4 * b0 + c1)
  <2>1. T = 64 * quot + c0 /\ quot \in Nat
    BY <1>2, <1>3
  <2>2. quot % 64 = b0 * 4 + c1
    BY <1>2, <1>3
  <2> HIDE DEF quot
  <2>3. T \div 64 = quot
    BY <1>3, <2>1
  <2> QED BY <2>2, <2>3
<1>7. T % 64 = c0
  <2> DEFINE quot == 1024 * a + 4 * b + c1
  <2>1. T = 64 * quot + c0 /\ quot \in Nat
    BY <1>3
  <2> HIDE DEF quot
  <2> QED BY <1>3, <2>1
<1> QED BY <1>4, <1>5, <1>6, <1>7 DEF a1, a0, b1, b0, c1, c0

\* Encoded bytes are characters of the alphabet, four for three.
LEMMA EncodeType ==
    ASSUME NEW s \in Seq(Byte)
    PROVE  /\ Base64UrlEncode(s) \in Seq(0..63)
           /\ Len(Base64UrlEncode(s)) = (4 * Len(s) + 2) \div 3
           /\ Len(Base64UrlEncode(s)) \in Nat
<1>1. (4 * Len(s) + 2) \div 3 \in Nat
  BY ByteType
<1> DEFINE code(j) == (Triple(s, 3 * ((j - 1) \div 4) + 1) \div 64^(3 - ((j - 1) % 4))) % 64
<1>2. ASSUME NEW j \in 1..((4 * Len(s) + 2) \div 3) PROVE code(j) \in 0..63
  <2> DEFINE i == 3 * ((j - 1) \div 4) + 1
             r == (j - 1) % 4
  <2>1. i \in Nat /\ i >= 1 /\ r \in Nat /\ r < 4
    BY <1>1
  <2> HIDE DEF i, r
  <2>2. Triple(s, i) \in Nat
    <3>1. i + 1 \in Nat /\ i + 1 >= 1 /\ i + 2 \in Nat /\ i + 2 >= 1
      BY <2>1
    <3>2. ByteAt(s, i) \in Nat /\ ByteAt(s, i + 1) \in Nat /\ ByteAt(s, i + 2) \in Nat
      BY <2>1, <3>1, ByteAtType
    <3> QED BY <3>2 DEF Triple
  <2>3. 64^(3 - r) \in Nat \ {0}
    <3>1. 64^3 \in Nat \ {0} /\ 64^2 \in Nat \ {0} /\ 64^1 \in Nat \ {0} /\ 64^0 \in Nat \ {0}
      OBVIOUS
    <3>2. 3 - r \in {0, 1, 2, 3}
      BY <2>1
    <3> QED BY <3>1, <3>2
  <2>4. \A x \in Nat, p \in Nat \ {0} : (x \div p) % 64 \in Nat /\ (x \div p) % 64 < 64
    OBVIOUS
  <2> DEFINE x == (Triple(s, i) \div 64^(3 - r)) % 64
  <2>5. x \in Nat /\ x < 64
    BY <2>2, <2>3, <2>4
  <2>6. x \in 0..63
    <3> HIDE DEF x
    <3> QED BY <2>5
  <2> QED BY <2>6 DEF i, r
<1>3. Base64UrlEncode(s) = [j \in 1..((4 * Len(s) + 2) \div 3) |-> code(j)]
  BY DEF Base64UrlEncode
<1> HIDE DEF code
<1> QED BY <1>1, <1>2, <1>3

\* The characters of a group of four, from the three bytes they stand for.
LEMMA EncodeChars ==
    ASSUME NEW s \in Seq(Byte), NEW q \in Nat, NEW code, code = Base64UrlEncode(s)
    PROVE  /\ 4 * q + 1 <= Len(code) => code[4 * q + 1] = ByteAt(s, 3 * q + 1) \div 4
           /\ 4 * q + 2 <= Len(code) =>
                 code[4 * q + 2] = (ByteAt(s, 3 * q + 1) % 4) * 16 + ByteAt(s, 3 * q + 2) \div 16
           /\ 4 * q + 3 <= Len(code) =>
                 code[4 * q + 3] = (ByteAt(s, 3 * q + 2) % 16) * 4 + ByteAt(s, 3 * q + 3) \div 64
           /\ 4 * q + 4 <= Len(code) => code[4 * q + 4] = ByteAt(s, 3 * q + 3) % 64
<1> DEFINE a == ByteAt(s, 3 * q + 1)
           b == ByteAt(s, 3 * q + 2)
           c == ByteAt(s, 3 * q + 3)
           T == Triple(s, 3 * q + 1)
<1>1. a \in Nat /\ a < 256 /\ b \in Nat /\ b < 256 /\ c \in Nat /\ c < 256
  <2>1. \A k \in {3 * q + 1, 3 * q + 2, 3 * q + 3} : k \in Nat /\ k >= 1
    OBVIOUS
  <2> QED BY <2>1, ByteAtType
<1>2. T = (a * 256 + b) * 256 + c
  <2>1. (3 * q + 1) + 1 = 3 * q + 2 /\ (3 * q + 1) + 2 = 3 * q + 3
    OBVIOUS
  <2> QED BY <2>1 DEF Triple
<1> HIDE DEF a, b, c, T
<1>3. 64^3 = 262144 /\ 64^2 = 4096 /\ 64^1 = 64 /\ 64^0 = 1
  OBVIOUS
<1>4. ASSUME NEW r \in 0..3, 4 * q + 1 + r <= Len(code)
      PROVE  code[4 * q + 1 + r] = (T \div 64^(3 - r)) % 64
  <2> DEFINE j == 4 * q + 1 + r
  <2>1. j \in 1..((4 * Len(s) + 2) \div 3)
    BY <1>4, EncodeType
  <2>2. (j - 1) \div 4 = q /\ (j - 1) % 4 = r
    OBVIOUS
  <2> HIDE DEF j
  <2>3. code[j] = (Triple(s, 3 * q + 1) \div 64^(3 - r)) % 64
    BY <2>1, <2>2 DEF Base64UrlEncode
  <2> QED BY <2>3 DEF j, T
<1>5. /\ (T \div 262144) % 64 = a \div 4
      /\ (T \div 4096) % 64 = (a % 4) * 16 + b \div 16
      /\ (T \div 64) % 64 = (b % 16) * 4 + c \div 64
      /\ T % 64 = c % 64
  BY <1>1, <1>2, SixBits
<1>6. T \in Nat /\ T \div 1 = T
  BY <1>1, <1>2
<1>7. ASSUME 4 * q + 1 <= Len(code) PROVE code[4 * q + 1] = a \div 4
  <2>1. code[4 * q + 1 + 0] = (T \div 64^(3 - 0)) % 64
    BY <1>4, <1>7
  <2> QED BY <1>3, <1>5, <2>1
<1>8. ASSUME 4 * q + 2 <= Len(code) PROVE code[4 * q + 2] = (a % 4) * 16 + b \div 16
  <2>1. code[4 * q + 1 + 1] = (T \div 64^(3 - 1)) % 64
    BY <1>4, <1>8
  <2> QED BY <1>3, <1>5, <2>1
<1>9. ASSUME 4 * q + 3 <= Len(code) PROVE code[4 * q + 3] = (b % 16) * 4 + c \div 64
  <2>1. code[4 * q + 1 + 2] = (T \div 64^(3 - 2)) % 64
    BY <1>4, <1>9
  <2> QED BY <1>3, <1>5, <2>1
<1>10. ASSUME 4 * q + 4 <= Len(code) PROVE code[4 * q + 4] = c % 64
  <2>1. code[4 * q + 1 + 3] = (T \div 64^(3 - 3)) % 64
    BY <1>4, <1>10
  <2> QED BY <1>3, <1>5, <1>6, <2>1
<1> QED BY <1>7, <1>8, <1>9, <1>10 DEF a, b, c

-----------------------------------------------------------------------------
(* base64url: reading.                                                     *)

\* What is left of the bytes a group of m characters has begun.
Leftover(s, q, m) ==
    IF m = 1 THEN ByteAt(s, 3 * q + 1) \div 4
    ELSE IF m = 2 THEN ByteAt(s, 3 * q + 2) \div 16
    ELSE IF m = 3 THEN ByteAt(s, 3 * q + 3) \div 64
    ELSE 0

\* The decoder after j characters of the code of s.
DataState(s, j) ==
    [quad |-> j % 4,
     left |-> Leftover(s, j \div 4, j % 4),
     out  |-> SubSeq(s, 1, (3 * j) \div 4),
     pads |-> 0,
     done |-> FALSE]

\* The decoder after the first L characters and p of padding.
PadState(s, L, p) ==
    IF L % 4 < 2 THEN DataState(s, L)
    ELSE [quad |-> L % 4,
          left |-> Leftover(s, L \div 4, L % 4),
          out  |-> SubSeq(s, 1, (3 * L) \div 4),
          pads |-> IF (L % 4) + p >= 4 THEN 4 - (L % 4) ELSE p,
          done |-> IF (L % 4) + p >= 4 THEN TRUE ELSE FALSE]

\* The same after n characters in all.
Progress(s, L, n) == IF n <= L THEN DataState(s, n) ELSE PadState(s, L, n - L)

\* The decoder within a group, or between two.
InGroup(quad, left, out) ==
    [quad |-> quad, left |-> left, out |-> out, pads |-> 0, done |-> FALSE]

\* The states of the decoder within a group.
LEMMA DataStates ==
    ASSUME NEW s, NEW q \in Nat
    PROVE  /\ DataState(s, 4 * q) = InGroup(0, 0, SubSeq(s, 1, 3 * q))
           /\ DataState(s, 4 * q + 1) = InGroup(1, ByteAt(s, 3 * q + 1) \div 4, SubSeq(s, 1, 3 * q))
           /\ DataState(s, 4 * q + 2) =
                 InGroup(2, ByteAt(s, 3 * q + 2) \div 16, SubSeq(s, 1, 3 * q + 1))
           /\ DataState(s, 4 * q + 3) =
                 InGroup(3, ByteAt(s, 3 * q + 3) \div 64, SubSeq(s, 1, 3 * q + 2))
<1>1. /\ (4 * q) % 4 = 0 /\ (4 * q) \div 4 = q /\ (3 * (4 * q)) \div 4 = 3 * q
      /\ Leftover(s, q, 0) = 0
  BY DEF Leftover
<1>2. /\ (4 * q + 1) % 4 = 1 /\ (4 * q + 1) \div 4 = q /\ (3 * (4 * q + 1)) \div 4 = 3 * q
      /\ Leftover(s, q, 1) = ByteAt(s, 3 * q + 1) \div 4
  BY DEF Leftover
<1>3. /\ (4 * q + 2) % 4 = 2 /\ (4 * q + 2) \div 4 = q /\ (3 * (4 * q + 2)) \div 4 = 3 * q + 1
      /\ Leftover(s, q, 2) = ByteAt(s, 3 * q + 2) \div 16
  BY DEF Leftover
<1>4. /\ (4 * q + 3) % 4 = 3 /\ (4 * q + 3) \div 4 = q /\ (3 * (4 * q + 3)) \div 4 = 3 * q + 2
      /\ Leftover(s, q, 3) = ByteAt(s, 3 * q + 3) \div 64
  BY DEF Leftover
<1>5. DataState(s, 4 * q) = InGroup(0, 0, SubSeq(s, 1, 3 * q))
  BY <1>1, Zenon DEF DataState, InGroup
<1>6. DataState(s, 4 * q + 1) = InGroup(1, ByteAt(s, 3 * q + 1) \div 4, SubSeq(s, 1, 3 * q))
  BY <1>2, Zenon DEF DataState, InGroup
<1>7. DataState(s, 4 * q + 2) = InGroup(2, ByteAt(s, 3 * q + 2) \div 16, SubSeq(s, 1, 3 * q + 1))
  BY <1>3, Zenon DEF DataState, InGroup
<1>8. DataState(s, 4 * q + 3) = InGroup(3, ByteAt(s, 3 * q + 3) \div 64, SubSeq(s, 1, 3 * q + 2))
  BY <1>4, Zenon DEF DataState, InGroup
<1> QED BY <1>5, <1>6, <1>7, <1>8

\* One byte more of a prefix.
LEMMA PrefixGrows ==
    ASSUME NEW s \in Seq(Byte), NEW n \in Nat, n + 1 <= Len(s)
    PROVE  /\ Append(SubSeq(s, 1, n), s[n + 1]) = SubSeq(s, 1, n + 1)
           /\ ByteAt(s, n + 1) = s[n + 1]
<1>1. n + 1 \in 1..Len(s)
  BY ByteType
<1> QED BY <1>1 DEF ByteAt

\* The bytes read after a character of a group.
Grown(quad, left, out, char) ==
    IF quad = 0 THEN out ELSE Append(out, left * 4^quad + char \div 4^(3 - quad))

\* A character of the alphabet takes the decoder on.
LEMMA DataChar ==
    ASSUME NEW quad, NEW left, NEW out, NEW char \in Nat, char < 64
    PROVE  DecodeStep(InGroup(quad, left, out), char) =
              InGroup((quad + 1) % 4, char % 4^(3 - quad), Grown(quad, left, out, char))
<1> DEFINE state == InGroup(quad, left, out)
<1>1. state.quad = quad /\ state.left = left /\ state.out = out /\ state.done = FALSE
  BY DEF InGroup
<1>2. char # Junk /\ char # Pad
  BY DEF Junk, Pad
<1> HIDE DEF state
<1>3. DecodeStep(state, char) =
        [quad |-> (state.quad + 1) % 4,
         left |-> char % 4^(3 - state.quad),
         out  |-> IF state.quad = 0 THEN state.out
                  ELSE Append(state.out, state.left * 4^state.quad + char \div 4^(3 - state.quad)),
         pads |-> 0,
         done |-> FALSE]
  BY <1>1, <1>2, Zenon DEF DecodeStep
<1>4. DecodeStep(state, char) =
        InGroup((quad + 1) % 4, char % 4^(3 - quad), Grown(quad, left, out, char))
  BY <1>1, <1>3, Zenon DEF InGroup, Grown
<1> QED BY <1>4 DEF state

\* The first character of a group,
LEMMA FirstChar ==
    ASSUME NEW left \in Nat, NEW out, NEW char \in Nat, char < 64
    PROVE  DecodeStep(InGroup(0, left, out), char) =
              InGroup(1, char, out)
<1>1. DecodeStep(InGroup(0, left, out), char) =
        InGroup((0 + 1) % 4, char % 4^(3 - 0), Grown(0, left, out, char))
  BY DataChar
<1>2. (0 + 1) % 4 = 1 /\ 4^(3 - 0) = 64 /\ char % 64 = char /\ Grown(0, left, out, char) = out
  BY DEF Grown
<1> QED BY <1>1, <1>2

\* the second,
LEMMA SecondChar ==
    ASSUME NEW left \in Nat, NEW out, NEW char \in Nat, char < 64
    PROVE  DecodeStep(InGroup(1, left, out), char) =
              InGroup(2, char % 16, Append(out, left * 4 + char \div 16))
<1>1. DecodeStep(InGroup(1, left, out), char) =
        InGroup((1 + 1) % 4, char % 4^(3 - 1), Grown(1, left, out, char))
  BY DataChar
<1>2. 4^(3 - 1) = 16 /\ 4^1 = 4 /\ 1 # 0 /\ (1 + 1) % 4 = 2
  OBVIOUS
<1> QED BY <1>1, <1>2, Zenon DEF Grown

\* the third
LEMMA ThirdChar ==
    ASSUME NEW left \in Nat, NEW out, NEW char \in Nat, char < 64
    PROVE  DecodeStep(InGroup(2, left, out), char) =
              InGroup(3, char % 4, Append(out, left * 16 + char \div 4))
<1>1. DecodeStep(InGroup(2, left, out), char) =
        InGroup((2 + 1) % 4, char % 4^(3 - 2), Grown(2, left, out, char))
  BY DataChar
<1>2. 4^(3 - 2) = 4 /\ 4^2 = 16 /\ 2 # 0 /\ (2 + 1) % 4 = 3
  OBVIOUS
<1> QED BY <1>1, <1>2, Zenon DEF Grown

\* and the last.
LEMMA FourthChar ==
    ASSUME NEW left \in Nat, NEW out, NEW char \in Nat, char < 64
    PROVE  DecodeStep(InGroup(3, left, out), char) =
              InGroup(0, 0, Append(out, left * 64 + char))
<1>1. DecodeStep(InGroup(3, left, out), char) =
        InGroup((3 + 1) % 4, char % 4^(3 - 3), Grown(3, left, out, char))
  BY DataChar
<1>2. 4^(3 - 3) = 1 /\ 4^3 = 64 /\ 3 # 0 /\ (3 + 1) % 4 = 0
  OBVIOUS
<1>3. char % 1 = 0 /\ char \div 1 = char
  OBVIOUS
<1> QED BY <1>1, <1>2, <1>3, Zenon DEF Grown

\* Six bits of two parts, taken apart again.
LEMMA Regroup ==
    ASSUME NEW hi \in Nat, NEW lo \in Nat
    PROVE  /\ (hi < 4 /\ lo < 16) =>
                 /\ hi * 16 + lo \in Nat /\ hi * 16 + lo < 64
                 /\ (hi * 16 + lo) % 16 = lo /\ (hi * 16 + lo) \div 16 = hi
           /\ (hi < 16 /\ lo < 4) =>
                 /\ hi * 4 + lo \in Nat /\ hi * 4 + lo < 64
                 /\ (hi * 4 + lo) % 4 = lo /\ (hi * 4 + lo) \div 4 = hi
<1>1. ASSUME hi < 4, lo < 16
      PROVE  /\ hi * 16 + lo \in Nat /\ hi * 16 + lo < 64
             /\ (hi * 16 + lo) % 16 = lo /\ (hi * 16 + lo) \div 16 = hi
  BY <1>1
<1>2. ASSUME hi < 16, lo < 4
      PROVE  /\ hi * 4 + lo \in Nat /\ hi * 4 + lo < 64
             /\ (hi * 4 + lo) % 4 = lo /\ (hi * 4 + lo) \div 4 = hi
  BY <1>2
<1> QED BY <1>1, <1>2

\* A character of the code takes the decoder on.
LEMMA DataStep ==
    ASSUME NEW s \in Seq(Byte), NEW code, code = Base64UrlEncode(s),
           NEW j \in Nat, j + 1 <= Len(code)
    PROVE  DecodeStep(DataState(s, j), code[j + 1]) = DataState(s, j + 1)
<1> DEFINE q == j \div 4
           a == ByteAt(s, 3 * q + 1)
           b == ByteAt(s, 3 * q + 2)
           c == ByteAt(s, 3 * q + 3)
<1>1. q \in Nat /\ (j = 4 * q \/ j = 4 * q + 1 \/ j = 4 * q + 2 \/ j = 4 * q + 3)
  OBVIOUS
<1>2. Len(s) \in Nat /\ Len(code) = (4 * Len(s) + 2) \div 3
  BY EncodeType
<1> HIDE DEF q
<1>3. a \in Nat /\ a < 256 /\ b \in Nat /\ b < 256 /\ c \in Nat /\ c < 256
  <2>1. /\ 3 * q + 1 \in Nat /\ 3 * q + 1 >= 1
        /\ 3 * q + 2 \in Nat /\ 3 * q + 2 >= 1
        /\ 3 * q + 3 \in Nat /\ 3 * q + 3 >= 1
    BY <1>1
  <2> QED BY <2>1, ByteAtType
<1>4. /\ 4 * q + 1 <= Len(code) => code[4 * q + 1] = a \div 4
      /\ 4 * q + 2 <= Len(code) => code[4 * q + 2] = (a % 4) * 16 + b \div 16
      /\ 4 * q + 3 <= Len(code) => code[4 * q + 3] = (b % 16) * 4 + c \div 64
      /\ 4 * q + 4 <= Len(code) => code[4 * q + 4] = c % 64
  BY <1>1, EncodeChars
<1>5. /\ DataState(s, 4 * q) = InGroup(0, 0, SubSeq(s, 1, 3 * q))
      /\ DataState(s, 4 * q + 1) = InGroup(1, a \div 4, SubSeq(s, 1, 3 * q))
      /\ DataState(s, 4 * q + 2) = InGroup(2, b \div 16, SubSeq(s, 1, 3 * q + 1))
      /\ DataState(s, 4 * q + 3) = InGroup(3, c \div 64, SubSeq(s, 1, 3 * q + 2))
  BY <1>1, DataStates
<1>6. DataState(s, 4 * q + 4) = InGroup(0, 0, SubSeq(s, 1, 3 * q + 3))
  <2>1. q + 1 \in Nat /\ 4 * (q + 1) = 4 * q + 4 /\ 3 * (q + 1) = 3 * q + 3
    BY <1>1
  <2>2. DataState(s, 4 * (q + 1)) = InGroup(0, 0, SubSeq(s, 1, 3 * (q + 1)))
    BY <2>1, DataStates
  <2> QED BY <2>1, <2>2
<1> HIDE DEF a, b, c
<1>7. /\ 4 * q + 2 <= Len(code) => 3 * q + 1 <= Len(s)
      /\ 4 * q + 3 <= Len(code) => (3 * q + 1) + 1 <= Len(s)
      /\ 4 * q + 4 <= Len(code) => (3 * q + 2) + 1 <= Len(s)
  BY <1>1, <1>2
<1>8. CASE j = 4 * q
  <2> DEFINE x == a \div 4
  <2>1. j + 1 = 4 * q + 1
    BY <1>8
  <2>2. code[j + 1] = x
    BY <1>4, <2>1
  <2>3. x \in Nat /\ x < 64
    BY <1>3
  <2>4. DataState(s, j) = InGroup(0, 0, SubSeq(s, 1, 3 * q))
    BY <1>5, <1>8
  <2>5. DataState(s, j + 1) = InGroup(1, x, SubSeq(s, 1, 3 * q))
    BY <1>5, <2>1
  <2> HIDE DEF x
  <2>6. DecodeStep(DataState(s, j), x) =
          InGroup(1, x, SubSeq(s, 1, 3 * q))
    <3>1. 0 \in Nat
      OBVIOUS
    <3>2. DecodeStep(InGroup(0, 0, SubSeq(s, 1, 3 * q)), x) =
            InGroup(1, x, SubSeq(s, 1, 3 * q))
      BY <2>3, <3>1, FirstChar, Zenon
    <3> QED BY <2>4, <3>2, Zenon
  <2> QED BY <2>2, <2>5, <2>6
<1>9. CASE j = 4 * q + 1
  <2> DEFINE x == (a % 4) * 16 + b \div 16
  <2>1. j + 1 = 4 * q + 2
    BY <1>1, <1>9
  <2>2. code[j + 1] = x
    BY <1>4, <2>1
  <2>3. x \in Nat /\ x < 64 /\ x % 16 = b \div 16 /\ x \div 16 = a % 4
    <3>1. a % 4 \in Nat /\ a % 4 < 4 /\ b \div 16 \in Nat /\ b \div 16 < 16
      BY <1>3
    <3> QED BY <3>1, Regroup, Zenon
  <2>4. (a \div 4) * 4 + x \div 16 = a
    <3>1. (a \div 4) * 4 + (a % 4) = a
      BY <1>3
    <3> QED BY <2>3, <3>1
  <2>5. DataState(s, j) = InGroup(1, a \div 4, SubSeq(s, 1, 3 * q))
    BY <1>5, <1>9
  <2>6. DataState(s, j + 1) = InGroup(2, b \div 16, SubSeq(s, 1, 3 * q + 1))
    BY <1>5, <2>1
  <2>7. Append(SubSeq(s, 1, 3 * q), a) = SubSeq(s, 1, 3 * q + 1)
    <3>1. 3 * q \in Nat /\ 3 * q + 1 <= Len(s)
      BY <1>1, <1>7, <2>1
    <3> QED BY <3>1, PrefixGrows DEF a
  <2> HIDE DEF x
  <2>8. DecodeStep(DataState(s, j), x) =
          InGroup(2, x % 16, Append(SubSeq(s, 1, 3 * q), (a \div 4) * 4 + x \div 16))
    <3> DEFINE l == a \div 4
               o == SubSeq(s, 1, 3 * q)
    <3>1. l \in Nat /\ x \in Nat /\ x < 64
      BY <1>3, <2>3
    <3> HIDE DEF l, o
    <3>2. DecodeStep(InGroup(1, l, o), x) =
            InGroup(2, x % 16, Append(o, l * 4 + x \div 16))
      BY <3>1, SecondChar
    <3> QED BY <2>5, <3>2, Zenon DEF l, o
  <2> QED BY <2>2, <2>3, <2>4, <2>6, <2>7, <2>8
<1>10. CASE j = 4 * q + 2
  <2> DEFINE x == (b % 16) * 4 + c \div 64
  <2>1. j + 1 = 4 * q + 3
    BY <1>1, <1>10
  <2>2. code[j + 1] = x
    BY <1>4, <2>1
  <2>3. x \in Nat /\ x < 64 /\ x % 4 = c \div 64 /\ x \div 4 = b % 16
    <3>1. b % 16 \in Nat /\ b % 16 < 16 /\ c \div 64 \in Nat /\ c \div 64 < 4
      BY <1>3
    <3> QED BY <3>1, Regroup, Zenon
  <2>4. (b \div 16) * 16 + x \div 4 = b
    <3>1. (b \div 16) * 16 + (b % 16) = b
      BY <1>3
    <3> QED BY <2>3, <3>1
  <2>5. DataState(s, j) = InGroup(2, b \div 16, SubSeq(s, 1, 3 * q + 1))
    BY <1>5, <1>10
  <2>6. DataState(s, j + 1) = InGroup(3, c \div 64, SubSeq(s, 1, 3 * q + 2))
    BY <1>5, <2>1
  <2>7. Append(SubSeq(s, 1, 3 * q + 1), b) = SubSeq(s, 1, 3 * q + 2)
    <3>1. 3 * q + 1 \in Nat /\ (3 * q + 1) + 1 <= Len(s) /\ (3 * q + 1) + 1 = 3 * q + 2
      BY <1>1, <1>7, <2>1
    <3> QED BY <3>1, PrefixGrows DEF b
  <2> HIDE DEF x
  <2>8. DecodeStep(DataState(s, j), x) =
          InGroup(3, x % 4, Append(SubSeq(s, 1, 3 * q + 1), (b \div 16) * 16 + x \div 4))
    <3> DEFINE l == b \div 16
               o == SubSeq(s, 1, 3 * q + 1)
    <3>1. l \in Nat /\ x \in Nat /\ x < 64
      BY <1>3, <2>3
    <3> HIDE DEF l, o
    <3>2. DecodeStep(InGroup(2, l, o), x) =
            InGroup(3, x % 4, Append(o, l * 16 + x \div 4))
      BY <3>1, ThirdChar
    <3> QED BY <2>5, <3>2, Zenon DEF l, o
  <2> QED BY <2>2, <2>3, <2>4, <2>6, <2>7, <2>8
<1>11. CASE j = 4 * q + 3
  <2> DEFINE x == c % 64
  <2>1. j + 1 = 4 * q + 4
    BY <1>1, <1>11
  <2>2. code[j + 1] = x
    BY <1>4, <2>1
  <2>3. x \in Nat /\ x < 64
    BY <1>3
  <2>4. (c \div 64) * 64 + x = c
    BY <1>3
  <2>5. DataState(s, j) = InGroup(3, c \div 64, SubSeq(s, 1, 3 * q + 2))
    BY <1>5, <1>11
  <2>6. DataState(s, j + 1) = InGroup(0, 0, SubSeq(s, 1, 3 * q + 3))
    BY <1>6, <2>1
  <2>7. Append(SubSeq(s, 1, 3 * q + 2), c) = SubSeq(s, 1, 3 * q + 3)
    <3>1. 3 * q + 2 \in Nat /\ (3 * q + 2) + 1 <= Len(s) /\ (3 * q + 2) + 1 = 3 * q + 3
      BY <1>1, <1>7, <2>1
    <3> QED BY <3>1, PrefixGrows DEF c
  <2> HIDE DEF x
  <2>8. DecodeStep(DataState(s, j), x) =
          InGroup(0, 0, Append(SubSeq(s, 1, 3 * q + 2), (c \div 64) * 64 + x))
    <3> DEFINE l == c \div 64
               o == SubSeq(s, 1, 3 * q + 2)
    <3>1. l \in Nat /\ x \in Nat /\ x < 64
      BY <1>3, <2>3
    <3> HIDE DEF l, o
    <3>2. DecodeStep(InGroup(3, l, o), x) =
            InGroup(0, 0, Append(o, l * 64 + x))
      BY <3>1, FourthChar
    <3> QED BY <2>5, <3>2, Zenon DEF l, o
  <2> QED BY <2>2, <2>4, <2>6, <2>7, <2>8
<1> QED BY <1>1, <1>8, <1>9, <1>10, <1>11

\* Padding takes the decoder on, and to its end once a group is complete.
LEMMA PadStep ==
    ASSUME NEW s, NEW L \in Nat, NEW p \in Nat
    PROVE  /\ PadState(s, L, 0) = DataState(s, L)
           /\ DecodeStep(PadState(s, L, p), Pad) = PadState(s, L, p + 1)
<1> DEFINE m == L % 4
           left == Leftover(s, L \div 4, m)
           out == SubSeq(s, 1, (3 * L) \div 4)
           Waiting(n) == [quad |-> m, left |-> left, out |-> out, pads |-> n, done |-> FALSE]
           Ended == [quad |-> m, left |-> left, out |-> out, pads |-> 4 - m, done |-> TRUE]
<1>1. m \in {0, 1, 2, 3}
  OBVIOUS
<1>2. DataState(s, L) = Waiting(0)
  BY DEF DataState
<1>3. ASSUME NEW n \in Nat
      PROVE  /\ m < 2 => PadState(s, L, n) = Waiting(0)
             /\ (m >= 2 /\ m + n < 4) => PadState(s, L, n) = Waiting(n)
             /\ (m >= 2 /\ m + n >= 4) => PadState(s, L, n) = Ended
  <2>1. CASE m < 2
    BY <1>1, <1>2, <2>1 DEF PadState
  <2>2. CASE m >= 2 /\ m + n < 4
    <3>1. ~(m < 2) /\ ~(m + n >= 4)
      BY <1>1, <2>2
    <3>2. PadState(s, L, n) = Waiting(n)
      BY <3>1, Zenon DEF PadState
    <3> QED BY <1>1, <2>2, <3>2
  <2>3. CASE m >= 2 /\ m + n >= 4
    <3>1. ~(m < 2)
      BY <1>1, <2>3
    <3>2. PadState(s, L, n) = Ended
      BY <2>3, <3>1, Zenon DEF PadState
    <3> QED BY <1>1, <2>3, <3>2
  <2> QED BY <1>1, <2>1, <2>2, <2>3
<1> HIDE DEF m, left, out
<1>a. p + 1 \in Nat
  OBVIOUS
<1>4. PadState(s, L, 0) = DataState(s, L)
  <2>1. m < 2 \/ (m >= 2 /\ m + 0 < 4)
    BY <1>1
  <2>2. (m < 2 => PadState(s, L, 0) = Waiting(0))
        /\ (m >= 2 /\ m + 0 < 4 => PadState(s, L, 0) = Waiting(0))
    BY <1>3
  <2> HIDE DEF Waiting
  <2> QED BY <1>2, <2>1, <2>2
<1>5. Pad # Junk
  BY DEF Pad, Junk
<1>6. CASE m < 2
  <2>1. PadState(s, L, p) = Waiting(0) /\ PadState(s, L, p + 1) = Waiting(0)
    <3> HIDE DEF Waiting, Ended
    <3> QED BY <1>a, <1>3, <1>6
  <2>2. Waiting(0).quad = m
    OBVIOUS
  <2> HIDE DEF Waiting
  <2>3. DecodeStep(Waiting(0), Pad) = Waiting(0)
    BY <1>5, <1>6, <2>2 DEF DecodeStep
  <2> QED BY <1>4, <2>1, <2>3
<1>7. CASE m >= 2 /\ m + p >= 4
  <2>1. PadState(s, L, p) = Ended /\ PadState(s, L, p + 1) = Ended
    <3>1. m + (p + 1) >= 4
      BY <1>1, <1>7
    <3> HIDE DEF Waiting, Ended
    <3> QED BY <1>a, <1>3, <1>7, <3>1
  <2>2. Ended.done = TRUE
    OBVIOUS
  <2> HIDE DEF Ended
  <2>3. DecodeStep(Ended, Pad) = Ended
    BY <2>2 DEF DecodeStep
  <2> QED BY <1>4, <2>1, <2>3
<1>8. CASE m >= 2 /\ m + p < 4
  <2>1. PadState(s, L, p) = Waiting(p)
    BY <1>3, <1>8
  <2> DEFINE state == Waiting(p)
  <2>2. state.quad = m /\ state.pads = p /\ state.done = FALSE
    OBVIOUS
  <2>3. DecodeStep(state, Pad) =
           [state EXCEPT !.pads = @ + 1, !.done = state.quad + state.pads + 1 >= 4]
    <3>1. ~(state.quad < 2)
      BY <1>1, <1>8, <2>2
    <3> HIDE DEF state
    <3> QED BY <1>5, <2>2, <3>1, Zenon DEF DecodeStep
  <2>4. DecodeStep(state, Pad) = [quad |-> m, left |-> left, out |-> out,
                                  pads |-> p + 1, done |-> (m + p + 1 >= 4)]
    BY <2>3
  <2>5. CASE m + p + 1 >= 4
    <3>1. PadState(s, L, p + 1) = Ended /\ p + 1 = 4 - m
      <4>1. m + (p + 1) >= 4 /\ p + 1 = 4 - m
        BY <1>1, <1>8, <2>5
      <4> HIDE DEF Waiting, Ended
      <4> QED BY <1>a, <1>3, <1>8, <4>1
    <3>2. (m + p + 1 >= 4) = TRUE
      BY <2>5
    <3>3. DecodeStep(state, Pad) = Ended
      BY <2>4, <3>1, <3>2, Zenon
    <3> HIDE DEF Ended
    <3> QED BY <1>4, <2>1, <3>1, <3>3
  <2>6. CASE ~(m + p + 1 >= 4)
    <3>1. PadState(s, L, p + 1) = Waiting(p + 1)
      <4>1. m + (p + 1) < 4
        BY <1>1, <1>8, <2>6
      <4> HIDE DEF Waiting, Ended
      <4> QED BY <1>a, <1>3, <1>8, <4>1
    <3>2. (m + p + 1 >= 4) = FALSE
      BY <2>6
    <3>3. DecodeStep(state, Pad) = Waiting(p + 1)
      BY <2>4, <3>2, Zenon
    <3> HIDE DEF Waiting
    <3> QED BY <1>4, <2>1, <3>1, <3>3
  <2> QED BY <2>5, <2>6
<1> QED BY <1>1, <1>6, <1>7, <1>8

\* A text that is a prefix of a code, then padding, with junk anywhere in it:
\* count[k] of its first k characters are not junk.
Carries(chars, code, L, count) ==
    /\ count \in [0..Len(chars) -> Nat]
    /\ count[0] = 0
    /\ \A k \in 1..Len(chars) :
          \/ chars[k] = Junk /\ count[k] = count[k - 1]
          \/ /\ count[k] = count[k - 1] + 1
             /\ chars[k] = IF count[k] <= L THEN code[count[k]] ELSE Pad

\* The decoder follows the characters of such a text.
LEMMA CarriesStep ==
    ASSUME NEW s \in Seq(Byte), NEW code, code = Base64UrlEncode(s),
           NEW L \in Nat, L <= Len(code),
           NEW chars \in Seq(0..Junk), NEW count, Carries(chars, code, L, count),
           NEW k \in 1..Len(chars)
    PROVE  DecodeStep(Progress(s, L, count[k - 1]), chars[k]) = Progress(s, L, count[k])
<1> DEFINE n == count[k - 1]
<1>1. n \in Nat
  <2>1. Len(chars) \in Nat
    OBVIOUS
  <2>2. k - 1 \in 0..Len(chars)
    BY <2>1
  <2> QED BY <2>2 DEF Carries
<1>2. \/ chars[k] = Junk /\ count[k] = n
      \/ /\ count[k] = n + 1
         /\ chars[k] = IF count[k] <= L THEN code[count[k]] ELSE Pad
  BY DEF Carries
<1> HIDE DEF n
<1>3. CASE chars[k] = Junk /\ count[k] = n
  BY <1>3 DEF DecodeStep, n
<1>4. CASE count[k] = n + 1 /\ n + 1 <= L /\ chars[k] = code[n + 1]
  <2>1. Len(code) \in Nat
    BY EncodeType
  <2>2. DecodeStep(DataState(s, n), code[n + 1]) = DataState(s, n + 1)
    BY <1>1, <1>4, <2>1, DataStep
  <2>3. n <= L
    BY <1>1, <1>4
  <2> QED BY <1>4, <2>2, <2>3 DEF Progress, n
<1>5. CASE count[k] = n + 1 /\ ~(n + 1 <= L) /\ chars[k] = Pad
  <2> DEFINE p == n - L
  <2>1. p \in Nat /\ (n + 1) - L = p + 1 /\ (n <= L => n = L /\ p = 0)
    BY <1>1, <1>5
  <2>2. Progress(s, L, n) = PadState(s, L, p)
    <3>1. CASE n <= L
      BY <2>1, <3>1, PadStep DEF Progress
    <3>2. CASE ~(n <= L)
      BY <3>2 DEF Progress
    <3> QED BY <3>1, <3>2
  <2>3. Progress(s, L, n + 1) = PadState(s, L, p + 1)
    BY <1>5, <2>1 DEF Progress
  <2> HIDE DEF p
  <2>4. DecodeStep(PadState(s, L, p), Pad) = PadState(s, L, p + 1)
    BY <2>1, PadStep
  <2> QED BY <1>5, <2>2, <2>3, <2>4 DEF n
<1> QED BY <1>1, <1>2, <1>3, <1>4, <1>5

\* The loop of the decoder.
LEMMA DecoderLoop ==
    ASSUME NEW s \in Seq(Byte), NEW code, code = Base64UrlEncode(s),
           NEW L \in Nat, L <= Len(code),
           NEW chars \in Seq(0..Junk), NEW count, Carries(chars, code, L, count)
    PROVE  LET end == Progress(s, L, count[Len(chars)])
           IN  A2bBase64(chars) = IF end.done \/ end.quad = 0 THEN Ok(end.out)
                                  ELSE Fails("binascii.Error")
<1> DEFINE n == Len(chars)
           Loop(f) == f = [k \in 0..n |-> IF k = 0 THEN DecodeStart
                                          ELSE DecodeStep(f[k - 1], chars[k])]
           f == [k \in 0..n |-> Progress(s, L, count[k])]
           g == CHOOSE h : Loop(h)
<1>1. n \in Nat
  OBVIOUS
<1>2. Progress(s, L, count[0]) = DecodeStart
  <2>1. count[0] = 0 /\ 0 <= L
    BY DEF Carries
  <2>2. DataState(s, 4 * 0) = [quad |-> 0, left |-> 0, out |-> SubSeq(s, 1, 3 * 0),
                               pads |-> 0, done |-> FALSE]
    BY DataStates DEF InGroup
  <2>3. SubSeq(s, 1, 0) = <<>>
    OBVIOUS
  <2> QED BY <2>1, <2>2, <2>3 DEF Progress, DecodeStart
<1>3. \A k \in 1..n : DecodeStep(f[k - 1], chars[k]) = f[k]
  <2> TAKE k \in 1..n
  <2>1. DecodeStep(Progress(s, L, count[k - 1]), chars[k]) = Progress(s, L, count[k])
    BY CarriesStep
  <2> QED BY <1>1, <2>1
<1>4. f[0] = DecodeStart
  BY <1>1, <1>2
<1>5. DOMAIN f = 0..n /\ f = [k \in 0..n |-> f[k]]
  OBVIOUS
<1> HIDE DEF n
<1>6. Loop(f)
  <2> HIDE DEF f
  <2>1. \A k \in 0..n : f[k] = IF k = 0 THEN DecodeStart ELSE DecodeStep(f[k - 1], chars[k])
    BY <1>1, <1>3, <1>4
  <2> QED BY <1>5, <2>1
<1>7. Loop(g)
  <2> HIDE DEF Loop, f
  <2> QED BY <1>6
<1>8. A2bBase64(chars) = IF g[n].done \/ g[n].quad = 0 THEN Ok(g[n].out)
                         ELSE Fails("binascii.Error")
  BY DEF A2bBase64, n
<1> HIDE DEF f, g
<1>9. g[0] = DecodeStart /\ \A k \in 1..n : g[k] = DecodeStep(g[k - 1], chars[k])
  BY <1>1, <1>7
<1> HIDE DEF Loop
<1> DEFINE P == {k \in Nat : k <= n => g[k] = f[k]}
<1>10. 0 \in P
  BY <1>4, <1>9
<1>11. ASSUME NEW k \in Nat, k \in P PROVE k + 1 \in P
  <2>1. SUFFICES ASSUME k + 1 <= n PROVE g[k + 1] = f[k + 1]
    OBVIOUS
  <2>2. k + 1 \in 1..n /\ (k + 1) - 1 = k /\ g[k] = f[k]
    BY <1>1, <1>11, <2>1
  <2> QED BY <1>3, <1>9, <2>2
<1>12. n \in P
  <2> HIDE DEF P
  <2> QED BY <1>1, <1>10, <1>11, SetInduction
<1>13. g[n] = Progress(s, L, count[n])
  BY <1>1, <1>12 DEF f
<1> QED BY <1>8, <1>13 DEF n

\* What is read of such a text: the bytes its characters complete, if the last
\* group is complete or padded.
LEMMA Decoded ==
    ASSUME NEW s \in Seq(Byte), NEW code, code = Base64UrlEncode(s),
           NEW L \in Nat, L <= Len(code),
           NEW chars \in Seq(0..Junk), NEW count, Carries(chars, code, L, count),
           count[Len(chars)] >= L
    PROVE  A2bBase64(chars) =
              IF L % 4 = 0 \/ (L % 4 >= 2 /\ (L % 4) + (count[Len(chars)] - L) >= 4)
              THEN Ok(SubSeq(s, 1, (3 * L) \div 4)) ELSE Fails("binascii.Error")
<1> DEFINE p == count[Len(chars)] - L
           end == Progress(s, L, count[Len(chars)])
<1>1. p \in Nat
  BY DEF Carries
<1>2. end = PadState(s, L, p)
  <2>1. CASE count[Len(chars)] <= L
    <3>1. count[Len(chars)] = L /\ p = 0
      BY <2>1 DEF Carries
    <3> QED BY <3>1, PadStep DEF Progress
  <2>2. CASE ~(count[Len(chars)] <= L)
    BY <2>2 DEF Progress
  <2> QED BY <2>1, <2>2
<1>3. A2bBase64(chars) = IF end.done \/ end.quad = 0 THEN Ok(end.out)
                         ELSE Fails("binascii.Error")
  BY DecoderLoop
<1> HIDE DEF end, p
<1> DEFINE m == L % 4
           out == SubSeq(s, 1, (3 * L) \div 4)
<1>4. m \in {0, 1, 2, 3}
  OBVIOUS
<1>5. end.quad = m /\ end.out = out
  BY <1>2 DEF PadState, DataState
<1>6. \/ end.done = TRUE /\ m >= 2 /\ m + p >= 4
      \/ end.done = FALSE /\ ~(m >= 2 /\ m + p >= 4)
  <2>1. CASE m < 2
    <3>1. end.done = FALSE
      BY <1>2, <2>1 DEF PadState, DataState
    <3> QED BY <1>4, <2>1, <3>1
  <2>2. CASE ~(m < 2) /\ m + p >= 4
    <3>1. end.done = TRUE
      BY <1>2, <2>2 DEF PadState
    <3> QED BY <1>4, <2>2, <3>1
  <2>3. CASE ~(m < 2) /\ ~(m + p >= 4)
    <3>1. end.done = FALSE
      BY <1>2, <2>3 DEF PadState
    <3> QED BY <1>4, <2>3, <3>1
  <2> QED BY <2>1, <2>2, <2>3
<1> HIDE DEF m, out
<1>7. A2bBase64(chars) = IF m = 0 \/ (m >= 2 /\ m + p >= 4) THEN Ok(out)
                         ELSE Fails("binascii.Error")
  <2>1. CASE end.done = TRUE /\ m >= 2 /\ m + p >= 4
    BY <1>3, <1>5, <2>1
  <2>2. CASE end.done = FALSE /\ ~(m >= 2 /\ m + p >= 4)
    BY <1>3, <1>5, <2>2
  <2> QED BY <1>6, <2>1, <2>2
<1> QED BY <1>7 DEF m, out, p

\* The padding a text of n characters is taken to lack.
Missing(n) == IF n % 4 > 0 THEN 4 - (n % 4) ELSE 0

\* The same of base64url_decode, which pads first.
LEMMA DecodedPadded ==
    ASSUME NEW s \in Seq(Byte), NEW code, code = Base64UrlEncode(s),
           NEW L \in Nat, L <= Len(code),
           NEW chars \in Seq(0..Junk), NEW count, Carries(chars, code, L, count),
           count[Len(chars)] >= L
    PROVE  Base64UrlDecode(chars) =
              IF L % 4 = 0 \/ (L % 4 >= 2 /\ (L % 4) + (count[Len(chars)] - L)
                                                + Missing(Len(chars)) >= 4)
              THEN Ok(SubSeq(s, 1, (3 * L) \div 4)) ELSE Fails("binascii.Error")
<1> DEFINE n == Len(chars)
           pad == Missing(n)
           more == chars \o Padding(pad)
           count2 == [k \in 0..(n + pad) |-> IF k <= n THEN count[k] ELSE count[n] + (k - n)]
<1>1. n \in Nat /\ pad \in Nat
  BY DEF Missing
<1>2. Padding(pad) \in Seq(0..Junk) /\ Len(Padding(pad)) = pad
      /\ \A k \in 1..pad : Padding(pad)[k] = Pad
  <2> HIDE DEF pad
  <2> QED BY <1>1 DEF Padding, Pad, Junk
<1>3. Base64UrlDecode(chars) = A2bBase64(more)
  <2>1. CASE n % 4 > 0
    BY <2>1 DEF Base64UrlDecode, Missing
  <2>2. CASE ~(n % 4 > 0)
    <3>1. pad = 0
      BY <2>2 DEF Missing
    <3>2. Padding(0) = <<>>
      BY DEF Padding
    <3>3. more = chars
      BY <3>1, <3>2
    <3> QED BY <2>2, <3>3 DEF Base64UrlDecode
  <2> QED BY <2>1, <2>2
<1>4. /\ more \in Seq(0..Junk) /\ Len(more) = n + pad
      /\ \A k \in 1..n : more[k] = chars[k]
      /\ \A k \in (n + 1)..(n + pad) : more[k] = Pad
  <2> HIDE DEF pad
  <2> QED BY <1>1, <1>2
<1> HIDE DEF pad, more
<1>5. /\ count \in [0..n -> Nat] /\ count[0] = 0
      /\ \A k \in 1..n : \/ chars[k] = Junk /\ count[k] = count[k - 1]
                         \/ /\ count[k] = count[k - 1] + 1
                            /\ chars[k] = IF count[k] <= L THEN code[count[k]] ELSE Pad
  BY DEF Carries
<1> HIDE DEF n
<1>6. Carries(more, code, L, count2)
  <2>1. count2 \in [0..(n + pad) -> Nat] /\ count2[0] = 0
    BY <1>1, <1>5
  <2>2. ASSUME NEW k \in 1..(n + pad)
        PROVE  \/ more[k] = Junk /\ count2[k] = count2[k - 1]
               \/ /\ count2[k] = count2[k - 1] + 1
                  /\ more[k] = IF count2[k] <= L THEN code[count2[k]] ELSE Pad
    <3>1. CASE k <= n
      <4>1. k \in 1..n
        BY <1>1, <3>1
      <4>2. more[k] = chars[k] /\ count2[k] = count[k] /\ count2[k - 1] = count[k - 1]
        BY <1>1, <1>4, <4>1
      <4> HIDE DEF count2
      <4> QED BY <1>5, <4>1, <4>2
    <3>2. CASE ~(k <= n)
      <4>1. more[k] = Pad
        BY <1>1, <1>4, <3>2
      <4>2. count[n] \in Nat /\ count[n] >= L
        BY <1>1, <1>5 DEF n
      <4>3. count2[k] = count[n] + (k - n)
        BY <1>1, <3>2
      <4>4. count2[k - 1] = count[n] + ((k - 1) - n)
        <5>1. k - 1 \in 0..(n + pad)
          BY <1>1
        <5>2. CASE k - 1 = n
          BY <1>1, <4>2, <5>1, <5>2
        <5>3. CASE k - 1 # n
          BY <1>1, <3>2, <5>1, <5>3
        <5> QED BY <5>2, <5>3
      <4> HIDE DEF count2
      <4> QED BY <1>1, <3>2, <4>1, <4>2, <4>3, <4>4
    <3> QED BY <3>1, <3>2
  <2> HIDE DEF count2
  <2> QED BY <1>4, <2>1, <2>2 DEF Carries
<1>7. count2[Len(more)] = count[n] + pad
  <2>1. CASE pad = 0
    BY <1>1, <1>4, <1>5, <2>1
  <2>2. CASE pad # 0
    BY <1>1, <1>4, <1>5, <2>2
  <2> QED BY <2>1, <2>2
<1>8. count[n] \in Nat /\ count[n] >= L /\ count2[Len(more)] >= L
  BY <1>1, <1>5, <1>7 DEF n
<1> HIDE DEF count2
<1>9. A2bBase64(more) =
        IF L % 4 = 0 \/ (L % 4 >= 2 /\ (L % 4) + (count2[Len(more)] - L) >= 4)
        THEN Ok(SubSeq(s, 1, (3 * L) \div 4)) ELSE Fails("binascii.Error")
  BY <1>4, <1>6, <1>8, Decoded
<1> DEFINE m == L % 4
<1>10. m + (count2[Len(more)] - L) = m + (count[n] - L) + pad
  <2>1. m \in Nat
    OBVIOUS
  <2> HIDE DEF m
  <2> QED BY <1>1, <1>7, <1>8, <2>1
<1> QED BY <1>3, <1>9, <1>10 DEF n, pad

-----------------------------------------------------------------------------
(* A text on its way.                                                      *)

\* txt is what has become of code on its way: a prefix of it, all of it unless
\* characters were cut off, the padding for that prefix if it was padded, and
\* so many characters of junk.
Traced(code, txt, pad, jnk, ct) ==
    \E L \in 0..Len(code) : \E count \in [0..Len(txt) -> Nat] :
        /\ Carries(txt, code, L, count)
        /\ count[Len(txt)] = L + (IF pad THEN (4 - (L % 4)) % 4 ELSE 0)
        /\ Len(txt) = count[Len(txt)] + jnk
        /\ jnk = 0 => \A k \in 0..Len(txt) : count[k] = k
        /\ ct <=> L < Len(code)

\* A text is a text as it is written,
LEMMA TracedFresh ==
    ASSUME NEW code \in Seq(0..63)
    PROVE  Traced(code, code, FALSE, 0, FALSE)
<1> DEFINE n == Len(code)
           count == [k \in 0..n |-> k]
<1>1. n \in Nat /\ n \in 0..n
  OBVIOUS
<1>2. count \in [0..n -> Nat] /\ count[n] = n /\ \A k \in 0..n : count[k] = k
  BY <1>1
<1>3. Carries(code, code, n, count)
  <2>1. \A k \in 1..n : count[k] = count[k - 1] + 1 /\ count[k] <= n /\ code[k] = code[count[k]]
    BY <1>1
  <2>2. count[0] = 0
    BY <1>1
  <2> HIDE DEF count
  <2> QED BY <1>2, <2>1, <2>2 DEF Carries
<1> HIDE DEF count
<1>4. \E c \in [0..n -> Nat] :
         /\ Carries(code, code, n, c)
         /\ c[n] = n + 0
         /\ n = c[n] + 0
         /\ \A k \in 0..n : c[k] = k
  BY <1>1, <1>2, <1>3
<1> QED BY <1>1, <1>4 DEF Traced

\* after it was padded,
LEMMA TracedPadded ==
    ASSUME NEW code \in Seq(0..63), NEW txt \in Seq(0..Junk), NEW jnk \in Nat,
           Traced(code, txt, FALSE, jnk, FALSE),
           NEW new, new = txt \o Padding((4 - ((Len(txt) - jnk) % 4)) % 4)
    PROVE  /\ new \in Seq(0..Junk)
           /\ Traced(code, new, TRUE, jnk, FALSE)
<1> DEFINE n == Len(txt)
<1>1. PICK L \in 0..Len(code), count \in [0..n -> Nat] :
         /\ Carries(txt, code, L, count)
         /\ count[n] = L
         /\ n = L + jnk
         /\ jnk = 0 => \A k \in 0..n : count[k] = k
         /\ ~(L < Len(code))
  <2>1. \A L \in 0..Len(code) : L + 0 = L
    OBVIOUS
  <2> QED BY <2>1 DEF Traced
<1> DEFINE pad == (4 - (L % 4)) % 4
           count2 == [k \in 0..(n + pad) |-> IF k <= n THEN count[k] ELSE L + (k - n)]
<1>2. n \in Nat /\ L \in Nat /\ pad \in Nat /\ Len(code) \in Nat
  OBVIOUS
<1>3. new = txt \o Padding(pad)
  <2>1. n - jnk = L
    BY <1>1, <1>2
  <2> QED BY <2>1
<1>4. Padding(pad) \in Seq(0..Junk) /\ Len(Padding(pad)) = pad
      /\ \A k \in 1..pad : Padding(pad)[k] = Pad
  <2> HIDE DEF pad
  <2> QED BY <1>2 DEF Padding, Pad, Junk
<1> HIDE DEF pad
<1>5. /\ new \in Seq(0..Junk) /\ Len(new) = n + pad
      /\ \A k \in 1..n : new[k] = txt[k]
      /\ \A k \in (n + 1)..(n + pad) : new[k] = Pad
  <2> DEFINE C == 0..Junk
             filler == Padding(pad)
  <2>1. txt \in Seq(C) /\ filler \in Seq(C) /\ Len(filler) = pad
        /\ \A k \in 1..pad : filler[k] = Pad
    BY <1>4
  <2>2. new = txt \o filler
    BY <1>3
  <2> HIDE DEF C, filler, n
  <2>3. /\ txt \o filler \in Seq(C) /\ Len(txt \o filler) = Len(txt) + Len(filler)
        /\ \A k \in 1..(Len(txt) + Len(filler)) :
              (txt \o filler)[k] = IF k <= Len(txt) THEN txt[k] ELSE filler[k - Len(txt)]
    BY <2>1, ConcatProperties
  <2>4. Len(txt) = n
    BY DEF n
  <2>5. /\ new \in Seq(C) /\ Len(new) = n + pad
        /\ \A k \in 1..(n + pad) : new[k] = IF k <= n THEN txt[k] ELSE filler[k - n]
    BY <2>1, <2>2, <2>3, <2>4
  <2>6. ASSUME NEW k \in 1..n PROVE new[k] = txt[k]
    BY <1>2, <2>5, <2>6
  <2>7. ASSUME NEW k \in (n + 1)..(n + pad) PROVE new[k] = Pad
    <3>1. k \in 1..(n + pad) /\ ~(k <= n) /\ k - n \in 1..pad
      BY <1>2, <2>7
    <3> QED BY <2>1, <2>5, <3>1
  <2> QED BY <2>5, <2>6, <2>7 DEF C, n
<1>6. /\ count[0] = 0
      /\ \A k \in 1..n : \/ txt[k] = Junk /\ count[k] = count[k - 1]
                         \/ /\ count[k] = count[k - 1] + 1
                            /\ txt[k] = IF count[k] <= L THEN code[count[k]] ELSE Pad
  BY <1>1 DEF Carries
<1> HIDE DEF n
<1>7. /\ count2 \in [0..(n + pad) -> Nat] /\ count2[0] = 0
      /\ \A k \in 0..n : count2[k] = count[k]
      /\ \A k \in n..(n + pad) : count2[k] = L + (k - n)
  <2>1. count2 \in [0..(n + pad) -> Nat]
    <3> SUFFICES ASSUME NEW k \in 0..(n + pad)
                 PROVE  (IF k <= n THEN count[k] ELSE L + (k - n)) \in Nat
      OBVIOUS
    <3>1. k <= n => k \in 0..n
      BY <1>2
    <3>2. ~(k <= n) => L + (k - n) \in Nat
      BY <1>2
    <3> QED BY <1>1, <3>1, <3>2
  <2>2. \A k \in 0..n : count2[k] = count[k]
    BY <1>2
  <2>3. count2[0] = 0
    BY <1>2, <1>6, <2>2
  <2>4. ASSUME NEW k \in n..(n + pad) PROVE count2[k] = L + (k - n)
    <3>1. k \in 0..(n + pad) /\ n \in 0..n
      BY <1>2, <2>4
    <3>2. CASE k = n
      BY <1>1, <1>2, <2>2, <3>1, <3>2
    <3>3. CASE k # n
      BY <1>2, <2>4, <3>1, <3>3
    <3> QED BY <3>2, <3>3
  <2> QED BY <2>1, <2>2, <2>3, <2>4
<1> HIDE DEF count2
<1>8. Carries(new, code, L, count2)
  <2>1. ASSUME NEW k \in 1..(n + pad)
        PROVE  \/ new[k] = Junk /\ count2[k] = count2[k - 1]
               \/ /\ count2[k] = count2[k - 1] + 1
                  /\ new[k] = IF count2[k] <= L THEN code[count2[k]] ELSE Pad
    <3>1. CASE k <= n
      <4>1. k \in 1..n /\ k \in 0..n /\ k - 1 \in 0..n
        BY <1>2, <3>1
      <4> QED BY <1>5, <1>6, <1>7, <4>1
    <3>2. CASE ~(k <= n)
      <4>1. k \in (n + 1)..(n + pad) /\ k \in n..(n + pad) /\ k - 1 \in n..(n + pad)
        BY <1>2, <3>2
      <4>2. new[k] = Pad /\ count2[k] = L + (k - n) /\ count2[k - 1] = L + ((k - 1) - n)
        BY <1>5, <1>7, <4>1
      <4>3. count2[k] = count2[k - 1] + 1 /\ ~(count2[k] <= L)
        BY <1>2, <3>2, <4>2
      <4> QED BY <4>2, <4>3
    <3> QED BY <3>1, <3>2
  <2> QED BY <1>5, <1>7, <2>1 DEF Carries
<1>9. /\ count2[Len(new)] = L + pad
      /\ Len(new) = count2[Len(new)] + jnk
      /\ jnk = 0 => \A k \in 0..Len(new) : count2[k] = k
  <2>1. count2[n + pad] = L + pad
    <3>1. n + pad \in n..(n + pad) /\ (n + pad) - n = pad
      BY <1>2
    <3> QED BY <1>7, <3>1
  <2>2. ASSUME jnk = 0, NEW k \in 0..(n + pad) PROVE count2[k] = k
    <3>1. n = L
      BY <1>1, <1>2, <2>2
    <3>2. CASE k <= n
      BY <1>1, <1>2, <1>7, <2>2, <3>2
    <3>3. CASE ~(k <= n)
      BY <1>2, <1>7, <3>1, <3>3
    <3> QED BY <3>2, <3>3
  <2> QED BY <1>1, <1>2, <1>5, <2>1, <2>2
<1>10. Traced(code, new, TRUE, jnk, FALSE)
  BY <1>1, <1>5, <1>7, <1>8, <1>9 DEF Traced, pad
<1> QED BY <1>5, <1>10

\* with a character of junk more,
LEMMA TracedJunk ==
    ASSUME NEW code \in Seq(0..63), NEW txt \in Seq(0..Junk), NEW jnk \in Nat,
           NEW pad \in BOOLEAN, NEW ct \in BOOLEAN, Traced(code, txt, pad, jnk, ct),
           NEW i \in 1..(Len(txt) + 1), NEW new, new = InsertAt(txt, i, Junk)
    PROVE  /\ new \in Seq(0..Junk)
           /\ Traced(code, new, pad, jnk + 1, ct)
<1> DEFINE n == Len(txt)
<1>1. PICK L \in 0..Len(code), count \in [0..n -> Nat] :
         /\ Carries(txt, code, L, count)
         /\ count[n] = L + (IF pad THEN (4 - (L % 4)) % 4 ELSE 0)
         /\ n = count[n] + jnk
         /\ ct <=> L < Len(code)
  BY DEF Traced
<1> DEFINE count2 == [k \in 0..(n + 1) |-> IF k < i THEN count[k] ELSE count[k - 1]]
<1>2. n \in Nat
  OBVIOUS
<1>3. /\ new \in Seq(0..Junk) /\ Len(new) = n + 1
      /\ new[i] = Junk
      /\ \A k \in 1..(n + 1) : k < i => new[k] = txt[k]
      /\ \A k \in 1..(n + 1) : k > i => new[k] = txt[k - 1]
  <2> DEFINE C == 0..Junk
             front == SubSeq(txt, 1, i - 1)
             line == <<Junk>>
             back == SubSeq(txt, i, n)
             begin == front \o line
  <2>1. i \in Int /\ 1 <= i /\ i <= n + 1 /\ i - 1 \in Int /\ n \in Int /\ txt \in Seq(C)
    OBVIOUS
  <2>2. line \in Seq(C) /\ Len(line) = 1 /\ line[1] = Junk
    BY DEF Junk
  <2>3. new = begin \o back
    BY DEF InsertAt
  <2> HIDE DEF C, line
  <2>4. \A k \in 1..n : txt[k] \in C
    BY <2>1, LenProperties
  <2> HIDE DEF n
  <2>5. /\ front \in Seq(C) /\ Len(front) = i - 1
        /\ \A k \in 1..(i - 1) : front[k] = txt[k]
    <3>1. \A k \in 1..(i - 1) : txt[k] \in C
      BY <2>1, <2>4
    <3>2. /\ front \in Seq(C)
          /\ Len(front) = IF 1 <= i - 1 THEN (i - 1) - 1 + 1 ELSE 0
          /\ \A k \in 1..((i - 1) - 1 + 1) : front[k] = txt[1 + k - 1]
      BY <2>1, <3>1, SubSeqProperties
    <3> HIDE DEF front
    <3>3. (i - 1) - 1 + 1 = i - 1 /\ \A k \in Int : 1 + k - 1 = k
      BY <2>1
    <3>4. Len(front) = i - 1
      BY <2>1, <3>2
    <3> QED BY <3>2, <3>3, <3>4
  <2>6. /\ back \in Seq(C) /\ Len(back) = n - i + 1
        /\ \A k \in 1..(n - i + 1) : back[k] = txt[i + k - 1]
    <3>1. \A k \in i..n : txt[k] \in C
      BY <2>1, <2>4
    <3>2. /\ back \in Seq(C)
          /\ Len(back) = IF i <= n THEN n - i + 1 ELSE 0
          /\ \A k \in 1..(n - i + 1) : back[k] = txt[i + k - 1]
      BY <2>1, <3>1, SubSeqProperties
    <3> HIDE DEF back
    <3>3. Len(back) = n - i + 1
      <4>1. i \in Int /\ n \in Int /\ i <= n + 1
        BY <2>1
      <4>2. CASE i <= n
        BY <3>2, <4>2
      <4>3. CASE ~(i <= n)
        <5>1. n - i + 1 = 0
          BY <4>1, <4>3
        <5> QED BY <3>2, <4>3, <5>1
      <4> QED BY <4>2, <4>3
    <3> QED BY <3>2, <3>3
  <2> HIDE DEF front, back
  <2>7. /\ begin \in Seq(C) /\ Len(begin) = i
        /\ \A k \in 1..i : begin[k] = IF k <= i - 1 THEN front[k] ELSE line[k - (i - 1)]
    <3>1. /\ begin \in Seq(C) /\ Len(begin) = Len(front) + Len(line)
          /\ \A k \in 1..(Len(front) + Len(line)) :
                begin[k] = IF k <= Len(front) THEN front[k] ELSE line[k - Len(front)]
      BY <2>2, <2>5, ConcatProperties
    <3> HIDE DEF begin
    <3>2. Len(front) + Len(line) = i
      BY <2>1, <2>2, <2>5
    <3> QED BY <2>5, <3>1, <3>2
  <2> HIDE DEF begin
  <2>8. /\ new \in Seq(C) /\ Len(new) = n + 1
        /\ \A k \in 1..(n + 1) : new[k] = IF k <= i THEN begin[k] ELSE back[k - i]
    <3>1. /\ begin \o back \in Seq(C) /\ Len(begin \o back) = Len(begin) + Len(back)
          /\ \A k \in 1..(Len(begin) + Len(back)) :
                (begin \o back)[k] = IF k <= Len(begin) THEN begin[k] ELSE back[k - Len(begin)]
      BY <2>6, <2>7, ConcatProperties
    <3>2. Len(begin) + Len(back) = n + 1
      BY <2>1, <2>6, <2>7
    <3> QED BY <2>3, <2>7, <3>1, <3>2
  <2>9. ASSUME NEW k \in 1..(n + 1), k > i PROVE new[k] = txt[k - 1]
    <3>1. ~(k <= i) /\ k - i \in 1..(n - i + 1) /\ i + (k - i) - 1 = k - 1
      BY <2>1, <2>9
    <3>2. new[k] = back[k - i]
      BY <2>8, <2>9, <3>1
    <3> QED BY <2>6, <3>1, <3>2
  <2>10. ASSUME NEW k \in 1..(n + 1), k < i PROVE new[k] = txt[k]
    <3>1. k \in 1..i /\ k <= i /\ k <= i - 1 /\ k \in 1..(i - 1)
      BY <2>1, <2>10
    <3> QED BY <2>5, <2>7, <2>8, <2>10, <3>1
  <2>11. new[i] = Junk
    <3>1. i \in 1..i /\ i \in 1..(n + 1) /\ i <= i /\ ~(i <= i - 1) /\ i - (i - 1) = 1
      BY <2>1
    <3>2. begin[i] = line[i - (i - 1)]
      BY <2>7, <3>1
    <3> QED BY <2>2, <2>8, <3>1, <3>2
  <2> QED BY <2>8, <2>9, <2>10, <2>11 DEF C
<1>4. /\ count[0] = 0
      /\ \A k \in 1..n : \/ txt[k] = Junk /\ count[k] = count[k - 1]
                         \/ /\ count[k] = count[k - 1] + 1
                            /\ txt[k] = IF count[k] <= L THEN code[count[k]] ELSE Pad
  BY <1>1 DEF Carries
<1>5. i \in 1..(n + 1)
  OBVIOUS
<1> HIDE DEF n
<1>6. /\ count2 \in [0..(n + 1) -> Nat] /\ count2[0] = 0
      /\ \A k \in 0..(n + 1) : k < i => count2[k] = count[k]
      /\ \A k \in 0..(n + 1) : k >= i => count2[k] = count[k - 1]
  BY <1>2, <1>4, <1>5
<1> HIDE DEF count2
<1>7. Carries(new, code, L, count2)
  <2>1. ASSUME NEW k \in 1..(n + 1)
        PROVE  \/ new[k] = Junk /\ count2[k] = count2[k - 1]
               \/ /\ count2[k] = count2[k - 1] + 1
                  /\ new[k] = IF count2[k] <= L THEN code[count2[k]] ELSE Pad
    <3>1. CASE k < i
      <4>1. k \in 1..n /\ k \in 0..(n + 1) /\ k - 1 \in 0..(n + 1) /\ k - 1 < i
        BY <1>2, <1>5, <3>1
      <4> QED BY <1>3, <1>4, <1>6, <3>1, <4>1
    <3>2. CASE k = i
      <4>1. k \in 0..(n + 1) /\ k - 1 \in 0..(n + 1) /\ k - 1 < i /\ k >= i
        BY <1>2, <1>5, <3>2
      <4> QED BY <1>3, <1>6, <3>2, <4>1
    <3>3. CASE k > i
      <4>1. k - 1 \in 1..n /\ k \in 0..(n + 1) /\ k - 1 \in 0..(n + 1) /\ k - 1 >= i /\ k >= i
        BY <1>2, <1>5, <3>3
      <4> QED BY <1>3, <1>4, <1>6, <3>3, <4>1
    <3> QED BY <1>5, <3>1, <3>2, <3>3
  <2> QED BY <1>3, <1>6, <2>1 DEF Carries
<1>8. count2[Len(new)] = count[n]
  <2>1. n + 1 \in 0..(n + 1) /\ n + 1 >= i /\ (n + 1) - 1 = n
    BY <1>2, <1>5
  <2> QED BY <1>3, <1>6, <2>1
<1>9. Len(new) = count2[Len(new)] + (jnk + 1) /\ jnk + 1 # 0
  <2>1. count[n] \in Nat
    BY <1>1, <1>2
  <2> QED BY <1>1, <1>2, <1>3, <1>8, <2>1
<1>10. Traced(code, new, pad, jnk + 1, ct)
  BY <1>1, <1>3, <1>6, <1>7, <1>8, <1>9 DEF Traced
<1> QED BY <1>3, <1>10

\* or without its last one.
LEMMA TracedCut ==
    ASSUME NEW code \in Seq(0..63), NEW txt \in Seq(0..Junk), NEW ct \in BOOLEAN,
           Traced(code, txt, FALSE, 0, ct), txt # <<>>, NEW new, new = Front(txt)
    PROVE  /\ new \in Seq(0..Junk)
           /\ Traced(code, new, FALSE, 0, TRUE)
<1> DEFINE n == Len(txt)
<1>1. PICK L \in 0..Len(code), count \in [0..n -> Nat] :
         /\ Carries(txt, code, L, count)
         /\ count[n] = L + 0
         /\ n = count[n] + 0
         /\ \A k \in 0..n : count[k] = k
  BY DEF Traced
<1>2. n \in Nat /\ n - 1 \in Nat /\ n = L /\ Len(code) \in Nat
  BY <1>1
<1> DEFINE count2 == [k \in 0..(n - 1) |-> k]
<1>3. /\ new \in Seq(0..Junk) /\ Len(new) = n - 1
      /\ \A k \in 1..(n - 1) : new[k] = txt[k]
  <2> DEFINE C == 0..Junk
             begin == SubSeq(txt, 1, n - 1)
  <2>1. txt \in Seq(C)
    OBVIOUS
  <2>2. new = begin
    BY DEF Front
  <2> HIDE DEF C
  <2>3. \A k \in 1..n : txt[k] \in C
    BY <2>1, LenProperties
  <2> HIDE DEF n
  <2>4. (\A k \in 1..(n - 1) : txt[k] \in C) /\ 1 \in Int /\ n - 1 \in Int
    BY <1>2, <2>3
  <2>5. /\ begin \in Seq(C)
        /\ Len(begin) = IF 1 <= n - 1 THEN (n - 1) - 1 + 1 ELSE 0
        /\ \A k \in 1..((n - 1) - 1 + 1) : begin[k] = txt[1 + k - 1]
    BY <2>4, SubSeqProperties
  <2> HIDE DEF begin
  <2>6. (n - 1) - 1 + 1 = n - 1 /\ \A k \in Int : 1 + k - 1 = k
    BY <1>2
  <2>7. Len(begin) = n - 1
    BY <1>2, <2>5
  <2> QED BY <2>2, <2>5, <2>6, <2>7 DEF C
<1>4. \A k \in 1..(n - 1) : txt[k] = code[k]
  <2> TAKE k \in 1..(n - 1)
  <2>1. k \in 1..n /\ k \in 0..n /\ k - 1 \in 0..n /\ k <= L
    BY <1>2
  <2>2. \/ txt[k] = Junk /\ count[k] = count[k - 1]
        \/ txt[k] = IF count[k] <= L THEN code[count[k]] ELSE Pad
    BY <1>1, <2>1 DEF Carries
  <2>3. count[k] = k /\ count[k - 1] = k - 1
    BY <1>1, <2>1
  <2> QED BY <2>1, <2>2, <2>3
<1> HIDE DEF n
<1>5. /\ count2 \in [0..(n - 1) -> Nat] /\ count2[0] = 0
      /\ \A k \in 0..(n - 1) : count2[k] = k
  BY <1>2
<1> HIDE DEF count2
<1>6. Carries(new, code, n - 1, count2)
  <2>1. ASSUME NEW k \in 1..(n - 1)
        PROVE  /\ count2[k] = count2[k - 1] + 1
               /\ new[k] = IF count2[k] <= n - 1 THEN code[count2[k]] ELSE Pad
    <3>1. k \in 0..(n - 1) /\ k - 1 \in 0..(n - 1) /\ k <= n - 1
      BY <1>2
    <3> QED BY <1>3, <1>4, <1>5, <3>1
  <2> QED BY <1>3, <1>5, <2>1 DEF Carries
<1>7. n - 1 \in 0..Len(code) /\ n - 1 < Len(code) /\ n - 1 \in 0..(n - 1)
  BY <1>2
<1>8. Traced(code, new, FALSE, 0, TRUE)
  <2>1. count2[n - 1] = n - 1 /\ (n - 1) + 0 = n - 1
    BY <1>5, <1>7
  <2> QED BY <1>3, <1>5, <1>6, <1>7, <2>1 DEF Traced
<1> QED BY <1>3, <1>8

\* All the bytes are read of a text nothing of which was cut off, unless junk
\* keeps it from being read; of a text that was cut off, only fewer bytes.
LEMMA TracedRead ==
    ASSUME NEW s \in Seq(Byte), NEW txt \in Seq(0..Junk), NEW jnk \in Nat,
           NEW pad \in BOOLEAN, NEW ct \in BOOLEAN,
           Traced(Base64UrlEncode(s), txt, pad, jnk, ct)
    PROVE  \/ ~ct /\ Base64UrlDecode(txt) = Ok(s)
           \/ ct /\ \E m \in Nat : m < Len(s) /\ Base64UrlDecode(txt) = Ok(SubSeq(s, 1, m))
           \/ (ct \/ jnk > 0) /\ Base64UrlDecode(txt) = Fails("binascii.Error")
<1> DEFINE code == Base64UrlEncode(s)
           n == Len(txt)
<1>1. PICK L \in 0..Len(code), count \in [0..n -> Nat] :
         /\ Carries(txt, code, L, count)
         /\ count[n] = L + (IF pad THEN (4 - (L % 4)) % 4 ELSE 0)
         /\ n = count[n] + jnk
         /\ ct <=> L < Len(code)
  BY DEF Traced
<1>2. n \in Nat /\ L \in Nat /\ L <= Len(code) /\ Len(s) \in Nat
      /\ Len(code) = (4 * Len(s) + 2) \div 3
  BY EncodeType
<1> DEFINE m == (3 * L) \div 4
           r == L % 4
           lack == Missing(n)
           p == count[n] - L
<1>3. r \in {0, 1, 2, 3} /\ m \in Nat /\ lack \in Nat /\ p \in Nat
      /\ p = IF pad THEN (4 - r) % 4 ELSE 0
  <2>1. p = IF pad THEN (4 - r) % 4 ELSE 0
    BY <1>1, <1>2
  <2>2. r \in {0, 1, 2, 3} /\ m \in Nat /\ lack \in Nat
    BY <1>2 DEF Missing
  <2> HIDE DEF p, r, lack, m
  <2> QED BY <2>1, <2>2
<1>4. Base64UrlDecode(txt) = IF r = 0 \/ (r >= 2 /\ r + p + lack >= 4)
                             THEN Ok(SubSeq(s, 1, m)) ELSE Fails("binascii.Error")
  <2>1. count[n] >= L
    BY <1>2, <1>3
  <2> HIDE DEF code
  <2> QED BY <1>1, <1>2, <2>1, DecodedPadded DEF code
<1>5. CASE ct
  <2>1. m < Len(s)
    BY <1>1, <1>2, <1>5
  <2> HIDE DEF m, r, p, lack
  <2> QED BY <1>3, <1>4, <1>5, <2>1
<1>6. CASE ~ct
  <2>1. L = Len(code)
    BY <1>1, <1>2, <1>6
  <2>2. m = Len(s) /\ r # 1
    BY <1>2, <2>1
  <2>3. SubSeq(s, 1, m) = s
    BY <2>2
  <2>4. ASSUME jnk = 0 PROVE r = 0 \/ (r >= 2 /\ r + p + lack >= 4)
    <3>1. n = L + p
      BY <1>1, <1>2, <2>4
    <3>2. CASE pad
      <4> HIDE DEF m, r, p, lack
      <4> QED BY <1>3, <2>2, <3>2
    <3>3. CASE ~pad
      <4>1. p = 0 /\ n = L
        BY <1>2, <1>3, <3>1, <3>3
      <4>2. lack = IF r > 0 THEN 4 - r ELSE 0
        BY <4>1 DEF Missing
      <4> HIDE DEF m, r, p, lack
      <4> QED BY <1>3, <2>2, <4>1, <4>2
    <3> QED BY <3>2, <3>3
  <2> HIDE DEF m, r, p, lack
  <2>5. CASE r = 0 \/ (r >= 2 /\ r + p + lack >= 4)
    BY <1>4, <1>6, <2>3, <2>5
  <2>6. CASE ~(r = 0 \/ (r >= 2 /\ r + p + lack >= 4))
    <3>1. jnk # 0
      BY <2>4, <2>6
    <3>2. jnk > 0
      BY <3>1
    <3>3. Base64UrlDecode(txt) = Fails("binascii.Error")
      BY <1>4, <2>6
    <3> QED BY <3>2, <3>3
  <2> QED BY <2>5, <2>6
<1> QED BY <1>5, <1>6

-----------------------------------------------------------------------------
(* What is written.                                                        *)

\* The bytes of a number as a program writes it.
UintBytes(val, bits) ==
    LET bytes == BytesFromInt(val, bits).value
    IN  IF bytes = <<>> THEN <<0>> ELSE bytes

\* What to_base64url_uint refuses, and what it writes.
LEMMA UintWriting ==
    ASSUME NEW val \in Int, NEW bits \in Nat \cup {None}
    PROVE  \/ val < 0 /\ ToBase64UrlUint(val, bits) = Fails("ValueError")
           \/ /\ bits # None /\ val >= 0 /\ ~(val < TwoTo[8 * NumBytes(bits)])
              /\ ToBase64UrlUint(val, bits) = Fails("OverflowError")
           \/ /\ val >= 0 /\ (bits # None => val < TwoTo[8 * NumBytes(bits)])
              /\ ToBase64UrlUint(val, bits) = Ok(Base64UrlEncode(UintBytes(val, bits)))
              /\ UintBytes(val, bits) \in Seq(Byte)
              /\ IntFromBytes(UintBytes(val, bits)) = val
              /\ IF bits \notin {None, 0} THEN Len(UintBytes(val, bits)) = NumBytes(bits)
                 ELSE /\ UintBytes(val, bits) # <<>>
                      /\ UintBytes(val, bits)[1] = 0 => UintBytes(val, bits) = <<0>>
<1>1. CASE val < 0
  BY <1>1 DEF ToBase64UrlUint
<1>2. CASE ~(val < 0)
  <2>1. val \in Nat
    BY <1>2
  <2>2. CASE bits # None /\ val >= TwoTo[8 * NumBytes(bits)]
            /\ BytesFromInt(val, bits) = Fails("OverflowError")
    <3>1. TwoTo[8 * NumBytes(bits)] \in Nat
      <4>1. 8 * NumBytes(bits) \in Nat
        BY <2>2 DEF NumBytes, None
      <4> QED BY <4>1, TwoToFacts
    <3>2. ToBase64UrlUint(val, bits) = Fails("OverflowError")
      BY <1>2, <2>2 DEF ToBase64UrlUint, Fails
    <3> QED BY <2>1, <2>2, <3>1, <3>2
  <2>3. ASSUME NEW n \in Nat, val < TwoTo[8 * n],
               BytesFromInt(val, bits) = Ok(BytesOf(val, n)),
               IF bits = None THEN n = NumBytes(BitLength(val)) ELSE n = NumBytes(bits)
        PROVE  /\ val >= 0 /\ (bits # None => val < TwoTo[8 * NumBytes(bits)])
               /\ ToBase64UrlUint(val, bits) = Ok(Base64UrlEncode(UintBytes(val, bits)))
               /\ UintBytes(val, bits) \in Seq(Byte)
               /\ IntFromBytes(UintBytes(val, bits)) = val
               /\ IF bits \notin {None, 0} THEN Len(UintBytes(val, bits)) = NumBytes(bits)
                  ELSE /\ UintBytes(val, bits) # <<>>
                       /\ UintBytes(val, bits)[1] = 0 => UintBytes(val, bits) = <<0>>
    <3> DEFINE s == BytesOf(val, n)
               u == UintBytes(val, bits)
    <3>1. /\ s \in Seq(Byte) /\ Len(s) = n /\ IntFromBytes(s) = val
          /\ \A i \in 1..n : s[i] = (val \div TwoTo[8 * (n - i)]) % 256
      <4>1. s \in Seq(Byte) /\ Len(s) = n
        BY <2>1, BytesOfType
      <4>2. IntFromBytes(s) = val
        BY <2>1, <2>3, BytesAreRead
      <4>3. \A i \in 1..n : s[i] = (val \div TwoTo[8 * (n - i)]) % 256
        BY DEF BytesOf
      <4> QED BY <4>1, <4>2, <4>3
    <3>2. u = IF s = <<>> THEN <<0>> ELSE s
      BY <2>3 DEF UintBytes, Ok
    <3>3. ToBase64UrlUint(val, bits) = Ok(Base64UrlEncode(u))
      BY <1>2, <2>3, <3>2 DEF ToBase64UrlUint, Ok
    <3>4. val >= 0 /\ (bits # None => val < TwoTo[8 * NumBytes(bits)])
      BY <2>1, <2>3
    <3>5. CASE n = 0
      <4>1. val = 0
        <5>1. val < TwoTo[0]
          BY <2>3, <3>5
        <5> QED BY <2>1, <5>1, TwoToFacts
      <4>2. u = <<0>>
        BY <3>1, <3>2, <3>5
      <4>3. u \in Seq(Byte) /\ IntFromBytes(u) = 0
        <5>1. /\ BytesOf(0, 1) \in Seq(Byte) /\ Len(BytesOf(0, 1)) = 1
              /\ BytesOf(0, 1)[1] = (0 \div TwoTo[8 * (1 - 1)]) % 256
          <6>1. 0 \in Nat /\ 1 \in Nat
            OBVIOUS
          <6>2. BytesOf(0, 1) \in Seq(Byte)
            BY <6>1, BytesOfType
          <6>3. Len(BytesOf(0, 1)) = 1
            BY <6>1, BytesOfType
          <6>4. BytesOf(0, 1)[1] = (0 \div TwoTo[8 * (1 - 1)]) % 256
            BY DEF BytesOf
          <6> QED BY <6>2, <6>3, <6>4
        <5>2. TwoTo[8 * (1 - 1)] = 1 /\ TwoTo[8 * 1] \in Nat \ {0}
          BY TwoToFacts
        <5>3. BytesOf(0, 1)[1] = 0
          BY <5>1, <5>2
        <5>4. BytesOf(0, 1) = <<0>>
          BY <5>1, <5>3
        <5>5. IntFromBytes(BytesOf(0, 1)) = 0
          BY <5>2, BytesAreRead
        <5> QED BY <4>2, <5>1, <5>4, <5>5
      <4>4. bits \in {None, 0}
        BY <2>3, <3>5 DEF NumBytes
      <4> HIDE DEF u
      <4> QED BY <3>3, <3>4, <4>1, <4>2, <4>3, <4>4 DEF u
    <3>6. CASE n # 0
      <4>1. u = s /\ s # <<>>
        BY <3>1, <3>2, <3>6
      <4>2. ASSUME bits \notin {None, 0} PROVE Len(u) = NumBytes(bits)
        BY <2>3, <3>1, <4>1, <4>2
      <4>3. ASSUME bits \in {None, 0} PROVE s[1] # 0
        <5>1. bits = None
          BY <2>3, <3>6, <4>3 DEF NumBytes, None
        <5> DEFINE b == BitLength(val)
                   d == TwoTo[8 * (n - 1)]
        <5>2. b \in Nat /\ (b > 0 => val >= TwoTo[b - 1]) /\ n = (b + 7) \div 8
          BY <2>1, <2>3, <5>1, BitLengthFacts DEF NumBytes
        <5> HIDE DEF b
        <5>3. b > 0 /\ b - 1 \in Nat /\ 8 * (n - 1) \in Nat /\ 8 * (n - 1) <= b - 1 /\ n - 1 \in Nat
          BY <2>3, <3>6, <5>2
        <5>4. d <= TwoTo[b - 1]
          BY <5>3, TwoToMonotone
        <5>5. d \in Nat \ {0} /\ TwoTo[b - 1] \in Nat
          BY <5>3, TwoToFacts
        <5>6. TwoTo[8 * n] = 256 * d
          <6>1. (n - 1) + 1 = n
            BY <2>3
          <6> QED BY <5>3, <6>1, TwoToByte
        <5>7. s[1] = (val \div d) % 256
          BY <2>3, <3>1, <3>6
        <5> HIDE DEF d, s
        <5>8. d <= val /\ val < 256 * d
          BY <2>1, <2>3, <5>2, <5>3, <5>4, <5>5, <5>6
        <5>9. val \div d >= 1 /\ val \div d < 256 /\ val \div d \in Nat
          BY <2>1, <5>5, <5>8
        <5> QED BY <5>7, <5>9
      <4> HIDE DEF u, s
      <4> QED BY <3>1, <3>3, <3>4, <4>1, <4>2, <4>3 DEF u
    <3> QED BY <3>5, <3>6
  <2>4. CASE bits # None /\ val < TwoTo[8 * NumBytes(bits)]
             /\ BytesFromInt(val, bits) = Ok(BytesOf(val, NumBytes(bits)))
    <3>1. NumBytes(bits) \in Nat
      BY <2>4 DEF NumBytes, None
    <3> QED BY <2>3, <2>4, <3>1
  <2>5. CASE bits = None /\ val < TwoTo[8 * NumBytes(BitLength(val))]
             /\ BytesFromInt(val, bits) = Ok(BytesOf(val, NumBytes(BitLength(val))))
    <3>1. BitLength(val) \in Nat
      BY <2>1, BitLengthFacts
    <3>2. NumBytes(BitLength(val)) \in Nat
      BY <3>1 DEF NumBytes
    <3> QED BY <2>3, <2>5, <3>2
  <2> QED BY <2>1, <2>2, <2>4, <2>5, BytesFromIntFacts
<1> QED BY <1>1, <1>2

\* The raw signature of two numbers, each of n bytes.
RawOf(r, s, n) == BytesOf(r, n) \o BytesOf(s, n)

LEMMA RawOfFacts ==
    ASSUME NEW n \in Nat, NEW r \in Nat, NEW s \in Nat
    PROVE  /\ RawOf(r, s, n) \in Seq(Byte)
           /\ Len(RawOf(r, s, n)) = 2 * n
           /\ \A i \in 1..n : RawOf(r, s, n)[i] = BytesOf(r, n)[i]
           /\ \A i \in 1..n : RawOf(r, s, n)[n + i] = BytesOf(s, n)[i]
<1> DEFINE R == BytesOf(r, n)
           S == BytesOf(s, n)
<1>1. R \in Seq(Byte) /\ Len(R) = n /\ S \in Seq(Byte) /\ Len(S) = n
  BY BytesOfType
<1>2. RawOf(r, s, n) = R \o S
  BY DEF RawOf
<1> HIDE DEF R, S
<1>3. /\ R \o S \in Seq(Byte) /\ Len(R \o S) = Len(R) + Len(S)
      /\ \A i \in 1..(Len(R) + Len(S)) :
            (R \o S)[i] = IF i <= Len(R) THEN R[i] ELSE S[i - Len(R)]
  BY <1>1, ConcatProperties
<1>4. Len(R \o S) = 2 * n
  BY <1>1, <1>3
<1>5. ASSUME NEW i \in 1..n PROVE (R \o S)[i] = R[i]
  BY <1>1, <1>3, <1>5
<1>6. ASSUME NEW i \in 1..n PROVE (R \o S)[n + i] = S[i]
  <2>1. n + i \in 1..(n + n) /\ ~(n + i <= n) /\ (n + i) - n = i
    BY <1>6
  <2> QED BY <1>1, <1>3, <2>1
<1> QED BY <1>2, <1>3, <1>4, <1>5, <1>6 DEF R, S

\* A signature is written as two numbers of the width of the curve,
LEMMA SignatureWriting ==
    ASSUME NEW bits \in Nat \ {0}, NEW r \in Nat, NEW s \in Nat,
           r < TwoTo[bits], s < TwoTo[bits]
    PROVE  /\ NumBytes(bits) \in Nat \ {0}
           /\ r < TwoTo[8 * NumBytes(bits)] /\ s < TwoTo[8 * NumBytes(bits)]
           /\ DerToRawSignature(r, s, bits) = Ok(RawOf(r, s, NumBytes(bits)))
           /\ RawOf(r, s, NumBytes(bits)) \in Seq(Byte)
           /\ Len(RawOf(r, s, NumBytes(bits))) = 2 * NumBytes(bits)
<1> DEFINE n == NumBytes(bits)
<1>1. n \in Nat \ {0}
  BY DEF NumBytes
<1>2. r < TwoTo[8 * n] /\ s < TwoTo[8 * n]
  BY CurveBytesHold
<1>3. NumberToBytes(r, n) = Ok(BytesOf(r, n)) /\ NumberToBytes(s, n) = Ok(BytesOf(s, n))
  <2> HIDE DEF n
  <2> QED BY <1>1, <1>2, NumberToBytesFacts
<1>4. DerToRawSignature(r, s, bits) = Ok(RawOf(r, s, n))
  BY <1>3 DEF DerToRawSignature, RawOf, Ok
<1>5. RawOf(r, s, n) \in Seq(Byte) /\ Len(RawOf(r, s, n)) = 2 * n
  <2> HIDE DEF n
  <2> QED BY <1>1, RawOfFacts
<1> QED BY <1>1, <1>2, <1>4, <1>5

\* and read again for a curve of that width only.
LEMMA SignatureReading ==
    ASSUME NEW n \in Nat, NEW r \in Nat, NEW s \in Nat, r < TwoTo[8 * n], s < TwoTo[8 * n],
           NEW bits \in Nat
    PROVE  RawToDerSignature(RawOf(r, s, n), bits) =
              IF NumBytes(bits) = n THEN Ok(<<r, s>>) ELSE Fails("ValueError")
<1> DEFINE raw == RawOf(r, s, n)
           R == BytesOf(r, n)
           S == BytesOf(s, n)
           R2 == SubSeq(raw, 1, n)
           S2 == SubSeq(raw, n + 1, 2 * n)
<1>1. R \in Seq(Byte) /\ Len(R) = n /\ S \in Seq(Byte) /\ Len(S) = n
  BY BytesOfType
<1>2. IntFromBytes(R) = r /\ IntFromBytes(S) = s
  BY BytesAreRead
<1>3. /\ raw \in Seq(Byte) /\ Len(raw) = 2 * n
      /\ \A i \in 1..n : raw[i] = R[i]
      /\ \A i \in 1..n : raw[n + i] = S[i]
  BY RawOfFacts
<1> HIDE DEF raw, R, S
<1>4. \A i \in 1..(2 * n) : raw[i] \in Byte
  BY <1>3, LenProperties
<1>5. R2 = R
  <2>1. \A i \in 1..n : raw[i] \in Byte
    BY <1>4
  <2>2. /\ R2 \in Seq(Byte)
        /\ Len(R2) = IF 1 <= n THEN n - 1 + 1 ELSE 0
        /\ \A i \in 1..(n - 1 + 1) : R2[i] = raw[1 + i - 1]
    BY <2>1, SubSeqProperties
  <2> HIDE DEF R2
  <2>3. Len(R2) = n
    BY <2>2
  <2>4. ASSUME NEW i \in 1..n PROVE R2[i] = R[i]
    <3>1. i \in 1..(n - 1 + 1) /\ 1 + i - 1 = i
      BY <2>4
    <3> QED BY <1>3, <2>2, <3>1
  <2> QED BY <1>1, <2>2, <2>3, <2>4, SeqEqual
<1>6. S2 = S
  <2>1. \A i \in (n + 1)..(2 * n) : raw[i] \in Byte
    BY <1>4
  <2>2. /\ S2 \in Seq(Byte)
        /\ Len(S2) = IF n + 1 <= 2 * n THEN 2 * n - (n + 1) + 1 ELSE 0
        /\ \A i \in 1..(2 * n - (n + 1) + 1) : S2[i] = raw[n + 1 + i - 1]
    <3>1. n + 1 \in Int /\ 2 * n \in Int
      OBVIOUS
    <3> QED BY <2>1, <3>1, SubSeqProperties
  <2> HIDE DEF S2
  <2>3. Len(S2) = n
    <3>1. CASE n + 1 <= 2 * n
      BY <2>2, <3>1
    <3>2. CASE ~(n + 1 <= 2 * n)
      BY <2>2, <3>2
    <3> QED BY <3>1, <3>2
  <2>4. ASSUME NEW i \in 1..n PROVE S2[i] = S[i]
    <3>1. i \in 1..(2 * n - (n + 1) + 1) /\ n + 1 + i - 1 = n + i
      BY <2>4
    <3> QED BY <1>3, <2>2, <3>1
  <2> QED BY <1>1, <2>2, <2>3, <2>4, SeqEqual
<1>7. CASE NumBytes(bits) = n
  <2>1. RawToDerSignature(raw, bits) = Ok(<<IntFromBytes(R2), IntFromBytes(S2)>>)
    BY <1>3, <1>7 DEF RawToDerSignature
  <2> QED BY <1>2, <1>5, <1>6, <1>7, <2>1 DEF raw
<1>8. CASE NumBytes(bits) # n
  <2>1. NumBytes(bits) \in Nat
    BY DEF NumBytes
  <2>2. Len(raw) # 2 * NumBytes(bits)
    BY <1>3, <1>8, <2>1
  <2>3. RawToDerSignature(raw, bits) = Fails("ValueError")
    BY <2>2 DEF RawToDerSignature
  <2> QED BY <1>8, <2>3 DEF raw
<1> QED BY <1>7, <1>8

\* Bytes of another number are refused.
LEMMA ShortRefused ==
    ASSUME NEW raw, NEW bits, Len(raw) # 2 * NumBytes(bits)
    PROVE  RawToDerSignature(raw, bits).error # "ok"
BY DEF RawToDerSignature, Fails

-----------------------------------------------------------------------------
(* The inductive invariant.                                                *)

\* The bytes whose code the text is, or was.
WrittenBytes ==
    IF written.kind = "uint" THEN UintBytes(written.number, written.bits)
    ELSE RawOf(written.numbers[1], written.numbers[2], NumBytes(written.bits))

\* What was written is what Next lets a program write, and error is what the
\* writing of it raised.
WrittenOK ==
    \/ written = Nothing /\ error = "ok"
    \/ \E val \in Numbers, bits \in Widths :
          /\ written = [kind |-> "uint", number |-> val, bits |-> bits]
          /\ error = ToBase64UrlUint(val, bits).error
    \/ \E bits \in CurveBits : \E r, s \in {n \in Numbers : 0 < n /\ n < TwoTo[bits]} :
          /\ written = [kind |-> "signature", numbers |-> <<r, s>>, bits |-> bits]
          /\ error = "ok"

\* There is a text only if something was written, and it comes from its code.
TextOK ==
    IF written # Nothing /\ error = "ok"
    THEN Traced(Base64UrlEncode(WrittenBytes), text, padded, junk, cut)
    ELSE text = <<>>

FlagsOK ==
    /\ text \in Seq(0..Junk)
    /\ padded \in BOOLEAN
    /\ junk \in 0..MaxJunk
    /\ cut \in BOOLEAN

IInv == WrittenOK /\ TextOK /\ FlagsOK

\* Whatever was written without an error was bytes.
LEMMA WrittenBytesType ==
    ASSUME WrittenOK, written # Nothing, error = "ok"
    PROVE  WrittenBytes \in Seq(Byte)
<1>1. CASE \E val \in Numbers, bits \in Widths :
              /\ written = [kind |-> "uint", number |-> val, bits |-> bits]
              /\ error = ToBase64UrlUint(val, bits).error
  <2>1. PICK val \in Numbers, bits \in Widths :
               /\ written = [kind |-> "uint", number |-> val, bits |-> bits]
               /\ error = ToBase64UrlUint(val, bits).error
    BY <1>1
  <2>2. val \in Int /\ bits \in Nat \cup {None}
    BY UintAssumption
  <2>3. UintBytes(val, bits) \in Seq(Byte)
    BY <2>1, <2>2, UintWriting DEF Fails
  <2> QED BY <2>1, <2>3 DEF WrittenBytes
<1>2. CASE \E bits \in CurveBits : \E r, s \in {n \in Numbers : 0 < n /\ n < TwoTo[bits]} :
              /\ written = [kind |-> "signature", numbers |-> <<r, s>>, bits |-> bits]
              /\ error = "ok"
  <2>1. PICK bits \in CurveBits, r \in Numbers, s \in Numbers :
               /\ 0 < r /\ r < TwoTo[bits] /\ 0 < s /\ s < TwoTo[bits]
               /\ written = [kind |-> "signature", numbers |-> <<r, s>>, bits |-> bits]
    BY <1>2
  <2>2. bits \in Nat \ {0} /\ r \in Nat /\ s \in Nat
    BY <2>1, UintAssumption
  <2>3. RawOf(r, s, NumBytes(bits)) \in Seq(Byte)
    BY <2>1, <2>2, SignatureWriting
  <2> QED BY <2>1, <2>3 DEF WrittenBytes
<1> QED BY <1>1, <1>2 DEF WrittenOK

\* Nothing is written at first.
LEMMA InitIInv == Init => IInv
<1> SUFFICES ASSUME Init PROVE IInv
  OBVIOUS
<1>1. WrittenOK
  BY DEF Init, WrittenOK
<1>2. TextOK
  BY DEF Init, TextOK
<1>3. FlagsOK
  <2>1. text \in Seq(0..Junk)
    BY EmptySeq DEF Init
  <2>2. junk \in 0..MaxJunk
    BY UintAssumption DEF Init
  <2> QED BY <2>1, <2>2 DEF Init, FlagsOK
<1> QED BY <1>1, <1>2, <1>3 DEF IInv

\* The characters of a code are characters of a text.
LEMMA CharsAreTexts ==
    ASSUME NEW code \in Seq(0..63)
    PROVE  code \in Seq(0..Junk)
<1> DEFINE n == Len(code)
<1>1. n \in Nat /\ code = [k \in 1..n |-> code[k]]
  BY LenProperties
<1>2. \A k \in 1..n : code[k] \in 0..Junk
  <2>1. \A k \in 1..Len(code) : code[k] \in 0..63
    BY LenProperties
  <2>2. \A c \in 0..63 : c \in 0..Junk
    BY DEF Junk
  <2> QED BY <2>1, <2>2
<1>3. [k \in 1..n |-> code[k]] \in Seq(0..Junk)
  <2> DEFINE C == 0..Junk
  <2>1. \A k \in 1..n : code[k] \in C
    BY <1>2
  <2> HIDE DEF n, C
  <2>2. [k \in 1..n |-> code[k]] \in Seq(C)
    BY <1>1, <2>1
  <2> QED BY <2>2 DEF C
<1> QED BY <1>1, <1>3

\* A writer establishes the invariant: of what was written there is the text
\* itself.
LEMMA WriteUintIInv ==
    ASSUME IInv, NEW val \in Numbers, NEW bits \in Widths, WriteUint(val, bits)
    PROVE  IInv'
<1> DEFINE result == ToBase64UrlUint(val, bits)
<1>1. val \in Int /\ bits \in Nat \cup {None} /\ MaxJunk \in Nat
  BY UintAssumption
<1>2. /\ written' = [kind |-> "uint", number |-> val, bits |-> bits]
      /\ error' = result.error
      /\ text' = result.value
      /\ padded' = FALSE /\ junk' = 0 /\ cut' = FALSE
  BY DEF WriteUint, Write
<1>3. written'.kind = "uint" /\ written' # Nothing
  BY <1>2 DEF Nothing
<1>4. WrittenOK'
  BY <1>2 DEF WrittenOK
<1>5. WrittenBytes' = UintBytes(val, bits)
  BY <1>2, <1>3 DEF WrittenBytes
<1> HIDE DEF result
<1>6. ASSUME text' \in Seq(0..Junk) PROVE FlagsOK'
  <2>1. 0 \in 0..MaxJunk
    BY <1>1
  <2> QED BY <1>2, <1>6, <2>1 DEF FlagsOK
<1>7. CASE result.error # "ok" /\ result.value = <<>>
  <2>1. text' = <<>> /\ error' # "ok"
    BY <1>2, <1>7
  <2>2. TextOK'
    BY <2>1 DEF TextOK
  <2>3. text' \in Seq(0..Junk)
    BY <2>1, EmptySeq
  <2> QED BY <1>4, <1>6, <2>2, <2>3 DEF IInv
<1>8. CASE result = Ok(Base64UrlEncode(UintBytes(val, bits))) /\ UintBytes(val, bits) \in Seq(Byte)
  <2> DEFINE code == Base64UrlEncode(UintBytes(val, bits))
  <2>1. code \in Seq(0..63)
    BY <1>8, EncodeType
  <2>2. text' = code /\ error' = "ok"
    BY <1>2, <1>8 DEF Ok
  <2> HIDE DEF code
  <2>3. text' \in Seq(0..Junk)
    BY <2>1, <2>2, CharsAreTexts
  <2>4. Traced(code, code, FALSE, 0, FALSE)
    BY <2>1, TracedFresh
  <2>5. TextOK'
    BY <1>2, <1>3, <1>5, <2>2, <2>4 DEF TextOK, code
  <2> QED BY <1>4, <1>6, <2>3, <2>5 DEF IInv
<1>9. \/ result.error # "ok" /\ result.value = <<>>
      \/ result = Ok(Base64UrlEncode(UintBytes(val, bits))) /\ UintBytes(val, bits) \in Seq(Byte)
  <2>1. CASE \E class \in {"ValueError", "OverflowError"} : result = Fails(class)
    BY <2>1 DEF Fails
  <2> QED BY <1>1, <2>1, UintWriting DEF result
<1> QED BY <1>7, <1>8, <1>9

LEMMA WriteSignatureIInv ==
    ASSUME IInv, NEW bits \in CurveBits,
           NEW r \in {n \in Numbers : 0 < n /\ n < TwoTo[bits]},
           NEW s \in {n \in Numbers : 0 < n /\ n < TwoTo[bits]},
           WriteSignature(r, s, bits)
    PROVE  IInv'
<1> DEFINE raw == RawOf(r, s, NumBytes(bits))
           code == Base64UrlEncode(raw)
<1>1. bits \in Nat \ {0} /\ r \in Nat /\ s \in Nat /\ MaxJunk \in Nat
  BY UintAssumption
<1>2. DerToRawSignature(r, s, bits) = Ok(raw) /\ raw \in Seq(Byte)
  BY <1>1, SignatureWriting
<1> HIDE DEF raw
<1>3. /\ written' = [kind |-> "signature", numbers |-> <<r, s>>, bits |-> bits]
      /\ error' = "ok"
      /\ text' = code
      /\ padded' = FALSE /\ junk' = 0 /\ cut' = FALSE
  BY <1>2 DEF WriteSignature, Write, Ok
<1>4. WrittenOK'
  BY <1>3 DEF WrittenOK
<1>5. WrittenBytes' = raw
  BY <1>3 DEF WrittenBytes, raw
<1>6. code \in Seq(0..63)
  BY <1>2, EncodeType
<1>7. written' # Nothing
  BY <1>3 DEF Nothing
<1>8. TextOK'
  <2> HIDE DEF code
  <2>1. Traced(code, code, FALSE, 0, FALSE)
    BY <1>6, TracedFresh
  <2> QED BY <1>3, <1>5, <1>7, <2>1 DEF TextOK, code
<1>9. FlagsOK'
  <2> HIDE DEF code
  <2>1. text' \in Seq(0..Junk)
    BY <1>3, <1>6, CharsAreTexts
  <2>2. 0 \in 0..MaxJunk
    BY <1>1
  <2> QED BY <1>3, <2>1, <2>2 DEF FlagsOK
<1> QED BY <1>4, <1>8, <1>9 DEF IInv

\* What a text that is not empty comes from.
LEMMA TextFacts ==
    ASSUME IInv, text # <<>>
    PROVE  /\ written # Nothing /\ error = "ok"
           /\ Base64UrlEncode(WrittenBytes) \in Seq(0..63)
           /\ Traced(Base64UrlEncode(WrittenBytes), text, padded, junk, cut)
<1>1. written # Nothing /\ error = "ok"
  BY DEF IInv, TextOK
<1>2. WrittenBytes \in Seq(Byte)
  BY <1>1, WrittenBytesType DEF IInv
<1> QED BY <1>1, <1>2, EncodeType DEF IInv, TextOK

\* Those who hand the text on preserve it.
LEMMA HandOnIInv ==
    ASSUME IInv, KeepPadding \/ (\E i \in 1..(Len(text) + 1) : InsertJunk(i)) \/ Cut
    PROVE  IInv'
<1> DEFINE code == Base64UrlEncode(WrittenBytes)
<1>1. text # <<>> /\ UNCHANGED <<written, error>>
  BY DEF KeepPadding, InsertJunk, Cut
<1>2. /\ written # Nothing /\ error = "ok"
      /\ code \in Seq(0..63)
      /\ Traced(code, text, padded, junk, cut)
  BY <1>1, TextFacts
<1>3. /\ text \in Seq(0..Junk) /\ padded \in BOOLEAN /\ junk \in 0..MaxJunk
      /\ cut \in BOOLEAN /\ junk \in Nat /\ MaxJunk \in Nat
  BY UintAssumption DEF IInv, FlagsOK
<1>4. code' = code
  BY <1>1 DEF WrittenBytes
<1>5. WrittenOK'
  BY <1>1 DEF IInv, WrittenOK
<1>6. SUFFICES FlagsOK' /\ Traced(code, text', padded', junk', cut')
  BY <1>1, <1>4, <1>5 DEF IInv, TextOK
<1> HIDE DEF code
<1>7. CASE KeepPadding
  <2>1. /\ padded = FALSE /\ cut = FALSE
        /\ text' = text \o Padding((4 - ((Len(text) - junk) % 4)) % 4)
        /\ padded' = TRUE /\ junk' = junk /\ cut' = FALSE
    BY <1>3, <1>7 DEF KeepPadding
  <2>2. text' \in Seq(0..Junk) /\ Traced(code, text', TRUE, junk, FALSE)
    BY <1>2, <1>3, <2>1, TracedPadded
  <2> QED BY <1>3, <2>1, <2>2 DEF FlagsOK
<1>8. CASE \E i \in 1..(Len(text) + 1) : InsertJunk(i)
  <2>1. PICK i \in 1..(Len(text) + 1) :
               /\ junk < MaxJunk
               /\ text' = InsertAt(text, i, Junk)
               /\ junk' = junk + 1 /\ padded' = padded /\ cut' = cut
    BY <1>8 DEF InsertJunk
  <2>2. text' \in Seq(0..Junk) /\ Traced(code, text', padded, junk + 1, cut)
    BY <1>2, <1>3, <2>1, TracedJunk
  <2> QED BY <1>3, <2>1, <2>2 DEF FlagsOK
<1>9. CASE Cut
  <2>1. /\ padded = FALSE /\ junk = 0
        /\ text' = Front(text)
        /\ cut' = TRUE /\ padded' = FALSE /\ junk' = 0
    BY <1>3, <1>9 DEF Cut
  <2>2. text' \in Seq(0..Junk) /\ Traced(code, text', FALSE, 0, TRUE)
    BY <1>1, <1>2, <1>3, <2>1, TracedCut
  <2> QED BY <1>3, <2>1, <2>2 DEF FlagsOK
<1> QED BY <1>7, <1>8, <1>9

\* The invariant holds.
LEMMA IInvHolds == Spec => []IInv
<1>1. IInv /\ [Next]_vars => IInv'
  <2> SUFFICES ASSUME IInv, [Next]_vars PROVE IInv'
    OBVIOUS
  <2>1. CASE \E val \in Numbers, bits \in Widths : WriteUint(val, bits)
    BY <2>1, WriteUintIInv
  <2>2. CASE \E bits \in CurveBits : \E r, s \in {n \in Numbers : 0 < n /\ n < TwoTo[bits]} :
                WriteSignature(r, s, bits)
    BY <2>2, WriteSignatureIInv
  <2>3. CASE KeepPadding \/ (\E i \in 1..(Len(text) + 1) : InsertJunk(i)) \/ Cut
    BY <2>3, HandOnIInv
  <2>4. CASE UNCHANGED vars
    BY <2>4 DEF vars, IInv, WrittenOK, TextOK, FlagsOK, WrittenBytes
  <2> QED BY <2>1, <2>2, <2>3, <2>4 DEF Next
<1> QED BY <1>1, InitIInv, PTL DEF Spec

-----------------------------------------------------------------------------
(* The theorems.                                                           *)

\* Something other than "nothing" written without an error: what it comes to.
LEMMA UintFacts ==
    ASSUME IInv, written.kind = "uint"
    PROVE  /\ written.number \in Int /\ written.bits \in Nat \cup {None}
           /\ error = ToBase64UrlUint(written.number, written.bits).error
           /\ WrittenBytes = UintBytes(written.number, written.bits)
           /\ error = "ok" => Traced(Base64UrlEncode(WrittenBytes), text, padded, junk, cut)
<1>1. PICK val \in Numbers, bits \in Widths :
             /\ written = [kind |-> "uint", number |-> val, bits |-> bits]
             /\ error = ToBase64UrlUint(val, bits).error
  BY DEF IInv, WrittenOK, Nothing
<1>2. val \in Int /\ bits \in Nat \cup {None}
  BY UintAssumption
<1>3. WrittenBytes = UintBytes(written.number, written.bits)
  BY DEF WrittenBytes
<1>4. written # Nothing
  BY DEF Nothing
<1>5. error = "ok" => Traced(Base64UrlEncode(WrittenBytes), text, padded, junk, cut)
  BY <1>4 DEF IInv, TextOK
<1> QED BY <1>1, <1>2, <1>3, <1>5

LEMMA SignatureFacts ==
    ASSUME IInv, written.kind = "signature"
    PROVE  \E r, s \in Nat :
              /\ written.numbers = <<r, s>>
              /\ written.bits \in Nat \ {0}
              /\ r < TwoTo[written.bits] /\ s < TwoTo[written.bits]
              /\ WrittenBytes = RawOf(r, s, NumBytes(written.bits))
              /\ error = "ok"
              /\ Traced(Base64UrlEncode(WrittenBytes), text, padded, junk, cut)
<1>1. PICK bits \in CurveBits, r \in Numbers, s \in Numbers :
             /\ 0 < r /\ r < TwoTo[bits] /\ 0 < s /\ s < TwoTo[bits]
             /\ written = [kind |-> "signature", numbers |-> <<r, s>>, bits |-> bits]
             /\ error = "ok"
  BY DEF IInv, WrittenOK, Nothing
<1>2. bits \in Nat \ {0} /\ r \in Nat /\ s \in Nat
  BY <1>1, UintAssumption
<1>3. WrittenBytes = RawOf(r, s, NumBytes(bits))
  BY <1>1 DEF WrittenBytes
<1>4. Traced(Base64UrlEncode(WrittenBytes), text, padded, junk, cut)
  <2>1. written # Nothing
    BY DEF Nothing
  <2> QED BY <1>1, <2>1 DEF IInv, TextOK
<1>5. written.numbers = <<r, s>> /\ written.bits = bits
  BY <1>1
<1> QED BY <1>1, <1>2, <1>3, <1>4, <1>5

\* Every state is one of those the module describes: in particular writing
\* raises nothing but what to_base64url_uint and int.to_bytes raise, for numbers
\* of any size, and a signature of numbers below 2^bits raises nothing
\* (utils.py:36-63, 74-80).
THEOREM UintTypeCorrect == Spec => []TypeOK
<1>1. IInv => TypeOK
  <2> SUFFICES ASSUME IInv PROVE TypeOK
    OBVIOUS
  <2>1. written.kind \in {"nothing", "uint", "signature"}
    BY DEF IInv, WrittenOK, Nothing
  <2>2. error \in {"ok", "ValueError", "OverflowError"}
    <3>1. CASE written.kind = "uint"
      BY <3>1, UintFacts, UintWriting DEF Ok, Fails
    <3>2. CASE written.kind # "uint"
      BY <3>2 DEF IInv, WrittenOK
    <3> QED BY <3>1, <3>2
  <2> QED BY <2>1, <2>2 DEF IInv, FlagsOK, TypeOK
<1> QED BY <1>1, IInvHolds, PTL

\* A number that is read is the number that was written, whatever its size, and
\* only negative numbers and those too wide for bit_length are refused; broken
\* lines may make a text unreadable but never change the number
\* (utils.py:25-54, 66-71).
THEOREM NumbersComeBack == Spec => []UintsSurvive
<1>1. IInv => UintsSurvive
  <2> SUFFICES ASSUME IInv, written.kind = "uint" PROVE UintsSurvive
    BY DEF UintsSurvive
  <2> DEFINE number == written.number
             bits == written.bits
             u == UintBytes(number, bits)
             fits == number >= 0 /\ (bits # None => number < TwoTo[8 * NumBytes(bits)])
             read == FromBase64UrlUint(text)
             survives == \/ read = Ok(number)
                         \/ junk > 0 /\ read.error = "binascii.Error"
  <2>1. /\ number \in Int /\ bits \in Nat \cup {None}
        /\ error = ToBase64UrlUint(number, bits).error
        /\ error = "ok" => Traced(Base64UrlEncode(u), text, padded, junk, cut)
    BY UintFacts
  <2>2. /\ error = "ok" <=> fits
        /\ error = "ok" => u \in Seq(Byte) /\ IntFromBytes(u) = number
    <3>1. \/ ~fits /\ error # "ok"
          \/ fits /\ error = "ok" /\ u \in Seq(Byte) /\ IntFromBytes(u) = number
      <4> HIDE DEF number, bits, u
      <4> QED BY <2>1, UintWriting DEF Ok, Fails, u
    <3> QED BY <3>1
  <2>3. ASSUME error = "ok", ~cut PROVE survives
    <3> HIDE DEF number, bits, u
    <3>1. text \in Seq(0..Junk) /\ padded \in BOOLEAN /\ junk \in Nat /\ cut \in BOOLEAN
      BY UintAssumption DEF IInv, FlagsOK
    <3>2. \/ Base64UrlDecode(text) = Ok(u)
          \/ junk > 0 /\ Base64UrlDecode(text) = Fails("binascii.Error")
      BY <2>1, <2>2, <2>3, <3>1, TracedRead
    <3>3. CASE Base64UrlDecode(text) = Ok(u)
      BY <2>2, <2>3, <3>3 DEF FromBase64UrlUint, Ok
    <3>4. CASE junk > 0 /\ Base64UrlDecode(text) = Fails("binascii.Error")
      BY <3>4 DEF FromBase64UrlUint, Fails
    <3> QED BY <3>2, <3>3, <3>4
  <2> QED BY <2>2, <2>3 DEF UintsSurvive
<1> QED BY <1>1, IInvHolds, PTL

\* With bit_length a number of any size takes the bytes of that width, zeros
\* included; without, it begins with a zero byte only if it is zero
\* (utils.py:40-49, 66-71; algorithms.py:700-714, 745-789).
THEOREM WidthsComeBack == Spec => []WidthsAreExact
<1>1. IInv => WidthsAreExact
  <2> SUFFICES ASSUME IInv, written.kind = "uint", error = "ok", junk = 0, ~cut
               PROVE  WidthsAreExact
    BY DEF WidthsAreExact
  <2> DEFINE number == written.number
             bits == written.bits
             u == UintBytes(number, bits)
  <2>1. /\ number \in Int /\ bits \in Nat \cup {None}
        /\ ToBase64UrlUint(number, bits).error = "ok"
        /\ Traced(Base64UrlEncode(u), text, padded, junk, cut)
    BY UintFacts
  <2>2. u \in Seq(Byte)
        /\ IF bits \notin {None, 0} THEN Len(u) = NumBytes(bits)
           ELSE u # <<>> /\ (u[1] = 0 => u = <<0>>)
    <3> HIDE DEF number, bits, u
    <3> QED BY <2>1, UintWriting DEF Fails, u
  <2>3. Base64UrlDecode(text) = Ok(u)
    <3> HIDE DEF number, bits, u
    <3>1. text \in Seq(0..Junk) /\ padded \in BOOLEAN /\ cut \in BOOLEAN
      BY DEF IInv, FlagsOK
    <3>2. junk \in Nat /\ ~(junk > 0)
      OBVIOUS
    <3> QED BY <2>1, <2>2, <3>1, <3>2, TracedRead
  <2>4. Base64UrlDecode(text).value = u
    BY <2>3 DEF Ok
  <2> HIDE DEF u
  <2> QED BY <2>2, <2>4 DEF WidthsAreExact
<1> QED BY <1>1, IInvHolds, PTL

\* A signature that is read is the one that was written, for every size of
\* curve, and curves of another width refuse it (utils.py:57-63, 74-93).
THEOREM SignaturesComeBack == Spec => []SignaturesSurvive
<1>1. IInv => SignaturesSurvive
  <2> SUFFICES ASSUME IInv, written.kind = "signature", junk = 0, ~cut, NEW bits \in CurveBits
               PROVE  ReadSignature(text, bits) =
                         IF NumBytes(bits) = NumBytes(written.bits)
                         THEN Ok(written.numbers) ELSE Fails("ValueError")
    BY DEF SignaturesSurvive
  <2> DEFINE n == NumBytes(written.bits)
  <2>1. PICK r \in Nat, s \in Nat :
           /\ written.numbers = <<r, s>>
           /\ written.bits \in Nat \ {0}
           /\ r < TwoTo[written.bits] /\ s < TwoTo[written.bits]
           /\ WrittenBytes = RawOf(r, s, n)
           /\ Traced(Base64UrlEncode(WrittenBytes), text, padded, junk, cut)
    BY SignatureFacts
  <2>2. n \in Nat /\ r < TwoTo[8 * n] /\ s < TwoTo[8 * n] /\ WrittenBytes \in Seq(Byte)
    BY <2>1, SignatureWriting
  <2>3. Base64UrlDecode(text) = Ok(WrittenBytes)
    <3>1. text \in Seq(0..Junk) /\ padded \in BOOLEAN /\ cut \in BOOLEAN
      BY DEF IInv, FlagsOK
    <3>2. junk \in Nat /\ ~(junk > 0)
      OBVIOUS
    <3> QED BY <2>1, <2>2, <3>1, <3>2, TracedRead
  <2>4. ReadSignature(text, bits) = RawToDerSignature(WrittenBytes, bits)
    BY <2>3 DEF ReadSignature, Ok
  <2>5. bits \in Nat
    BY UintAssumption
  <2> HIDE DEF n
  <2>6. RawToDerSignature(WrittenBytes, bits) =
           IF NumBytes(bits) = n THEN Ok(<<r, s>>) ELSE Fails("ValueError")
    <3>1. RawToDerSignature(RawOf(r, s, n), bits) =
             IF NumBytes(bits) = n THEN Ok(<<r, s>>) ELSE Fails("ValueError")
      BY <2>2, <2>5, SignatureReading
    <3>2. WrittenBytes = RawOf(r, s, n)
      BY <2>1 DEF n
    <3> QED BY <3>1, <3>2, Zenon
  <2> QED BY <2>1, <2>4, <2>6 DEF n
<1> QED BY <1>1, IInvHolds, PTL

\* Of a signature that has lost characters nothing is read, for every size of
\* curve and however many were lost (utils.py:25-33, 83-88).
THEOREM CutSignaturesRefused == Spec => []CutSignaturesAreRefused
<1>1. IInv => CutSignaturesAreRefused
  <2> SUFFICES ASSUME IInv, written.kind = "signature", cut
               PROVE  ReadSignature(text, written.bits).error # "ok"
    BY DEF CutSignaturesAreRefused
  <2> DEFINE n == NumBytes(written.bits)
  <2>1. PICK r \in Nat, s \in Nat :
           /\ written.bits \in Nat \ {0}
           /\ r < TwoTo[written.bits] /\ s < TwoTo[written.bits]
           /\ WrittenBytes = RawOf(r, s, n)
           /\ Traced(Base64UrlEncode(WrittenBytes), text, padded, junk, cut)
    BY SignatureFacts
  <2>2. n \in Nat /\ WrittenBytes \in Seq(Byte) /\ Len(WrittenBytes) = 2 * n
    BY <2>1, SignatureWriting
  <2>3. \/ \E m \in Nat : /\ m < Len(WrittenBytes)
                          /\ Base64UrlDecode(text) = Ok(SubSeq(WrittenBytes, 1, m))
        \/ Base64UrlDecode(text) = Fails("binascii.Error")
    <3>1. text \in Seq(0..Junk) /\ padded \in BOOLEAN /\ junk \in Nat /\ cut \in BOOLEAN
      BY UintAssumption DEF IInv, FlagsOK
    <3> QED BY <2>1, <2>2, <3>1, TracedRead
  <2>4. CASE Base64UrlDecode(text) = Fails("binascii.Error")
    BY <2>4 DEF ReadSignature, Fails
  <2>5. CASE \E m \in Nat : /\ m < Len(WrittenBytes)
                            /\ Base64UrlDecode(text) = Ok(SubSeq(WrittenBytes, 1, m))
    <3>1. PICK m \in Nat : /\ m < Len(WrittenBytes)
                           /\ Base64UrlDecode(text) = Ok(SubSeq(WrittenBytes, 1, m))
      BY <2>5
    <3> DEFINE raw == SubSeq(WrittenBytes, 1, m)
    <3>2. Len(raw) = m
      BY <2>2, <3>1
    <3>3. Len(raw) # 2 * n
      BY <2>2, <3>1, <3>2
    <3>4. ReadSignature(text, written.bits) = RawToDerSignature(raw, written.bits)
      BY <3>1 DEF ReadSignature, Ok
    <3> HIDE DEF raw
    <3> QED BY <3>3, <3>4, ShortRefused
  <2> QED BY <2>3, <2>4, <2>5
<1> QED BY <1>1, IInvHolds, PTL
=============================================================================
