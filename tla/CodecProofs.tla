---------------------------- MODULE CodecProofs ----------------------------
(***************************************************************************)
(* The proofs that Codec hears what was sent: octopipes_decode inverts      *)
(* octopipes_encode and the parsers of the CAP what was prepared for them,  *)
(* for names, payloads and groups of every length, every size of a byte and *)
(* of a data size, and every operation on bytes as checksum.                *)
(***************************************************************************)
EXTENDS Codec, SequenceTheorems, WellFoundedInduction, TLAPS

-----------------------------------------------------------------------------
(* Recursion up to a number *)

\* A set of numbers that is not empty has a least one.
LEMMA LeastElement ==
    ASSUME NEW T, T \subseteq Nat, T # {}
    PROVE  \E x \in T : \A y \in T : ~(y < x)
<1> PICK below : below = {ss \in Nat \X Nat : ss[1] < ss[2]}
    OBVIOUS
<1>1. IsWellFoundedOn(below, Nat)
    BY NatLessThanWellFounded DEF OpToRel
<1>2. PICK x \in T : \A y \in T : ~(<<y, x>> \in below)
    BY <1>1, WFMin
<1>3. \A y \in T : y < x => <<y, x>> \in below
    OBVIOUS
<1> QED
    BY <1>2, <1>3

\* Induction on the numbers up to n, for a set in place of a predicate.
LEMMA UpTo ==
    ASSUME NEW n \in Nat, NEW S, 0 \in S, \A k \in 1..n : k - 1 \in S => k \in S
    PROVE  \A k \in 0..n : k \in S
<1> SUFFICES ASSUME {k \in 0..n : k \notin S} # {}
             PROVE  FALSE
    OBVIOUS
<1>1. PICK x \in {k \in 0..n : k \notin S} : \A y \in {k \in 0..n : k \notin S} : ~(y < x)
    <2>1. {k \in 0..n : k \notin S} \subseteq Nat
        OBVIOUS
    <2> QED
        BY <2>1, LeastElement
<1>2. x \in 1..n /\ x - 1 \in 0..n
    BY <1>1
<1>3. x - 1 \in S
    BY <1>1, <1>2
<1> QED
    BY <1>1, <1>2, <1>3

\* f begins with first, and goes on by step.
Follows(f, n, T, first, step) ==
    f \in [0..n -> T] /\ f[0] = first /\ \A k \in 1..n : f[k] = step[k][f[k - 1]]

\* A first value and a step from each value to the next have a function.
LEMMA Recursion ==
    ASSUME NEW n, NEW T, NEW first, NEW step,
           n \in Nat, first \in T, step \in [1..n -> [T -> T]]
    PROVE  \E f : Follows(f, n, T, first, step)
<1> DEFINE Good(f, m) == f \in [0..m -> T] /\ f[0] = first /\ \A k \in 1..m : f[k] = step[k][f[k - 1]]
           S == {m \in 0..n : \E f : Good(f, m)}
<1>1. 0 \in S
    <2>1. Good([k \in 0..0 |-> first], 0)
        OBVIOUS
    <2> HIDE DEF Good
    <2> QED
        BY <2>1
<1>2. ASSUME NEW m \in 1..n, m - 1 \in S
      PROVE  m \in S
    <2>1. PICK f : Good(f, m - 1)
        BY <1>2
    <2>2. PICK g : g = [k \in 0..m |-> IF k = m THEN step[m][f[m - 1]] ELSE f[k]]
        OBVIOUS
    <2>3. f \in [0..(m - 1) -> T] /\ f[m - 1] \in T /\ step[m][f[m - 1]] \in T
        BY <2>1
    <2>4. g \in [0..m -> T]
        BY <2>2, <2>3
    <2>5. g[m] = step[m][f[m - 1]] /\ \A k \in 0..(m - 1) : g[k] = f[k]
        BY <2>2
    <2>6. g[0] = first
        BY <2>1, <2>5
    <2>7. ASSUME NEW k \in 1..m
          PROVE  g[k] = step[k][g[k - 1]]
        <3>1. CASE k = m
            BY <2>5, <3>1
        <3>2. CASE k # m
            <4>1. k \in 1..(m - 1) /\ k \in 0..(m - 1) /\ k - 1 \in 0..(m - 1)
                BY <3>2
            <4> QED
                BY <2>1, <2>5, <4>1
        <3> QED
            BY <3>1, <3>2
    <2>8. Good(g, m)
        BY <2>4, <2>6, <2>7
    <2> HIDE DEF Good
    <2> QED
        BY <2>8
<1>3. n \in S
    <2> HIDE DEF S
    <2>1. \A k \in 0..n : k \in S
        BY <1>1, <1>2, UpTo
    <2> QED
        BY <2>1
<1> QED
    BY <1>3 DEF Follows

-----------------------------------------------------------------------------
(* The size of the data *)

LEMMA BaseProperties == Base \in Nat /\ Base >= 8 /\ Digits \in Nat /\ Digits >= 1
BY CodecAssumption

LEMMA Division ==
    ASSUME NEW x \in Nat
    PROVE  /\ x \div Base \in Nat /\ x % Base \in Byte
           /\ x = Base * (x \div Base) + (x % Base)
           /\ x % Base <= x /\ (x < Base => x % Base = x)
<1>1. CASE Base = 8
    BY <1>1 DEF Byte
<1>2. CASE Base = 16
    BY <1>2 DEF Byte
<1>3. CASE Base = 32
    BY <1>3 DEF Byte
<1>4. CASE Base = 64
    BY <1>4 DEF Byte
<1>5. CASE Base = 128
    BY <1>5 DEF Byte
<1>6. CASE Base = 256
    BY <1>6 DEF Byte
<1> QED
    BY <1>1, <1>2, <1>3, <1>4, <1>5, <1>6, CodecAssumption

LEMMA ByteIsKept ==
    ASSUME NEW x \in Nat
    PROVE  /\ x \in Byte => x % Base = x
           /\ x < Base => x % Base = x /\ x \in Byte
<1>1. x \in Byte <=> x < Base
    BY BaseProperties DEF Byte
<1> QED
    BY <1>1, Division

LEMMA ShiftedProperties ==
    ASSUME NEW n \in Nat
    PROVE  /\ Shifted(n) \in [0..Digits -> Nat]
           /\ Shifted(n)[0] = n
           /\ \A j \in 1..Digits : Shifted(n)[j] = Shifted(n)[j - 1] \div Base
<1> DEFINE Shifts(f) == f = [j \in 0..Digits |-> IF j = 0 THEN n ELSE f[j - 1] \div Base]
<1>1. \E f \in [0..Digits -> Nat] : Shifts(f)
    <2>0. PICK step : step = [j \in 1..Digits |-> [x \in Nat |-> x \div Base]]
        OBVIOUS
    <2>1. step \in [1..Digits -> [Nat -> Nat]]
        BY <2>0, Division
    <2>2. PICK f \in [0..Digits -> Nat] : f[0] = n /\ \A j \in 1..Digits : f[j] = step[j][f[j - 1]]
        <3>1. PICK T, first : T = Nat /\ first = n
            OBVIOUS
        <3>2. Digits \in Nat /\ first \in T /\ step \in [1..Digits -> [T -> T]]
            BY <2>1, <3>1, BaseProperties
        <3>3. \E f : Follows(f, Digits, T, first, step)
            BY <3>2, Recursion
        <3> QED
            BY <3>1, <3>3 DEF Follows
    <2>3. \A j \in 1..Digits : f[j - 1] \in Nat /\ step[j][f[j - 1]] = f[j - 1] \div Base
        BY <2>0, BaseProperties
    <2>4. \A j \in 0..Digits : f[j] = IF j = 0 THEN n ELSE f[j - 1] \div Base
        BY <2>2, <2>3, BaseProperties
    <2>5. f = [j \in 0..Digits |-> f[j]]
        OBVIOUS
    <2>6. Shifts(f)
        BY <2>4, <2>5
    <2> HIDE DEF Shifts
    <2> QED
        BY <2>6
<1>2. Shifted(n) = CHOOSE f : Shifts(f)
    BY DEF Shifted
<1>3. Shifts(Shifted(n))
    <2> HIDE DEF Shifts
    <2> QED
        BY <1>1, <1>2
<1> PICK r, q : r = Shifted(n) /\ q = r
    OBVIOUS
<1>4. r = [j \in 0..Digits |-> IF j = 0 THEN n ELSE q[j - 1] \div Base]
    BY <1>3
<1>5. r[0] = n /\ \A j \in 1..Digits : r[j] = r[j - 1] \div Base
    BY <1>4, BaseProperties
<1>6. \A j \in 0..Digits : r[j] \in Nat
    <2> DEFINE S == {j \in 0..Digits : r[j] \in Nat}
    <2>1. 0 \in S /\ \A j \in 1..Digits : j - 1 \in S => j \in S
        BY <1>5, Division, BaseProperties
    <2> HIDE DEF S
    <2>2. \A j \in 0..Digits : j \in S
        BY <2>1, BaseProperties, UpTo
    <2> QED
        BY <2>2 DEF S
<1> QED
    BY <1>4, <1>5, <1>6

\* The bytes of a size, put together again, are the size.
LEMMA SizeIsKept ==
    ASSUME NEW n \in Nat, Shifted(n)[Digits] = 0
    PROVE  /\ SizeBytes(n) \in [1..Digits -> Byte]
           /\ SizeOf(SizeBytes(n)) = n
<1> PICK r : r = Shifted(n)
    OBVIOUS
<1>1. /\ r \in [0..Digits -> Nat] /\ r[0] = n /\ r[Digits] = 0
      /\ \A j \in 1..Digits : r[j] = r[j - 1] \div Base
    BY ShiftedProperties
<1> PICK bytes : bytes = SizeBytes(n)
    OBVIOUS
<1>2. bytes = [i \in 1..Digits |-> r[Digits - i] % Base]
    BY DEF SizeBytes
<1>3. \A i \in 1..Digits : r[Digits - i] \in Nat /\ bytes[i] = r[Digits - i] % Base
    BY <1>1, <1>2, BaseProperties
<1>4. bytes \in [1..Digits -> Byte]
    BY <1>2, <1>3, Division
<1> DEFINE Sizes(f) == f = [j \in 0..Digits |-> IF j = 0 THEN 0 ELSE Base * f[j - 1] + bytes[j]]
<1>5. \E f : Sizes(f)
    <2>1. PICK f : f = [j \in 0..Digits |-> r[Digits - j]]
        OBVIOUS
    <2>2. f[0] = 0 /\ \A j \in 0..Digits : f[j] = r[Digits - j]
        BY <1>1, <2>1, BaseProperties
    <2>3. ASSUME NEW j \in 1..Digits
          PROVE  f[j] = Base * f[j - 1] + bytes[j]
        <3>1. f[j] = r[Digits - j] /\ f[j - 1] = r[Digits - (j - 1)]
            BY <2>2, BaseProperties
        <3>2. Digits - (j - 1) \in 1..Digits /\ (Digits - (j - 1)) - 1 = Digits - j
            BY BaseProperties
        <3>3. f[j - 1] = r[Digits - j] \div Base
            BY <1>1, <3>1, <3>2
        <3>4. bytes[j] = r[Digits - j] % Base /\ r[Digits - j] \in Nat
            BY <1>3
        <3> QED
            BY <3>1, <3>3, <3>4, Division
    <2>4. f = [j \in 0..Digits |-> f[j]]
        BY <2>1
    <2>5. Sizes(f)
        BY <2>2, <2>3, <2>4
    <2> HIDE DEF Sizes
    <2> QED
        BY <2>5
<1>6. SizeOf(bytes) = LET f == CHOOSE f : Sizes(f) IN f[Digits]
    BY DEF SizeOf
<1>7. PICK s : s = CHOOSE f : Sizes(f)
    OBVIOUS
<1>8. Sizes(s)
    <2> HIDE DEF Sizes
    <2> QED
        BY <1>5, <1>7
<1>9. PICK q : q = s
    OBVIOUS
<1>10. s = [j \in 0..Digits |-> IF j = 0 THEN 0 ELSE Base * q[j - 1] + bytes[j]]
    BY <1>8, <1>9
<1>11. s[0] = 0 /\ \A j \in 1..Digits : s[j] = Base * s[j - 1] + bytes[j]
    BY <1>9, <1>10, BaseProperties
<1>12. \A j \in 0..Digits : s[j] = r[Digits - j]
    <2> DEFINE S == {j \in 0..Digits : s[j] = r[Digits - j]}
    <2>1. 0 \in S
        BY <1>1, <1>11, BaseProperties
    <2>2. ASSUME NEW j \in 1..Digits, j - 1 \in S
          PROVE  j \in S
        <3>1. s[j] = Base * r[Digits - (j - 1)] + bytes[j]
            BY <1>11, <2>2
        <3>2. Digits - (j - 1) \in 1..Digits /\ (Digits - (j - 1)) - 1 = Digits - j
            BY BaseProperties
        <3>3. r[Digits - (j - 1)] = r[Digits - j] \div Base
            BY <1>1, <3>2
        <3>4. bytes[j] = r[Digits - j] % Base /\ r[Digits - j] \in Nat
            BY <1>3
        <3>5. s[j] = r[Digits - j]
            BY <3>1, <3>3, <3>4, Division
        <3> QED
            BY <3>5
    <2> HIDE DEF S
    <2>3. \A j \in 0..Digits : j \in S
        BY <2>1, <2>2, BaseProperties, UpTo
    <2> QED
        BY <2>3 DEF S
<1>13. SizeOf(bytes) = s[Digits]
    BY <1>6, <1>7
<1>14. s[Digits] = r[0]
    BY <1>12, BaseProperties
<1> QED
    BY <1>1, <1>4, <1>13, <1>14

-----------------------------------------------------------------------------
(* Frames *)

\* A checksum is a byte, whatever the operation on bytes.
LEMMA ChecksumIsByte ==
    ASSUME NEW bytes \in Seq(Byte)
    PROVE  ChecksumOf(bytes) \in Byte
<1> DEFINE Sums(f) == f = [k \in 0..Len(bytes) |-> IF k = 0 THEN 0 ELSE ByteXor[<<f[k - 1], bytes[k]>>]]
<1>1. Len(bytes) \in Nat /\ \A k \in 1..Len(bytes) : bytes[k] \in Byte
    BY LenProperties, ElementOfSeq
<1>2. PICK T, first, n : T = Byte /\ first = 0 /\ n = Len(bytes)
    OBVIOUS
<1>3. PICK step : step = [k \in 1..n |-> [x \in T |-> ByteXor[<<x, bytes[k]>>]]]
    OBVIOUS
<1>4. first \in T /\ n \in Nat /\ step \in [1..n -> [T -> T]]
    <2>1. ASSUME NEW k \in 1..n, NEW x \in T
          PROVE  ByteXor[<<x, bytes[k]>>] \in T
        BY <1>1, <1>2, CodecAssumption
    <2>2. first \in T
        BY <1>2, BaseProperties DEF Byte
    <2> QED
        BY <1>1, <1>2, <1>3, <2>1, <2>2
<1>5. PICK f : Follows(f, n, T, first, step)
    BY <1>4, Recursion
<1>6. Sums(f)
    <2>1. \A k \in 1..n : f[k - 1] \in T /\ step[k][f[k - 1]] = ByteXor[<<f[k - 1], bytes[k]>>]
        BY <1>3, <1>4, <1>5 DEF Follows
    <2>2. \A k \in 0..n : f[k] = IF k = 0 THEN 0 ELSE ByteXor[<<f[k - 1], bytes[k]>>]
        BY <1>2, <1>4, <1>5, <2>1 DEF Follows
    <2>3. f = [k \in 0..n |-> f[k]]
        BY <1>5 DEF Follows
    <2> QED
        BY <1>2, <2>2, <2>3
<1>7. PICK s : s = CHOOSE g : Sums(g)
    OBVIOUS
<1>8. Sums(s)
    <2> HIDE DEF Sums
    <2> QED
        BY <1>6, <1>7
<1>9. PICK q : q = s
    OBVIOUS
<1>10. s = [k \in 0..n |-> IF k = 0 THEN 0 ELSE ByteXor[<<q[k - 1], bytes[k]>>]]
    BY <1>2, <1>8, <1>9
<1>11. s[0] = 0 /\ \A k \in 1..n : s[k] = ByteXor[<<s[k - 1], bytes[k]>>]
    BY <1>4, <1>9, <1>10
<1>12. \A k \in 0..n : s[k] \in Byte
    <2> DEFINE S == {k \in 0..n : s[k] \in Byte}
    <2>1. 0 \in S
        BY <1>4, <1>11, BaseProperties DEF Byte
    <2>2. ASSUME NEW k \in 1..n, k - 1 \in S
          PROVE  k \in S
        <3>1. s[k - 1] \in Byte /\ bytes[k] \in Byte
            BY <1>1, <1>2, <2>2
        <3>2. ByteXor[<<s[k - 1], bytes[k]>>] \in Byte
            BY <3>1, CodecAssumption
        <3> QED
            BY <1>4, <1>11, <3>2
    <2> HIDE DEF S
    <2>3. \A k \in 0..n : k \in S
        BY <1>4, <2>1, <2>2, UpTo
    <2> QED
        BY <2>3 DEF S
<1>13. ChecksumOf(bytes) = s[n]
    BY <1>2, <1>7 DEF ChecksumOf
<1> QED
    BY <1>4, <1>12, <1>13

\* What is put behind a sequence leaves it as it is.
LEMMA Behind ==
    ASSUME NEW T, NEW s \in Seq(T), NEW t \in Seq(T)
    PROVE  /\ s \o t \in Seq(T) /\ Len(s) \in Nat /\ Len(t) \in Nat
           /\ Len(s \o t) = Len(s) + Len(t)
           /\ \A i \in 1..Len(s) : (s \o t)[i] = s[i]
           /\ \A i \in 1..Len(t) : (s \o t)[Len(s) + i] = t[i]
<1>1. Len(s) \in Nat /\ Len(t) \in Nat /\ s \o t \in Seq(T) /\ Len(s \o t) = Len(s) + Len(t)
    BY LenProperties, ConcatProperties
<1>2. \A i \in 1..Len(s) : (s \o t)[i] = s[i]
    BY <1>1, ConcatProperties
<1>3. ASSUME NEW i \in 1..Len(t)
      PROVE  (s \o t)[Len(s) + i] = t[i]
    <2>1. Len(s) + i \in (Len(s) + 1)..(Len(s) + Len(t)) /\ (Len(s) + i) - Len(s) = i
        BY <1>1
    <2> QED
        BY <1>1, <2>1, ConcatProperties
<1> QED
    BY <1>1, <1>2, <1>3

\* The bytes of s are in b, behind the first n.
Has(b, n, s) == \A i \in 1..Len(s) : b[n + i] = s[i]

\* What begins like w, s followed by t, has s first and t behind it.
Peels(b, w, s, t) == Has(b, 0, s) /\ Has(b, Len(s), t) /\ Len(w) = Len(s) + Len(t)

LEMMA Peeled ==
    ASSUME NEW s \in Seq(Byte), NEW t \in Seq(Byte), NEW w, w = s \o t, NEW b, Has(b, 0, w)
    PROVE  Peels(b, w, s, t)
<1>1. /\ s \o t \in Seq(Byte) /\ Len(s) \in Nat /\ Len(t) \in Nat /\ Len(s \o t) = Len(s) + Len(t)
      /\ \A i \in 1..Len(s) : (s \o t)[i] = s[i]
      /\ \A i \in 1..Len(t) : (s \o t)[Len(s) + i] = t[i]
    BY Behind
<1>2. \A i \in 1..(Len(s) + Len(t)) : b[i] = (s \o t)[i]
    BY <1>1 DEF Has
<1>3. Has(b, 0, s)
    BY <1>1, <1>2 DEF Has
<1>4. Has(b, Len(s), t)
    <2> SUFFICES ASSUME NEW i \in 1..Len(t) PROVE b[Len(s) + i] = t[i]
        BY DEF Has
    <2>1. Len(s) + i \in 1..(Len(s) + Len(t))
        BY <1>1
    <2> QED
        BY <1>1, <1>2, <2>1
<1> QED
    BY <1>1, <1>3, <1>4 DEF Peels

\* The parts of w are in b where the lengths of those before them say.
Parted(b, w, p1, p2, p3, p4, p5, p6, p7) ==
    /\ w \in Seq(Byte)
    /\ Len(w) = Len(p1) + Len(p2) + Len(p3) + Len(p4) + Len(p5) + Len(p6) + Len(p7)
    /\ Has(b, 0, p1)
    /\ Has(b, Len(p1), p2)
    /\ Has(b, Len(p1) + Len(p2), p3)
    /\ Has(b, Len(p1) + Len(p2) + Len(p3), p4)
    /\ Has(b, Len(p1) + Len(p2) + Len(p3) + Len(p4), p5)
    /\ Has(b, Len(p1) + Len(p2) + Len(p3) + Len(p4) + Len(p5), p6)
    /\ Has(b, Len(p1) + Len(p2) + Len(p3) + Len(p4) + Len(p5) + Len(p6), p7)

LEMMA Parts ==
    ASSUME NEW p1 \in Seq(Byte), NEW p2 \in Seq(Byte), NEW p3 \in Seq(Byte), NEW p4 \in Seq(Byte),
           NEW p5 \in Seq(Byte), NEW p6 \in Seq(Byte), NEW p7 \in Seq(Byte), NEW w,
           w = p1 \o p2 \o p3 \o p4 \o p5 \o p6 \o p7,
           NEW b, Has(b, 0, w)
    PROVE  Parted(b, w, p1, p2, p3, p4, p5, p6, p7)
<1>1. PICK w2 : w2 = p1 \o p2
    OBVIOUS
<1>2. PICK w3 : w3 = w2 \o p3
    OBVIOUS
<1>3. PICK w4 : w4 = w3 \o p4
    OBVIOUS
<1>4. PICK w5 : w5 = w4 \o p5
    OBVIOUS
<1>5. PICK w6 : w6 = w5 \o p6
    OBVIOUS
<1>6. w = w6 \o p7
    BY <1>1, <1>2, <1>3, <1>4, <1>5
<1>7. w2 \in Seq(Byte)
    BY <1>1, ConcatProperties
<1>8. w3 \in Seq(Byte)
    BY <1>2, <1>7, ConcatProperties
<1>9. w4 \in Seq(Byte)
    BY <1>3, <1>8, ConcatProperties
<1>10. w5 \in Seq(Byte)
    BY <1>4, <1>9, ConcatProperties
<1>11. w6 \in Seq(Byte)
    BY <1>5, <1>10, ConcatProperties
<1>12. w \in Seq(Byte)
    BY <1>6, <1>11, ConcatProperties
<1>13. Peels(b, w, w6, p7)
    BY <1>6, <1>11, Peeled
<1>14. Has(b, 0, w6)
    BY <1>13 DEF Peels
<1>15. Peels(b, w6, w5, p6)
    BY <1>5, <1>10, <1>14, Peeled
<1>16. Has(b, 0, w5)
    BY <1>15 DEF Peels
<1>17. Peels(b, w5, w4, p5)
    BY <1>4, <1>9, <1>16, Peeled
<1>18. Has(b, 0, w4)
    BY <1>17 DEF Peels
<1>19. Peels(b, w4, w3, p4)
    BY <1>3, <1>8, <1>18, Peeled
<1>20. Has(b, 0, w3)
    BY <1>19 DEF Peels
<1>21. Peels(b, w3, w2, p3)
    BY <1>2, <1>7, <1>20, Peeled
<1>22. Has(b, 0, w2)
    BY <1>21 DEF Peels
<1>23. Peels(b, w2, p1, p2)
    BY <1>1, <1>22, Peeled
<1> QED
    BY <1>12, <1>13, <1>15, <1>17, <1>19, <1>21, <1>23 DEF Peels, Parted

Messages == [origin : Name, remote : Name, ttl : Byte, options : Byte, data : Name]

\* A message that a frame can carry.
Carried(m) ==
    /\ m \in Messages
    /\ Len(m.origin) < Base /\ Len(m.remote) < Base
    /\ Shifted(Len(m.data))[Digits] = 0

LEMMA CarriedTypes ==
    ASSUME NEW m, Carried(m)
    PROVE  /\ m.origin \in Seq(Byte) /\ m.remote \in Seq(Byte) /\ m.data \in Seq(Byte)
           /\ m.ttl \in Byte /\ m.options \in Byte
           /\ Len(m.origin) \in Byte /\ Len(m.remote) \in Byte
           /\ Len(m.origin) \in Nat /\ Len(m.remote) \in Nat /\ Len(m.data) \in Nat
           /\ SizeBytes(Len(m.data)) \in Seq(Byte) /\ Len(SizeBytes(Len(m.data))) = Digits
           /\ SizeOf(SizeBytes(Len(m.data))) = Len(m.data)
<1>1. m.origin \in Seq(Byte) /\ m.remote \in Seq(Byte) /\ m.data \in Seq(Byte)
      /\ m.ttl \in Byte /\ m.options \in Byte
    BY DEF Carried, Messages, Name
<1>2. Len(m.origin) \in Nat /\ Len(m.remote) \in Nat /\ Len(m.data) \in Nat
    BY <1>1, LenProperties
<1>3. Len(m.origin) \in Byte /\ Len(m.remote) \in Byte
    BY <1>2, BaseProperties DEF Carried, Byte
<1>4. SizeBytes(Len(m.data)) \in [1..Digits -> Byte] /\ SizeOf(SizeBytes(Len(m.data))) = Len(m.data)
    BY <1>2, SizeIsKept DEF Carried
<1>5. SizeBytes(Len(m.data)) \in Seq(Byte)
    BY <1>4, BaseProperties, SeqDef
<1>6. Len(SizeBytes(Len(m.data))) = Digits
    BY <1>4, <1>5, BaseProperties, LenProperties
<1> QED
    BY <1>1, <1>2, <1>3, <1>4, <1>5, <1>6

\* Where b has the fields of a header.
Headed(b, w, h, v, lo, o, lr, r, t, d, z, x, c, y) ==
    /\ w \in Seq(Byte) /\ Len(w) = 8 + lo + lr + d
    /\ b[1] = h /\ b[2] = v /\ b[3] = lo /\ Has(b, 3, o)
    /\ b[4 + lo] = lr /\ Has(b, 4 + lo, r)
    /\ b[5 + lo + lr] = t /\ Has(b, 5 + lo + lr, z)
    /\ b[6 + lo + lr + d] = x /\ b[7 + lo + lr + d] = c /\ b[8 + lo + lr + d] = y

LEMMA FieldPlaces ==
    ASSUME NEW o \in Seq(Byte), NEW r \in Seq(Byte), NEW z \in Seq(Byte),
           NEW t \in Byte, NEW x \in Byte, NEW c \in Byte, NEW v \in Byte, NEW h \in Byte, NEW y \in Byte,
           NEW lo, NEW lr, NEW d,
           lo = Len(o), lr = Len(r), d = Len(z), lo \in Byte, lr \in Byte,
           NEW w, w = <<h, v, lo>> \o o \o <<lr>> \o r \o <<t>> \o z \o <<x, c, y>>,
           NEW b, Has(b, 0, w)
    PROVE  Headed(b, w, h, v, lo, o, lr, r, t, d, z, x, c, y)
<1> lo \in Nat /\ lr \in Nat /\ d \in Nat
    BY LenProperties
<1>1. PICK p1 : p1 = <<h, v, lo>>
    OBVIOUS
<1>2. PICK p3 : p3 = <<lr>>
    OBVIOUS
<1>3. PICK p5 : p5 = <<t>>
    OBVIOUS
<1>4. PICK p7 : p7 = <<x, c, y>>
    OBVIOUS
<1>5. p1 \in Seq(Byte) /\ p3 \in Seq(Byte) /\ p5 \in Seq(Byte) /\ p7 \in Seq(Byte)
    BY <1>1, <1>2, <1>3, <1>4
<1>6. Len(p1) = 3 /\ Len(p3) = 1 /\ Len(p5) = 1 /\ Len(p7) = 3
    BY <1>1, <1>2, <1>3, <1>4
<1>7. p1[1] = h /\ p1[2] = v /\ p1[3] = lo /\ p3[1] = lr /\ p5[1] = t
    BY <1>1, <1>2, <1>3
<1>8. p7[1] = x /\ p7[2] = c /\ p7[3] = y
    BY <1>4
<1>9. w = p1 \o o \o p3 \o r \o p5 \o z \o p7
    BY <1>1, <1>2, <1>3, <1>4
<1>10. Parted(b, w, p1, o, p3, r, p5, z, p7)
    BY <1>5, <1>9, Parts
<1>11. /\ w \in Seq(Byte) /\ Len(w) = 3 + lo + 1 + lr + 1 + d + 3
       /\ Has(b, 0, p1) /\ Has(b, 3, o) /\ Has(b, 3 + lo, p3) /\ Has(b, 3 + lo + 1, r)
       /\ Has(b, 3 + lo + 1 + lr, p5) /\ Has(b, 3 + lo + 1 + lr + 1, z)
       /\ Has(b, 3 + lo + 1 + lr + 1 + d, p7)
    BY <1>6, <1>10 DEF Parted
<1>12. /\ 3 + lo + 1 = 4 + lo /\ 3 + lo + 1 + lr = 4 + lo + lr /\ 3 + lo + 1 + lr + 1 = 5 + lo + lr
       /\ 3 + lo + 1 + lr + 1 + d = 5 + lo + lr + d
       /\ 3 + lo + 1 + lr + 1 + d + 3 = 8 + lo + lr + d
    OBVIOUS
<1>13. /\ Len(w) = 8 + lo + lr + d /\ Has(b, 4 + lo, r) /\ Has(b, 4 + lo + lr, p5)
       /\ Has(b, 5 + lo + lr, z) /\ Has(b, 5 + lo + lr + d, p7)
    BY <1>11, <1>12
<1>14. b[1] = h /\ b[2] = v /\ b[3] = lo
    <2>1. Has(b, 0, p1) /\ Len(p1) = 3
        BY <1>6, <1>11
    <2>2. b[0 + 1] = p1[1] /\ b[0 + 2] = p1[2] /\ b[0 + 3] = p1[3]
        BY <2>1 DEF Has
    <2> QED
        BY <1>7, <2>2
<1>15. b[4 + lo] = lr
    <2>1. b[3 + lo + 1] = p3[1]
        BY <1>6, <1>11 DEF Has
    <2> QED
        BY <1>7, <1>12, <2>1
<1>16. b[5 + lo + lr] = t
    <2>1. b[4 + lo + lr + 1] = p5[1]
        BY <1>6, <1>13 DEF Has
    <2>2. 4 + lo + lr + 1 = 5 + lo + lr
        OBVIOUS
    <2> QED
        BY <1>7, <2>1, <2>2
<1>17. b[6 + lo + lr + d] = x /\ b[7 + lo + lr + d] = c /\ b[8 + lo + lr + d] = y
    <2>1. /\ b[5 + lo + lr + d + 1] = p7[1] /\ b[5 + lo + lr + d + 2] = p7[2]
          /\ b[5 + lo + lr + d + 3] = p7[3]
        BY <1>6, <1>13 DEF Has
    <2>2. /\ 5 + lo + lr + d + 1 = 6 + lo + lr + d /\ 5 + lo + lr + d + 2 = 7 + lo + lr + d
          /\ 5 + lo + lr + d + 3 = 8 + lo + lr + d
        OBVIOUS
    <2> QED
        BY <1>8, <2>1, <2>2
<1> QED
    BY <1>11, <1>13, <1>14, <1>15, <1>16, <1>17 DEF Headed


\* Where b has the parts of a frame.
Placed(b, o, r, t, z, x, c, d) ==
    /\ b[1] = SOH /\ b[2] = VERSION
    /\ b[3] = Len(o) /\ Has(b, 3, o)
    /\ b[4 + Len(o)] = Len(r) /\ Has(b, 4 + Len(o), r)
    /\ b[5 + Len(o) + Len(r)] = t /\ Has(b, 5 + Len(o) + Len(r), z)
    /\ b[6 + Len(o) + Len(r) + Digits] = x
    /\ b[7 + Len(o) + Len(r) + Digits] = c
    /\ b[8 + Len(o) + Len(r) + Digits] = STX
    /\ Has(b, 8 + Len(o) + Len(r) + Digits, d)
    /\ b[9 + Len(o) + Len(r) + Digits + Len(d)] = ETX

\* w is a frame, as long as its parts, that b has.
Framed(b, w, o, r, t, z, x, c, d) ==
    /\ w \in Seq(Byte) /\ Len(w) = 9 + Digits + Len(o) + Len(r) + Len(d)
    /\ Placed(b, o, r, t, z, x, c, d)

LEMMA FramePlaces ==
    ASSUME NEW o \in Seq(Byte), NEW r \in Seq(Byte), NEW z \in Seq(Byte), NEW d \in Seq(Byte),
           NEW t \in Byte, NEW x \in Byte, NEW c \in Byte,
           Len(o) \in Byte, Len(r) \in Byte, Len(z) = Digits,
           NEW w,
           w = (<<SOH, VERSION, Len(o)>> \o o \o <<Len(r)>> \o r \o <<t>> \o z \o <<x, c, STX>>)
                   \o d \o <<ETX>>,
           NEW b, Has(b, 0, w)
    PROVE  Framed(b, w, o, r, t, z, x, c, d)
<1>1. PICK h : h = <<SOH, VERSION, Len(o)>> \o o \o <<Len(r)>> \o r \o <<t>> \o z \o <<x, c, STX>>
    OBVIOUS
<1>2. PICK hd : hd = h \o d
    OBVIOUS
<1>3. PICK e : e = <<ETX>>
    OBVIOUS
<1>4. SOH \in Byte /\ VERSION \in Byte /\ STX \in Byte /\ ETX \in Byte
    BY BaseProperties DEF Byte, SOH, VERSION, STX, ETX
<1>5. e \in Seq(Byte) /\ Len(e) = 1 /\ e[1] = ETX
    BY <1>3, <1>4
<1>6. PICK lo, lr, ld : lo = Len(o) /\ lr = Len(r) /\ ld = Len(d)
    OBVIOUS
<1>7. lo \in Nat /\ lr \in Nat /\ ld \in Nat /\ Digits \in Nat /\ lo \in Byte /\ lr \in Byte
    BY <1>6, LenProperties, BaseProperties
<1>8. h = <<SOH, VERSION, lo>> \o o \o <<lr>> \o r \o <<t>> \o z \o <<x, c, STX>>
    BY <1>1, <1>6
<1>9. h \in Seq(Byte) /\ Len(h) = 8 + lo + lr + Digits
    <2>1. Has(h, 0, h)
        BY DEF Has
    <2>2. Headed(h, h, SOH, VERSION, lo, o, lr, r, t, Digits, z, x, c, STX)
        BY <1>4, <1>6, <1>7, <1>8, <2>1, FieldPlaces
    <2> QED
        BY <2>2 DEF Headed
<1>10. hd \in Seq(Byte)
    BY <1>2, <1>9, ConcatProperties
<1>11. w = hd \o e
    BY <1>1, <1>2, <1>3
<1>12. w \in Seq(Byte)
    BY <1>5, <1>10, <1>11, ConcatProperties
<1>13. Peels(b, w, hd, e)
    BY <1>5, <1>10, <1>11, Peeled
<1>14. Has(b, 0, hd)
    BY <1>13 DEF Peels
<1>15. Peels(b, hd, h, d)
    BY <1>2, <1>9, <1>14, Peeled
<1>16. Has(b, 0, h)
    BY <1>15 DEF Peels
<1>17. Len(hd) = 8 + lo + lr + Digits + ld /\ Has(b, 8 + lo + lr + Digits, d)
    BY <1>6, <1>9, <1>15 DEF Peels
<1>18. Has(b, 8 + lo + lr + Digits + ld, e) /\ Len(w) = 8 + lo + lr + Digits + ld + 1
    BY <1>5, <1>13, <1>17 DEF Peels
<1>19. b[9 + lo + lr + Digits + ld] = ETX
    <2>1. b[8 + lo + lr + Digits + ld + 1] = e[1]
        BY <1>5, <1>18 DEF Has
    <2>2. 8 + lo + lr + Digits + ld + 1 = 9 + lo + lr + Digits + ld
        BY <1>7
    <2> QED
        BY <1>5, <2>1, <2>2
<1>20. /\ b[1] = SOH /\ b[2] = VERSION /\ b[3] = lo /\ Has(b, 3, o)
       /\ b[4 + lo] = lr /\ Has(b, 4 + lo, r)
       /\ b[5 + lo + lr] = t /\ Has(b, 5 + lo + lr, z)
       /\ b[6 + lo + lr + Digits] = x /\ b[7 + lo + lr + Digits] = c
       /\ b[8 + lo + lr + Digits] = STX
    <2>1. Headed(b, h, SOH, VERSION, lo, o, lr, r, t, Digits, z, x, c, STX)
        BY <1>4, <1>6, <1>7, <1>8, <1>16, FieldPlaces
    <2> QED
        BY <2>1 DEF Headed
<1>21. Placed(b, o, r, t, z, x, c, d)
    BY <1>6, <1>17, <1>19, <1>20 DEF Placed
<1>22. Len(w) = 9 + Digits + Len(o) + Len(r) + Len(d)
    BY <1>6, <1>7, <1>18
<1> QED
    BY <1>12, <1>21, <1>22 DEF Framed

\* What b has can be cut out of it.
LEMMA Cut ==
    ASSUME NEW b, NEW s \in Seq(Byte), NEW a \in Nat, Has(b, a, s)
    PROVE  SubSeq(b, a + 1, a + Len(s)) = s
<1>1. Len(s) \in Nat /\ \A i \in 1..Len(s) : b[a + i] = s[i] /\ s[i] \in Byte
    BY LenProperties, ElementOfSeq DEF Has
<1>2. PICK i1 \in Int, i2 \in Int : i1 = a + 1 /\ i2 = a + Len(s)
    BY <1>1
<1>3. ASSUME NEW i \in i1..i2
      PROVE  b[i] \in Byte
    <2>1. i - a \in 1..Len(s) /\ a + (i - a) = i
        BY <1>1, <1>2
    <2> QED
        BY <1>1, <2>1
<1>4. /\ SubSeq(b, i1, i2) \in Seq(Byte)
      /\ Len(SubSeq(b, i1, i2)) = (IF i1 <= i2 THEN i2 - i1 + 1 ELSE 0)
      /\ \A i \in 1..(i2 - i1 + 1) : SubSeq(b, i1, i2)[i] = b[i1 + i - 1]
    BY <1>3, SubSeqProperties
<1>5. PICK u : u = SubSeq(b, i1, i2)
    OBVIOUS
<1>6. u \in Seq(Byte) /\ Len(u) = Len(s)
    BY <1>1, <1>2, <1>4, <1>5
<1>7. \A i \in 1..Len(s) : u[i] = s[i]
    <2> TAKE i \in 1..Len(s)
    <2>1. i \in 1..(i2 - i1 + 1) /\ i1 + i - 1 = a + i
        BY <1>1, <1>2
    <2> QED
        BY <1>1, <1>4, <1>5, <2>1
<1>8. u = s
    BY <1>6, <1>7, SeqEqual
<1> QED
    BY <1>2, <1>5, <1>8

\* The first n of b are those of w.
Alike(b, n, w) == \A i \in 1..n : b[i] = w[i]

\* The first n of w have what is in w before they end.
LEMMA Kept ==
    ASSUME NEW w, NEW b, NEW n \in Nat, Alike(b, n, w),
           NEW s \in Seq(Byte), NEW a \in Nat, Has(w, a, s), a + Len(s) <= n
    PROVE  Has(b, a, s)
<1> SUFFICES ASSUME NEW i \in 1..Len(s)
             PROVE  b[a + i] = s[i]
    BY DEF Has
<1>1. Len(s) \in Nat
    BY LenProperties
<1>2. a + i \in 1..n
    BY <1>1
<1> QED
    BY <1>1, <1>2 DEF Has, Alike


\* The message with these fields.
Made(o, r, t, x, d) == [origin |-> o, remote |-> r, ttl |-> t, options |-> x, data |-> d]

\* Where the data of a frame with these names begins.
DataAt(o, r) == 9 + Len(o) + Len(r) + Digits

\* The fields of a frame that holds its names, of the data those bytes that b has.
Found(b, fill, o, r, t, x, c, size) ==
    [message |-> Made(o, r, t, x, Data(b, DataAt(o, r), size, fill)),
     checksum |-> c, stx |-> TRUE,
     over |-> IF DataAt(o, r) + size - 1 - Len(b) > 0 THEN DataAt(o, r) + size - 1 - Len(b) ELSE 0]

\* The fields found in the first bytes of a frame are its fields, once its names fit in them.
LEMMA FieldsFound ==
    ASSUME NEW o \in Seq(Byte), NEW r \in Seq(Byte), NEW z \in Seq(Byte), NEW d \in Seq(Byte),
           NEW t, NEW x, NEW c, Len(z) = Digits, SizeOf(z) = Len(d),
           NEW w, Placed(w, o, r, t, z, x, c, d),
           NEW b, Len(b) \in Nat, Alike(b, Len(b), w),
           9 + Digits + Len(o) + Len(r) <= Len(b), NEW fill
    PROVE  Fields(b, fill) = Found(b, fill, o, r, t, x, c, Len(d))
<1>1. PICK lo, lr, ld : lo = Len(o) /\ lr = Len(r) /\ ld = Len(d)
    OBVIOUS
<1>2. lo \in Nat /\ lr \in Nat /\ ld \in Nat /\ Digits \in Nat /\ Digits >= 1
    BY <1>1, LenProperties, BaseProperties
<1>0. PICK n \in Nat : n = Len(b)
    OBVIOUS
<1>3. 9 + Digits + lo + lr <= n
    BY <1>0, <1>1
<1>4. Has(b, 3, o) /\ Has(b, 4 + lo, r) /\ Has(b, 5 + lo + lr, z)
    <2>1. Has(w, 3, o) /\ Has(w, 4 + lo, r) /\ Has(w, 5 + lo + lr, z)
        BY <1>1 DEF Placed
    <2>2. 3 + Len(o) <= n /\ 4 + lo + Len(r) <= n /\ 5 + lo + lr + Len(z) <= n
        BY <1>1, <1>2, <1>3
    <2>3. 4 + lo \in Nat /\ 5 + lo + lr \in Nat
        BY <1>2
    <2>4. Has(b, 3, o)
        BY <1>0, <2>1, <2>2, Kept
    <2>5. Has(b, 4 + lo, r)
        BY <1>0, <2>1, <2>2, <2>3, Kept
    <2>6. Has(b, 5 + lo + lr, z)
        BY <1>0, <2>1, <2>2, <2>3, Kept
    <2> QED
        BY <2>4, <2>5, <2>6
<1>5. /\ 3 \in 1..n /\ 4 + lo \in 1..n /\ 5 + lo + lr \in 1..n /\ 6 + lo + lr + Digits \in 1..n
      /\ 7 + lo + lr + Digits \in 1..n /\ 8 + lo + lr + Digits \in 1..n
    BY <1>2, <1>3
<1>6. /\ b[3] = lo /\ b[4 + lo] = lr /\ b[5 + lo + lr] = t /\ b[6 + lo + lr + Digits] = x
      /\ b[7 + lo + lr + Digits] = c /\ b[8 + lo + lr + Digits] = STX
    <2>1. /\ w[3] = lo /\ w[4 + lo] = lr /\ w[5 + lo + lr] = t /\ w[6 + lo + lr + Digits] = x
          /\ w[7 + lo + lr + Digits] = c /\ w[8 + lo + lr + Digits] = STX
        BY <1>1 DEF Placed
    <2> QED
        BY <1>0, <1>5, <2>1 DEF Alike
<1>7. PICK ra, ta, xa, da : ra = 4 + b[3] /\ ta = ra + 1 + b[ra] /\ xa = ta + Digits + 1 /\ da = xa + 3
    OBVIOUS
<1>8. ra = 4 + lo /\ b[ra] = lr
    BY <1>6, <1>7
<1>9. /\ ta = 5 + lo + lr /\ xa = 6 + lo + lr + Digits /\ da = 9 + lo + lr + Digits
    <2>1. ra = 4 + lo /\ ta = ra + 1 + lr /\ xa = ta + Digits + 1 /\ da = xa + 3
        BY <1>7, <1>8
    <2>2. ta = 5 + lo + lr
        BY <1>2, <2>1
    <2>3. xa = 6 + lo + lr + Digits
        BY <1>2, <2>1, <2>2
    <2>4. da = 9 + lo + lr + Digits
        BY <1>2, <2>1, <2>3
    <2> QED
        BY <2>2, <2>3, <2>4
<1>10. SubSeq(b, 4, ra - 1) = o
    <2>1. SubSeq(b, 3 + 1, 3 + Len(o)) = o
        BY <1>4, Cut
    <2>2. ra - 1 = 3 + Len(o)
        BY <1>1, <1>2, <1>8
    <2> QED
        BY <2>1, <2>2
<1>11. SubSeq(b, ra + 1, ta - 1) = r
    <2>1. SubSeq(b, (4 + lo) + 1, (4 + lo) + Len(r)) = r
        BY <1>2, <1>4, Cut
    <2>2. ra + 1 = (4 + lo) + 1 /\ ta - 1 = (4 + lo) + Len(r)
        BY <1>1, <1>2, <1>8, <1>9
    <2> QED
        BY <2>1, <2>2
<1>12. SubSeq(b, ta + 1, ta + Digits) = z
    <2>1. PICK a \in Nat : a = 5 + lo + lr
        BY <1>2
    <2>2. Has(b, a, z)
        BY <1>4, <2>1
    <2>3. SubSeq(b, a + 1, a + Len(z)) = z
        BY <2>2, Cut
    <2>4. a = ta /\ Len(z) = Digits
        BY <1>9, <2>1
    <2> QED
        BY <2>3, <2>4
<1>13. b[ta] = t /\ b[xa] = x
    BY <1>6, <1>9
<1>14. xa + 1 = 7 + lo + lr + Digits /\ xa + 2 = 8 + lo + lr + Digits
    BY <1>2, <1>9
<1>15. b[xa + 1] = c /\ b[xa + 2] = STX
    BY <1>6, <1>14
<1>16. PICK data : data = Data(b, da, ld, fill)
    OBVIOUS
<1>17. Len(data) = ld
    BY <1>2, <1>16 DEF Data
<1>18. Fields(b, fill) =
           [message |-> [origin |-> SubSeq(b, 4, ra - 1), remote |-> SubSeq(b, ra + 1, ta - 1),
                         ttl |-> b[ta], options |-> b[xa],
                         data |-> Data(b, da, SizeOf(SubSeq(b, ta + 1, ta + Digits)), fill)],
            checksum |-> b[xa + 1], stx |-> b[xa + 2] = STX,
            over |-> IF da + Len(Data(b, da, SizeOf(SubSeq(b, ta + 1, ta + Digits)), fill)) - 1 - Len(b) > 0
                     THEN da + Len(Data(b, da, SizeOf(SubSeq(b, ta + 1, ta + Digits)), fill)) - 1 - Len(b)
                     ELSE 0]
    BY <1>7, Zenon DEF Fields
<1>19. Data(b, da, SizeOf(SubSeq(b, ta + 1, ta + Digits)), fill) = data
    BY <1>1, <1>12, <1>16
<1>20. DataAt(o, r) = da
    BY <1>1, <1>9 DEF DataAt
<1> QED
    BY <1>1, <1>10, <1>11, <1>13, <1>15, <1>16, <1>17, <1>18, <1>19, <1>20 DEF Made, Found


\* The data of a frame that was received whole is its data, whatever lies beyond.
LEMMA DataFound ==
    ASSUME NEW d \in Seq(Byte), NEW a \in Nat, NEW w, Has(w, a, d),
           NEW b, Len(b) \in Nat, Alike(b, Len(b), w), a + Len(d) <= Len(b), NEW fill
    PROVE  Data(b, a + 1, Len(d), fill) = d
<1>1. PICK n \in Nat : n = Len(b)
    OBVIOUS
<1>2. PICK ld \in Nat : ld = Len(d)
    BY LenProperties
<1>3. Has(b, a, d)
    BY <1>1, Kept
<1>4. ASSUME NEW i \in 1..ld
      PROVE  (a + 1) + i - 1 <= n /\ b[(a + 1) + i - 1] = d[i]
    <2>1. (a + 1) + i - 1 = a + i /\ a + i <= n
        BY <1>1, <1>2
    <2> QED
        BY <1>2, <1>3, <2>1 DEF Has
<1>5. PICK data : data = Data(b, a + 1, ld, fill)
    OBVIOUS
<1>6. data = [i \in 1..ld |-> IF (a + 1) + i - 1 <= n THEN b[(a + 1) + i - 1] ELSE fill]
    BY <1>1, <1>5 DEF Data
<1>7. data = [i \in 1..ld |-> d[i]]
    BY <1>4, <1>6
<1>8. d = [i \in 1..ld |-> d[i]]
    BY <1>2, LenProperties
<1> QED
    BY <1>2, <1>5, <1>7, <1>8

\* What octopipes_decode makes of any bytes is one of its results.
LEMMA DecodeResults ==
    ASSUME NEW b, NEW fill
    PROVE  Decode(b, fill).rc \in {"SUCCESS", "BAD_PACKET", "BAD_CHECKSUM", "UNSUPPORTED_VERSION"}
BY DEF Decode, Failed, Nothing

\* The bytes that octopipes_decode accepts have room for the fields of the frame.
LEMMA DecodeAccepts ==
    ASSUME NEW b, NEW fill, Decode(b, fill).rc = "SUCCESS"
    PROVE  /\ ~(Len(b) < Minimum) /\ NamesFit(b)
           /\ Decode(b, fill).message = Fields(b, fill).message
           /\ Decode(b, fill).over = Fields(b, fill).over
<1>1. \A over : Failed("BAD_PACKET", over).rc # "SUCCESS" /\ Failed("BAD_CHECKSUM", over).rc # "SUCCESS"
                    /\ Failed("UNSUPPORTED_VERSION", over).rc # "SUCCESS"
    BY DEF Failed, Nothing
<1>2. PICK f : f = Fields(b, fill)
    OBVIOUS
<1>3. Decode(b, fill) =
          IF Len(b) < Minimum \/ b[1] # SOH \/ Last(b) # ETX THEN Failed("BAD_PACKET", 0)
          ELSE IF b[2] # VERSION THEN Failed("UNSUPPORTED_VERSION", 0)
          ELSE IF ~NamesFit(b) THEN Failed("BAD_PACKET", 0)
          ELSE IF ~f.stx \/ Len(b) < Len(f.message.data) THEN Failed("BAD_PACKET", 0)
          ELSE IF Checked(f.message.options) /\ calculate_checksum(f.message) # f.checksum
          THEN Failed("BAD_CHECKSUM", f.over)
          ELSE [rc |-> "SUCCESS", message |-> f.message, over |-> f.over,
                parsed |-> Parsed(f.message.data), object |-> DecodeData(f.message)]
    BY <1>2 DEF Decode
<1>4. /\ ~(Len(b) < Minimum \/ b[1] # SOH \/ Last(b) # ETX) /\ NamesFit(b)
      /\ Decode(b, fill) = [rc |-> "SUCCESS", message |-> f.message, over |-> f.over,
                            parsed |-> Parsed(f.message.data), object |-> DecodeData(f.message)]
    BY <1>1, <1>3
<1> QED
    BY <1>2, <1>4

\* What octopipes_decode accepts of the first bytes of a frame, reading nothing
\* beyond them, is the message of the frame.
LEMMA PartHeard ==
    ASSUME NEW o \in Seq(Byte), NEW r \in Seq(Byte), NEW z \in Seq(Byte), NEW d \in Seq(Byte),
           NEW t, NEW x, NEW c, Len(z) = Digits, SizeOf(z) = Len(d),
           NEW w, Placed(w, o, r, t, z, x, c, d),
           NEW b, Len(b) \in Nat, Alike(b, Len(b), w), NEW fill,
           Decode(b, fill).rc = "SUCCESS", Decode(b, fill).over = 0
    PROVE  Decode(b, fill).message = Made(o, r, t, x, d)
<1>1. PICK lo, lr, ld : lo = Len(o) /\ lr = Len(r) /\ ld = Len(d)
    OBVIOUS
<1>2. lo \in Nat /\ lr \in Nat /\ ld \in Nat /\ Digits \in Nat /\ Digits >= 1
    BY <1>1, LenProperties, BaseProperties
<1>3. PICK n \in Nat : n = Len(b)
    OBVIOUS
<1>4. n >= 9 + Digits /\ n >= 9 + Digits + b[3] /\ n >= 9 + Digits + b[3] + b[4 + b[3]]
    BY <1>2, <1>3, DecodeAccepts DEF Minimum, NamesFit
<1>5. b[3] = lo
    <2>1. 3 \in 1..n /\ w[3] = lo
        BY <1>1, <1>2, <1>4 DEF Placed
    <2> QED
        BY <1>3, <2>1 DEF Alike
<1>6. b[4 + lo] = lr
    <2>1. n >= 9 + Digits + lo
        BY <1>4, <1>5
    <2>2. 4 + lo \in 1..n /\ w[4 + lo] = lr
        BY <1>1, <1>2, <2>1 DEF Placed
    <2> QED
        BY <1>3, <2>2 DEF Alike
<1>7. 9 + Digits + lo + lr <= n
    BY <1>4, <1>5, <1>6
<1>8. PICK a \in Nat : a = 8 + lo + lr + Digits
    BY <1>2
<1>9. DataAt(o, r) = a + 1
    BY <1>1, <1>2, <1>8 DEF DataAt
<1>10. PICK f : f = Fields(b, fill)
    OBVIOUS
<1>11. /\ f.message = Made(o, r, t, x, Data(b, a + 1, ld, fill))
       /\ f.over = IF (a + 1) + ld - 1 - n > 0 THEN (a + 1) + ld - 1 - n ELSE 0
    <2>1. f = Found(b, fill, o, r, t, x, c, Len(d))
        <3>1. 9 + Digits + Len(o) + Len(r) <= Len(b)
            BY <1>1, <1>3, <1>7
        <3> QED
            BY <1>10, <3>1, FieldsFound
    <2> QED
        BY <1>1, <1>3, <1>9, <2>1 DEF Found
<1>12. f.over = 0 /\ Decode(b, fill).message = f.message
    BY <1>10, DecodeAccepts
<1>13. a + ld <= n
    BY <1>2, <1>11, <1>12
<1>14. Has(w, a, d)
    BY <1>1, <1>8 DEF Placed
<1>15. Data(b, a + 1, ld, fill) = d
    BY <1>1, <1>3, <1>13, <1>14, DataFound
<1> QED
    BY <1>11, <1>12, <1>15

\* What octopipes_decode makes of a frame that was received whole, with more
\* or nothing behind it.
LEMMA WholeDecoded ==
    ASSUME NEW o \in Seq(Byte), NEW r \in Seq(Byte), NEW z \in Seq(Byte), NEW d \in Seq(Byte),
           NEW t, NEW x, NEW c, Len(z) = Digits, SizeOf(z) = Len(d),
           NEW w, Placed(w, o, r, t, z, x, c, d),
           NEW b, Len(b) \in Nat, Alike(b, Len(b), w), NEW fill,
           DataAt(o, r) + Len(d) <= Len(b), b[Len(b)] = ETX,
           NEW m, m = Made(o, r, t, x, d), Checked(x) => calculate_checksum(m) = c
    PROVE  Decode(b, fill) = [rc |-> "SUCCESS", message |-> m, over |-> 0,
                              parsed |-> Parsed(d), object |-> DecodeData(m)]
<1>1. PICK lo, lr, ld : lo = Len(o) /\ lr = Len(r) /\ ld = Len(d)
    OBVIOUS
<1>2. lo \in Nat /\ lr \in Nat /\ ld \in Nat /\ Digits \in Nat /\ Digits >= 1
    BY <1>1, LenProperties, BaseProperties
<1>3. PICK n \in Nat : n = Len(b)
    OBVIOUS
<1>4. 9 + lo + lr + Digits + ld <= n
    BY <1>1, <1>3 DEF DataAt
<1>5. b[3] = lo /\ b[4 + lo] = lr /\ b[1] = SOH /\ b[2] = VERSION
    <2>1. 1 \in 1..n /\ 2 \in 1..n /\ 3 \in 1..n /\ 4 + lo \in 1..n
        BY <1>2, <1>4
    <2>2. w[3] = lo /\ w[4 + lo] = lr /\ w[1] = SOH /\ w[2] = VERSION
        BY <1>1 DEF Placed
    <2> QED
        BY <1>3, <2>1, <2>2 DEF Alike
<1>6. 9 + Digits + lo + lr <= n
    BY <1>2, <1>4
<1>7. PICK a \in Nat : a = 8 + lo + lr + Digits
    BY <1>2
<1>8. DataAt(o, r) = a + 1
    BY <1>1, <1>2, <1>7 DEF DataAt
<1>9. Has(w, a, d) /\ a + ld <= n
    <2>1. Has(w, a, d)
        BY <1>1, <1>7 DEF Placed
    <2> QED
        BY <1>2, <1>4, <1>7, <2>1
<1>10. Data(b, a + 1, ld, fill) = d
    BY <1>1, <1>3, <1>9, DataFound
<1>11. PICK f : f = Fields(b, fill)
    OBVIOUS
<1>12. f = [message |-> m, checksum |-> c, stx |-> TRUE, over |-> 0]
    <2>1. Fields(b, fill) =
               [message |-> Made(o, r, t, x, Data(b, a + 1, ld, fill)),
                checksum |-> c, stx |-> TRUE,
                over |-> IF (a + 1) + ld - 1 - n > 0 THEN (a + 1) + ld - 1 - n ELSE 0]
        <3>1. 9 + Digits + Len(o) + Len(r) <= Len(b)
            BY <1>1, <1>3, <1>6
        <3>2. Fields(b, fill) = Found(b, fill, o, r, t, x, c, Len(d))
            BY <3>1, FieldsFound
        <3> QED
            BY <1>1, <1>3, <1>8, <3>2 DEF Found
    <2>2. ~((a + 1) + ld - 1 - n > 0)
        BY <1>2, <1>9
    <2> QED
        BY <1>10, <1>11, <2>1, <2>2
<1>13. m.data = d /\ m.options = x
    BY DEF Made
<1>14. NamesFit(b) /\ Len(b) >= Minimum
    BY <1>2, <1>3, <1>5, <1>6 DEF NamesFit, Minimum
<1>15. Last(b) = ETX
    BY DEF Last
<1>16. Len(b) >= Len(m.data)
    BY <1>1, <1>2, <1>3, <1>4, <1>13
<1>17. ~(Checked(m.options) /\ calculate_checksum(m) # c)
    BY <1>13
<1>18. Decode(b, fill) =
          IF Len(b) < Minimum \/ b[1] # SOH \/ Last(b) # ETX THEN Failed("BAD_PACKET", 0)
          ELSE IF b[2] # VERSION THEN Failed("UNSUPPORTED_VERSION", 0)
          ELSE IF ~NamesFit(b) THEN Failed("BAD_PACKET", 0)
          ELSE IF ~f.stx \/ Len(b) < Len(f.message.data) THEN Failed("BAD_PACKET", 0)
          ELSE IF Checked(f.message.options) /\ calculate_checksum(f.message) # f.checksum
          THEN Failed("BAD_CHECKSUM", f.over)
          ELSE [rc |-> "SUCCESS", message |-> f.message, over |-> f.over,
                parsed |-> Parsed(f.message.data), object |-> DecodeData(f.message)]
    BY <1>11 DEF Decode
<1>19. ~(Len(b) < Minimum) /\ ~(Len(b) < Len(m.data))
    BY <1>1, <1>2, <1>3, <1>4, <1>13 DEF Minimum
<1>20. f.message = m /\ f.checksum = c /\ f.stx /\ f.over = 0
    BY <1>12
<1> QED
    BY <1>5, <1>13, <1>14, <1>15, <1>17, <1>18, <1>19, <1>20


\* The frame of a message that can be carried has the parts of the message.
LEMMA EncodedPlaces ==
    ASSUME NEW m, Carried(m), NEW w, Has(w, 0, Encode(m))
    PROVE  /\ Encode(m) \in Seq(Byte)
           /\ Len(Encode(m)) = DataAt(m.origin, m.remote) + Len(m.data)
           /\ \E c \in Byte : /\ Placed(w, m.origin, m.remote, m.ttl, SizeBytes(Len(m.data)), m.options, c, m.data)
                              /\ Checked(m.options) => calculate_checksum(m) = c
<1>1. PICK o \in Seq(Byte), r \in Seq(Byte), d \in Seq(Byte), t \in Byte, x \in Byte :
          o = m.origin /\ r = m.remote /\ d = m.data /\ t = m.ttl /\ x = m.options
    BY CarriedTypes
<1>2. Len(o) \in Byte /\ Len(r) \in Byte
    BY <1>1, CarriedTypes
<1>3. PICK z \in Seq(Byte) : z = SizeBytes(Len(d)) /\ Len(z) = Digits
    BY <1>1, CarriedTypes
<1>4. \A c : Layout(m, c) =
          (<<SOH, VERSION, Len(o)>> \o o \o <<Len(r)>> \o r \o <<t>> \o z \o <<x, c, STX>>) \o d \o <<ETX>>
    BY <1>1, <1>3 DEF Layout
<1>5. ASSUME NEW c \in Byte, NEW b, Has(b, 0, Layout(m, c))
      PROVE  /\ Layout(m, c) \in Seq(Byte) /\ Len(Layout(m, c)) = 9 + Digits + Len(o) + Len(r) + Len(d)
             /\ Placed(b, o, r, t, z, x, c, d)
    <2>1. PICK f : f = Layout(m, c)
        OBVIOUS
    <2>2. f = (<<SOH, VERSION, Len(o)>> \o o \o <<Len(r)>> \o r \o <<t>> \o z \o <<x, c, STX>>) \o d \o <<ETX>>
        BY <1>4, <2>1
    <2>3. Has(b, 0, f)
        BY <1>5, <2>1
    <2>4. Framed(b, f, o, r, t, z, x, c, d)
        BY <1>2, <1>3, <2>2, <2>3, FramePlaces
    <2> QED
        BY <2>1, <2>4 DEF Framed
<1>6. 0 \in Byte
    BY BaseProperties DEF Byte
<1>7. calculate_checksum(m) \in Byte
    <2>1. Has(Layout(m, 0), 0, Layout(m, 0))
        BY DEF Has
    <2>2. Layout(m, 0) \in Seq(Byte)
        BY <1>5, <1>6, <2>1
    <2> QED
        BY <2>2, ChecksumIsByte DEF calculate_checksum
<1>8. PICK c \in Byte : Encode(m) = Layout(m, c) /\ (Checked(m.options) => calculate_checksum(m) = c)
    BY <1>6, <1>7 DEF Encode
<1>9. /\ Encode(m) \in Seq(Byte) /\ Len(Encode(m)) = 9 + Digits + Len(o) + Len(r) + Len(d)
      /\ Placed(w, o, r, t, z, x, c, d)
    BY <1>5, <1>8
<1>10. 9 + Digits + Len(o) + Len(r) + Len(d) = DataAt(o, r) + Len(d)
    <2>1. Len(o) \in Nat /\ Len(r) \in Nat /\ Len(d) \in Nat /\ Digits \in Nat
        BY LenProperties, BaseProperties
    <2> QED
        BY <2>1 DEF DataAt
<1> QED
    BY <1>1, <1>3, <1>8, <1>9, <1>10

\* A message that can be carried is made of its fields.
LEMMA CarriedIsMade ==
    ASSUME NEW m, Carried(m)
    PROVE  m = Made(m.origin, m.remote, m.ttl, m.options, m.data)
BY DEF Carried, Messages, Made

\* What octopipes_decode accepts of the first bytes behind which the frame of m
\* began, reading nothing beyond them, is m.
LEMMA HeardInPart ==
    ASSUME NEW m, Carried(m), NEW w, Has(w, 0, Encode(m)),
           NEW b, Len(b) \in Nat, Alike(b, Len(b), w), NEW fill,
           Decode(b, fill).rc = "SUCCESS", Decode(b, fill).over = 0
    PROVE  Decode(b, fill).message = m
<1>1. PICK o \in Seq(Byte), r \in Seq(Byte), d \in Seq(Byte), t \in Byte, x \in Byte :
          o = m.origin /\ r = m.remote /\ d = m.data /\ t = m.ttl /\ x = m.options
    BY CarriedTypes
<1>2. PICK z \in Seq(Byte) : z = SizeBytes(Len(d)) /\ Len(z) = Digits /\ SizeOf(z) = Len(d)
    BY <1>1, CarriedTypes
<1>3. PICK c \in Byte : Placed(w, o, r, t, z, x, c, d)
    BY <1>1, <1>2, EncodedPlaces
<1>4. Decode(b, fill).message = Made(o, r, t, x, d)
    BY <1>2, <1>3, PartHeard
<1> QED
    BY <1>1, <1>4, CarriedIsMade

\* What octopipes_decode makes of a whole message.
Heard(m) ==
    [rc |-> "SUCCESS", message |-> m, over |-> 0, parsed |-> Parsed(m.data), object |-> DecodeData(m)]

\* octopipes_decode makes m of bytes that begin with the frame of m and end where a frame ends.
LEMMA HeardWhole ==
    ASSUME NEW m, Carried(m), NEW w, Has(w, 0, Encode(m)),
           NEW b, Len(b) \in Nat, Alike(b, Len(b), w), NEW fill,
           Len(Encode(m)) <= Len(b), b[Len(b)] = ETX
    PROVE  Decode(b, fill) = Heard(m)
<1>1. PICK o \in Seq(Byte), r \in Seq(Byte), d \in Seq(Byte), t \in Byte, x \in Byte :
          o = m.origin /\ r = m.remote /\ d = m.data /\ t = m.ttl /\ x = m.options
    BY CarriedTypes
<1>2. PICK z \in Seq(Byte) : z = SizeBytes(Len(d)) /\ Len(z) = Digits /\ SizeOf(z) = Len(d)
    BY <1>1, CarriedTypes
<1>3. PICK c \in Byte : Placed(w, o, r, t, z, x, c, d) /\ (Checked(x) => calculate_checksum(m) = c)
    BY <1>1, <1>2, EncodedPlaces
<1>4. DataAt(o, r) + Len(d) <= Len(b)
    BY <1>1, EncodedPlaces
<1>5. m = Made(o, r, t, x, d)
    BY <1>1, CarriedIsMade
<1>6. Decode(b, fill) = [rc |-> "SUCCESS", message |-> m, over |-> 0,
                         parsed |-> Parsed(d), object |-> DecodeData(m)]
    BY <1>2, <1>3, <1>4, <1>5, WholeDecoded
<1> QED
    BY <1>1, <1>6 DEF Heard

\* A frame ends with ETX.
LEMMA FrameEnds ==
    ASSUME NEW m, Carried(m), NEW w, Has(w, 0, Encode(m))
    PROVE  /\ Encode(m) \in Seq(Byte) /\ Len(Encode(m)) \in Nat /\ Len(Encode(m)) > 0
           /\ w[Len(Encode(m))] = ETX
<1>1. PICK lo, lr, ld : lo = Len(m.origin) /\ lr = Len(m.remote) /\ ld = Len(m.data)
    OBVIOUS
<1>2. lo \in Nat /\ lr \in Nat /\ ld \in Nat /\ Digits \in Nat
    BY <1>1, CarriedTypes, BaseProperties
<1>3. Len(Encode(m)) = 9 + lo + lr + Digits + ld /\ Encode(m) \in Seq(Byte)
    BY <1>1, EncodedPlaces DEF DataAt
<1>4. w[9 + lo + lr + Digits + ld] = ETX
    BY <1>1, EncodedPlaces DEF Placed
<1> QED
    BY <1>2, <1>3, <1>4


-----------------------------------------------------------------------------
(* Payloads of the CAP *)

\* A name no longer than a byte can hold is kept, and no name is made longer.
LEMMA NarrowProperties ==
    ASSUME NEW name \in Name
    PROVE  /\ Narrow(name) \in Seq(Byte) /\ Len(Narrow(name)) = Len(name) % Base
           /\ Len(Narrow(name)) \in Byte /\ Len(Narrow(name)) <= Len(name)
           /\ Len(name) < Base => Narrow(name) = name
<1>1. name \in Seq(Byte)
    BY DEF Name
<1>2. PICK n \in Nat : n = Len(name)
    BY <1>1, LenProperties
<1>3. PICK l : l = n % Base
    OBVIOUS
<1>4. l \in Byte /\ l \in Nat /\ l <= n /\ (n < Base => l = n)
    <2>1. l \in Byte /\ l <= n /\ (n < Base => l = n)
        BY <1>3, Division
    <2> QED
        BY <2>1, BaseProperties DEF Byte
<1>5. \A i \in 1..n : name[i] \in Byte
    BY <1>1, <1>2, ElementOfSeq
<1>6. \A i \in 1..l : name[i] \in Byte
    BY <1>4, <1>5
<1>7. /\ SubSeq(name, 1, l) \in Seq(Byte)
      /\ Len(SubSeq(name, 1, l)) = (IF 1 <= l THEN l - 1 + 1 ELSE 0)
      /\ \A i \in 1..(l - 1 + 1) : SubSeq(name, 1, l)[i] = name[1 + i - 1]
    BY <1>4, <1>6, SubSeqProperties
<1>8. PICK u : u = SubSeq(name, 1, l)
    OBVIOUS
<1>9. u \in Seq(Byte) /\ Len(u) = l /\ \A i \in 1..l : u[i] = name[i]
    BY <1>4, <1>7, <1>8
<1>10. n < Base => u = name
    <2> SUFFICES ASSUME n < Base
                 PROVE  u = name
        OBVIOUS
    <2>1. Len(u) = Len(name) /\ \A i \in 1..Len(u) : u[i] = name[i]
        BY <1>2, <1>4, <1>9
    <2> QED
        BY <1>1, <1>9, <2>1, SeqEqual
<1>11. Narrow(name) = u
    BY <1>2, <1>3, <1>8 DEF Narrow
<1> QED
    BY <1>2, <1>3, <1>4, <1>9, <1>10, <1>11

\* One group behind those before it.
WithGroup(x, group) == x \o <<Len(group) % Base>> \o group

\* payload[k] holds the first k groups.
Payload(payload, groups) ==
    /\ payload \in [0..Len(groups) -> Seq(Byte)]
    /\ payload[0] = <<SUBSCRIPTION, Len(groups) % Base>>
    /\ \A k \in 1..Len(groups) : payload[k] = WithGroup(payload[k - 1], groups[k])

LEMMA GroupBehind ==
    ASSUME NEW x \in Seq(Byte), NEW group \in Seq(Byte)
    PROVE  WithGroup(x, group) \in Seq(Byte)
<1>1. Len(group) % Base \in Byte
    BY LenProperties, Division
<1>2. <<Len(group) % Base>> \in Seq(Byte)
    BY <1>1
<1>3. x \o <<Len(group) % Base>> \in Seq(Byte)
    BY <1>2, ConcatProperties
<1> QED
    BY <1>3, ConcatProperties DEF WithGroup

LEMMA PreparedPayload ==
    ASSUME NEW groups \in Seq(Name)
    PROVE  \E payload : Payload(payload, groups) /\ PrepareSubscription(groups) = payload[Len(groups)]
<1>1. Len(groups) \in Nat /\ \A k \in 1..Len(groups) : groups[k] \in Seq(Byte)
    BY LenProperties, ElementOfSeq DEF Name
<1>2. PICK T, first, n : T = Seq(Byte) /\ first = <<SUBSCRIPTION, Len(groups) % Base>> /\ n = Len(groups)
    OBVIOUS
<1>3. PICK step : step = [k \in 1..n |-> [x \in T |-> WithGroup(x, groups[k])]]
    OBVIOUS
<1>4. first \in T /\ n \in Nat /\ step \in [1..n -> [T -> T]]
    <2>1. \A k \in 1..n, x \in T : WithGroup(x, groups[k]) \in T
        BY <1>1, <1>2, GroupBehind
    <2>2. SUBSCRIPTION \in Byte /\ Len(groups) % Base \in Byte
        BY <1>1, Division, BaseProperties DEF SUBSCRIPTION, Byte
    <2>3. first \in T
        BY <1>2, <2>2
    <2> QED
        BY <1>1, <1>2, <1>3, <2>1, <2>3
<1>5. PICK f : Follows(f, n, T, first, step)
    BY <1>4, Recursion
<1> DEFINE Prepares(p) == p = [k \in 0..Len(groups) |->
                                 IF k = 0 THEN <<SUBSCRIPTION, Len(groups) % Base>>
                                 ELSE WithGroup(p[k - 1], groups[k])]
<1>6. Prepares(f)
    <2>1. \A k \in 1..n : f[k - 1] \in T /\ step[k][f[k - 1]] = WithGroup(f[k - 1], groups[k])
        BY <1>3, <1>4, <1>5 DEF Follows
    <2>2. f[0] = first /\ \A k \in 1..n : f[k] = WithGroup(f[k - 1], groups[k])
        BY <1>5, <2>1 DEF Follows
    <2>3. \A k \in 0..n : f[k] = IF k = 0 THEN first ELSE WithGroup(f[k - 1], groups[k])
        BY <1>4, <2>2
    <2>4. f = [k \in 0..n |-> f[k]]
        BY <1>5 DEF Follows
    <2>5. f = [k \in 0..n |-> IF k = 0 THEN first ELSE WithGroup(f[k - 1], groups[k])]
        BY <2>3, <2>4
    <2> QED
        BY <1>2, <2>5
<1>7. PICK s : s = CHOOSE p : Prepares(p)
    OBVIOUS
<1>8. Prepares(s)
    <2> HIDE DEF Prepares
    <2> QED
        BY <1>6, <1>7
<1>9. PICK q : q = s
    OBVIOUS
<1>10. s = [k \in 0..n |-> IF k = 0 THEN first ELSE WithGroup(q[k - 1], groups[k])]
    BY <1>2, <1>8, <1>9
<1>11. s[0] = first /\ \A k \in 1..n : s[k] = WithGroup(s[k - 1], groups[k])
    BY <1>4, <1>9, <1>10
<1>12. \A k \in 0..n : s[k] \in T
    <2> DEFINE S == {k \in 0..n : s[k] \in T}
    <2>1. 0 \in S
        BY <1>4, <1>11
    <2>2. \A k \in 1..n : k - 1 \in S => k \in S
        BY <1>1, <1>2, <1>4, <1>11, GroupBehind
    <2> HIDE DEF S
    <2>3. \A k \in 0..n : k \in S
        BY <1>4, <2>1, <2>2, UpTo
    <2> QED
        BY <2>3 DEF S
<1>13. s \in [0..n -> T]
    BY <1>10, <1>12
<1>14. PrepareSubscription(groups) = s[n]
    BY <1>2, <1>7 DEF PrepareSubscription, WithGroup
<1>15. Payload(s, groups)
    BY <1>2, <1>11, <1>13 DEF Payload
<1> QED
    BY <1>2, <1>14, <1>15


-----------------------------------------------------------------------------
(* Messages *)

\* What a caller gives for each kind of message.
LEMMA RequestFields ==
    ASSUME NEW r \in First \cup Later
    PROVE  /\ r.kind \in {"send", "object", "subscribe", "unsubscribe", "assign"}
           /\ r.id \in Name
           /\ r.kind = "send" => /\ r.remote \in Name /\ r.data \in Name
                                 /\ r.ttl \in Byte /\ r.options \in Byte
           /\ r.kind = "object" => /\ r.remote \in Name /\ r.data \in Name
                                   /\ r.ttl \in Int /\ r.options \in Byte
           /\ r.kind = "subscribe" => r.groups \in Seq(Name)
           /\ r.kind = "assign" => /\ r.error \in Byte /\ r.tx \in Name /\ r.rx \in Name
                                   /\ r.error # 0 => r.tx = <<>> /\ r.rx = <<>>
<1>1. r \in Requests
    BY RequestsAssumption
<1>2. CASE r \in [kind : {"send"}, id : Name, remote : Name, data : Name, ttl : Byte, options : Byte]
    BY <1>2
<1>3. CASE r \in [kind : {"object"}, id : Name, remote : Name, data : Name, ttl : Int, options : Byte]
    BY <1>3
<1>4. CASE r \in [kind : {"subscribe"}, id : Name, groups : Seq(Name)]
    BY <1>4
<1>5. CASE r \in [kind : {"unsubscribe"}, id : Name]
    BY <1>5
<1>6. CASE r \in [kind : {"assign"}, id : Name, error : Byte, tx : Name, rx : Name]
           /\ (r.error # 0 => r.tx = <<>> /\ r.rx = <<>>)
    BY <1>6
<1> QED
    BY <1>1, <1>2, <1>3, <1>4, <1>5, <1>6 DEF Requests

\* The message built for each kind.
LEMMA MessageFields ==
    ASSUME NEW r, NEW hit
    PROVE  /\ r.kind = "send" =>
                  Message(r, hit) = Made(SentOrigin(r.id, r.remote), SentRemote(r.id, r.remote, hit),
                                         r.ttl, r.options, r.data)
           /\ r.kind = "object" =>
                  Message(r, hit) = Made(Narrow(r.id), Narrow(r.remote), r.ttl % Base, r.options, r.data)
           /\ r.kind = "subscribe" =>
                  Message(r, hit) = Made(Narrow(r.id), <<>>, 5, 0, PrepareSubscription(r.groups))
           /\ r.kind = "unsubscribe" =>
                  Message(r, hit) = Made(Narrow(r.id), <<>>, 5, 0, PrepareUnsubscription)
           /\ r.kind = "assign" =>
                  Message(r, hit) = Made(<<>>, Narrow(r.id), 5, 0, PrepareAssign(r.error, r.tx, r.rx))
BY DEF Message, Made

\* A name sent with some of its characters set to 0 has as many characters.
LEMMA SentNames ==
    ASSUME NEW id \in Name, NEW remote \in Name, NEW hit
    PROVE  /\ SentOrigin(id, remote) \in Seq(Byte) /\ Len(SentOrigin(id, remote)) = Len(Narrow(id))
           /\ SentRemote(id, remote, hit) \in Seq(Byte)
           /\ Len(SentRemote(id, remote, hit)) = Len(Narrow(remote))
<1>1. PICK n \in Nat, l \in Nat : n = Len(Narrow(id)) /\ l = Len(Narrow(remote))
    BY NarrowProperties, LenProperties
<1>2. n <= Len(id) /\ l <= Len(remote)
    BY <1>1, NarrowProperties
<1>3. (\A i \in 1..n : id[i] \in Byte) /\ (\A i \in 1..l : remote[i] \in Byte)
    BY <1>2, LenProperties, ElementOfSeq DEF Name
<1>4. 0 \in Byte
    BY BaseProperties DEF Byte
<1>5. PICK o : o = SentOrigin(id, remote)
    OBVIOUS
<1>6. o = [i \in 1..n |-> IF i = l + 1 THEN 0 ELSE id[i]]
    BY <1>1, <1>5 DEF SentOrigin
<1>7. o \in [1..n -> Byte]
    BY <1>3, <1>4, <1>6
<1>8. o \in Seq(Byte) /\ Len(o) = n
    BY <1>7, SeqDef, LenProperties
<1>9. PICK p : p = SentRemote(id, remote, hit)
    OBVIOUS
<1>10. p = [i \in 1..l |-> IF i = hit /\ l > n THEN 0 ELSE remote[i]]
    BY <1>1, <1>9 DEF SentRemote
<1>11. p \in [1..l -> Byte]
    BY <1>3, <1>4, <1>10
<1>12. p \in Seq(Byte) /\ Len(p) = l
    BY <1>11, SeqDef, LenProperties
<1> QED
    BY <1>1, <1>5, <1>8, <1>9, <1>12

\* The payloads of the CAP are bytes.
LEMMA PayloadsAreBytes ==
    /\ \A groups \in Seq(Name) : PrepareSubscription(groups) \in Seq(Byte)
    /\ PrepareUnsubscription \in Seq(Byte)
    /\ \A error \in Byte, tx \in Name, rx \in Name : PrepareAssign(error, tx, rx) \in Seq(Byte)
<1>1. ASSUME NEW groups \in Seq(Name)
      PROVE  PrepareSubscription(groups) \in Seq(Byte)
    BY PreparedPayload, LenProperties DEF Payload
<1>2. PrepareUnsubscription \in Seq(Byte)
    BY BaseProperties DEF PrepareUnsubscription, UNSUBSCRIPTION, Byte
<1>3. ASSUME NEW error \in Byte, NEW tx \in Name, NEW rx \in Name
      PROVE  PrepareAssign(error, tx, rx) \in Seq(Byte)
    <2>1. ASSIGNMENT \in Byte /\ Len(tx) % Base \in Byte /\ Len(rx) % Base \in Byte
        <3>1. ASSIGNMENT \in Byte
            BY BaseProperties DEF ASSIGNMENT, Byte
        <3>2. Len(tx) \in Nat /\ Len(rx) \in Nat
            BY LenProperties DEF Name
        <3> QED
            BY <3>1, <3>2, Division
    <2>2. <<ASSIGNMENT, error, Len(tx) % Base>> \in Seq(Byte) /\ <<Len(rx) % Base>> \in Seq(Byte)
        BY <2>1
    <2>3. tx \in Seq(Byte) /\ rx \in Seq(Byte)
        BY DEF Name
    <2> QED
        BY <2>2, <2>3, ConcatProperties DEF PrepareAssign
<1> QED
    BY <1>1, <1>2, <1>3

\* A message with fields like these can be carried.
LEMMA MadeIsCarried ==
    ASSUME NEW o \in Seq(Byte), NEW r \in Seq(Byte), NEW t \in Byte, NEW x \in Byte, NEW d \in Seq(Byte),
           Len(o) < Base, Len(r) < Base, Shifted(Len(d))[Digits] = 0
    PROVE  Carried(Made(o, r, t, x, d))
BY DEF Carried, Messages, Made, Name

\* Every message that is built can be carried.
LEMMA MessageIsCarried ==
    ASSUME NEW r \in First \cup Later, NEW hit
    PROVE  Carried(Message(r, hit))
<1>1. Shifted(Len(Message(r, 0).data))[Digits] = 0
    BY SizesAssumption
<1>2. \A o, q, t, x, d : Made(o, q, t, x, d).data = d
    BY DEF Made
<1>3. Narrow(r.id) \in Seq(Byte) /\ Len(Narrow(r.id)) < Base
    BY RequestFields, NarrowProperties, BaseProperties DEF Byte
<1>4. 0 \in Byte /\ 5 \in Byte /\ <<>> \in Seq(Byte) /\ Len(<<>>) < Base
    BY BaseProperties DEF Byte
<1>5. CASE r.kind = "send"
    <2>1. Narrow(r.remote) \in Seq(Byte) /\ Len(Narrow(r.remote)) < Base
        BY <1>5, RequestFields, NarrowProperties, BaseProperties DEF Byte
    <2>2. PICK o \in Seq(Byte), p \in Seq(Byte) :
              /\ o = SentOrigin(r.id, r.remote) /\ p = SentRemote(r.id, r.remote, hit)
              /\ Len(o) < Base /\ Len(p) < Base
        BY <1>3, <1>5, <2>1, RequestFields, SentNames
    <2>3. Message(r, hit) = Made(o, p, r.ttl, r.options, r.data) /\ Message(r, 0).data = r.data
        BY <1>2, <1>5, <2>2, MessageFields
    <2>4. r.ttl \in Byte /\ r.options \in Byte /\ r.data \in Seq(Byte)
        BY <1>5, RequestFields DEF Name
    <2> QED
        BY <1>1, <2>2, <2>3, <2>4, MadeIsCarried
<1>6. CASE r.kind = "object"
    <2>1. Narrow(r.remote) \in Seq(Byte) /\ Len(Narrow(r.remote)) < Base
        BY <1>6, RequestFields, NarrowProperties, BaseProperties DEF Byte
    <2>2. Message(r, hit) = Made(Narrow(r.id), Narrow(r.remote), r.ttl % Base, r.options, r.data)
          /\ Message(r, 0).data = r.data
        BY <1>2, <1>6, MessageFields
    <2>3. r.ttl % Base \in Byte /\ r.options \in Byte /\ r.data \in Seq(Byte)
        <3>1. r.ttl \in Int /\ Base \in Nat /\ Base > 0
            BY <1>6, RequestFields, BaseProperties
        <3> QED
            BY <1>6, <3>1, RequestFields DEF Name, Byte
    <2> QED
        BY <1>1, <1>3, <2>1, <2>2, <2>3, MadeIsCarried
<1>7. CASE r.kind = "subscribe"
    <2>1. PICK d \in Seq(Byte) : d = PrepareSubscription(r.groups)
        BY <1>7, RequestFields, PayloadsAreBytes
    <2>2. Message(r, hit) = Made(Narrow(r.id), <<>>, 5, 0, d) /\ Message(r, 0).data = d
        BY <1>2, <1>7, <2>1, MessageFields
    <2> QED
        BY <1>1, <1>3, <1>4, <2>2, MadeIsCarried
<1>8. CASE r.kind = "unsubscribe"
    <2>1. PICK d \in Seq(Byte) : d = PrepareUnsubscription
        BY PayloadsAreBytes
    <2>2. Message(r, hit) = Made(Narrow(r.id), <<>>, 5, 0, d) /\ Message(r, 0).data = d
        BY <1>2, <1>8, <2>1, MessageFields
    <2> QED
        BY <1>1, <1>3, <1>4, <2>2, MadeIsCarried
<1>9. CASE r.kind = "assign"
    <2>1. PICK d \in Seq(Byte) : d = PrepareAssign(r.error, r.tx, r.rx)
        BY <1>9, RequestFields, PayloadsAreBytes
    <2>2. Message(r, hit) = Made(<<>>, Narrow(r.id), 5, 0, d) /\ Message(r, 0).data = d
        BY <1>2, <1>9, <2>1, MessageFields
    <2> QED
        BY <1>1, <1>3, <1>4, <2>2, MadeIsCarried
<1> QED
    BY <1>5, <1>6, <1>7, <1>8, <1>9, RequestFields


-----------------------------------------------------------------------------
(* The invariant *)

\* The frames of one message or two.
Frames(messages) ==
    IF Len(messages) = 0 THEN <<>>
    ELSE IF Len(messages) = 1 THEN Encode(messages[1])
    ELSE Encode(messages[1]) \o Encode(messages[2])

Asking ==
    /\ asked \in Seq(First \cup Later) /\ Len(asked) <= 2
    /\ built \in Seq(Messages) /\ Len(built) = Len(asked)
    /\ \A i \in 1..Len(built) : Carried(built[i])
    /\ asked # <<>> => \E hit : built[1] = Message(asked[1], hit)

\* Until a receive the wire holds the frames of what was built.
Waiting == taken = 0 => heard = Nothing /\ wire = Frames(built)

\* After it, what was heard is a message that was sent or an error, and the
\* message when the receive ended where a frame ends.
Hearing ==
    taken > 0 =>
        /\ Len(built) >= 1
        /\ heard.rc \in {"SUCCESS", "BAD_PACKET", "BAD_CHECKSUM", "UNSUPPORTED_VERSION"}
        /\ heard.rc = "SUCCESS" /\ heard.over = 0 => heard.message = built[1]
        /\ WholeFrames => heard = Heard(built[1])

CodecInvariant ==
    /\ wire \in Seq(Byte) /\ taken \in Nat
    /\ Asking
    /\ Waiting
    /\ Hearing

\* The wire begins with the first frame, and ETX is where it and the last one end.
LEMMA FramesOnWire ==
    ASSUME NEW s, NEW w, Len(s) \in 1..2, \A i \in 1..Len(s) : Carried(s[i]), w = Frames(s)
    PROVE  /\ w \in Seq(Byte) /\ Has(w, 0, Encode(s[1]))
           /\ Len(Encode(s[1])) \in Nat /\ Len(Encode(s[1])) > 0 /\ Len(Encode(s[1])) <= Len(w)
           /\ w[Len(w)] = ETX /\ w[Len(Encode(s[1]))] = ETX
<1>1. PICK e : e = Encode(s[1])
    OBVIOUS
<1>2. Carried(s[1])
    OBVIOUS
<1>3. e \in Seq(Byte) /\ Len(e) \in Nat /\ Len(e) > 0
    <2>1. Has(e, 0, e)
        BY DEF Has
    <2> QED
        BY <1>1, <1>2, <2>1, FrameEnds
<1>4. CASE Len(s) = 1
    <2>1. w = e
        BY <1>1, <1>4 DEF Frames
    <2>2. Has(w, 0, e)
        BY <2>1 DEF Has
    <2>3. w[Len(e)] = ETX
        BY <1>1, <1>2, <2>2, FrameEnds
    <2> QED
        BY <1>1, <1>3, <2>1, <2>2, <2>3
<1>5. CASE Len(s) = 2
    <2>1. PICK f : f = Encode(s[2])
        OBVIOUS
    <2>2. Carried(s[2])
        BY <1>5
    <2>3. f \in Seq(Byte) /\ Len(f) \in Nat /\ Len(f) > 0 /\ f[Len(f)] = ETX
        <3>1. Has(f, 0, f)
            BY DEF Has
        <3> QED
            BY <2>1, <2>2, <3>1, FrameEnds
    <2>4. w = e \o f
        BY <1>1, <1>5, <2>1 DEF Frames
    <2>5. Has(w, 0, w)
        BY DEF Has
    <2>6. Has(w, 0, e) /\ Has(w, Len(e), f) /\ Len(w) = Len(e) + Len(f)
        BY <1>3, <2>3, <2>4, <2>5, Peeled DEF Peels
    <2>7. w[Len(e) + Len(f)] = ETX
        BY <2>3, <2>6 DEF Has
    <2>8. w[Len(e)] = ETX
        BY <1>1, <1>2, <2>6, FrameEnds
    <2>9. w \in Seq(Byte)
        BY <1>3, <2>3, <2>4, ConcatProperties
    <2> QED
        BY <1>1, <1>3, <2>3, <2>6, <2>7, <2>8, <2>9
<1> QED
    BY <1>4, <1>5

LEMMA InvariantBegins == Init => CodecInvariant
<1> SUFFICES ASSUME Init
             PROVE  CodecInvariant
    OBVIOUS
<1> USE DEF Init
<1>1. wire \in Seq(Byte) /\ taken \in Nat
    OBVIOUS
<1>2. Asking
    BY DEF Asking
<1>3. Waiting
    BY DEF Waiting, Frames
<1>4. Hearing
    BY DEF Hearing
<1> QED
    BY <1>1, <1>2, <1>3, <1>4 DEF CodecInvariant

LEMMA SendKeeps ==
    ASSUME CodecInvariant, NEW r \in First \cup Later, Send(r)
    PROVE  CodecInvariant'
<1>1. PICK hit : built' = Append(built, Message(r, hit)) /\ wire' = wire \o Encode(Message(r, hit))
    BY DEF Send
<1>2. PICK m : m = Message(r, hit)
    OBVIOUS
<1>3. Carried(m)
    BY <1>2, MessageIsCarried
<1>4. PICK e : e = Encode(m)
    OBVIOUS
<1>5. e \in Seq(Byte)
    <2>1. Has(e, 0, e)
        BY DEF Has
    <2> QED
        BY <1>3, <1>4, <2>1, FrameEnds
<1>6. built' = Append(built, m) /\ wire' = wire \o e
    BY <1>1, <1>2, <1>4
<1>7. taken = 0 /\ taken' = 0 /\ heard' = heard /\ asked' = Append(asked, r) /\ Len(asked) < 2
    BY DEF Send
<1>8. heard = Nothing /\ wire = Frames(built) /\ wire \in Seq(Byte)
    BY <1>7 DEF CodecInvariant, Waiting
<1>9. wire' \in Seq(Byte) /\ taken' \in Nat
    BY <1>5, <1>6, <1>7, <1>8, ConcatProperties
<1>10. PICK n \in 0..1 : n = Len(asked) /\ n = Len(built)
    BY <1>7, LenProperties DEF CodecInvariant, Asking
<1>11. /\ built' \in Seq(Messages) /\ Len(built') = n + 1 /\ built'[n + 1] = m
       /\ \A i \in 1..n : built'[i] = built[i]
    <2>1. m \in Messages /\ built \in Seq(Messages)
        BY <1>3 DEF Carried, CodecInvariant, Asking
    <2> QED
        BY <1>6, <1>10, <2>1, AppendProperties
<1>12. /\ asked' \in Seq(First \cup Later) /\ Len(asked') = n + 1 /\ asked'[n + 1] = r
       /\ \A i \in 1..n : asked'[i] = asked[i]
    BY <1>7, <1>10, AppendProperties DEF CodecInvariant, Asking
<1>13. Asking'
    <2>1. \A i \in 1..(n + 1) : Carried(built'[i])
        BY <1>3, <1>10, <1>11 DEF CodecInvariant, Asking
    <2>2. \E h : built'[1] = Message(asked'[1], h)
        <3>1. CASE n = 0
            <4>1. built'[1] = Message(asked'[1], hit)
                BY <1>2, <1>11, <1>12, <3>1
            <4> QED
                BY <4>1
        <3>2. CASE n = 1
            <4>1. asked # <<>>
                <5>1. Len(asked) = 1
                    BY <1>10, <3>2
                <5>2. asked = <<>> => Len(asked) = 0
                    OBVIOUS
                <5> QED
                    BY <5>1, <5>2
            <4>2. \E h : built[1] = Message(asked[1], h)
                BY <4>1 DEF CodecInvariant, Asking
            <4> QED
                BY <1>11, <1>12, <3>2, <4>2
        <3> QED
            BY <3>1, <3>2
    <2> QED
        BY <1>10, <1>11, <1>12, <2>1, <2>2 DEF Asking
<1>14. wire' = Frames(built')
    <2>1. CASE n = 0
        <3>1. wire = <<>>
            BY <1>8, <1>10, <2>1 DEF Frames
        <3>2. wire' = e
            BY <1>5, <1>6, <3>1, ConcatEmptySeq
        <3> QED
            BY <1>4, <1>11, <2>1, <3>2 DEF Frames
    <2>2. CASE n = 1
        <3>1. wire = Encode(built[1])
            BY <1>8, <1>10, <2>2 DEF Frames
        <3>2. Len(built') = 2 /\ built'[1] = built[1] /\ built'[2] = m
            BY <1>11, <2>2
        <3> QED
            BY <1>4, <1>6, <3>1, <3>2 DEF Frames
    <2> QED
        BY <2>1, <2>2
<1>15. Waiting' /\ Hearing'
    BY <1>7, <1>8, <1>14 DEF Waiting, Hearing
<1> QED
    BY <1>9, <1>13, <1>15 DEF CodecInvariant

LEMMA ReceiveKeeps ==
    ASSUME CodecInvariant, NEW n \in 1..Len(wire), Receive(n)
    PROVE  CodecInvariant'
<1>1. PICK fill : heard' = Decode(SubSeq(wire, 1, n), fill)
    BY DEF Receive
<1>2. /\ taken = 0 /\ taken' = n /\ wire' = SubSeq(wire, n + 1, Len(wire))
      /\ asked' = asked /\ built' = built
    BY DEF Receive
<1>3. wire \in Seq(Byte) /\ wire = Frames(built)
    BY <1>2 DEF CodecInvariant, Waiting
<1>4. PICK l \in Nat : l = Len(wire)
    BY <1>3, LenProperties
<1>5. n \in 1..l
    BY <1>4
<1>6. \A i \in 1..l : wire[i] \in Byte
    BY <1>3, <1>4, ElementOfSeq
<1>7. Len(built) \in 1..2
    <2>1. Len(built) # 0
        <3> SUFFICES ASSUME Len(built) = 0
                     PROVE  FALSE
            OBVIOUS
        <3>1. wire = <<>>
            BY <1>3 DEF Frames
        <3> QED
            BY <1>4, <1>5, <3>1
    <2> QED
        BY <2>1, LenProperties DEF CodecInvariant, Asking
<1>8. PICK first : first = built[1]
    OBVIOUS
<1>9. PICK e \in Nat : e = Len(Encode(first))
    BY <1>3, <1>7, <1>8, FramesOnWire DEF CodecInvariant, Asking
<1>10. /\ Has(wire, 0, Encode(first)) /\ e > 0 /\ e <= l /\ wire[l] = ETX /\ wire[e] = ETX
    BY <1>3, <1>4, <1>7, <1>8, <1>9, FramesOnWire DEF CodecInvariant, Asking
<1>11. Carried(first)
    BY <1>7, <1>8 DEF CodecInvariant, Asking
<1>12. PICK b : b = SubSeq(wire, 1, n)
    OBVIOUS
<1>13. Len(b) = n /\ Alike(b, n, wire)
    <2>1. 1 \in Int /\ n \in Int /\ \A i \in 1..n : wire[i] \in Byte
        BY <1>5, <1>6
    <2>2. Len(SubSeq(wire, 1, n)) = (IF 1 <= n THEN n - 1 + 1 ELSE 0)
          /\ \A i \in 1..(n - 1 + 1) : SubSeq(wire, 1, n)[i] = wire[1 + i - 1]
        BY <2>1, SubSeqProperties
    <2> QED
        BY <1>12, <2>2 DEF Alike
<1>14. heard' = Decode(b, fill)
    BY <1>1, <1>12
<1>15. wire' \in Seq(Byte) /\ Len(wire') = l - n
    <2>1. n + 1 \in Int /\ l \in Int /\ \A i \in (n + 1)..l : wire[i] \in Byte
        BY <1>5, <1>6
    <2>2. SubSeq(wire, n + 1, l) \in Seq(Byte)
          /\ Len(SubSeq(wire, n + 1, l)) = (IF n + 1 <= l THEN l - (n + 1) + 1 ELSE 0)
        BY <2>1, SubSeqProperties
    <2> QED
        BY <1>2, <1>4, <1>5, <2>2
<1>16. taken' \in Nat /\ taken' # 0
    BY <1>2, <1>5
<1>17. heard'.rc \in {"SUCCESS", "BAD_PACKET", "BAD_CHECKSUM", "UNSUPPORTED_VERSION"}
    BY <1>14, DecodeResults
<1>18. heard'.rc = "SUCCESS" /\ heard'.over = 0 => heard'.message = first
    BY <1>10, <1>11, <1>13, <1>14, HeardInPart
<1>19. WholeFrames' => heard' = Heard(first)
    <2> SUFFICES ASSUME WholeFrames'
                 PROVE  heard' = Heard(first)
        OBVIOUS
    <2>1. n = l \/ n = e
        <3>1. CASE wire' = <<>>
            <4>1. Len(wire') = 0
                BY <3>1
            <4> QED
                BY <1>5, <1>15, <4>1
        <3>2. CASE taken' = FirstFrame'
            <4>1. FirstFrame' = e
                BY <1>2, <1>8, <1>9 DEF FirstFrame
            <4> QED
                BY <1>2, <3>2, <4>1
        <3> QED
            BY <3>1, <3>2 DEF WholeFrames
    <2>2. wire[n] = ETX /\ e <= n
        BY <1>10, <2>1
    <2>3. b[n] = ETX
        BY <1>5, <1>13, <2>2 DEF Alike
    <2> QED
        BY <1>5, <1>9, <1>10, <1>11, <1>13, <1>14, <2>2, <2>3, HeardWhole
<1>20. Hearing'
    BY <1>2, <1>7, <1>8, <1>17, <1>18, <1>19 DEF Hearing
<1>21. Waiting'
    BY <1>16 DEF Waiting
<1>22. Asking'
    BY <1>2 DEF CodecInvariant, Asking
<1> QED
    BY <1>15, <1>16, <1>20, <1>21, <1>22 DEF CodecInvariant

THEOREM CodecInvariantHolds == Spec => []CodecInvariant
<1>1. CodecInvariant /\ [Next]_vars => CodecInvariant'
    <2> SUFFICES ASSUME CodecInvariant, [Next]_vars
                 PROVE  CodecInvariant'
        OBVIOUS
    <2>1. CASE \E r \in First \cup Later : Send(r)
        BY <2>1, SendKeeps
    <2>2. CASE \E n \in 1..Len(wire) : Receive(n)
        BY <2>2, ReceiveKeeps
    <2>3. CASE UNCHANGED vars
        BY <2>3 DEF vars, CodecInvariant, Asking, Waiting, Hearing, WholeFrames, FirstFrame
    <2> QED
        BY <2>1, <2>2, <2>3 DEF Next
<1> QED
    BY <1>1, InvariantBegins, PTL DEF Spec


\* Every byte of the wire is a byte, and octopipes_decode has no other results
\* (serializer.c:40-260).
THEOREM CodecTypes == Spec => []CodecTypeOK
<1>1. CodecInvariant => CodecTypeOK
    <2> SUFFICES ASSUME CodecInvariant
                 PROVE  CodecTypeOK
        OBVIOUS
    <2>1. wire \in Name /\ taken \in Nat /\ Len(built) = Len(asked)
        BY DEF CodecInvariant, Asking, Name
    <2>2. \A i \in DOMAIN built : built[i].origin \in Name /\ built[i].remote \in Name
        <3>1. \A i \in DOMAIN built : built[i] \in Messages
            BY DEF CodecInvariant, Asking
        <3> QED
            BY <3>1 DEF Messages
    <2>3. heard.rc \in {"none", "SUCCESS", "BAD_PACKET", "BAD_CHECKSUM", "UNSUPPORTED_VERSION"}
        <3>1. CASE taken = 0
            BY <3>1 DEF CodecInvariant, Waiting, Nothing
        <3>2. CASE taken > 0
            BY <3>2 DEF CodecInvariant, Hearing
        <3> QED
            BY <2>1, <3>1, <3>2
    <2> QED
        BY <2>1, <2>2, <2>3 DEF CodecTypeOK
<1> QED
    BY <1>1, CodecInvariantHolds, PTL

\* octopipes_decode inverts octopipes_encode (serializer.c:40-260), for names
\* and data of every length and every size of a byte and of a data size.
THEOREM DecodeInvertsEncode == Spec => []WholeHeard
<1>1. CodecInvariant => WholeHeard
    BY DEF CodecInvariant, Hearing, WholeHeard, WholeFrames, Heard
<1> QED
    BY <1>1, CodecInvariantHolds, PTL

\* No part of a frame, nor more than a frame, is accepted as another message
\* than the one sent, unless octopipes_decode reads beyond it (serializer.c:49-140).
THEOREM AcceptedAsSent == Spec => []AcceptedWasSent
<1>1. CodecInvariant => AcceptedWasSent
    <2> SUFFICES ASSUME CodecInvariant
                 PROVE  AcceptedWasSent
        OBVIOUS
    <2>1. CASE taken = 0
        BY <2>1 DEF CodecInvariant, Waiting, Nothing, AcceptedWasSent
    <2>2. CASE taken > 0
        BY <2>2 DEF CodecInvariant, Hearing, AcceptedWasSent
    <2> QED
        BY <2>1, <2>2 DEF CodecInvariant
<1> QED
    BY <1>1, CodecInvariantHolds, PTL

\* What was heard whole is what was made of the first request.
LEMMA FirstHeard ==
    ASSUME CodecInvariant, WholeFrames
    PROVE  /\ asked[1] \in First \cup Later
           /\ \E hit : heard = Heard(Message(asked[1], hit))
<1>1. taken > 0
    BY DEF WholeFrames
<1>2. Len(asked) \in Nat /\ Len(asked) >= 1 /\ heard = Heard(built[1])
    BY <1>1, LenProperties DEF CodecInvariant, Asking, Hearing
<1>3. asked # <<>>
    BY <1>2
<1>4. asked[1] \in First \cup Later
    BY <1>2, ElementOfSeq DEF CodecInvariant, Asking
<1>5. PICK hit : built[1] = Message(asked[1], hit)
    BY <1>3 DEF CodecInvariant, Asking
<1>6. heard = Heard(Message(asked[1], hit))
    BY <1>2, <1>5
<1> QED
    BY <1>4, <1>6

\* The names sent are those given when neither is cut by the other.
LEMMA NamesSent ==
    ASSUME NEW id \in Name, NEW remote \in Name, NEW hit, Len(id) < Base, Len(remote) < Base
    PROVE  /\ Len(remote) >= Len(id) => SentOrigin(id, remote) = id
           /\ Len(remote) <= Len(id) => SentRemote(id, remote, hit) = remote
<1>1. Narrow(id) = id /\ Narrow(remote) = remote
    BY NarrowProperties
<1>2. PICK n \in Nat, l \in Nat : n = Len(id) /\ l = Len(remote)
    BY LenProperties DEF Name
<1>3. id = [i \in 1..n |-> id[i]] /\ remote = [i \in 1..l |-> remote[i]]
    BY <1>2, LenProperties DEF Name
<1>4. ASSUME l >= n
      PROVE  SentOrigin(id, remote) = id
    <2>1. SentOrigin(id, remote) = [i \in 1..n |-> IF i = l + 1 THEN 0 ELSE id[i]]
        BY <1>1, <1>2 DEF SentOrigin
    <2>2. \A i \in 1..n : i # l + 1
        BY <1>4
    <2> QED
        BY <1>3, <2>1, <2>2
<1>5. ASSUME l <= n
      PROVE  SentRemote(id, remote, hit) = remote
    <2>1. SentRemote(id, remote, hit) = [i \in 1..l |-> IF i = hit /\ l > n THEN 0 ELSE remote[i]]
        BY <1>1, <1>2 DEF SentRemote
    <2>2. ~(l > n)
        BY <1>5
    <2> QED
        BY <1>3, <2>1, <2>2
<1> QED
    BY <1>2, <1>4, <1>5

\* A message heard whole carries what octopipes_send_ex was asked to send, but
\* for a name that is cut by the length of the other (client.c:396-420).
THEOREM HeardAsAsked == Spec => []AskedHeard
<1>1. CodecInvariant => AskedHeard
    <2> SUFFICES ASSUME CodecInvariant, WholeFrames, asked[1].kind = "send"
                 PROVE  LET r == asked[1]
                            m == heard.message
                        IN  /\ m.data = r.data /\ m.options = r.options /\ m.ttl = r.ttl
                            /\ (Len(r.id) < Base /\ Len(r.remote) < Base) =>
                                  /\ Len(r.remote) >= Len(r.id) => m.origin = r.id
                                  /\ Len(r.remote) <= Len(r.id) => m.remote = r.remote
        BY DEF AskedHeard
    <2>1. PICK r, hit : r \in First \cup Later /\ r = asked[1] /\ heard = Heard(Message(r, hit))
        BY FirstHeard
    <2>2. PICK m : m = heard.message
        OBVIOUS
    <2>3. m = Made(SentOrigin(r.id, r.remote), SentRemote(r.id, r.remote, hit), r.ttl, r.options, r.data)
        BY <2>1, <2>2, MessageFields DEF Heard
    <2>4. /\ m.data = r.data /\ m.options = r.options /\ m.ttl = r.ttl
          /\ m.origin = SentOrigin(r.id, r.remote) /\ m.remote = SentRemote(r.id, r.remote, hit)
        BY <2>3 DEF Made
    <2>5. r.id \in Name /\ r.remote \in Name
        BY <2>1, RequestFields
    <2>6. (Len(r.id) < Base /\ Len(r.remote) < Base) =>
              /\ Len(r.remote) >= Len(r.id) => m.origin = r.id
              /\ Len(r.remote) <= Len(r.id) => m.remote = r.remote
        BY <2>4, <2>5, NamesSent
    <2> QED
        BY <2>1, <2>2, <2>4, <2>6
<1> QED
    BY <1>1, CodecInvariantHolds, PTL

\* A name without a 0 is read whole.
LEMMA NameRead ==
    ASSUME NEW name \in Seq(Byte), \A i \in DOMAIN name : name[i] # 0
    PROVE  CString(name) = name
<1>1. \A i \in 1..Len(name) : name[i] # 0
    BY LenProperties
<1>2. {i \in 1..Len(name) : name[i] = 0} = {}
    BY <1>1
<1>3. SelectInSeq(name, LAMBDA c : c = 0) = 0
    BY <1>2 DEF SelectInSeq
<1> QED
    BY <1>3 DEF CString

\* A Message that one object encodes and another decodes is the same, for names
\* that are not empty and hold no 0 (message.cpp, encodeData and decodeData).
THEOREM ObjectsAreKept == Spec => []ObjectHeard
<1>1. CodecInvariant => ObjectHeard
    <2> SUFFICES ASSUME CodecInvariant, WholeFrames, asked[1].kind = "object",
                        Len(asked[1].id) < Base, Len(asked[1].remote) < Base
                 PROVE  LET r == asked[1]
                            o == heard.object
                        IN  /\ o.crash = (r.id = <<>> \/ r.remote = <<>>)
                            /\ o.payload = r.data /\ o.options = r.options /\ (r.ttl \in Byte => o.ttl = r.ttl)
                            /\ (\A i \in DOMAIN r.id : r.id[i] # 0) => o.origin = r.id
                            /\ (\A i \in DOMAIN r.remote : r.remote[i] # 0) => o.remote = r.remote
        BY DEF ObjectHeard
    <2>1. PICK r, hit : r \in First \cup Later /\ r = asked[1] /\ heard = Heard(Message(r, hit))
        BY FirstHeard
    <2>2. r.id \in Name /\ r.remote \in Name /\ r.ttl \in Int
        BY <2>1, RequestFields
    <2>3. Narrow(r.id) = r.id /\ Narrow(r.remote) = r.remote
        BY <2>1, <2>2, NarrowProperties
    <2>4. PICK m : m = Made(r.id, r.remote, r.ttl % Base, r.options, r.data) /\ m = Message(r, hit)
        BY <2>1, <2>3, MessageFields
    <2>5. PICK o : o = heard.object /\ o = DecodeData(m)
        BY <2>1, <2>4 DEF Heard
    <2>6. /\ o.crash = (r.id = <<>> \/ r.remote = <<>>)
          /\ o.payload = r.data /\ o.options = r.options /\ o.ttl = r.ttl % Base
          /\ o.origin = CString(r.id) /\ o.remote = CString(r.remote)
        BY <2>4, <2>5 DEF DecodeData, Made
    <2>7. r.ttl \in Byte => o.ttl = r.ttl
        <3>1. PICK t : t = r.ttl
            OBVIOUS
        <3>2. t \in Byte => t % Base = t
            <4>1. t \in Byte => t \in Nat
                BY BaseProperties DEF Byte
            <4> QED
                BY <4>1, ByteIsKept
        <3> QED
            BY <2>6, <3>1, <3>2
    <2>8. /\ (\A i \in DOMAIN r.id : r.id[i] # 0) => o.origin = r.id
          /\ (\A i \in DOMAIN r.remote : r.remote[i] # 0) => o.remote = r.remote
        BY <2>2, <2>6, NameRead DEF Name
    <2> QED
        BY <2>1, <2>5, <2>6, <2>7, <2>8
<1> QED
    BY <1>1, CodecInvariantHolds, PTL


-----------------------------------------------------------------------------
(* The payloads of the CAP, parsed *)

\* The pipes of an assignment are parsed as they were prepared.
LEMMA AssignParsed ==
    ASSUME NEW error \in Byte, NEW tx \in Seq(Byte), NEW rx \in Seq(Byte), Len(tx) < Base, Len(rx) < Base,
           error # 0 => tx = <<>> /\ rx = <<>>
    PROVE  Parsed(PrepareAssign(error, tx, rx)) = [rc |-> "SUCCESS", error |-> error, tx |-> tx, rx |-> rx]
<1>1. PICK lt \in Nat, lr \in Nat : lt = Len(tx) /\ lr = Len(rx)
    BY LenProperties
<1>2. lt % Base = lt /\ lr % Base = lr /\ lt \in Byte /\ lr \in Byte /\ ASSIGNMENT \in Byte
    <2>1. ASSIGNMENT \in Byte
        BY BaseProperties DEF Byte, ASSIGNMENT
    <2> QED
        BY <1>1, <2>1, ByteIsKept
<1>3. PICK p1, p3 : p1 = <<ASSIGNMENT, error, lt>> /\ p3 = <<lr>>
    OBVIOUS
<1>4. /\ p1 \in Seq(Byte) /\ Len(p1) = 3 /\ p1[1] = ASSIGNMENT /\ p1[2] = error /\ p1[3] = lt
      /\ p3 \in Seq(Byte) /\ Len(p3) = 1 /\ p3[1] = lr
    BY <1>2, <1>3
<1>5. PICK w2 : w2 = p1 \o tx
    OBVIOUS
<1>6. PICK w3 : w3 = w2 \o p3
    OBVIOUS
<1>7. PICK data : data = w3 \o rx
    OBVIOUS
<1>8. data = PrepareAssign(error, tx, rx)
    BY <1>1, <1>2, <1>3, <1>5, <1>6, <1>7 DEF PrepareAssign
<1>9. w2 \in Seq(Byte)
    BY <1>4, <1>5, ConcatProperties
<1>10. w3 \in Seq(Byte)
    BY <1>4, <1>6, <1>9, ConcatProperties
<1>11. Peels(data, data, w3, rx)
    <2>1. Has(data, 0, data)
        BY DEF Has
    <2> QED
        BY <1>7, <1>10, <2>1, Peeled
<1>12. Peels(data, w3, w2, p3)
    <2>1. Has(data, 0, w3)
        BY <1>11 DEF Peels
    <2> QED
        BY <1>4, <1>6, <1>9, <2>1, Peeled
<1>13. Peels(data, w2, p1, tx)
    <2>1. Has(data, 0, w2)
        BY <1>12 DEF Peels
    <2> QED
        BY <1>4, <1>5, <2>1, Peeled
<1>14. /\ Has(data, 0, p1) /\ Has(data, 3, tx) /\ Len(w2) = 3 + lt
       /\ Has(data, 3 + lt, p3) /\ Len(w3) = 3 + lt + 1 /\ Has(data, 3 + lt + 1, rx)
       /\ Len(data) = 3 + lt + 1 + lr
    BY <1>1, <1>4, <1>11, <1>12, <1>13 DEF Peels
<1>15. data[1] = ASSIGNMENT /\ data[2] = error /\ data[3] = lt
    <2>1. data[0 + 1] = p1[1] /\ data[0 + 2] = p1[2] /\ data[0 + 3] = p1[3]
        BY <1>4, <1>14 DEF Has
    <2> QED
        BY <1>4, <2>1
<1>16. PICK r \in Nat : r = 4 + lt
    OBVIOUS
<1>17. 4 + data[3] = r /\ 3 + lt + 1 = r
    BY <1>15, <1>16
<1>18. data[r] = lr
    <2>1. data[3 + lt + 1] = p3[1]
        BY <1>4, <1>14 DEF Has
    <2> QED
        BY <1>4, <1>17, <2>1
<1>19. Len(data) = r + lr /\ Has(data, r, rx)
    BY <1>14, <1>17
<1>20. SubSeq(data, 4, r - 1) = tx
    <2>1. SubSeq(data, 3 + 1, 3 + Len(tx)) = tx
        BY <1>14, Cut
    <2>2. r - 1 = 3 + Len(tx)
        BY <1>1, <1>16
    <2> QED
        BY <2>1, <2>2
<1>21. SubSeq(data, r + 1, r + data[r]) = rx
    <2>1. SubSeq(data, r + 1, r + Len(rx)) = rx
        BY <1>19, Cut
    <2> QED
        BY <1>1, <1>18, <2>1
<1>22. ~(Len(data) < 4 \/ data[1] # ASSIGNMENT) /\ ~(r > Len(data) \/ r + data[r] > Len(data))
    BY <1>15, <1>16, <1>18, <1>19
<1>23. ParseAssign(data) =
           LET refused == [rc |-> "BAD_PACKET", error |-> 0, tx |-> <<>>, rx |-> <<>>]
           IN  IF Len(data) < 4 \/ data[1] # ASSIGNMENT THEN refused
               ELSE IF data[2] # 0 THEN [rc |-> "SUCCESS", error |-> data[2], tx |-> <<>>, rx |-> <<>>]
               ELSE IF r > Len(data) \/ r + data[r] > Len(data) THEN refused
               ELSE [rc |-> "SUCCESS", error |-> 0, tx |-> SubSeq(data, 4, r - 1),
                     rx |-> SubSeq(data, r + 1, r + data[r])]
    BY <1>17 DEF ParseAssign
<1>24. ParseAssign(data) = [rc |-> "SUCCESS", error |-> error, tx |-> tx, rx |-> rx]
    BY <1>15, <1>20, <1>21, <1>22, <1>23
<1>25. Parsed(data) = ParseAssign(data)
    <2>1. data # <<>>
        BY <1>14
    <2>2. ASSIGNMENT # SUBSCRIPTION
        BY BaseProperties DEF ASSIGNMENT, SUBSCRIPTION
    <2>3. GetMessage(data) = ASSIGNMENT /\ GetMessage(data) # SUBSCRIPTION
        BY <1>15, <2>1, <2>2 DEF GetMessage
    <2>4. ASSIGNMENT # UNSUBSCRIPTION
        BY BaseProperties DEF ASSIGNMENT, UNSUBSCRIPTION
    <2> QED
        BY <2>3, <2>4 DEF Parsed
<1> QED
    BY <1>8, <1>24, <1>25


\* A group is behind those before it, its length first.
LEMMA GroupPlaces ==
    ASSUME NEW x \in Seq(Byte), NEW group \in Seq(Byte), NEW w, w = WithGroup(x, group),
           NEW b, Has(b, 0, w)
    PROVE  /\ Has(b, 0, x) /\ b[Len(x) + 1] = Len(group) % Base /\ Has(b, Len(x) + 1, group)
           /\ Len(w) = Len(x) + 1 + Len(group) /\ Len(x) \in Nat /\ Len(group) \in Nat
<1>1. Len(x) \in Nat /\ Len(group) \in Nat
    BY LenProperties
<1>2. PICK s : s = <<Len(group) % Base>>
    OBVIOUS
<1>3. s \in Seq(Byte) /\ Len(s) = 1 /\ s[1] = Len(group) % Base
    <2>1. Len(group) % Base \in Byte
        BY <1>1, Division
    <2> QED
        BY <1>2, <2>1
<1>4. PICK y : y = x \o s
    OBVIOUS
<1>5. y \in Seq(Byte)
    BY <1>3, <1>4, ConcatProperties
<1>6. w = y \o group
    BY <1>2, <1>4 DEF WithGroup
<1>7. Peels(b, w, y, group)
    BY <1>5, <1>6, Peeled
<1>8. Has(b, 0, y)
    BY <1>7 DEF Peels
<1>9. Peels(b, y, x, s)
    BY <1>3, <1>4, <1>8, Peeled
<1>10. b[Len(x) + 1] = s[1]
    BY <1>3, <1>9 DEF Peels, Has
<1> QED
    BY <1>1, <1>3, <1>7, <1>9, <1>10 DEF Peels

\* The whole payload has every part of it, and none is longer.
LEMMA PayloadParts ==
    ASSUME NEW groups \in Seq(Name), NEW p, Payload(p, groups),
           NEW n \in Nat, n = Len(groups), NEW b, Has(b, 0, p[n])
    PROVE  \A k \in 0..n : Has(b, 0, p[k]) /\ Len(p[k]) <= Len(p[n]) /\ Len(p[k]) \in Nat
<1>1. p \in [0..n -> Seq(Byte)] /\ \A k \in 1..n : p[k] = WithGroup(p[k - 1], groups[k])
    BY DEF Payload
<1>2. \A k \in 1..n : groups[k] \in Seq(Byte)
    BY ElementOfSeq DEF Name
<1>3. \A k \in 0..n : p[k] \in Seq(Byte) /\ Len(p[k]) \in Nat
    BY <1>1, LenProperties
<1> DEFINE S == {j \in 0..n : Has(b, 0, p[n - j]) /\ Len(p[n - j]) <= Len(p[n])}
<1>4. 0 \in S
    <2>1. n - 0 = n /\ 0 \in 0..n /\ n \in 0..n
        OBVIOUS
    <2> QED
        BY <1>3, <2>1
<1>5. ASSUME NEW j \in 1..n, j - 1 \in S
      PROVE  j \in S
    <2>0. n - (j - 1) \in 1..n
        OBVIOUS
    <2>9. PICK k \in 1..n : k = n - (j - 1)
        BY <2>0
    <2>1. k = n - (j - 1) /\ n - j = k - 1 /\ k - 1 \in 0..n /\ k \in 0..n /\ j \in 0..n
        BY <2>9
    <2>2. PICK x \in Seq(Byte), g \in Seq(Byte), w \in Seq(Byte) : x = p[k - 1] /\ g = groups[k] /\ w = p[k]
        BY <1>2, <1>3, <2>1
    <2>3. w = WithGroup(x, g)
        BY <1>1, <2>2
    <2>4. Has(b, 0, w) /\ Len(w) <= Len(p[n])
        BY <1>5, <2>1, <2>2
    <2>5. Has(b, 0, x) /\ Len(w) = Len(x) + 1 + Len(g) /\ Len(x) \in Nat /\ Len(g) \in Nat
        BY <2>3, <2>4, GroupPlaces
    <2>6. PICK l \in Nat : l = Len(p[n])
        BY <1>3
    <2>7. Len(x) <= Len(p[n])
        BY <2>4, <2>5, <2>6
    <2>8. Has(b, 0, p[n - j]) /\ Len(p[n - j]) <= Len(p[n])
        BY <2>1, <2>2, <2>5, <2>7
    <2> QED
        BY <2>1, <2>8
<1>6. \A j \in 0..n : j \in S
    <2> HIDE DEF S
    <2> QED
        BY <1>4, <1>5, UpTo
<1>7. ASSUME NEW k \in 0..n
      PROVE  Has(b, 0, p[k]) /\ Len(p[k]) <= Len(p[n])
    <2>1. n - k \in 0..n /\ n - (n - k) = k
        OBVIOUS
    <2>2. n - k \in S
        BY <1>6, <2>1
    <2>3. Has(b, 0, p[n - (n - k)]) /\ Len(p[n - (n - k)]) <= Len(p[n])
        BY <2>2
    <2> QED
        BY <2>1, <2>3
<1> QED
    BY <1>3, <1>7

\* What octopipes_cap_parse_subscribe has read of a payload when k groups are read.
ReadTo(p, groups, k) == [at |-> Len(p[k]) + 1, groups |-> SubSeq(groups, 1, k), broken |-> FALSE]

\* The next group is read where the one before it ended.
LEMMA GroupRead ==
    ASSUME NEW groups \in Seq(Name), NEW p, Payload(p, groups),
           NEW n \in Nat, n = Len(groups), \A i \in 1..n : Len(groups[i]) < Base,
           NEW k \in 1..n
    PROVE  GroupAfter(p[n], ReadTo(p, groups, k - 1)) = ReadTo(p, groups, k)
<1>1. PICK data : data = p[n]
    OBVIOUS
<1>2. p \in [0..n -> Seq(Byte)] /\ p[k] = WithGroup(p[k - 1], groups[k]) /\ k - 1 \in 0..n /\ k \in 0..n
    BY DEF Payload
<1>3. PICK x \in Seq(Byte), g \in Seq(Byte), w \in Seq(Byte) : x = p[k - 1] /\ g = groups[k] /\ w = p[k]
    BY <1>2, ElementOfSeq DEF Name
<1>4. Has(data, 0, w) /\ Len(w) <= Len(data) /\ Len(data) \in Nat
    <2>1. Has(data, 0, data)
        BY DEF Has
    <2>2. Has(data, 0, p[n])
        BY <1>1, <2>1
    <2>3. \A j \in 0..n : Has(data, 0, p[j]) /\ Len(p[j]) <= Len(p[n]) /\ Len(p[j]) \in Nat
        BY <2>2, PayloadParts
    <2> QED
        BY <1>1, <1>2, <1>3, <2>3
<1>5. /\ data[Len(x) + 1] = Len(g) % Base /\ Has(data, Len(x) + 1, g)
      /\ Len(w) = Len(x) + 1 + Len(g) /\ Len(x) \in Nat /\ Len(g) \in Nat
    <2>1. w = WithGroup(x, g)
        BY <1>2, <1>3
    <2> QED
        BY <1>4, <2>1, GroupPlaces
<1>6. Len(g) % Base = Len(g)
    BY <1>3, <1>5, ByteIsKept
<1>7. PICK a \in Nat, size \in Nat : a = Len(x) + 1 /\ size = Len(g)
    BY <1>5
<1>8. data[a] = size /\ Has(data, a, g) /\ Len(w) = a + size
    BY <1>5, <1>6, <1>7
<1>9. ~(a > Len(data)) /\ ~(a + size > Len(data))
    BY <1>4, <1>7, <1>8
<1>10. SubSeq(data, a + 1, a + size) = g
    BY <1>7, <1>8, Cut
<1>11. PICK before, after : before = ReadTo(p, groups, k - 1) /\ after = ReadTo(p, groups, k)
    OBVIOUS
<1>12. before = [at |-> a, groups |-> SubSeq(groups, 1, k - 1), broken |-> FALSE]
    BY <1>3, <1>7, <1>11 DEF ReadTo
<1>13. after = [at |-> a + size + 1, groups |-> SubSeq(groups, 1, k), broken |-> FALSE]
    BY <1>3, <1>8, <1>11 DEF ReadTo
<1>14. Append(SubSeq(groups, 1, k - 1), g) = SubSeq(groups, 1, k)
    <2>1. \A i \in 1..n : groups[i] \in Name
        BY ElementOfSeq
    <2>2. PICK j \in 0..n : j = k - 1 /\ j + 1 = k
        OBVIOUS
    <2>3. \A i \in 1..j : groups[i] \in Name
        BY <2>1
    <2>4. SubSeq(groups, 1, j) \in Seq(Name) /\ Len(SubSeq(groups, 1, j)) = (IF 1 <= j THEN j - 1 + 1 ELSE 0)
          /\ \A i \in 1..(j - 1 + 1) : SubSeq(groups, 1, j)[i] = groups[1 + i - 1]
        BY <2>3, SubSeqProperties
    <2>5. \A i \in 1..k : groups[i] \in Name
        BY <2>1
    <2>6. SubSeq(groups, 1, k) \in Seq(Name) /\ Len(SubSeq(groups, 1, k)) = (IF 1 <= k THEN k - 1 + 1 ELSE 0)
          /\ \A i \in 1..(k - 1 + 1) : SubSeq(groups, 1, k)[i] = groups[1 + i - 1]
        BY <2>5, SubSeqProperties
    <2>7. PICK s \in Seq(Name), t \in Seq(Name) : s = SubSeq(groups, 1, j) /\ t = SubSeq(groups, 1, k)
        BY <2>4, <2>6
    <2>8. Len(s) = j /\ \A i \in 1..j : s[i] = groups[i]
        BY <2>4, <2>7
    <2>9. Len(t) = k /\ \A i \in 1..k : t[i] = groups[i]
        BY <2>6, <2>7
    <2>10. PICK u : u = Append(s, g)
        OBVIOUS
    <2>11. g \in Name
        BY DEF Name
    <2>12. u \in Seq(Name) /\ Len(u) = j + 1 /\ (\A i \in 1..j : u[i] = s[i]) /\ u[j + 1] = g
        <3>1. /\ Append(s, g) \in Seq(Name) /\ Len(Append(s, g)) = Len(s) + 1
              /\ \A i \in 1..Len(s) : Append(s, g)[i] = s[i]
              /\ Append(s, g)[Len(s) + 1] = g
            BY <2>11, AppendProperties
        <3> QED
            BY <2>8, <2>10, <3>1
    <2>13. \A i \in 1..k : u[i] = t[i]
        <3> TAKE i \in 1..k
        <3>1. CASE i \in 1..j
            BY <2>8, <2>9, <2>12, <3>1
        <3>2. CASE i = k
            BY <1>3, <2>2, <2>9, <2>12, <3>2
        <3>3. i \in 1..j \/ i = k
            BY <2>2
        <3> QED
            BY <3>1, <3>2, <3>3
    <2>14. u = t
        BY <2>2, <2>9, <2>12, <2>13, SeqEqual
    <2> QED
        BY <2>2, <2>7, <2>10, <2>14
<1>15. GroupAfter(data, before) = after
    <2>1. before.at = a /\ ~before.broken /\ before.groups = SubSeq(groups, 1, k - 1)
        BY <1>12
    <2>2. GroupAfter(data, before) = [before EXCEPT !.at = a + size + 1, !.groups = Append(SubSeq(groups, 1, k - 1), g)]
        BY <1>8, <1>9, <1>10, <2>1 DEF GroupAfter
    <2> QED
        BY <1>12, <1>13, <1>14, <2>2
<1> QED
    BY <1>1, <1>11, <1>15


\* Where the groups begin, and their number.
LEMMA PayloadBegins ==
    ASSUME NEW groups \in Seq(Name), Len(groups) < Base, NEW p, Payload(p, groups),
           NEW n \in Nat, n = Len(groups)
    PROVE  /\ p[n] \in Seq(Byte) /\ Len(p[n]) >= 2 /\ Len(p[n]) \in Nat
           /\ p[n][1] = SUBSCRIPTION /\ p[n][2] = n
           /\ ReadTo(p, groups, 0) = [at |-> 3, groups |-> <<>>, broken |-> FALSE]
<1>1. p \in [0..n -> Seq(Byte)] /\ p[0] = <<SUBSCRIPTION, n % Base>> /\ n % Base = n
    BY ByteIsKept DEF Payload
<1>2. PICK x : x = p[0]
    OBVIOUS
<1>3. Len(x) = 2 /\ x[1] = SUBSCRIPTION /\ x[2] = n
    BY <1>1, <1>2
<1>4. Has(p[n], 0, p[n])
    BY DEF Has
<1>5. \A k \in 0..n : Has(p[n], 0, p[k]) /\ Len(p[k]) <= Len(p[n]) /\ Len(p[k]) \in Nat
    BY <1>4, PayloadParts
<1>6. 0 \in 0..n /\ n \in 0..n
    OBVIOUS
<1>7. Has(p[n], 0, x) /\ Len(x) <= Len(p[n]) /\ Len(p[n]) \in Nat
    BY <1>2, <1>5, <1>6
<1>8. p[n][0 + 1] = x[1] /\ p[n][0 + 2] = x[2]
    BY <1>3, <1>7 DEF Has
<1>9. SubSeq(groups, 1, 0) = <<>>
    BY SubSeqEmpty
<1>10. ReadTo(p, groups, 0) = [at |-> 3, groups |-> <<>>, broken |-> FALSE]
    <2>1. Len(p[0]) + 1 = 3
        BY <1>2, <1>3
    <2>2. ReadTo(p, groups, 0) = [at |-> Len(p[0]) + 1, groups |-> SubSeq(groups, 1, 0), broken |-> FALSE]
        BY DEF ReadTo
    <2> QED
        BY <1>9, <2>1, <2>2
<1> QED
    BY <1>1, <1>3, <1>6, <1>7, <1>8, <1>10

\* The groups of a subscription are parsed as they were prepared.
LEMMA SubscriptionParsed ==
    ASSUME NEW groups \in Seq(Name), Len(groups) < Base,
           \A i \in 1..Len(groups) : Len(groups[i]) < Base
    PROVE  Parsed(PrepareSubscription(groups)) = [rc |-> "SUCCESS", groups |-> groups, wild |-> 0]
<1>1. PICK p : Payload(p, groups) /\ PrepareSubscription(groups) = p[Len(groups)]
    BY PreparedPayload
<1>2. PICK n \in Nat : n = Len(groups)
    BY LenProperties
<1>3. PICK data : data = p[n]
    OBVIOUS
<1>4. PICK first : first = [at |-> 3, groups |-> <<>>, broken |-> FALSE]
    OBVIOUS
<1>5. /\ Len(data) >= 2 /\ Len(data) \in Nat /\ data[1] = SUBSCRIPTION /\ data[2] = n
      /\ ReadTo(p, groups, 0) = first
    BY <1>1, <1>2, <1>3, <1>4, PayloadBegins
<1>6. \A k \in 1..n : GroupAfter(data, ReadTo(p, groups, k - 1)) = ReadTo(p, groups, k)
    BY <1>1, <1>2, <1>3, GroupRead
<1> DEFINE Reads(f) == f = [k \in 0..data[2] |->
                              IF k = 0 THEN [at |-> 3, groups |-> <<>>, broken |-> FALSE]
                              ELSE GroupAfter(data, f[k - 1])]
<1>7. \E f : Reads(f)
    <2>1. PICK f : f = [k \in 0..n |-> ReadTo(p, groups, k)]
        OBVIOUS
    <2>2. f[0] = first /\ \A k \in 1..n : f[k] = GroupAfter(data, f[k - 1])
        <3>1. f[0] = first
            BY <1>5, <2>1
        <3>2. ASSUME NEW k \in 1..n
              PROVE  f[k] = GroupAfter(data, f[k - 1])
            <4>1. f[k] = ReadTo(p, groups, k) /\ f[k - 1] = ReadTo(p, groups, k - 1)
                BY <2>1
            <4> QED
                BY <1>6, <4>1
        <3> QED
            BY <3>1, <3>2
    <2>3. \A k \in 0..n : f[k] = IF k = 0 THEN first ELSE GroupAfter(data, f[k - 1])
        BY <2>2
    <2>4. f = [k \in 0..n |-> f[k]]
        BY <2>1
    <2>5. f = [k \in 0..n |-> IF k = 0 THEN first ELSE GroupAfter(data, f[k - 1])]
        BY <2>3, <2>4
    <2>6. Reads(f)
        BY <1>4, <1>5, <2>5
    <2> HIDE DEF Reads
    <2> QED
        BY <2>6
<1>8. PICK s : s = CHOOSE f : Reads(f)
    OBVIOUS
<1>9. Reads(s)
    <2> HIDE DEF Reads
    <2> QED
        BY <1>7, <1>8
<1>10. PICK q : q = s
    OBVIOUS
<1>11. s = [k \in 0..n |-> IF k = 0 THEN first ELSE GroupAfter(data, q[k - 1])]
    BY <1>4, <1>5, <1>9, <1>10
<1>12. s[0] = first /\ \A k \in 1..n : s[k] = GroupAfter(data, s[k - 1])
    BY <1>10, <1>11
<1>13. s[n] = ReadTo(p, groups, n)
    <2> DEFINE S == {k \in 0..n : s[k] = ReadTo(p, groups, k)}
    <2>1. 0 \in S
        BY <1>5, <1>12
    <2>2. ASSUME NEW k \in 1..n, k - 1 \in S
          PROVE  k \in S
        <3>1. s[k - 1] = ReadTo(p, groups, k - 1)
            BY <2>2
        <3>2. s[k] = ReadTo(p, groups, k)
            BY <1>6, <1>12, <3>1
        <3> QED
            BY <3>2
    <2> HIDE DEF S
    <2>3. \A k \in 0..n : k \in S
        BY <2>1, <2>2, UpTo
    <2> QED
        BY <2>3 DEF S
<1>14. SubSeq(groups, 1, n) = groups
    <2>1. \A i \in 1..n : groups[i] \in Name
        BY <1>2, ElementOfSeq
    <2>2. SubSeq(groups, 1, n) \in Seq(Name) /\ Len(SubSeq(groups, 1, n)) = (IF 1 <= n THEN n - 1 + 1 ELSE 0)
          /\ \A i \in 1..(n - 1 + 1) : SubSeq(groups, 1, n)[i] = groups[1 + i - 1]
        BY <2>1, SubSeqProperties
    <2>3. PICK t : t = SubSeq(groups, 1, n)
        OBVIOUS
    <2>4. t \in Seq(Name) /\ Len(t) = n /\ \A i \in 1..n : t[i] = groups[i]
        BY <2>2, <2>3
    <2>5. t = groups
        BY <1>2, <2>4, SeqEqual
    <2> QED
        BY <2>3, <2>5
<1>15. PICK all : all = s[data[2]]
    OBVIOUS
<1>16. all.broken = FALSE /\ all.groups = groups
    BY <1>5, <1>13, <1>14, <1>15 DEF ReadTo
<1>17. ParseSubscribe(data) =
           IF Len(data) < 2 \/ data[1] # SUBSCRIPTION
           THEN [rc |-> "BAD_PACKET", groups |-> <<>>, wild |-> 0]
           ELSE IF all.broken THEN [rc |-> "BAD_PACKET", groups |-> <<>>, wild |-> 1]
           ELSE [rc |-> "SUCCESS", groups |-> all.groups, wild |-> data[2] - Len(all.groups)]
    BY <1>8, <1>15 DEF ParseSubscribe
<1>18. ~(Len(data) < 2 \/ data[1] # SUBSCRIPTION) /\ data[2] - Len(all.groups) = 0
    BY <1>2, <1>5, <1>16
<1>19. ParseSubscribe(data) = [rc |-> "SUCCESS", groups |-> groups, wild |-> 0]
    BY <1>16, <1>17, <1>18
<1>20. Parsed(data) = ParseSubscribe(data)
    <2>1. data # <<>>
        BY <1>5
    <2>2. GetMessage(data) = SUBSCRIPTION
        BY <1>5, <2>1 DEF GetMessage
    <2>3. SUBSCRIPTION # ASSIGNMENT /\ SUBSCRIPTION # UNSUBSCRIPTION
        BY BaseProperties DEF SUBSCRIPTION, ASSIGNMENT, UNSUBSCRIPTION
    <2> QED
        BY <2>2, <2>3 DEF Parsed
<1> QED
    BY <1>1, <1>2, <1>3, <1>19, <1>20

\* The groups of a subscription and the pipes of an assignment arrive as they
\* were given, and no group is left unset, whatever their number and lengths,
\* as long as a byte can hold them (cap.c:37-98, 139-240).
THEOREM ParsedIsAsked == Spec => []ParsedAsAsked
<1>1. CodecInvariant => ParsedAsAsked
    <2> SUFFICES ASSUME CodecInvariant, WholeFrames
                 PROVE  ParsedAsAsked
        BY DEF ParsedAsAsked
    <2>1. PICK r, hit : r \in First \cup Later /\ r = asked[1] /\ heard = Heard(Message(r, hit))
        BY FirstHeard
    <2>2. PICK parsed : parsed = heard.parsed /\ parsed = Parsed(Message(r, hit).data)
        BY <2>1 DEF Heard
    <2>3. ASSUME r.kind = "subscribe", Len(r.groups) < Base,
                 \A i \in DOMAIN r.groups : Len(r.groups[i]) < Base
          PROVE  parsed.rc = "SUCCESS" /\ parsed.groups = r.groups /\ parsed.wild = 0
        <3>1. PICK groups \in Seq(Name) : groups = r.groups
            BY <2>1, <2>3, RequestFields
        <3>2. parsed = Parsed(PrepareSubscription(groups))
            BY <2>2, <2>3, <3>1, MessageFields DEF Made
        <3>3. Len(groups) < Base /\ \A i \in 1..Len(groups) : Len(groups[i]) < Base
            BY <2>3, <3>1, LenProperties
        <3>4. parsed = [rc |-> "SUCCESS", groups |-> groups, wild |-> 0]
            BY <3>2, <3>3, SubscriptionParsed
        <3> QED
            BY <3>1, <3>4
    <2>4. ASSUME r.kind = "assign", Len(r.tx) < Base, Len(r.rx) < Base
          PROVE  parsed = [rc |-> "SUCCESS", error |-> r.error, tx |-> r.tx, rx |-> r.rx]
        <3>1. PICK error \in Byte, tx \in Seq(Byte), rx \in Seq(Byte) :
                  /\ error = r.error /\ tx = r.tx /\ rx = r.rx
                  /\ error # 0 => tx = <<>> /\ rx = <<>>
            BY <2>1, <2>4, RequestFields DEF Name
        <3>2. parsed = Parsed(PrepareAssign(error, tx, rx))
            BY <2>2, <2>4, <3>1, MessageFields DEF Made
        <3>3. Len(tx) < Base /\ Len(rx) < Base
            BY <2>4, <3>1
        <3>4. parsed = [rc |-> "SUCCESS", error |-> error, tx |-> tx, rx |-> rx]
            BY <3>1, <3>2, <3>3, AssignParsed
        <3> QED
            BY <3>1, <3>4
    <2> QED
        BY <2>1, <2>2, <2>3, <2>4 DEF ParsedAsAsked
<1> QED
    BY <1>1, CodecInvariantHolds, PTL
=============================================================================
