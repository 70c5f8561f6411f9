-------------------------- MODULE IntrinsicsProofs --------------------------
(***************************************************************************)
(* What holds of the registers of a program, whatever the widths of the    *)
(* integers and the literals, after any sequence of intrinsics.            *)
(***************************************************************************)
EXTENDS Intrinsics, TLAPS

-----------------------------------------------------------------------------
(* Division.                                                               *)

LEMMA DivMod ==
  ASSUME NEW n \in Int, NEW f \in Nat \ {0}
  PROVE  /\ n \div f \in Int /\ n % f \in 0 .. f - 1
         /\ n = f * (n \div f) + (n % f)
  BY Z3T(30)

(* There is one quotient and one remainder.                                *)
LEMMA ModUnique ==
  ASSUME NEW n \in Int, NEW f \in Nat \ {0}, NEW q \in Int, NEW r \in 0 .. f - 1,
         n = q * f + r
  PROVE  n % f = r /\ n \div f = q
<1> DEFINE d == n \div f
           m == n % f
<1>1. d \in Int /\ m \in 0 .. f - 1 /\ n = f * d + m
  BY DivMod
<1> HIDE DEF d, m
<1>2. d - q \in Int /\ (d - q) * f = r - m
  BY <1>1, Z3T(30)
<1>3. ASSUME NEW x \in Int, x >= 1 PROVE x * f >= f
  <2>1. x - 1 \in Nat /\ (x - 1) * f \in Nat
    BY <1>3
  <2>2. (x - 1) * f = x * f - f
    BY <1>3
  <2> QED  BY <1>3, <2>1, <2>2
<1>4. ~ (d - q >= 1)
  <2> SUFFICES ASSUME d - q >= 1 PROVE FALSE
    OBVIOUS
  <2>1. (d - q) * f >= f
    BY <1>2, <1>3
  <2> QED  BY <1>1, <1>2, <2>1
<1>5. ~ (q - d >= 1)
  <2> SUFFICES ASSUME q - d >= 1 PROVE FALSE
    OBVIOUS
  <2>1. q - d \in Int /\ (q - d) * f >= f
    BY <1>1, <1>3
  <2>2. (q - d) * f = m - r
    BY <1>1, <1>2
  <2> QED  BY <1>1, <2>1, <2>2
<1>6. d = q
  BY <1>1, <1>4, <1>5
<1> QED  BY <1>1, <1>6 DEF d, m

LEMMA Divides ==
  ASSUME NEW n \in Nat \ {0}, NEW f \in Nat \ {0}, n % f = 0
  PROVE  f <= n /\ \E q \in Nat \ {0} : n = q * f
<1> DEFINE q == n \div f
<1>1. q \in Int /\ n = f * q + (n % f)
  BY DivMod
<1> HIDE DEF q
<1>2. f * q \in Int /\ n = f * q
  BY <1>1
<1>3. q >= 1
  <2> SUFFICES ASSUME q <= 0 PROVE FALSE
    BY <1>1
  <2>1. - q \in Nat /\ f * (- q) \in Nat
    BY <1>1
  <2>2. f * (- q) = - (f * q)
    BY <1>1
  <2> QED  BY <1>2, <2>1, <2>2
<1>4. f * (q - 1) \in Nat /\ f * (q - 1) = f * q - f
  BY <1>1, <1>3
<1>5. n = q * f /\ q \in Nat \ {0}
  BY <1>1, <1>2, <1>3
<1> QED  BY <1>2, <1>4, <1>5

(* Half of the values of a signed type are negative.                       *)
Half(n) == Span[n] \div 2

LEMMA SpanFacts ==
  ASSUME NEW n \in 1 .. 4
  PROVE  /\ Span[n] \in Nat \ {0} /\ Half(n) \in Nat \ {0} /\ Span[n] = 2 * Half(n)
         /\ All \in Nat \ {0} /\ Span[n] <= All
         /\ \A m \in 1 .. n : Half(m) <= Half(n) /\ Span[m] <= Span[n]
         /\ n # 4 => 2 * Span[n] <= All
         /\ \E q \in Nat \ {0} : All = q * Span[n]
<1>1. ASSUME NEW m \in 1 .. 4
      PROVE  Span[m] \in Nat \ {0} /\ Half(m) \in Nat \ {0} /\ Span[m] = 2 * Half(m)
  <2>1. Span[m] \in Nat \ {0} /\ Span[m] % 2 = 0
    BY SpanAssumption
  <2>2. Half(m) \in Int /\ Span[m] = 2 * Half(m) + (Span[m] % 2)
    BY <2>1, DivMod DEF Half
  <2> QED  BY <2>1, <2>2
<1>2. ASSUME NEW l \in 1 .. 4, NEW m \in 1 .. 4, l <= m
      PROVE  Span[l] <= Span[m] /\ \E q \in Nat \ {0} : Span[m] = q * Span[l]
  <2>1. Span[m] % Span[l] = 0
    BY <1>2, SpanAssumption
  <2>2. Span[l] \in Nat \ {0} /\ Span[m] \in Nat \ {0}
    BY <1>1
  <2> QED  BY <2>1, <2>2, Divides
<1>3. n <= 4 /\ 4 \in 1 .. 4 /\ \A m \in 1 .. n : m \in 1 .. 4 /\ m <= n
  OBVIOUS
<1>4. All \in Nat \ {0} /\ Span[n] <= All /\ \E q \in Nat \ {0} : All = q * Span[n]
  BY <1>1, <1>2, <1>3 DEF All
<1>5. ASSUME NEW m \in 1 .. n PROVE Half(m) <= Half(n) /\ Span[m] <= Span[n]
  <2>1. Span[m] <= Span[n]
    BY <1>2, <1>3
  <2>2. /\ Span[m] = 2 * Half(m) /\ Half(m) \in Nat
        /\ Span[n] = 2 * Half(n) /\ Half(n) \in Nat
    BY <1>1, <1>3
  <2> QED  BY <2>1, <2>2
<1>6. n # 4 => 2 * Span[n] <= All
  <2>1. Span[n] <= Span[3] \/ n = 4
    BY <1>2
  <2>2. Span[3] \in Nat /\ 2 * Span[3] <= All
    BY <1>1, SpanAssumption DEF All
  <2> QED  BY <1>1, <1>4, <2>1, <2>2
<1> QED  BY <1>1, <1>4, <1>5, <1>6

-----------------------------------------------------------------------------
(* Words.                                                                  *)

LEMMA AllFacts ==
  /\ All \in Nat \ {0} /\ Half(4) \in Nat \ {0, 1} /\ All = 2 * Half(4) /\ All >= 4
  /\ Words = 0 .. All - 1 /\ {0, 1, 2} \subseteq Words
<1>1. Span[3] \in Nat \ {0} /\ Half(3) \in Nat \ {0} /\ Span[3] = 2 * Half(3) /\ 2 * Span[3] <= All
  BY SpanFacts
<1>2. All \in Nat \ {0} /\ Half(4) \in Nat \ {0} /\ All = 2 * Half(4)
  BY SpanFacts DEF All
<1>3. All >= 4
  BY <1>1, <1>2
<1> QED  BY <1>2, <1>3 DEF Words

LEMMA WordType ==
  ASSUME NEW n \in Int
  PROVE  Word(n) \in Words
BY DivMod, AllFacts DEF Word

(* Arithmetic on the words of small values is that of integers.            *)
LEMMA WordValue ==
  /\ \A n \in Words : Word(n) = n
  /\ \A n \in - All .. -1 : Word(n) = n + All
<1> USE AllFacts
<1>1. ASSUME NEW n \in Words PROVE Word(n) = n
  <2>1. n = 0 * All + n /\ n \in 0 .. All - 1 /\ n \in Int
    BY DEF Words
  <2> QED  BY <2>1, ModUnique, SMTT(30) DEF Word
<1>2. ASSUME NEW n \in - All .. -1 PROVE Word(n) = n + All
  <2>1. n = (-1) * All + (n + All) /\ n + All \in 0 .. All - 1 /\ -1 \in Int /\ n \in Int
    OBVIOUS
  <2> QED  BY <2>1, ModUnique DEF Word
<1> QED  BY <1>1, <1>2

LEMMA SignedRange ==
  ASSUME NEW n \in Int, NEW k \in 1 .. 4
  PROVE  SignOf(n, Span[k]) \in - Half(k) .. Half(k) - 1
<1>1. Span[k] \in Nat \ {0} /\ Half(k) \in Nat /\ Span[k] = 2 * Half(k)
  BY SpanFacts
<1>2. n % Span[k] \in 0 .. Span[k] - 1
  BY <1>1, DivMod
<1> DEFINE m == n % Span[k]
<1>3. SignOf(n, Span[k]) = IF m < Half(k) THEN m ELSE m - Span[k]
  BY DEF SignOf, Half
<1> HIDE DEF m
<1>4. m \in 0 .. Span[k] - 1
  BY <1>2 DEF m
<1> QED  BY <1>1, <1>3, <1>4

(* The words of the values of a signed type...                             *)
LEMMA ExtendedWord ==
  ASSUME NEW k \in 1 .. 4, NEW x \in - Half(k) .. Half(k) - 1
  PROVE  Word(x) \in Extended(k)
<1>1. Half(k) \in Nat \ {0} /\ 2 * Half(k) <= All /\ All \in Nat
  BY SpanFacts
<1>2. CASE x >= 0
  BY <1>1, <1>2, WordValue DEF Extended, Half, Words
<1>3. CASE x < 0
  BY <1>1, <1>3, WordValue DEF Extended, Half
<1> QED  BY <1>1, <1>2, <1>3

LEMMA ExtendedIsWord ==
  ASSUME NEW k \in 1 .. 4
  PROVE  Extended(k) \subseteq Words /\ \A m \in 1 .. k : Extended(m) \subseteq Extended(k)
<1>1. /\ Half(k) \in Nat \ {0} /\ 2 * Half(k) <= All /\ All \in Nat
      /\ \A m \in 1 .. k : Half(m) <= Half(k)
  BY SpanFacts
<1>2. \A m \in 1 .. k : Half(m) \in Nat
  <2>1. \A m \in 1 .. k : m \in 1 .. 4
    OBVIOUS
  <2> QED  BY <2>1, SpanFacts
<1> QED  BY <1>1, <1>2 DEF Extended, Half, Words

(* ... are those a register of the type holds once it is extended.         *)
LEMMA SignExtension ==
  ASSUME NEW k \in 1 .. 4, NEW w \in Words
  PROVE  w \in Extended(k) <=> w = Word(SignOf(w, Span[k]))
<1>1. /\ Half(k) \in Nat \ {0} /\ Span[k] \in Nat \ {0} /\ Span[k] = 2 * Half(k)
      /\ Span[k] <= All /\ All \in Nat
  BY SpanFacts
<1>2. w \in 0 .. All - 1
  BY DEF Words
<1>3. ASSUME w < Half(k) PROVE w = Word(SignOf(w, Span[k]))
  <2>1. w = 0 * Span[k] + w /\ w \in 0 .. Span[k] - 1
    BY <1>1, <1>2, <1>3
  <2>2. w % Span[k] = w
    BY <1>1, <1>2, <2>1, ModUnique
  <2> QED  BY <1>3, <2>2, WordValue DEF SignOf, Half
<1>4. ASSUME w >= All - Half(k) PROVE w = Word(SignOf(w, Span[k]))
  <2>1. PICK q \in Nat \ {0} : All = q * Span[k]
    BY SpanFacts
  <2> DEFINE r == w - All + Span[k]
  <2>2. r \in Half(k) .. Span[k] - 1
    BY <1>1, <1>2, <1>4
  <2>3. PICK p \in Int : w = p * Span[k] + r
    <3>1. w = (q - 1) * Span[k] + r /\ q - 1 \in Int
      BY <1>1, <1>2, <2>1
    <3> QED  BY <3>1
  <2>4. w % Span[k] = r
    <3>1. r \in 0 .. Span[k] - 1 /\ w \in Int
      BY <1>1, <1>2, <2>2
    <3> HIDE DEF r
    <3> QED  BY <1>1, <2>3, <3>1, ModUnique
  <2>5. SignOf(w, Span[k]) = w - All
    <3>1. ~ (r < Half(k)) /\ r - Span[k] = w - All
      BY <1>1, <1>2, <2>2
    <3> HIDE DEF r
    <3> QED  BY <2>4, <3>1 DEF SignOf, Half
  <2>6. w - All \in - All .. -1
    BY <1>1, <1>2, <1>4
  <2> QED  BY <1>1, <1>2, <2>5, <2>6, WordValue
<1>5. w = Word(SignOf(w, Span[k])) => w \in Extended(k)
  BY <1>2, SignedRange, ExtendedWord
<1>6. w \in Extended(k) => w < Half(k) \/ w >= All - Half(k)
  BY <1>1 DEF Extended, Half
<1> QED  BY <1>3, <1>4, <1>5, <1>6

(* The opcodes on signed words read the value back.                        *)
LEMMA ReadSigned ==
  /\ \A w \in Words : AsSigned(w) = IF w < Half(4) THEN w ELSE w - All
  /\ \A k \in 1 .. 4 : \A w \in Extended(k) :
       AsSigned(w) \in - Half(k) .. Half(k) - 1 /\ Word(AsSigned(w)) = w
<1>1. ASSUME NEW w \in Words PROVE AsSigned(w) = IF w < Half(4) THEN w ELSE w - All
  <2>1. w % All = w
    BY WordValue DEF Word
  <2> QED  BY <2>1 DEF AsSigned, SignOf, Half, All
<1>2. ASSUME NEW k \in 1 .. 4, NEW w \in Extended(k)
      PROVE  AsSigned(w) \in - Half(k) .. Half(k) - 1 /\ Word(AsSigned(w)) = w
  <2>1. /\ Half(k) \in Nat \ {0} /\ All = 2 * Half(4) /\ Half(k) <= Half(4) /\ Half(4) \in Nat
        /\ All \in Nat
    <3>1. \A m \in 1 .. 4 : Half(m) <= Half(4)
      BY SpanFacts
    <3> QED  BY <3>1, SpanFacts, AllFacts
  <2>2. w \in Words /\ w \in 0 .. All - 1
    BY ExtendedIsWord DEF Words
  <2>3. w \in 0 .. Half(k) - 1 \/ w \in All - Half(k) .. All - 1
    BY DEF Extended, Half
  <2>4. AsSigned(w) = IF w < Half(4) THEN w ELSE w - All
    BY <1>1, <2>2
  <2>5. AsSigned(w) = w \/ (AsSigned(w) = w - All /\ w - All \in - All .. -1)
    BY <2>1, <2>2, <2>4
  <2>6. Word(AsSigned(w)) = w
    BY <2>1, <2>2, <2>5, WordValue
  <2> QED  BY <2>1, <2>2, <2>3, <2>4, <2>6
<1> QED  BY <1>1, <1>2

-----------------------------------------------------------------------------
(* Remainders.                                                             *)

LEMMA RemainderBounds ==
  ASSUME NEW a \in Nat, NEW b \in Nat \ {0}
  PROVE  a % b \in 0 .. b - 1 /\ a % b <= a /\ a % b \in 0 .. a /\ a \div b \in 0 .. a
<1> DEFINE d == a \div b
           m == a % b
<1>1. d \in Int /\ m \in 0 .. b - 1 /\ a = b * d + m
  BY DivMod
<1> HIDE DEF d, m
<1>2. d >= 0
  <2> SUFFICES ASSUME d <= -1 PROVE FALSE
    BY <1>1
  <2>1. -1 - d \in Nat /\ b * (-1 - d) \in Nat
    BY <1>1
  <2>2. b * (-1 - d) = - b - b * d
    BY <1>1
  <2>3. b * d \in Int
    BY <1>1
  <2> QED  BY <1>1, <2>1, <2>2, <2>3
<1>3. b * d \in Nat /\ (b - 1) * d \in Nat /\ (b - 1) * d = b * d - d
  BY <1>1, <1>2
<1> QED  BY <1>1, <1>2, <1>3 DEF d, m

(* The unsigned remainder of two extended words, which one of them may be  *)
(* above all the positive ones.                                            *)
LEMMA ExtendedRemainder ==
  ASSUME NEW k \in 1 .. 4, NEW a \in Extended(k), NEW b \in Extended(k), b # 0
  PROVE  a % b \in Extended(k)
<1>1. Half(k) \in Nat \ {0} /\ 2 * Half(k) <= All /\ All \in Nat
  BY SpanFacts
<1>2. /\ a \in 0 .. Half(k) - 1 \/ a \in All - Half(k) .. All - 1
      /\ b \in 0 .. Half(k) - 1 \/ b \in All - Half(k) .. All - 1
  BY DEF Extended, Half
<1>3. a \in Nat /\ b \in Nat \ {0}
  BY <1>1, <1>2
<1>4. a % b \in 0 .. b - 1
  BY <1>3, RemainderBounds
<1>5. CASE b < Half(k)
  BY <1>1, <1>3, <1>4, <1>5 DEF Extended, Half
<1>6. CASE b >= Half(k) /\ a < b
  <2>1. a = 0 * b + a /\ a \in 0 .. b - 1
    BY <1>3, <1>6
  <2>2. a % b = a
    BY <1>3, <2>1, ModUnique
  <2> QED  BY <2>2
<1>7. CASE b >= Half(k) /\ a >= b
  <2> DEFINE r == a - b
  <2>1. a = 1 * b + r /\ r \in 0 .. Half(k) - 1 /\ Half(k) <= b /\ r \in 0 .. b - 1
    BY <1>1, <1>2, <1>3, <1>7
  <2> HIDE DEF r
  <2>2. a % b = r
    BY <1>3, <2>1, ModUnique
  <2> QED  BY <1>1, <2>1, <2>2 DEF Extended, Half
<1> QED  BY <1>1, <1>3, <1>5, <1>6, <1>7

(* The signed one is not farther from zero than what is divided.           *)
LEMMA SignedRemainder ==
  ASSUME NEW x \in Int, NEW y \in Int \ {0}
  PROVE  /\ Quotient(x, y) \in Int
         /\ IF x < 0 THEN x - y * Quotient(x, y) \in x .. 0
                     ELSE x - y * Quotient(x, y) \in 0 .. x
<1>1. Abs(x) \in Nat /\ Abs(y) \in Nat \ {0}
  BY DEF Abs
<1> DEFINE d == Abs(x) \div Abs(y)
           m == Abs(x) % Abs(y)
<1>2. d \in Int /\ Abs(x) = Abs(y) * d + m /\ m \in 0 .. Abs(x)
  <2>1. Abs(x) \in Int /\ Abs(y) \in Nat \ {0}
    BY <1>1
  <2>2. d \in Int /\ Abs(x) = Abs(y) * d + m
    BY <2>1, DivMod
  <2>3. m \in 0 .. Abs(y) - 1 /\ m <= Abs(x)
    BY <1>1, RemainderBounds
  <2> QED  BY <1>1, <2>2, <2>3
<1>3. Quotient(x, y) = IF (x < 0) = (y < 0) THEN d ELSE - d
  BY DEF Quotient
<1> HIDE DEF d, m
<1>4. CASE x >= 0 /\ y > 0
  <2>1. Quotient(x, y) = d /\ x = y * d + m
    BY <1>2, <1>3, <1>4 DEF Abs
  <2>2. y * d \in Int
    BY <1>2
  <2> QED  BY <1>2, <1>4, <2>1, <2>2 DEF Abs
<1>5. CASE x >= 0 /\ y < 0
  <2>1. Quotient(x, y) = - d /\ x = (- y) * d + m
    BY <1>2, <1>3, <1>5 DEF Abs
  <2>2. y * d \in Int /\ (- y) * d = - (y * d) /\ y * (- d) = - (y * d)
    BY <1>2
  <2> QED  BY <1>2, <1>5, <2>1, <2>2 DEF Abs
<1>6. CASE x < 0 /\ y > 0
  <2>1. Quotient(x, y) = - d /\ - x = y * d + m
    BY <1>2, <1>3, <1>6 DEF Abs
  <2>2. y * d \in Int /\ y * (- d) = - (y * d)
    BY <1>2
  <2> QED  BY <1>2, <1>6, <2>1, <2>2 DEF Abs
<1>7. CASE x < 0 /\ y < 0
  <2>1. Quotient(x, y) = d /\ - x = (- y) * d + m
    BY <1>2, <1>3, <1>7 DEF Abs
  <2>2. y * d \in Int /\ (- y) * d = - (y * d)
    BY <1>2
  <2> QED  BY <1>2, <1>7, <2>1, <2>2 DEF Abs
<1> QED  BY <1>4, <1>5, <1>6, <1>7

(* modi, on the words of signed values and on those of small ones.         *)
Modi(a, b) == AsSigned(a) - AsSigned(b) * Quotient(AsSigned(a), AsSigned(b))

LEMMA ModiWord ==
  ASSUME NEW a \in Words, NEW b \in Words, AsSigned(b) # 0
  PROVE  /\ Modi(a, b) \in Int /\ Word(Modi(a, b)) \in Words
         /\ a < Half(4) => Word(Modi(a, b)) \in 0 .. a
         /\ \A k \in 1 .. 4 : a \in Extended(k) => Word(Modi(a, b)) \in Extended(k)
<1> DEFINE x == AsSigned(a)
           y == AsSigned(b)
           z == Modi(a, b)
<1>1. /\ Half(4) \in Nat /\ All \in Nat /\ All = 2 * Half(4)
      /\ a \in 0 .. All - 1 /\ b \in 0 .. All - 1
  BY AllFacts DEF Words
<1>2. x = (IF a < Half(4) THEN a ELSE a - All) /\ y = (IF b < Half(4) THEN b ELSE b - All)
  BY ReadSigned
<1>3. x \in Int /\ y \in Int \ {0}
  BY <1>1, <1>2
<1>4. /\ z = x - y * Quotient(x, y) /\ Quotient(x, y) \in Int
      /\ IF x < 0 THEN x - y * Quotient(x, y) \in x .. 0
                  ELSE x - y * Quotient(x, y) \in 0 .. x
  <2>1. z = x - y * Quotient(x, y)
    BY DEF Modi
  <2> HIDE DEF x, y, z
  <2>2. Quotient(x, y) \in Int
    BY <1>3, SignedRemainder
  <2>3. IF x < 0 THEN x - y * Quotient(x, y) \in x .. 0
                 ELSE x - y * Quotient(x, y) \in 0 .. x
    BY <1>3, SignedRemainder
  <2> QED  BY <2>1, <2>2, <2>3
<1> HIDE DEF z
<1>5. IF x < 0 THEN z \in x .. 0 ELSE z \in 0 .. x
  BY <1>4
<1>6. z \in Int
  BY <1>3, <1>5
<1>7. a < Half(4) => Word(z) \in 0 .. a
  <2> SUFFICES ASSUME a < Half(4) PROVE Word(z) \in 0 .. a
    OBVIOUS
  <2>1. x = a
    BY <1>2
  <2> HIDE DEF x
  <2>2. z \in 0 .. a /\ z \in Words
    BY <1>1, <1>5, <2>1, AllFacts
  <2> QED  BY <2>2, WordValue
<1>8. ASSUME NEW k \in 1 .. 4, a \in Extended(k) PROVE Word(z) \in Extended(k)
  <2>1. x \in - Half(k) .. Half(k) - 1
    BY <1>8, ReadSigned
  <2>2. Half(k) \in Nat \ {0}
    BY SpanFacts
  <2> HIDE DEF x
  <2>3. z \in - Half(k) .. Half(k) - 1
    BY <1>3, <1>5, <2>1, <2>2
  <2> QED  BY <2>3, ExtendedWord
<1> QED  BY <1>6, <1>7, <1>8, WordType DEF z

-----------------------------------------------------------------------------
(* What the opcodes answer.                                                *)

Ops      == WholeOps \cup ComparedOps \cup FloatOps
Stops    == {"", "DivideByZero", "SIGFPE"}
Outcomes == [word : Words, stop : Stops]

(* Operations that leave narrow operands narrow.                           *)
BitOps    == {"and", "or", "xor"}
NarrowOps == BitOps \cup {"mod", "modi"}

LEMMA DoneType == \A w \in Words : Done(w) \in Outcomes
BY DEF Done, Outcomes, Stops

LEMMA ThrownType == {Thrown("DivideByZero"), Thrown("SIGFPE")} \subseteq Outcomes
BY AllFacts DEF Thrown, Outcomes, Stops

LEMMA TruthType ==
  \A p : Truth(p) \subseteq {Done(0), Done(1)} /\ {Done(0), Done(1)} \subseteq Outcomes
BY DoneType, AllFacts DEF Truth

LEMMA ComparedType ==
  ASSUME NEW op, NEW a, NEW b
  PROVE  op \in ComparedOps => Compared(op, a, b) \subseteq {Done(0), Done(1)}
BY TruthType DEF Compared, ComparedOps

LEMMA BitsType ==
  /\ \A a, b \in {0, 1} : {BitAnd(a, b), BitOr(a, b), BitXor(a, b)} \subseteq {0, 1}
  /\ \A a, b \in Words : {BitAnd(a, b), BitOr(a, b), BitXor(a, b)} \subseteq Words
BY BitsAssumption DEF Words, All

LEMMA SignedDivisionType ==
  ASSUME NEW a, NEW b, NEW result, b # 0 => result \in Int
  PROVE  SignedDivision(a, b, result) \subseteq Outcomes
BY DoneType, ThrownType, WordType DEF SignedDivision

LEMMA SignedWord == \A w \in Words : AsSigned(w) \in Int
BY ReadSigned, AllFacts DEF Words

LEMMA WholeType ==
  ASSUME NEW op \in WholeOps, NEW a \in Words, NEW b \in Words
  PROVE  Whole(op, a, b) \subseteq Outcomes
<1> USE DoneType, ThrownType, WordType
<1>1. a \in Nat /\ b \in Nat
  BY AllFacts DEF Words
<1> DEFINE x == AsSigned(a)
           y == AsSigned(b)
<1>2. x \in Int /\ y \in Int
  BY SignedWord
<1>3. y # 0 => Quotient(x, y) \in Int
  BY <1>2, SignedRemainder
<1>4. CASE op = "add" \/ op = "sub" \/ op = "mul"
  BY <1>1, <1>4 DEF Whole
<1>5. CASE op = "imul"
  BY <1>2, <1>5 DEF Whole
<1>6. CASE op = "div" \/ op = "mod"
  <2>1. b # 0 => a \div b \in 0 .. a /\ a % b \in 0 .. b - 1 /\ a % b <= a
    BY <1>1, RemainderBounds
  <2>2. b # 0 => a \div b \in Words /\ a % b \in Words
    BY <1>1, <2>1, AllFacts DEF Words
  <2> QED  BY <1>6, <2>2 DEF Whole
<1>7. CASE op = "idiv"
  <2>1. Whole(op, a, b) = SignedDivision(x, y, Quotient(x, y))
    BY <1>7 DEF Whole
  <2> HIDE DEF x, y
  <2> QED  BY <1>3, <2>1, SignedDivisionType
<1>8. CASE op = "modi"
  <2>1. Whole(op, a, b) = SignedDivision(x, y, x - y * Quotient(x, y))
    BY <1>8 DEF Whole
  <2>2. y # 0 => x - y * Quotient(x, y) \in Int
    BY <1>2, <1>3
  <2> HIDE DEF x, y
  <2> QED  BY <2>1, <2>2, SignedDivisionType
<1>9. CASE op \in BitOps
  BY <1>9, BitsType DEF Whole, BitOps
<1> QED
  BY <1>4, <1>5, <1>6, <1>7, <1>8, <1>9 DEF WholeOps, BitOps

LEMMA OpsApart ==
  /\ WholeOps \cap ComparedOps = {} /\ WholeOps \cap FloatOps = {}
  /\ ComparedOps \cap FloatOps = {} /\ NarrowOps \subseteq WholeOps
BY DEF WholeOps, ComparedOps, FloatOps, NarrowOps, BitOps

LEMMA ComputeIs ==
  ASSUME NEW a, NEW b
  PROVE  /\ \A op \in WholeOps    : Compute(op, a, b) = Whole(op, a, b)
         /\ \A op \in ComparedOps : Compute(op, a, b) = Compared(op, a, b)
         /\ \A op \in FloatOps    : Compute(op, a, b) = Floating(op)
BY OpsApart DEF Compute

LEMMA ComputeType ==
  ASSUME NEW op \in Ops, NEW a \in Words, NEW b \in Words
  PROVE  Compute(op, a, b) \subseteq Outcomes
<1>1. CASE op \in WholeOps
  BY <1>1, ComputeIs, WholeType
<1>2. CASE op \in ComparedOps
  BY <1>2, ComputeIs, ComparedType, TruthType
<1>3. CASE op \in FloatOps
  BY <1>3, ComputeIs, DoneType, ThrownType DEF Floating
<1> QED  BY <1>1, <1>2, <1>3 DEF Ops

(* The outcomes that stop nothing.                                         *)
LEMMA NarrowOutcome ==
  ASSUME NEW op \in NarrowOps, NEW a \in Words, NEW b \in Words,
         NEW o \in Compute(op, a, b), o.stop = ""
  PROVE  \/ op \in BitOps /\ o.word \in {BitAnd(a, b), BitOr(a, b), BitXor(a, b)}
         \/ op = "mod" /\ b # 0 /\ o.word = a % b
         \/ op = "modi" /\ AsSigned(b) # 0 /\ o.word = Word(Modi(a, b))
<1>1. o \in Whole(op, a, b)
  BY ComputeIs, OpsApart
<1>2. /\ \A w : Done(w).word = w
      /\ Thrown("DivideByZero").stop # "" /\ Thrown("SIGFPE").stop # ""
  BY DEF Done, Thrown
<1>3. CASE op \in BitOps
  <2>1. CASE op = "and"
    <3>1. o = Done(BitAnd(a, b))
      BY <1>1, <2>1 DEF Whole
    <3> QED  BY <1>2, <1>3, <3>1
  <2>2. CASE op = "or"
    <3>1. o = Done(BitOr(a, b))
      BY <1>1, <2>2 DEF Whole
    <3> QED  BY <1>2, <1>3, <3>1
  <2>3. CASE op = "xor"
    <3>1. o = Done(BitXor(a, b))
      BY <1>1, <2>3 DEF Whole
    <3> QED  BY <1>2, <1>3, <3>1
  <2> QED  BY <1>3, <2>1, <2>2, <2>3 DEF BitOps
<1>4. CASE op = "mod"
  <2>1. o \in IF b = 0 THEN {Thrown("DivideByZero")} ELSE {Done(a % b)}
    BY <1>1, <1>4 DEF Whole
  <2> QED  BY <1>2, <1>4, <2>1
<1>5. CASE op = "modi"
  <2>1. o \in SignedDivision(AsSigned(a), AsSigned(b), Modi(a, b))
    BY <1>1, <1>5 DEF Whole, Modi
  <2>2. \/ o = Thrown("DivideByZero") \/ o = Thrown("SIGFPE")
        \/ AsSigned(b) # 0 /\ o = Done(Word(Modi(a, b)))
    BY <2>1 DEF SignedDivision
  <2> QED  BY <1>2, <1>5, <2>2
<1> QED  BY <1>3, <1>4, <1>5 DEF NarrowOps

LEMMA SmallWord ==
  ASSUME NEW a \in {0, 1}
  PROVE  a \in Words /\ a < Half(4) /\ a \in Nat /\ 0 .. a \subseteq {0, 1}
<1>1. a = 0 \/ a = 1
  OBVIOUS
<1> QED  BY <1>1, AllFacts

LEMMA SmallRemainder ==
  ASSUME NEW a \in {0, 1}, NEW b \in {0, 1}, b # 0
  PROVE  a % b \in {0, 1}
<1>1. b = 1 /\ a \in Nat /\ b \in Nat \ {0}
  BY SmallWord
<1>2. a % b \in 0 .. b - 1
  BY <1>1, RemainderBounds
<1> QED  BY <1>1, <1>2

LEMMA NatWord ==
  ASSUME NEW a \in Words
  PROVE  a \in Nat /\ a <= All - 1
BY AllFacts DEF Words

(* Bits and remainders of bools are bools.                                 *)
LEMMA BoolOutcome ==
  ASSUME NEW op \in NarrowOps, NEW a \in {0, 1}, NEW b \in {0, 1},
         NEW o \in Compute(op, a, b), o.stop = ""
  PROVE  o.word \in {0, 1}
<1>1. a \in Words /\ b \in Words /\ a < Half(4)
  BY SmallWord
<1>2. a \in Nat /\ 0 .. a \subseteq {0, 1} /\ (b # 0 => a % b \in {0, 1})
  BY SmallWord, SmallRemainder
<1>3. AsSigned(b) # 0 => Word(Modi(a, b)) \in 0 .. a
  BY <1>1, ModiWord
<1>4. CASE op \in BitOps /\ o.word \in {BitAnd(a, b), BitOr(a, b), BitXor(a, b)}
  BY <1>4, BitsType
<1>5. CASE b # 0 /\ o.word = a % b
  BY <1>2, <1>5
<1>6. CASE AsSigned(b) # 0 /\ o.word = Word(Modi(a, b))
  BY <1>2, <1>3, <1>6
<1> QED  BY <1>1, <1>4, <1>5, <1>6, NarrowOutcome

-----------------------------------------------------------------------------
(* Widths.                                                                 *)

Integer == Unsigned \cup Signed

(* The words of an integer type.                                           *)
Fit(k) == IF k \in Unsigned THEN 0 .. Values(k) - 1 ELSE Extended(Rank[k])

LEMMA RankFacts ==
  /\ \A k \in Integer : Rank[k] \in 1 .. 4
  /\ Unsigned \cap Signed = {}
  /\ Rank["u64"] = 4 /\ \A k \in Unsigned : Rank[k] = 4 => k = "u64"
BY DEF Integer, Unsigned, Signed, Rank

LEMMA NarrowIsFit ==
  ASSUME NEW k \in Integer, NEW w \in Words
  PROVE  Narrow(k, w) <=> w \in Fit(k)
<1>1. Rank[k] \in 1 .. 4 /\ Values(k) = Span[Rank[k]]
  BY RankFacts DEF Values
<1>2. Values(k) \in Nat /\ w \in Nat
  BY <1>1, SpanFacts, AllFacts DEF Words
<1>3. CASE k \in Unsigned
  <2>1. Narrow(k, w) <=> w < Values(k)
    BY <1>3, RankFacts DEF Narrow
  <2> QED  BY <1>2, <1>3, <2>1 DEF Fit
<1>4. CASE k \in Signed
  <2>1. w \in Extended(Rank[k]) <=> w = Word(SignOf(w, Span[Rank[k]]))
    BY <1>1, SignExtension
  <2>2. k \notin Unsigned
    BY <1>4, RankFacts
  <2> QED  BY <1>1, <1>4, <2>1, <2>2 DEF Narrow, Fit
<1> QED  BY <1>3, <1>4 DEF Integer

LEMMA FitIsWord ==
  ASSUME NEW k \in Integer
  PROVE  Fit(k) \subseteq Words
<1>1. Rank[k] \in 1 .. 4 /\ Values(k) = Span[Rank[k]]
  BY RankFacts DEF Values
<1>2. Values(k) \in Nat /\ Values(k) <= All /\ All \in Nat
  BY <1>1, SpanFacts
<1> QED  BY <1>1, <1>2, ExtendedIsWord DEF Fit, Words

LEMMA UnsignedFit ==
  ASSUME NEW k \in Unsigned, NEW a \in Fit(k)
  PROVE  /\ a \in Nat /\ a < Span[Rank[k]] /\ 0 .. a \subseteq Fit(k)
         /\ Rank[k] # 4 => a < Half(4)
<1>1. Rank[k] \in 1 .. 4
  BY RankFacts DEF Integer
<1>2. /\ Span[Rank[k]] \in Nat /\ All = 2 * Half(4) /\ Half(4) \in Nat
      /\ Rank[k] # 4 => 2 * Span[Rank[k]] <= All
  BY <1>1, SpanFacts, AllFacts
<1>3. a \in 0 .. Span[Rank[k]] - 1 /\ Fit(k) = 0 .. Span[Rank[k]] - 1
  BY DEF Fit, Values
<1> QED  BY <1>2, <1>3

(* A wider type of the same sign has room for the values of a narrower.    *)
LEMMA FitWider ==
  ASSUME NEW l \in Integer, NEW k \in Integer, Rank[l] <= Rank[k],
         l \in Unsigned <=> k \in Unsigned
  PROVE  Fit(l) \subseteq Fit(k)
<1>1. /\ Rank[l] \in 1 .. 4 /\ Values(l) = Span[Rank[l]]
      /\ Rank[k] \in 1 .. 4 /\ Values(k) = Span[Rank[k]]
  BY RankFacts DEF Values
<1>2. Rank[l] \in 1 .. Rank[k]
  BY <1>1
<1>3. Values(l) \in Nat /\ Values(k) \in Nat /\ Values(l) <= Values(k)
  <2>1. Span[Rank[l]] <= Span[Rank[k]] /\ Span[Rank[l]] \in Nat /\ Span[Rank[k]] \in Nat
    BY <1>1, <1>2, SpanFacts
  <2> QED  BY <1>1, <2>1
<1>4. Extended(Rank[l]) \subseteq Extended(Rank[k])
  BY <1>1, <1>2, ExtendedIsWord
<1> QED  BY <1>3, <1>4 DEF Fit

(* Bits and remainders of narrow words are narrow.                         *)
LEMMA FitOutcome ==
  ASSUME NEW k \in Integer, NEW op \in NarrowOps, NEW a \in Fit(k), NEW b \in Fit(k),
         NEW o \in Compute(op, a, b), o.stop = ""
  PROVE  o.word \in Fit(k)
<1> DEFINE n == Rank[k]
<1>1. n \in 1 .. 4 /\ Values(k) = Span[n]
  BY RankFacts DEF Values
<1>2. a \in Words /\ b \in Words /\ a \in Nat /\ b \in Nat
  <2>1. Fit(k) \subseteq Words
    BY FitIsWord
  <2> QED  BY <2>1, NatWord
<1>3. CASE op \in BitOps /\ o.word \in {BitAnd(a, b), BitOr(a, b), BitXor(a, b)}
  <2>1. CASE k \in Unsigned
    <3>1. a \in 0 .. Span[n] - 1 /\ b \in 0 .. Span[n] - 1 /\ Fit(k) = 0 .. Span[n] - 1
      BY <1>1, <2>1 DEF Fit
    <3> QED  BY <1>1, <1>3, <3>1, BitsAssumption
  <2>2. CASE k \notin Unsigned
    <3>1. a \in Extended(n) /\ b \in Extended(n) /\ Fit(k) = Extended(n)
      BY <2>2 DEF Fit
    <3>2. \A x, y \in Extended(n) : {BitAnd(x, y), BitOr(x, y), BitXor(x, y)} \subseteq Extended(n)
      BY <1>1, BitsAssumption, Zenon
    <3>3. {BitAnd(a, b), BitOr(a, b), BitXor(a, b)} \subseteq Fit(k)
      BY <3>1, <3>2, Zenon
    <3> QED  BY <1>3, <3>3, Zenon
  <2> QED  BY <2>1, <2>2
<1>4. CASE b # 0 /\ o.word = a % b
  <2>1. CASE k \in Unsigned
    <3>1. a % b \in 0 .. a
      BY <1>2, <1>4, RemainderBounds
    <3> QED  BY <1>4, <2>1, <3>1, UnsignedFit
  <2>2. CASE k \notin Unsigned
    BY <1>1, <1>4, <2>2, ExtendedRemainder DEF Fit
  <2> QED  BY <2>1, <2>2
<1>5. CASE AsSigned(b) # 0 /\ o.word = Word(Modi(a, b))
  <2>1. CASE k \in Unsigned /\ n # 4
    <3>1. a < Half(4) /\ 0 .. a \subseteq Fit(k)
      BY <2>1, UnsignedFit
    <3>2. Word(Modi(a, b)) \in 0 .. a
      BY <1>2, <1>5, <3>1, ModiWord
    <3> QED  BY <1>5, <3>1, <3>2
  <2>2. CASE k \in Unsigned /\ n = 4
    <3>1. Fit(k) = Words
      BY <1>1, <2>2 DEF Fit, Words, All
    <3> QED  BY <1>2, <1>5, <3>1, ModiWord
  <2>3. CASE k \notin Unsigned
    <3>1. Fit(k) = Extended(n)
      BY <2>3 DEF Fit
    <3> QED  BY <1>1, <1>2, <1>5, <3>1, ModiWord
  <2> QED  BY <2>1, <2>2, <2>3
<1> QED  BY <1>2, <1>3, <1>4, <1>5, NarrowOutcome

-----------------------------------------------------------------------------
(* Where words come from.                                                  *)

(* The widest types have every word.                                       *)
LEMMA WholeFit == Fit("u64") = Words /\ Fit("i64") = Words
<1>1. Fit("u64") = Words
  BY RankFacts DEF Fit, Values, Words, All, Unsigned
<1>2. "i64" \notin Unsigned /\ Rank["i64"] = 4
  BY DEF Unsigned, Rank
<1>3. Fit("i64") = Extended(4)
  BY <1>2 DEF Fit
<1>4. Words \subseteq Extended(4)
  BY AllFacts DEF Extended, Half, All
<1>5. Extended(4) \subseteq Words
  BY ExtendedIsWord
<1> QED  BY <1>1, <1>3, <1>4, <1>5

LEMMA SignedFit ==
  ASSUME NEW k \in Signed, NEW n \in Int
  PROVE  Word(SignOf(n, Values(k))) \in Fit(k)
<1>1. Rank[k] \in 1 .. 4 /\ Values(k) = Span[Rank[k]] /\ k \notin Unsigned
  BY RankFacts DEF Values, Integer
<1>2. SignOf(n, Span[Rank[k]]) \in - Half(Rank[k]) .. Half(Rank[k]) - 1
  BY <1>1, SignedRange
<1>3. Word(SignOf(n, Span[Rank[k]])) \in Extended(Rank[k])
  BY <1>1, <1>2, ExtendedWord
<1> QED  BY <1>1, <1>3 DEF Fit

(* A register of type k may hold w.                                        *)
Holds(k, w) == w \in Words /\ Narrow(k, w) /\ (k = "bool" => w \in {0, 1})

LEMMA HoldsFit ==
  /\ \A k \in Integer : \A w \in Fit(k) : Holds(k, w)
  /\ \A k \in Floats \cup {"ptr"} : \A w \in Words : Holds(k, w)
  /\ \A w \in {0, 1} : Holds("bool", w)
<1>1. "bool" \notin Integer /\ (Floats \cup {"ptr", "bool"}) \cap Integer = {}
      /\ "bool" \notin Floats \cup {"ptr"}
  BY DEF Integer, Unsigned, Signed, Floats
<1>2. \A k : k \notin Integer => \A w : Narrow(k, w)
  BY DEF Narrow, Integer
<1>3. ASSUME NEW k \in Integer, NEW w \in Fit(k) PROVE Holds(k, w)
  <2>1. w \in Words
    BY FitIsWord
  <2> QED  BY <1>1, <2>1, NarrowIsFit DEF Holds
<1> QED  BY <1>1, <1>2, <1>3, SmallWord DEF Holds

LEMMA CastMeHolds ==
  ASSUME NEW k \in Integer \cup Floats, NEW n \in Int, NEW w \in CastMe(k, n)
  PROVE  Holds(k, w)
<1>1. CASE k \in Unsigned
  <2>1. w = Word(n) % Values(k)
    BY <1>1, RankFacts DEF CastMe
  <2>2. Rank[k] \in 1 .. 4 /\ Values(k) = Span[Rank[k]] /\ k \in Integer
    BY <1>1, RankFacts DEF Values, Integer
  <2>3. Values(k) \in Nat \ {0} /\ Word(n) \in Nat
    BY <2>2, SpanFacts, WordType, NatWord
  <2>4. Word(n) % Values(k) \in 0 .. Values(k) - 1
    BY <2>3, RemainderBounds
  <2>5. w \in Fit(k)
    BY <1>1, <2>1, <2>4 DEF Fit
  <2> QED  BY <2>2, <2>5, HoldsFit
<1>2. CASE k \in Signed
  <2>1. w = Word(SignOf(n, Values(k)))
    BY <1>2, RankFacts DEF CastMe
  <2> QED  BY <1>2, <2>1, SignedFit, HoldsFit DEF Integer
<1>3. CASE k \in Floats
  <2>1. w \in Words
    BY <1>3 DEF CastMe, Floats, Unsigned, Signed
  <2> QED  BY <1>3, <2>1, HoldsFit
<1> QED  BY <1>1, <1>2, <1>3 DEF Integer

LEMMA CastHolds ==
  ASSUME NEW from, NEW k \in Integer \cup Floats, NEW a \in Words, NEW w \in Cast(from, k, a)
  PROVE  Holds(k, w)
<1>1. a \in Int /\ AsSigned(a) \in Int
  BY NatWord, SignedWord
<1>2. \E n \in Int : w \in CastMe(k, n)
  <2>1. CASE w \in CastMe(k, a) \/ w \in CastMe(k, AsSigned(a))
    BY <1>1, <2>1
  <2>2. CASE w \in CastFloat(k)
    <3>1. PICK n \in Words : w \in CastMe(k, n)
      BY <2>2 DEF CastFloat
    <3> QED  BY <3>1, NatWord
  <2> QED  BY <2>1, <2>2 DEF Cast
<1> QED  BY <1>2, CastMeHolds

LEMMA SignedTypes ==
  \A k : /\ TypeSign(k) # "none" => k \in Integer \cup Floats
         /\ TypeSign(k) = "unsigned" <=> k \in Unsigned
         /\ TypeSign(k) = "signed" <=> k \in Signed
<1>1. Unsigned \cap Signed = {} /\ Unsigned \cap Floats = {} /\ Signed \cap Floats = {}
      /\ "unsigned" \notin Floats /\ "signed" \notin Floats
  BY DEF Unsigned, Signed, Floats
<1> QED  BY <1>1 DEF TypeSign, Integer

LEMMA CatalogHolds ==
  ASSUME NEW k \in Builtins, NEW w \in CatalogReturns(k)
  PROVE  /\ w \in Words /\ (k = "bool" => w \in {0, 1})
         /\ k \notin {"u8", "u16", "u32"} => Holds(k, w)
<1>1. CASE k = "bool"
  <2>1. w \in {0, 1}
    BY <1>1 DEF CatalogReturns
  <2> QED  BY <1>1, <2>1, HoldsFit, SmallWord
<1>2. CASE k \in {"u8", "u16", "u32", "i8", "i16", "i32"}
  <2>1. PICK n \in 0 .. Values(k) - 1 : w = Word(SignOf(n, Values(k)))
    BY <1>2 DEF CatalogReturns
  <2>2. k \in Integer /\ k # "bool" /\ (k \notin {"u8", "u16", "u32"} => k \in Signed)
    BY <1>2 DEF Integer, Unsigned, Signed
  <2>3. Rank[k] \in 1 .. 4 /\ Values(k) = Span[Rank[k]] /\ n \in Int
    BY <2>2, RankFacts DEF Values
  <2>4. SignOf(n, Values(k)) \in Int
    <3>1. SignOf(n, Span[Rank[k]]) \in - Half(Rank[k]) .. Half(Rank[k]) - 1
          /\ Half(Rank[k]) \in Nat
      BY <2>3, SignedRange, SpanFacts
    <3> QED  BY <2>3, <3>1
  <2>5. k \in Signed => Holds(k, w)
    BY <2>1, <2>2, <2>3, SignedFit, HoldsFit
  <2> QED  BY <2>1, <2>2, <2>4, <2>5, WordType
<1>3. CASE k \notin {"bool", "u8", "u16", "u32", "i8", "i16", "i32"}
  <2>1. w \in Words
    BY <1>3 DEF CatalogReturns
  <2>2. k \in Floats \cup {"ptr"} \/ k = "u64" \/ k = "i64"
    BY <1>3 DEF Builtins, Unsigned, Signed, Floats
  <2>3. "u64" \in Integer /\ "i64" \in Integer
    BY DEF Integer, Unsigned, Signed
  <2> QED  BY <1>3, <2>1, <2>2, <2>3, HoldsFit, WholeFit
<1> QED  BY <1>1, <1>2, <1>3

LEMMA LoadedHolds ==
  ASSUME NEW name \in Services, Returns(name) # "void", NEW w \in Loaded(name)
  PROVE  /\ Returns(name) \in Builtins \ {"void"} /\ w \in Words
         /\ Returns(name) # "bool" \/ w \in {0, 1}
         /\ name # "strlen32" => Holds(Returns(name), w)
<1>1. {"ptr", "u64", "u32", "u8", "bool"} \subseteq Builtins \ {"void"}
  BY DEF Builtins, Unsigned, Signed, Floats
<1>2. "u64" \in Integer /\ "u32" \in Integer /\ "u8" \in Integer
  BY DEF Integer, Unsigned
<1>3. CASE name \in {"load.ptr", "memory.allocate", "memory.realloc"}
  <2>1. Returns(name) = "ptr" /\ w \in Words
    BY <1>3 DEF Returns, Loaded
  <2> QED  BY <1>1, <2>1, HoldsFit
<1>4. CASE name \in {"load.u64", "strlen64"}
  <2>1. Returns(name) = "u64" /\ w \in Words
    BY <1>4 DEF Returns, Loaded
  <2> QED  BY <1>1, <1>2, <2>1, HoldsFit, WholeFit
<1>5. CASE name = "memory.cmp"
  <2>1. Returns(name) = "u64" /\ w \in 0 .. 2
    BY <1>5 DEF Returns, Loaded
  <2>2. w \in Words
    BY <2>1, AllFacts
  <2> QED  BY <1>1, <1>2, <2>1, <2>2, HoldsFit, WholeFit
<1>6. CASE name = "load.u8" \/ name = "load.u32"
  <2>1. /\ Returns(name) = "u8" \/ Returns(name) = "u32"
        /\ w \in 0 .. Values(Returns(name)) - 1
    BY <1>6 DEF Returns, Loaded
  <2>2. Returns(name) \in Unsigned /\ Returns(name) # "bool"
    BY <2>1 DEF Unsigned
  <2>3. w \in Fit(Returns(name))
    BY <2>1, <2>2 DEF Fit
  <2>4. Holds(Returns(name), w)
    BY <1>2, <2>1, <2>3, HoldsFit
  <2> QED  BY <1>1, <2>1, <2>2, <2>4 DEF Holds
<1>7. CASE name = "strlen32"
  <2>1. Returns(name) = "u32" /\ w \in Words
    BY <1>7 DEF Returns, Loaded
  <2> QED  BY <1>1, <1>7, <2>1
<1>8. CASE name = "os.is.linux"
  <2>1. Returns(name) = "bool" /\ w \in {0, 1}
    BY <1>8 DEF Returns, Loaded
  <2> QED  BY <1>1, <2>1, HoldsFit, SmallWord
<1>9. Returns(name) = "void" \/ name \in {"load.ptr", "memory.allocate", "memory.realloc",
        "load.u64", "strlen64", "memory.cmp", "load.u8", "load.u32", "strlen32", "os.is.linux"}
  BY DEF Returns
<1> QED  BY <1>3, <1>4, <1>5, <1>6, <1>7, <1>8, <1>9

-----------------------------------------------------------------------------
(* Types.                                                                  *)

LEMMA KindsApart ==
  /\ "void" \notin Builtins /\ "any" \notin Builtins /\ "ptr" \in Builtins /\ "bool" \in Builtins
  /\ Integer \cup Floats \subseteq Builtins /\ Integer \cap Floats = {}
  /\ {"ptr", "bool"} \cap (Integer \cup Floats) = {}
BY DEF Builtins, Integer, Unsigned, Signed, Floats

LEMMA TypeFacts ==
  /\ \A k \in Builtins \cup {"void", "any"} :
       /\ Builtin(k) \in Types /\ Operand(Builtin(k)) = k /\ ~ IsObject(Builtin(k))
       /\ Builtin(k).kind = k /\ Builtin(k).class = "void"
  /\ \A c \in Builtins :
       /\ Object(c) \in Types /\ Operand(Object(c)) = c /\ IsObject(Object(c))
       /\ Object(c).kind = "any" /\ Object(c).class = c
BY KindsApart DEF Types, Builtin, Object, Operand, IsObject

LEMMA TypeCases ==
  ASSUME NEW t \in Types
  PROVE  \/ \E k \in Builtins \cup {"void", "any"} : t = Builtin(k)
         \/ \E c \in Builtins : t = Object(c)
BY DEF Types

LEMMA OperandType ==
  ASSUME NEW t \in Types
  PROVE  Operand(t) \in Builtins \cup {"void", "any"}
BY TypeCases, TypeFacts

LEMMA WiderFacts ==
  ASSUME NEW S, S = Unsigned \/ S = Signed, NEW l \in S, NEW r \in S
  PROVE  /\ Wider(l, r) \in S
         /\ Rank[l] <= Rank[Wider(l, r)] /\ Rank[r] <= Rank[Wider(l, r)]
<1>1. Rank[l] \in Nat /\ Rank[r] \in Nat
  <2>1. l \in Integer /\ r \in Integer
    BY DEF Integer
  <2> QED  BY <2>1, RankFacts
<1> QED  BY <1>1 DEF Wider

(* Operands are promoted to a type that holds the values of both.          *)
LEMMA PromotionFacts ==
  ASSUME NEW l \in Builtins \cup {"void", "any"}, NEW r \in Builtins \cup {"void", "any"},
         Computed(l, r) \in Builtins
  PROVE  /\ l \in Builtins /\ r \in Builtins
         /\ Computed(l, r) = "bool" => l = "bool" /\ r = "bool"
         /\ Computed(l, r) \in Integer =>
              /\ l \in Integer /\ r \in Integer
              /\ Fit(l) \subseteq Fit(Computed(l, r)) /\ Fit(r) \subseteq Fit(Computed(l, r))
<1> USE KindsApart
<1>1. CASE l = r
  BY <1>1 DEF Computed
<1>2. CASE l # r /\ \E S \in {Unsigned, Signed} : l \in S /\ r \in S
  <2>1. PICK S \in {Unsigned, Signed} : l \in S /\ r \in S
    BY <1>2
  <2>2. Computed(l, r) = Wider(l, r)
    <3>1. {l, r} \subseteq Unsigned \/ {l, r} \subseteq Signed
      BY <2>1
    <3>2. ~ ({l, r} \subseteq Unsigned /\ {l, r} \subseteq Signed)
      BY RankFacts
    <3> QED  BY <1>2, <3>1, <3>2, RankFacts DEF Computed, Promotion, Unsigned, Signed
  <2>3. /\ Wider(l, r) \in S /\ Rank[l] <= Rank[Wider(l, r)] /\ Rank[r] <= Rank[Wider(l, r)]
    BY <2>1, WiderFacts
  <2>4. S \subseteq Integer /\ (S = Unsigned \/ S \cap Unsigned = {})
    BY RankFacts DEF Integer
  <2>5. Fit(l) \subseteq Fit(Wider(l, r)) /\ Fit(r) \subseteq Fit(Wider(l, r))
    BY <2>1, <2>3, <2>4, FitWider
  <2> QED  BY <2>1, <2>2, <2>3, <2>4, <2>5
<1>3. CASE l # r /\ ~ \E S \in {Unsigned, Signed} : l \in S /\ r \in S
  <2>1. Computed(l, r) = Promotion(l, r) /\ Promotion(l, r) # "void"
    BY <1>3 DEF Computed
  <2>2. ~ ({l, r} \subseteq Unsigned) /\ ~ ({l, r} \subseteq Signed)
    BY <1>3
  <2>3. /\ Promotion(l, r) \in {"ptr", "f32", "f64"}
        /\ {l, r} \subseteq Unsigned \cup Signed \cup Floats \cup {"ptr"}
    BY <2>1, <2>2 DEF Promotion, Floats
  <2>4. Promotion(l, r) \notin Integer \cup {"bool"}
    BY <2>3 DEF Floats
  <2>5. l \in Builtins /\ r \in Builtins
    BY <2>3 DEF Builtins
  <2> QED  BY <2>1, <2>4, <2>5
<1> QED  BY <1>1, <1>2, <1>3

(* The result of an operator is of the type computed, in a register or in  *)
(* the object that is allocated for it.                                    *)
LEMMA ResultFacts ==
  ASSUME NEW op \in Ops, NEW s \in Types, NEW t \in Types, NEW shortcircuit \in BOOLEAN,
         Computed(Operand(s), Operand(t)) \in Builtins
  PROVE  /\ ResultKind(op, s, t) \in Builtins
         /\ ResultType(op, s, t, shortcircuit) \in Types
         /\ Operand(ResultType(op, s, t, shortcircuit)) = ResultKind(op, s, t)
<1> USE KindsApart, TypeFacts
<1> DEFINE k     == ResultKind(op, s, t)
           class == ResultClass(op, s, t)
<1>1. k \in Builtins
  BY DEF ResultKind
<1>2. CASE k # "ptr" /\ class # "void" /\ ~ shortcircuit
  <2>1. ResultType(op, s, t, shortcircuit) = Object(class)
    BY <1>2 DEF ResultType
  <2>2. class = k
    <3>1. CASE op \in ComparedOps
      BY <1>2, <3>1 DEF ResultClass, ResultKind
    <3>2. CASE op \notin ComparedOps /\ Operand(s) # Operand(t)
      BY <1>2, <3>2 DEF ResultClass, ResultKind
    <3>3. CASE op \notin ComparedOps /\ Operand(s) = Operand(t)
      <4>1. IsObject(s) \/ IsObject(t)
        BY <1>2 DEF ResultClass
      <4>2. class = IF IsObject(t) THEN t.class ELSE s.class
        BY <1>2, <3>3, <4>1 DEF ResultClass, IsObject
      <4>3. k = Operand(s) /\ k = Operand(t)
        BY <3>3 DEF ResultKind, Computed
      <4> QED  BY <4>1, <4>2, <4>3 DEF Operand
    <3> QED  BY <3>1, <3>2, <3>3
  <2> QED  BY <1>1, <2>1, <2>2
<1>3. CASE ~ (k # "ptr" /\ class # "void" /\ ~ shortcircuit)
  <2>1. ResultType(op, s, t, shortcircuit) = Builtin(k)
    BY <1>3 DEF ResultType
  <2> QED  BY <1>1, <2>1
<1> QED  BY <1>2, <1>3, <1>1

-----------------------------------------------------------------------------
(* The registers.                                                          *)

Marks     == {"narrow", "whole", "raw"}
Registers == [type : Types, word : Words, held : Builtins \cup {"void"}, mark : Marks]
Ends      == {"", "refused", "assertion", "Assert", "DivideByZero", "SIGFPE", "InvalidPointer"}

(* What a register holds fits its type, unless a __reinterpret made it.    *)
(* The strengthening of the properties: a builtin was written in every     *)
(* register of a builtin type.                                             *)
Sound(r) ==
  /\ r \in Registers
  /\ r.mark # "raw" =>
       /\ r.held = "void" => r.type.kind \notin Builtins
       /\ r.held # "void" =>
            /\ "bool" \in {r.type.kind, r.type.class} => r.word \in {0, 1}
            /\ IsObject(r.type) => r.type.class = r.held
            /\ r.mark = "narrow" => Narrow(Operand(r.type), r.word)

IInv ==
  /\ regs = [i \in 1 .. 2 |-> regs[i]]
  /\ \A i \in 1 .. 2 : Sound(regs[i])
  /\ stopped \in Ends

(* A word that fits the type of a register or that of its object.          *)
LEMMA WrittenSound ==
  ASSUME NEW t \in Types, Operand(t) \in Builtins, NEW w \in Words, NEW mark \in Marks,
         mark # "raw" => (Operand(t) = "bool" => w \in {0, 1}),
         mark = "narrow" => Narrow(Operand(t), w)
  PROVE  Sound(Register(t, w, Operand(t), mark))
<1> DEFINE r == Register(t, w, Operand(t), mark)
<1>1. r \in Registers /\ r.type = t /\ r.word = w /\ r.held = Operand(t) /\ r.mark = mark
  BY DEF Register, Registers
<1>2. "bool" \in {t.kind, t.class} => Operand(t) = "bool"
  BY TypeCases, TypeFacts, KindsApart
<1>3. IsObject(t) => t.class = Operand(t)
  BY DEF Operand
<1>4. Operand(t) # "void"
  BY KindsApart
<1> HIDE DEF r
<1>5. Sound(r)
  BY <1>1, <1>2, <1>3, <1>4 DEF Sound
<1> QED  BY <1>5 DEF r

LEMMA BuiltinSound ==
  ASSUME NEW k \in Builtins, NEW w, Holds(k, w)
  PROVE  Sound(Register(Builtin(k), w, k, "narrow"))
<1>1. Builtin(k) \in Types /\ Operand(Builtin(k)) = k
  BY TypeFacts
<1>2. w \in Words /\ Narrow(k, w) /\ (k = "bool" => w \in {0, 1})
  BY DEF Holds
<1>3. Sound(Register(Builtin(k), w, Operand(Builtin(k)), "narrow"))
  BY <1>1, <1>2, WrittenSound DEF Marks
<1> QED  BY <1>1, <1>3

LEMMA NothingSound ==
  ASSUME NEW t \in Types, t.kind \notin Builtins
  PROVE  Sound(Register(t, 0, "void", "narrow"))
BY KindsApart, AllFacts DEF Sound, Register, Registers, Marks

LEMMA WriteIInv ==
  ASSUME IInv, NEW register, Sound(register), Write(register)
  PROVE  IInv'
BY DEF IInv, Write

LEMMA StopIInv ==
  ASSUME IInv, NEW why \in Ends, Stop(why)
  PROVE  IInv'
<1>1. Sound(Nothing)
  BY NothingSound, TypeFacts, KindsApart DEF Nothing
<1>2. stopped' = why /\ regs'[1] = Nothing /\ regs'[2] = Nothing
      /\ regs' = [i \in 1 .. 2 |-> regs'[i]]
  BY DEF Stop
<1> QED  BY <1>1, <1>2 DEF IInv

LEMMA RegisterFacts ==
  ASSUME IInv, NEW i \in 1 .. 2
  PROVE  /\ Sound(regs[i]) /\ regs[i] \in Registers
         /\ regs[i].type \in Types /\ regs[i].word \in Words
         /\ regs[i].held \in Builtins \cup {"void"} /\ regs[i].mark \in Marks
BY DEF IInv, Sound, Registers

(* An operand that is no null object holds a word of its type.             *)
LEMMA OperandFacts ==
  ASSUME NEW r, Sound(r), Operand(r.type) \in Builtins, r.mark # "raw",
         ~ (IsObject(r.type) /\ r.held = "void")
  PROVE  /\ r.held # "void"
         /\ Operand(r.type) = "bool" => r.word \in {0, 1}
         /\ r.mark = "narrow" => Narrow(Operand(r.type), r.word)
<1>1. ~ IsObject(r.type) => r.type.kind = Operand(r.type)
  BY DEF Operand
<1>2. r.held # "void"
  BY <1>1 DEF Sound
<1>3. Operand(r.type) = "bool" => "bool" \in {r.type.kind, r.type.class}
  BY DEF Operand
<1> QED  BY <1>2, <1>3 DEF Sound

-----------------------------------------------------------------------------
(* The calls.                                                              *)

LEMMA OperatorWord ==
  ASSUME IInv, NEW op \in Ops, NEW i \in 1 .. 2, NEW j \in 1 .. 2,
         NEW o \in Execute(Emit(op, i, j)), o.stop = "",
         NEW k \in Builtins, k = Computed(Operand(regs[i].type), Operand(regs[j].type)),
         Accepted(op, k), ~ Null(i), ~ Null(j), op \notin ComparedOps
  PROVE  /\ MarkOf(op, i, j) # "raw" /\ k = "bool" => o.word \in {0, 1}
         /\ MarkOf(op, i, j) = "narrow" => Narrow(k, o.word)
<1> DEFINE a == regs[i].word
           b == regs[j].word
           l == Operand(regs[i].type)
           r == Operand(regs[j].type)
<1>1. o \in Compute(op, a, b) /\ a \in Words /\ b \in Words
  BY RegisterFacts DEF Execute, Emit
<1>2. l \in Builtins \cup {"void", "any"} /\ r \in Builtins \cup {"void", "any"}
  BY RegisterFacts, OperandType
<1>3. /\ l \in Builtins /\ r \in Builtins /\ (k = "bool" => l = "bool" /\ r = "bool")
      /\ k \in Integer => /\ l \in Integer /\ r \in Integer
                          /\ Fit(l) \subseteq Fit(k) /\ Fit(r) \subseteq Fit(k)
  BY <1>2, PromotionFacts
<1>4. /\ MarkOf(op, i, j) # "raw" => regs[i].mark # "raw" /\ regs[j].mark # "raw"
      /\ MarkOf(op, i, j) = "narrow" =>
           /\ regs[i].mark = "narrow" /\ regs[j].mark = "narrow"
           /\ op \notin {"add", "sub", "mul", "imul", "div", "idiv"}
  BY RegisterFacts DEF MarkOf, Marks
<1>5. ASSUME MarkOf(op, i, j) # "raw"
      PROVE  /\ l = "bool" => a \in {0, 1}
             /\ r = "bool" => b \in {0, 1}
             /\ regs[i].mark = "narrow" => Narrow(l, a)
             /\ regs[j].mark = "narrow" => Narrow(r, b)
  BY <1>3, <1>4, <1>5, RegisterFacts, OperandFacts DEF Null
<1> HIDE DEF a, b, l, r
<1>6. ASSUME MarkOf(op, i, j) # "raw", k = "bool" PROVE o.word \in {0, 1}
  <2>1. op \in NarrowOps
    <3>1. AcceptBool(op)
      BY <1>6, KindsApart DEF Accepted, Integer
    <3> QED  BY <3>1 DEF AcceptBool, NarrowOps, BitOps
  <2>2. a \in {0, 1} /\ b \in {0, 1}
    BY <1>3, <1>5, <1>6
  <2> QED  BY <1>1, <2>1, <2>2, BoolOutcome
<1>7. ASSUME MarkOf(op, i, j) = "narrow" PROVE Narrow(k, o.word)
  <2>1. CASE k \notin Integer
    BY <2>1 DEF Narrow, Integer
  <2>2. CASE k \in Integer
    <3>1. op \in NarrowOps
      <4>1. op \notin FloatOps
        BY <2>2, KindsApart DEF Accepted, AcceptInt, Integer
      <4> QED  BY <1>4, <1>7, <4>1 DEF Ops, WholeOps, NarrowOps, BitOps
    <3>2. Narrow(l, a) /\ Narrow(r, b) /\ l \in Integer /\ r \in Integer
      BY <1>3, <1>4, <1>5, <1>7, <2>2
    <3>3. a \in Fit(l) /\ b \in Fit(r)
      BY <1>1, <3>2, NarrowIsFit
    <3>4. a \in Fit(k) /\ b \in Fit(k)
      BY <1>3, <2>2, <3>3
    <3>5. o.word \in Fit(k)
      BY <1>1, <2>2, <3>1, <3>4, FitOutcome
    <3> QED  BY <2>2, <3>5, HoldsFit DEF Holds
  <2> QED  BY <2>1, <2>2
<1> QED  BY <1>6, <1>7

LEMMA OperatorIInv ==
  ASSUME IInv, NEW name \in Ops, NEW i \in 1 .. 2, NEW j \in 1 .. 2,
         NEW shortcircuit \in BOOLEAN, CallOperator(name, i, j, shortcircuit)
  PROVE  IInv'
<1> DEFINE op == Emitted(name)
           s  == regs[i].type
           t  == regs[j].type
           k  == Computed(Operand(s), Operand(t))
<1>1. op \in Ops
  BY DEF Emitted, Ops, ComparedOps
<1>2. s \in Types /\ t \in Types
  BY RegisterFacts
<1>3. CASE Stop("refused") \/ Stop("InvalidPointer")
  BY <1>3, StopIInv DEF Ends
<1>4. CASE /\ Accepted(op, k) /\ ~ Null(i) /\ ~ Null(j)
           /\ \E o \in Execute(Emit(op, i, j)) :
                IF o.stop # "" THEN Stop(o.stop)
                ELSE Write(Register(ResultType(op, s, t, shortcircuit), o.word,
                                    ResultKind(op, s, t), MarkOf(op, i, j)))
  <2>1. PICK o \in Execute(Emit(op, i, j)) :
          IF o.stop # "" THEN Stop(o.stop)
          ELSE Write(Register(ResultType(op, s, t, shortcircuit), o.word,
                              ResultKind(op, s, t), MarkOf(op, i, j)))
    BY <1>4
  <2> HIDE DEF op
  <2>2. o \in Compute(op, regs[i].word, regs[j].word)
    BY DEF Execute, Emit
  <2>3. o \in Outcomes
    BY <1>1, <2>2, ComputeType, RegisterFacts
  <2>4. o.word \in Words /\ o.stop \in Stops
    BY <2>3 DEF Outcomes
  <2>5. CASE o.stop # ""
    BY <2>1, <2>4, <2>5, StopIInv DEF Stops, Ends
  <2>6. CASE o.stop = ""
    <3> DEFINE type == ResultType(op, s, t, shortcircuit)
               kind == ResultKind(op, s, t)
               mark == MarkOf(op, i, j)
    <3>1. k \in Builtins
      BY <1>4 DEF Accepted, Builtins
    <3>2. kind \in Builtins /\ type \in Types /\ Operand(type) = kind
      BY <1>1, <1>2, <3>1, ResultFacts
    <3>3. mark \in Marks
      BY DEF MarkOf, Marks
    <3>4. /\ mark # "raw" => (kind = "bool" => o.word \in {0, 1})
          /\ mark = "narrow" => Narrow(kind, o.word)
      <4>1. CASE op \in ComparedOps
        <5>1. o.word \in {0, 1} /\ kind = "bool"
          <6>1. o \in {Done(0), Done(1)}
            BY <2>2, <4>1, ComputeIs, ComparedType
          <6>2. o.word \in {0, 1}
            <7>1. Done(0).word = 0 /\ Done(1).word = 1
              BY DEF Done
            <7> QED  BY <6>1, <7>1
          <6> QED  BY <4>1, <6>2 DEF ResultKind
        <5> QED  BY <5>1, HoldsFit DEF Holds
      <4>2. CASE op \notin ComparedOps
        <5>1. kind = k
          BY <4>2 DEF ResultKind
        <5>2. k = Computed(Operand(regs[i].type), Operand(regs[j].type))
          OBVIOUS
        <5> HIDE DEF kind, k, s, t
        <5>3. /\ MarkOf(op, i, j) # "raw" /\ k = "bool" => o.word \in {0, 1}
              /\ MarkOf(op, i, j) = "narrow" => Narrow(k, o.word)
          BY <1>1, <1>4, <2>6, <3>1, <4>2, <5>2, OperatorWord
        <5> QED  BY <5>1, <5>3
      <4> QED  BY <4>1, <4>2
    <3>5. Write(Register(type, o.word, kind, mark))
      BY <2>1, <2>6
    <3> HIDE DEF type, kind, mark
    <3>6. Sound(Register(type, o.word, kind, mark))
      BY <2>4, <3>2, <3>3, <3>4, WrittenSound
    <3> QED  BY <3>5, <3>6, WriteIInv
  <2> QED  BY <2>5, <2>6
<1> QED  BY <1>3, <1>4 DEF CallOperator

LEMMA NotIInv ==
  ASSUME IInv, NEW i \in 1 .. 2, CallNot(i)
  PROVE  IInv'
<1> DEFINE t == regs[i].type
<1>1. CASE Stop("refused") \/ Stop("InvalidPointer")
  BY <1>1, StopIInv DEF Ends
<1>2. CASE /\ t \in {Builtin("bool"), Builtin("ptr"), Object("bool")}
           /\ Write(Register(t, Negation(regs[i].word).word, Operand(t), "narrow"))
  <2> DEFINE w == Negation(regs[i].word).word
  <2>1. w \in {0, 1} /\ w \in Words
    BY AllFacts DEF Negation, Done
  <2>2. Operand(t) \in {"bool", "ptr"} /\ t \in Types
    BY <1>2, TypeFacts, KindsApart
  <2>3. Operand(t) \in Builtins /\ Narrow(Operand(t), w)
    BY <2>1, <2>2, KindsApart, HoldsFit DEF Holds
  <2> HIDE DEF w, t
  <2>4. Sound(Register(t, w, Operand(t), "narrow"))
    BY <2>1, <2>2, <2>3, WrittenSound DEF Marks
  <2> QED  BY <1>2, <2>4, WriteIInv DEF w
<1> QED  BY <1>1, <1>2 DEF CallNot

LEMMA WriteVoidIInv ==
  ASSUME IInv, WriteVoid
  PROVE  IInv'
<1> DEFINE r == [regs[1] EXCEPT !.type = Builtin("void"), !.held = "void"]
<1>1. regs[1] \in Registers /\ Builtin("void") \in Types
  BY RegisterFacts, TypeFacts
<1>2. r \in Registers /\ r.held = "void" /\ r.type = Builtin("void")
  BY <1>1 DEF Registers
<1>3. Builtin("void").kind \notin Builtins
  BY TypeFacts, KindsApart
<1>4. Write(r)
  BY DEF WriteVoid
<1> HIDE DEF r
<1>5. Sound(r)
  BY <1>2, <1>3 DEF Sound
<1> QED  BY <1>4, <1>5, WriteIInv

LEMMA AssertIInv ==
  ASSUME IInv, NEW i \in 1 .. 2, CallAssert(i)
  PROVE  IInv'
BY WriteVoidIInv, StopIInv DEF CallAssert, Ends

(* A narrow integer fits a wider type of its sign.                         *)
LEMMA WidenedSound ==
  ASSUME IInv, NEW j \in 1 .. 2, NEW to \in Builtins, Widens(regs[j].type.kind, to)
  PROVE  Sound([regs[j] EXCEPT !.type = Builtin(to), !.held = to])
<1> DEFINE r    == [regs[j] EXCEPT !.type = Builtin(to), !.held = to]
           from == regs[j].type.kind
<1>1. /\ r \in Registers /\ r.type = Builtin(to) /\ r.held = to
      /\ r.word = regs[j].word /\ r.mark = regs[j].mark
  <2>1. regs[j] \in Registers /\ Builtin(to) \in Types
    BY RegisterFacts, TypeFacts
  <2> QED  BY <2>1 DEF Registers
<1>2. from \in Integer /\ to \in Integer /\ (from \in Unsigned <=> to \in Unsigned)
      /\ Rank[from] <= Rank[to]
  <2>1. /\ from \in Integer /\ Rank[to] > Rank[from]
        /\ TypeSign(from) = TypeSign(to)
    BY DEF Widens, Integer
  <2>2. to \in Integer /\ (from \in Unsigned <=> to \in Unsigned)
    BY <2>1, SignedTypes, RankFacts DEF Integer
  <2>3. Rank[from] \in Int /\ Rank[to] \in Int
    BY <2>1, <2>2, RankFacts
  <2> QED  BY <2>1, <2>2, <2>3
<1>3. from \in Builtins /\ Operand(regs[j].type) = from /\ ~ IsObject(regs[j].type)
  BY <1>2, KindsApart DEF Operand, IsObject
<1>4. ASSUME regs[j].mark # "raw", r.mark = "narrow" PROVE Narrow(to, r.word)
  <2>1. Narrow(from, r.word) /\ r.word \in Words
    BY <1>1, <1>3, <1>4, RegisterFacts, OperandFacts
  <2>2. r.word \in Fit(from)
    BY <1>2, <2>1, NarrowIsFit
  <2>3. r.word \in Fit(to)
    BY <1>2, <2>2, FitWider
  <2> QED  BY <1>2, <2>3, HoldsFit DEF Holds
<1>5. Builtin(to).kind = to /\ Builtin(to).class = "void" /\ ~ IsObject(Builtin(to))
      /\ Operand(Builtin(to)) = to /\ to # "void" /\ to # "bool"
  BY <1>2, TypeFacts, KindsApart
<1> HIDE DEF r
<1>6. Sound(r)
  BY <1>1, <1>4, <1>5 DEF Sound
<1> QED  BY <1>6 DEF r

(* The same builtin type.                                                  *)
LEMMA SameTypeSound ==
  ASSUME IInv, NEW j \in 1 .. 2
  PROVE  Sound([regs[j] EXCEPT !.type = Builtin(regs[j].type.kind)])
<1> DEFINE r == [regs[j] EXCEPT !.type = Builtin(regs[j].type.kind)]
<1>1. /\ Sound(regs[j]) /\ regs[j] \in Registers /\ regs[j].type \in Types
  BY RegisterFacts
<1>2. CASE \E k \in Builtins \cup {"void", "any"} : regs[j].type = Builtin(k)
  <2>1. Builtin(regs[j].type.kind) = regs[j].type
    BY <1>2, TypeFacts
  <2>2. r = regs[j]
    BY <1>1, <2>1 DEF Registers
  <2> QED  BY <1>1, <2>2
<1>3. CASE \E c \in Builtins : regs[j].type = Object(c)
  <2>1. regs[j].type.kind = "any"
    BY <1>3, TypeFacts
  <2>2. r \in Registers /\ r.type = Builtin("any")
    BY <1>1, <2>1, TypeFacts DEF Registers
  <2>3. Builtin("any").kind = "any" /\ Builtin("any").class = "void" /\ ~ IsObject(Builtin("any"))
        /\ Operand(Builtin("any")) = "any"
    BY TypeFacts
  <2>4. Narrow("any", r.word)
    BY KindsApart DEF Narrow, Integer
  <2> HIDE DEF r
  <2>5. Sound(r)
    BY <2>2, <2>3, <2>4, KindsApart DEF Sound
  <2> QED  BY <2>5 DEF r
<1> QED  BY <1>1, <1>2, <1>3, TypeCases

LEMMA AsIInv ==
  ASSUME IInv, NEW i \in 1 .. 2, NEW j \in 1 .. 2, CallAs(i, j)
  PROVE  IInv'
<1> DEFINE to   == regs[i].type.kind
           from == regs[j].type.kind
<1>1. CASE Stop("assertion") \/ Stop("refused")
  BY <1>1, StopIInv DEF Ends
<1>2. CASE from = to /\ Write([regs[j] EXCEPT !.type = Builtin(to)])
  <2>1. Write([regs[j] EXCEPT !.type = Builtin(regs[j].type.kind)])
    BY <1>2
  <2> QED  BY <2>1, SameTypeSound, WriteIInv
<1>3. CASE /\ "none" \notin {TypeSign(from), TypeSign(to)}
           /\ Widens(from, to) /\ Write([regs[j] EXCEPT !.type = Builtin(to), !.held = to])
  <2>1. to \in Builtins
    BY <1>3, SignedTypes, KindsApart
  <2> QED  BY <1>3, <2>1, WidenedSound, WriteIInv
<1>4. CASE /\ "none" \notin {TypeSign(from), TypeSign(to)}
           /\ \E w \in Cast(from, to, regs[j].word) :
                Write(Register(Builtin(to), w, to, "narrow"))
  <2>1. to \in Integer \cup Floats /\ to \in Builtins /\ regs[j].word \in Words
    BY <1>4, SignedTypes, KindsApart, RegisterFacts
  <2>2. PICK w \in Cast(from, to, regs[j].word) :
          Write(Register(Builtin(to), w, to, "narrow"))
    BY <1>4
  <2>3. Holds(to, w)
    BY <2>1, CastHolds
  <2> QED  BY <2>1, <2>2, <2>3, BuiltinSound, WriteIInv
<1> QED  BY <1>1, <1>2, <1>3, <1>4 DEF CallAs

LEMMA PointerIInv ==
  ASSUME IInv, NEW i \in 1 .. 2, CallPointer(i)
  PROVE  IInv'
<1>1. PICK w \in Words : Write(Register(Builtin("ptr"), w, "ptr", "narrow"))
  BY AllFacts DEF CallPointer
<1>2. Holds("ptr", w) /\ "ptr" \in Builtins
  BY HoldsFit, KindsApart
<1> QED  BY <1>1, <1>2, BuiltinSound, WriteIInv

LEMMA SizeofIInv ==
  ASSUME IInv, CallSizeof
  PROVE  IInv'
<1>1. PICK w \in Words : Write(Register(Builtin("u64"), w, "u64", "narrow"))
  BY DEF CallSizeof
<1>2. "u64" \in Integer
  BY DEF Integer, Unsigned
<1>3. Holds("u64", w) /\ "u64" \in Builtins
  BY <1>2, HoldsFit, WholeFit, KindsApart
<1> QED  BY <1>1, <1>3, BuiltinSound, WriteIInv

LEMMA ServiceIInv ==
  ASSUME IInv, NEW name \in Services, NEW args, CallService(name, args)
  PROVE  IInv'
<1>1. CASE Stop("refused") \/ WriteVoid
  BY <1>1, StopIInv, WriteVoidIInv DEF Ends
<1>2. CASE /\ Returns(name) # "void"
           /\ \E w \in Loaded(name) :
                Write(Register(Builtin(Returns(name)), w, Returns(name),
                               IF name = "strlen32" THEN "whole" ELSE "narrow"))
  <2> DEFINE k    == Returns(name)
             mark == IF name = "strlen32" THEN "whole" ELSE "narrow"
  <2>1. PICK w \in Loaded(name) : Write(Register(Builtin(k), w, k, mark))
    BY <1>2
  <2>2. /\ k \in Builtins /\ w \in Words /\ (k = "bool" => w \in {0, 1})
        /\ mark = "narrow" => Narrow(k, w)
    BY <1>2, LoadedHolds DEF Holds
  <2>3. mark \in Marks /\ Builtin(k) \in Types /\ Operand(Builtin(k)) = k
    BY <2>2, TypeFacts DEF Marks
  <2> HIDE DEF k, mark
  <2>4. Sound(Register(Builtin(k), w, Operand(Builtin(k)), mark))
    BY <2>2, <2>3, WrittenSound
  <2> QED  BY <2>1, <2>3, <2>4, WriteIInv
<1> QED  BY <1>1, <1>2 DEF CallService

LEMMA CatalogIInv ==
  ASSUME IInv, NEW count, NEW ret \in CatalogKinds \cup {"void"}, NEW args,
         CallCatalog(count, ret, args)
  PROVE  IInv'
<1>1. CASE Stop("refused") \/ WriteVoid
  BY <1>1, StopIInv, WriteVoidIInv DEF Ends
<1>2. CASE /\ ret # "void"
           /\ \E w \in CatalogReturns(ret) :
                Write(Register(Builtin(ret), w, ret,
                               IF ret \in {"u8", "u16", "u32"} THEN "whole" ELSE "narrow"))
  <2> DEFINE mark == IF ret \in {"u8", "u16", "u32"} THEN "whole" ELSE "narrow"
  <2>1. PICK w \in CatalogReturns(ret) : Write(Register(Builtin(ret), w, ret, mark))
    BY <1>2
  <2>2. ret \in Builtins
    BY <1>2, LiteralsAssumption
  <2>3. /\ w \in Words /\ (ret = "bool" => w \in {0, 1})
        /\ mark = "narrow" => Narrow(ret, w)
    BY <2>2, CatalogHolds DEF Holds
  <2>4. mark \in Marks /\ Builtin(ret) \in Types /\ Operand(Builtin(ret)) = ret
    BY <2>2, TypeFacts DEF Marks
  <2> HIDE DEF mark
  <2>5. Sound(Register(Builtin(ret), w, Operand(Builtin(ret)), mark))
    BY <2>2, <2>3, <2>4, WrittenSound
  <2> QED  BY <2>1, <2>4, <2>5, WriteIInv
<1> QED  BY <1>1, <1>2 DEF CallCatalog

LEMMA ReinterpretIInv ==
  ASSUME IInv, NEW i \in 1 .. 2, NEW j \in 1 .. 2, CallReinterpret(i, j)
  PROVE  IInv'
<1>1. CASE Stop("InvalidPointer")
  BY <1>1, StopIInv DEF Ends
<1>2. CASE \E w \in Words : Write(Register(regs[j].type, w, regs[i].held, "raw"))
  <2>1. PICK w \in Words : Write(Register(regs[j].type, w, regs[i].held, "raw"))
    BY <1>2
  <2>2. Sound(Register(regs[j].type, w, regs[i].held, "raw"))
    BY RegisterFacts DEF Sound, Register, Registers, Marks
  <2> QED  BY <2>1, <2>2, WriteIInv
<1>3. regs[i].word \in Words
  BY RegisterFacts
<1> QED  BY <1>1, <1>2, <1>3 DEF CallReinterpret

LEMMA TypeSizeIInv ==
  ASSUME IInv, CallTypeSize
  PROVE  IInv'
<1>1. PICK c \in {"u64", "i64"} : Write(Register(Object(c), 0, "void", "narrow"))
  BY DEF CallTypeSize
<1>2. c \in Builtins
  BY DEF Builtins, Unsigned, Signed
<1>3. Object(c) \in Types /\ Object(c).kind \notin Builtins
  BY <1>2, TypeFacts, KindsApart
<1> QED  BY <1>1, <1>3, NothingSound, WriteIInv

-----------------------------------------------------------------------------
(* The program.                                                            *)

LEMMA InitIInv ==
  ASSUME Init
  PROVE  IInv
<1>1. ASSUME NEW r \in Initial PROVE Sound(r)
  <2>1. CASE \E k \in {"void", "any"} : r = Register(Builtin(k), 0, "void", "narrow")
    BY <2>1, NothingSound, TypeFacts, KindsApart
  <2>2. CASE \E k \in DOMAIN Literals : \E t \in {Builtin(k), Object(k)} : \E w \in Literals[k] :
               r = Register(t, w, k, "narrow")
    <3>1. PICK k \in DOMAIN Literals :
            \E t \in {Builtin(k), Object(k)} : \E w \in Literals[k] : r = Register(t, w, k, "narrow")
      BY <2>2
    <3>6. PICK t \in {Builtin(k), Object(k)}, w \in Literals[k] : r = Register(t, w, k, "narrow")
      BY <3>1
    <3>2. k \in Builtins /\ Literals[k] \subseteq Words /\ (k = "bool" => w \in {0, 1})
          /\ Narrow(k, w)
      BY LiteralsAssumption, SmallWord
    <3>3. t \in Types /\ Operand(t) = k
      BY <3>2, TypeFacts
    <3>4. w \in Words
      BY <3>2
    <3>5. Sound(Register(t, w, Operand(t), "narrow"))
      BY <3>2, <3>3, <3>4, WrittenSound DEF Marks
    <3> QED  BY <3>6, <3>3, <3>5
  <2>3. \/ \E k \in {"void", "any"} : r = Register(Builtin(k), 0, "void", "narrow")
        \/ \E k \in DOMAIN Literals :
             r \in {Register(t, w, k, "narrow") : t \in {Builtin(k), Object(k)}, w \in Literals[k]}
    BY DEF Initial
  <2> QED  BY <2>1, <2>2, <2>3
<1> QED  BY <1>1 DEF Init, IInv, Ends

LEMMA StepIInv ==
  ASSUME IInv, [Next]_vars
  PROVE  IInv'
<1>1. CASE UNCHANGED vars
  BY <1>1 DEF vars, IInv
<1>2. CASE Next
  <2>1. PICK i \in 1 .. 2, j \in 1 .. 2 :
       \/ \E name \in Ops : CallOperator(name, i, j, FALSE)
       \/ \E name \in {"and", "or"} : CallOperator(name, i, j, TRUE)
       \/ CallNot(i)
       \/ CallAssert(i)
       \/ CallAs(i, j)
       \/ CallPointer(i)
       \/ CallSizeof
       \/ \E name \in Services : \E args \in Args(Len(Accepts(name))) : CallService(name, args)
       \/ \E count \in 0..1, ret \in CatalogKinds \cup {"void"} :
            \E args \in Args(count) : CallCatalog(count, ret, args)
       \/ CallReinterpret(i, j)
       \/ CallTypeSize
       \/ CallAliasRefused
    BY <1>2 DEF Next, Ops
  <2>2. CASE \E name \in Ops : CallOperator(name, i, j, FALSE)
    BY <2>2, OperatorIInv
  <2>3. CASE \E name \in {"and", "or"} : CallOperator(name, i, j, TRUE)
    <3>1. {"and", "or"} \subseteq Ops
      BY DEF Ops, WholeOps
    <3> QED  BY <2>3, <3>1, OperatorIInv
  <2>4. CASE CallNot(i)
    BY <2>4, NotIInv
  <2>5. CASE CallAssert(i)
    BY <2>5, AssertIInv
  <2>6. CASE CallAs(i, j)
    BY <2>6, AsIInv
  <2>7. CASE CallPointer(i)
    BY <2>7, PointerIInv
  <2>8. CASE CallSizeof
    BY <2>8, SizeofIInv
  <2>9. CASE \E name \in Services : \E args \in Args(Len(Accepts(name))) : CallService(name, args)
    BY <2>9, ServiceIInv
  <2>10. CASE \E count \in 0..1, ret \in CatalogKinds \cup {"void"} :
                \E args \in Args(count) : CallCatalog(count, ret, args)
    BY <2>10, CatalogIInv
  <2>11. CASE CallReinterpret(i, j)
    BY <2>11, ReinterpretIInv
  <2>12. CASE CallTypeSize
    BY <2>12, TypeSizeIInv
  <2>13. CASE CallAliasRefused
    BY <2>13, StopIInv DEF CallAliasRefused, Ends
  <2> QED  BY <2>1, <2>2, <2>3, <2>4, <2>5, <2>6, <2>7, <2>8, <2>9, <2>10, <2>11, <2>12, <2>13
<1> QED  BY <1>1, <1>2

LEMMA Inductive == Spec => []IInv
<1>1. Init => IInv
  BY InitIInv
<1>2. IInv /\ [Next]_vars => IInv'
  BY StepIInv
<1> QED  BY <1>1, <1>2, PTL DEF Spec

-----------------------------------------------------------------------------
(* The theorems.                                                           *)

(* Whatever intrinsics a program calls, the machine leaves words of 64     *)
(* bits in registers of the types of the language.                         *)
THEOREM IntrinsicsTypes == Spec => []TypeOK
<1>1. IInv => TypeOK
  BY DEF IInv, Sound, Registers, Marks, Ends, TypeOK
<1> QED  BY <1>1, Inductive, PTL

(* A bool is 0 or 1 through every sequence of calls, for every width of    *)
(* the types: what `eq' compares is what a jump tests.                     *)
THEOREM BoolsStayCanonical == Spec => []BoolsCanonical
<1>1. IInv => BoolsCanonical
  BY DEF IInv, Sound, BoolsCanonical
<1> QED  BY <1>1, Inductive, PTL

(* The object emitBuiltinOperator allocates is of the class of the type it *)
(* computed, whatever operands it promoted.                                *)
THEOREM ObjectsMatch == Spec => []BoxesMatch
<1>1. IInv => BoxesMatch
  BY DEF IInv, Sound, BoxesMatch
<1> QED  BY <1>1, Inductive, PTL

(* A register of a narrow type keeps a value of its width, extended with   *)
(* zeros or with its sign, through bitwise operations, remainders, casts   *)
(* and copies to a wider type: the promotion of two narrow operands and    *)
(* the signed remainder of the machine keep it.                            *)
THEOREM NarrowKept == Spec => []NarrowStaysNarrow
<1>1. IInv => NarrowStaysNarrow
  BY DEF IInv, Sound, NarrowStaysNarrow
<1> QED  BY <1>1, Inductive, PTL
=============================================================================
