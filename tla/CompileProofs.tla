---------------------------- MODULE CompileProofs ----------------------------
(***************************************************************************)
(* A FOR loop whose numbers codegen can compare takes every value once,    *)
(* for registers of any sizes and any bounds and step, and an operator on  *)
(* variables leaves the number that its constants would fold to; of a text *)
(* with conditions the preprocessor passes on what the conditions choose;  *)
(* and a warning about NEW and DISPOSE is true of every execution.         *)
(***************************************************************************)
EXTENDS ForLoop, Arithmetic, Branches, HeapCheck, SetLemmas

-----------------------------------------------------------------------------
(* Remainders.                                                               *)

LEMMA DivisionFact ==
    ASSUME NEW s \in Nat, 0 < s, NEW n \in Int
    PROVE  /\ n = s * (n \div s) + (n % s)
           /\ n \div s \in Int /\ n % s \in 0 .. s - 1
  OBVIOUS

LEMMA ModLow ==
    ASSUME NEW s \in Nat, NEW n \in Int, 0 <= n, n < s
    PROVE  n % s = n
  OBVIOUS

LEMMA ModNegative ==
    ASSUME NEW s \in Nat, NEW n \in Int, -s <= n, n < 0
    PROVE  n % s = n + s
  OBVIOUS

LEMMA SmallMultiple ==
    ASSUME NEW s \in Nat, 0 < s, NEW q \in Int, -s < s * q, s * q < s
    PROVE  q = 0
<1>1. CASE q >= 1
  <2>1. s * q >= s BY <1>1
  <2>2. QED BY <2>1
<1>2. CASE q <= -1
  <2>1. s * q <= -s BY <1>2
  <2>2. QED BY <2>1
<1>3. QED BY <1>1, <1>2

LEMMA ModUnique ==
    ASSUME NEW s \in Nat, 0 < s, NEW n \in Int, NEW q \in Int, NEW r \in 0 .. s - 1,
           n = s * q + r
    PROVE  n % s = r
<1> DEFINE p == n \div s
<1>1. n = s * p + (n % s) /\ p \in Int /\ n % s \in 0 .. s - 1 BY DivisionFact
<1> HIDE DEF p
<1>2. s * (p - q) = r - (n % s) BY <1>1
<1>3. p - q = 0 BY <1>1, <1>2, SmallMultiple
<1>4. QED BY <1>1, <1>2, <1>3

LEMMA ModPeriod ==
    ASSUME NEW s \in Nat, 0 < s, NEW n \in Int, NEW q \in Int
    PROVE  (n + s * q) % s = n % s
<1> DEFINE p == n \div s
           r == n % s
           m == n + s * q
           k == p + q
<1>1. n = s * p + r /\ p \in Int /\ r \in 0 .. s - 1 BY DivisionFact
<1>2. n + s * q = s * (p + q) + r BY <1>1
<1>3. m \in Int /\ k \in Int /\ m = s * k + r BY <1>1, <1>2
<1> HIDE DEF m, r, k
<1>4. m % s = r BY <1>1, <1>3, ModUnique
<1>5. QED BY <1>4 DEF m, r

\* A remainder may be taken by a multiple first.
LEMMA ModMod ==
    ASSUME NEW s \in Nat, 0 < s, NEW w \in Nat, 0 < w, w % s = 0, NEW n \in Int
    PROVE  (n % w) % s = n % s
<1> DEFINE a == n \div w
           k == w \div s
           q == k * a
           m == n % w
<1>1. n = w * a + m /\ a \in Int /\ m \in Int BY DivisionFact
<1>2. w = s * k /\ k \in Int BY DivisionFact
<1> HIDE DEF a, k, m
<1>3. w * a = s * (k * a) BY <1>1, <1>2
<1>4. n = m + s * (k * a) /\ k * a \in Int BY <1>1, <1>2, <1>3
<1>5. q \in Int /\ n = m + s * q BY <1>4
<1> HIDE DEF q
<1>6. (m + s * q) % s = m % s BY <1>1, <1>5, ModPeriod
<1>7. QED BY <1>5, <1>6 DEF m

LEMMA ModShift ==
    ASSUME NEW s \in Nat, 0 < s, NEW n \in Int, NEW m \in Int, NEW q \in Int, n = m + s * q
    PROVE  n % s = m % s
  BY ModPeriod

LEMMA ModSum ==
    ASSUME NEW s \in Nat, 0 < s, NEW a \in Int, NEW b \in Int
    PROVE  /\ ((a % s) + b) % s = (a + b) % s
           /\ (a - (b % s)) % s = (a - b) % s
<1> DEFINE p == a \div s
           q == b \div s
           x == a % s
           y == b % s
           sum == a + b
           sumx == x + b
           diff == a - b
           diffy == a - y
<1>1. a = s * p + x /\ p \in Int /\ x \in Int BY DivisionFact
<1>2. b = s * q + y /\ q \in Int /\ y \in Int BY DivisionFact
<1> HIDE DEF p, q, x, y
<1>3. sum \in Int /\ sumx \in Int /\ sum = sumx + s * p BY <1>1
<1>4. diff \in Int /\ diffy \in Int /\ diffy = diff + s * q BY <1>2
<1> HIDE DEF sum, sumx, diff, diffy
<1>5. sum % s = sumx % s BY <1>1, <1>3, ModShift
<1>6. diffy % s = diff % s BY <1>2, <1>4, ModShift
<1>7. QED BY <1>5, <1>6 DEF x, y, sum, sumx, diff, diffy

-----------------------------------------------------------------------------
(* Registers.                                                                *)

HalfWide == Wide \div 2
HalfNarrow == Narrow \div 2

LEMMA Sizes ==
    /\ HalfWide \in Nat /\ HalfNarrow \in Nat /\ HalfNarrow > 0
    /\ Wide = 2 * HalfWide /\ Narrow = 2 * HalfNarrow
    /\ Wide \in Nat /\ Narrow \in Nat /\ Narrow > 0
    /\ HalfWide >= Narrow /\ Wide > Narrow
    /\ Wide % Narrow = 0
  BY SizesAssumption DEF HalfWide, HalfNarrow

\* The signed number of a register is the one that was put in, if it is in range.
LEMMA SignedRegister ==
    ASSUME NEW h \in Nat, NEW n \in Int, -h <= n, n < h
    PROVE  Signed(Register(n, 2 * h)) = n
<1>1. CASE n >= 0
  <2>1. n % (2 * h) = n BY <1>1, ModLow
  <2>2. QED BY <1>1, <2>1 DEF Signed, Register
<1>2. CASE n < 0
  <2>1. n % (2 * h) = n + 2 * h BY <1>2, ModNegative
  <2>2. QED BY <1>2, <2>1 DEF Signed, Register
<1>3. QED BY <1>1, <1>2

\* A number of the unsigned range survives a widening, one of any range none.
LEMMA CoercedRegister ==
    ASSUME NEW s \in Nat, 0 < s, NEW w \in Nat, 0 < w, NEW n \in Int,
           s = w \/ (0 <= n /\ n < s)
    PROVE  Coerced(Register(n, s), w) = Register(n, w)
<1>1. CASE s = w
  <2>1. n % s \in Int /\ 0 <= n % s /\ n % s < s BY DivisionFact
  <2>2. (n % s) % s = n % s BY <2>1, ModLow
  <2>3. QED BY <1>1, <2>2 DEF Coerced, Register
<1>2. CASE 0 <= n /\ n < s
  <2>1. n % s = n BY <1>2, ModLow
  <2>2. QED BY <2>1 DEF Coerced, Register
<1>3. QED BY <1>1, <1>2

\* The variable's number is the value, for the values of its type.
LEMMA NumberOf ==
    ASSUME NEW ty \in Types, NEW v \in Values(ty)
    PROVE  Number(Register(v, Size(ty)), ty) = v
<1>1. CASE ty = "INTEGER"
  <2>1. v \in Int /\ -HalfWide <= v /\ v < HalfWide
    BY <1>1, Sizes DEF Values, Lowest, Size, IsWide, IsSigned, HalfWide
  <2>2. Signed(Register(v, Wide)) = v BY <2>1, Sizes, SignedRegister
  <2>3. QED BY <1>1, <2>2 DEF Number, Size, IsWide, IsSigned
<1>2. CASE ty = "INTEGER8"
  <2>1. v \in Int /\ -HalfNarrow <= v /\ v < HalfNarrow
    BY <1>2, Sizes DEF Values, Lowest, Size, IsWide, IsSigned, HalfNarrow
  <2>2. Signed(Register(v, Narrow)) = v BY <2>1, Sizes, SignedRegister
  <2>3. QED BY <1>2, <2>2 DEF Number, Size, IsWide, IsSigned
<1>3. CASE ty \in {"CARDINAL", "CARDINAL8"}
  <2>1. v \in Int /\ 0 <= v /\ v < Size(ty) /\ Size(ty) \in Nat
    BY <1>3, Sizes DEF Values, Lowest, Size, IsWide, IsSigned
  <2>2. v % Size(ty) = v BY <2>1, ModLow
  <2>3. QED BY <1>3, <2>2 DEF Number, Register, IsSigned
<1>4. QED BY <1>1, <1>2, <1>3 DEF Types

\* The smaller of two sizes does not count, and Wide is the largest.
LEMMA Largest ==
    ASSUME NEW s \in {Narrow, Wide}, NEW t \in {Narrow, Wide}, NEW a \in Int, NEW b \in Int
    PROVE  /\ Larger(Register(a, s), Register(b, t)) \in {s, t}
           /\ s <= Larger(Register(a, s), Register(b, t))
           /\ t <= Larger(Register(a, s), Register(b, t))
           /\ Wide \in {s, t} => Larger(Register(a, s), Register(b, t)) = Wide
<1>1. Larger(Register(a, s), Register(b, t)) = IF s < t THEN t ELSE s BY DEF Larger, Register
<1>2. QED BY <1>1, Sizes

LEMMA IsSize ==
    ASSUME NEW s \in {Narrow, Wide}
    PROVE  s \in Nat /\ 0 < s
  BY Sizes

\* Two registers are compared as the numbers they stand for, when both fit.
LEMMA Comparison ==
    ASSUME NEW s \in {Narrow, Wide}, NEW t \in {Narrow, Wide}, NEW a \in Int, NEW b \in Int,
           \/ s = t /\ -(s \div 2) <= a /\ a < s \div 2 /\ -(s \div 2) <= b /\ b < s \div 2
           \/ 0 <= a /\ a < s /\ 0 <= b /\ b < t /\ Wide \in {s, t} /\ a < HalfWide /\ b < HalfWide
    PROVE  AtMost(Register(a, s), Register(b, t)) <=> a <= b
<1> DEFINE l == Register(a, s)
           r == Register(b, t)
<1>1. l.size = s /\ r.size = t BY DEF Register
<1>2. CASE s = t /\ -(s \div 2) <= a /\ a < s \div 2 /\ -(s \div 2) <= b /\ b < s \div 2
  <2>1. Larger(l, r) = s BY <1>1, <1>2 DEF Larger
  <2>2. Coerced(l, s) = l /\ Coerced(r, s) = r BY <1>2, Sizes, CoercedRegister
  <2>3. \E h \in Nat : s = 2 * h /\ s \div 2 = h BY Sizes
  <2>4. Signed(l) = a /\ Signed(r) = b BY <1>2, <2>3, SignedRegister
  <2>5. QED BY <2>1, <2>2, <2>4 DEF AtMost
<1>3. CASE 0 <= a /\ a < s /\ 0 <= b /\ b < t /\ Wide \in {s, t} /\ a < HalfWide /\ b < HalfWide
  <2>1. Larger(l, r) = Wide BY <1>3, Largest
  <2>2. Coerced(l, Wide) = Register(a, Wide) BY <1>3, IsSize, Sizes, CoercedRegister
  <2>5. Coerced(r, Wide) = Register(b, Wide) BY <1>3, IsSize, Sizes, CoercedRegister
  <2>3. Signed(Register(a, Wide)) = a /\ Signed(Register(b, Wide)) = b
    BY <1>3, Sizes, SignedRegister
  <2>4. QED BY <2>1, <2>2, <2>3, <2>5 DEF AtMost
<1>4. QED BY <1>2, <1>3

\* A distance that is not negative, of numbers that can be subtracted.
LEMMA Distance ==
    ASSUME NEW s \in {Narrow, Wide}, NEW t \in {Narrow, Wide}, NEW a \in Int, NEW b \in Int,
           0 <= a - b, a - b < HalfWide,
           \/ s = t /\ a - b < s
           \/ 0 <= a /\ a < s /\ 0 <= b /\ b < t
    PROVE  Coerced(Minus(Register(a, s), Register(b, t)), Wide) = Register(a - b, Wide)
<1> DEFINE l == Register(a, s)
           r == Register(b, t)
           n == Larger(l, r)
           d == a - b
<1>1. l.size = s /\ r.size = t /\ l.bits = a % s /\ r.bits = b % t BY DEF Register
<1>2. n \in {s, t} /\ s <= n /\ t <= n BY Largest
<1>3. d \in Int /\ 0 <= d /\ d < n
  <2>1. CASE s = t /\ a - b < s BY <1>2, <2>1, Sizes
  <2>2. CASE 0 <= a /\ a < s /\ 0 <= b /\ b < t
    <3>1. a - b <= a /\ a < n BY <1>2, <2>2, Sizes
    <3>2. QED BY <3>1, Sizes, <1>2
  <2>3. QED BY <2>1, <2>2
<1>4. ((a % s) - (b % t)) % n = d % n
  <2>1. CASE s = t /\ a - b < s
    <3>1. n = s /\ s > 0 /\ s \in Nat BY <1>2, <2>1, Sizes
    <3>2. a % s \in Int BY <3>1, DivisionFact
    <3>3. ((a % s) - (b % s)) % s = ((a % s) - b) % s BY <3>1, <3>2, ModSum
    <3> DEFINE c == 0 - b
    <3>4. c \in Int /\ (a % s) - b = (a % s) + c /\ a - b = a + c BY <3>2
    <3> HIDE DEF c
    <3>5. ((a % s) + c) % s = (a + c) % s BY <3>1, <3>4, ModSum
    <3>6. QED BY <2>1, <3>1, <3>3, <3>4, <3>5
  <2>2. CASE 0 <= a /\ a < s /\ 0 <= b /\ b < t
    <3>1. a % s = a /\ b % t = b BY <2>2, Sizes, ModLow
    <3>2. QED BY <3>1
  <2>3. QED BY <2>1, <2>2
<1>5. Minus(l, r) = Register(d, n) BY <1>1, <1>4 DEF Minus, Register
<1>6. n \in Nat /\ 0 < n BY <1>2, Sizes
<1> HIDE DEF d, n
<1>7. Coerced(Register(d, n), Wide) = Register(d, Wide) BY <1>3, <1>6, Sizes, CoercedRegister
<1>8. QED BY <1>5, <1>7 DEF d

-----------------------------------------------------------------------------
(* The tests of the loop.                                                    *)

\* A value the loop gets to: between its start and its end, or its start.
Reached(f, v) ==
    /\ v \in Values(f.ty) /\ ComparesRight(f, v)
    /\ IF f.step > 0 THEN f.start <= v ELSE v <= f.start
    /\ v = f.start \/ Within(f, v)

LEMMA LoopFacts ==
    ASSUME NEW f \in Loops, NEW v \in Values(f.ty)
    PROVE  /\ f.ty \in Types /\ f.typed \in BOOLEAN
           /\ f.step \in Int /\ f.step # 0
           /\ f.start \in Values(f.ty) /\ f.end \in Values(f.ty)
           /\ f.start \in Int /\ f.end \in Int /\ v \in Int
           /\ Size(f.ty) \in {Narrow, Wide}
           /\ Lowest(f.ty) \in Int
<1>1. /\ f.ty \in Types /\ f.typed \in BOOLEAN /\ f.step \in Int /\ f.step # 0
      /\ f.start \in Values(f.ty) /\ f.end \in Values(f.ty)
  BY LoopsAssumption
<1>2. Size(f.ty) \in {Narrow, Wide} BY DEF Size
<1>3. Lowest(f.ty) \in Int
  <2>1. Size(f.ty) \div 2 \in Int BY <1>2, Sizes DEF HalfWide, HalfNarrow
  <2>2. QED BY <2>1 DEF Lowest
<1>4. \A n \in Values(f.ty) : n \in Int BY <1>2, <1>3, Sizes DEF Values
<1>5. QED BY <1>1, <1>2, <1>3, <1>4

LEMMA RegisterEnd ==
    ASSUME NEW f \in Loops
    PROVE  EndRegister(f) = Register(f.end, IF f.typed THEN Size(f.ty) ELSE Wide)
  BY DEF EndRegister

\* What the two sides of the test are, type by type.
LEMMA Comparable ==
    ASSUME NEW f \in Loops, Ordinary(f),
           NEW v \in Values(f.ty), ComparesRight(f, v),
           NEW s, s = Size(f.ty), NEW t, t = IF f.typed THEN Size(f.ty) ELSE Wide
    PROVE  /\ s \in {Narrow, Wide} /\ t \in {Narrow, Wide}
           /\ \/ /\ s = t /\ -(s \div 2) <= v /\ v < s \div 2
                 /\ -(s \div 2) <= f.end /\ f.end < s \div 2
              \/ /\ 0 <= v /\ v < s /\ 0 <= f.end /\ f.end < t
                 /\ Wide \in {s, t} /\ v < HalfWide /\ f.end < HalfWide
<1>1. /\ f.ty \in Types /\ v \in Int /\ f.end \in Int /\ f.end \in Values(f.ty)
  BY LoopFacts
<1>2. ComparesRight(f, f.end) BY DEF Ordinary
<1>3. CASE f.ty = "INTEGER"
  BY <1>1, <1>3, Sizes DEF Values, Lowest, Size, IsWide, IsSigned, HalfWide
<1>4. CASE f.ty = "CARDINAL"
  BY <1>1, <1>2, <1>4, Sizes DEF Values, Lowest, Size, IsWide, IsSigned, HalfWide, ComparesRight
<1>5. CASE f.ty = "INTEGER8"
  BY <1>1, <1>2, <1>5, Sizes
     DEF Values, Lowest, Size, IsWide, IsSigned, HalfWide, HalfNarrow, ComparesRight
<1>6. CASE f.ty = "CARDINAL8"
  <2>1. s = Narrow /\ 0 <= v /\ v < Narrow /\ 0 <= f.end /\ f.end < Narrow
    BY <1>1, <1>6, Sizes DEF Values, Lowest, Size, IsWide, IsSigned
  <2>2. CASE f.typed
    <3>1. t = Narrow /\ v < HalfNarrow /\ f.end < HalfNarrow
      BY <1>2, <1>6, <2>2, Sizes DEF ComparesRight, HalfNarrow, Size, IsWide
    <3>2. QED BY <1>1, <2>1, <3>1, Sizes DEF HalfNarrow
  <2>3. CASE ~f.typed
    <3>1. t = Wide BY <2>3
    <3>2. v < HalfWide /\ f.end < HalfWide BY <1>1, <2>1, Sizes
    <3>3. /\ f.end < Narrow /\ Narrow < Wide
          /\ f.end \in Int /\ Narrow \in Int /\ Wide \in Int
      BY <1>1, <2>1, Sizes
    <3>4. f.end < Wide BY <3>3
    <3>5. QED BY <2>1, <3>1, <3>2, <3>4
  <2>4. QED BY <2>2, <2>3
<1>7. QED BY <1>1, <1>3, <1>4, <1>5, <1>6 DEF Types

LEMMA ZeroAndStep ==
    ASSUME NEW f \in Loops, Ordinary(f)
    PROVE  /\ f.step \in Int /\ -HalfWide < f.step /\ f.step < HalfWide
           /\ Ascending(f) <=> f.step > 0
           /\ Minus(Zero, StepRegister(f)) = Register(0 - f.step, Wide)
<1>1. f.step \in Int /\ f.step # 0 BY LoopsAssumption
<1>2. -HalfWide < f.step /\ f.step < HalfWide
  <2>1. Magnitude(f.step) < HalfWide BY DEF Ordinary, DistanceFits, HalfWide
  <2>2. QED BY <1>1, <2>1, Sizes DEF Magnitude
<1>3. Ascending(f) <=> 0 <= f.step
  BY <1>1, <1>2, Sizes, Comparison DEF Ascending, Zero, StepRegister, HalfWide
<1>4. Minus(Zero, StepRegister(f)) = Register(0 - f.step, Wide)
  <2>1. Larger(Zero, StepRegister(f)) = Wide BY <1>1, Largest DEF Zero, StepRegister
  <2>2. 0 % Wide = 0 BY Sizes, ModLow
  <2> DEFINE z == 0
  <2>3. z \in Int OBVIOUS
  <2> HIDE DEF z
  <2>4. Wide > 0 BY Sizes
  <2>5. (z - (f.step % Wide)) % Wide = (z - f.step) % Wide BY <1>1, <2>3, <2>4, Sizes, ModSum
  <2>6. QED BY <2>1, <2>2, <2>5 DEF Minus, Zero, StepRegister, Register, z
<1>5. QED BY <1>1, <1>2, <1>3, <1>4

LEMMA EntersWithin ==
    ASSUME NEW f \in Loops, Ordinary(f), NEW v, Reached(f, v)
    PROVE  Enters(f, Register(v, Size(f.ty))) <=> Within(f, v)
<1> DEFINE s == Size(f.ty)
           t == IF f.typed THEN Size(f.ty) ELSE Wide
<1>1. v \in Values(f.ty) /\ ComparesRight(f, v) BY DEF Reached
<1>2. v \in Int /\ f.end \in Int BY <1>1, LoopFacts
<1>3. /\ s \in {Narrow, Wide} /\ t \in {Narrow, Wide}
      /\ \/ /\ s = t /\ -(s \div 2) <= v /\ v < s \div 2
            /\ -(s \div 2) <= f.end /\ f.end < s \div 2
         \/ /\ 0 <= v /\ v < s /\ 0 <= f.end /\ f.end < t
            /\ Wide \in {s, t} /\ v < HalfWide /\ f.end < HalfWide
  BY <1>1, Comparable
<1>4. EndRegister(f) = Register(f.end, t) BY RegisterEnd
<1> HIDE DEF s, t
<1>5. AtMost(Register(v, s), Register(f.end, t)) <=> v <= f.end BY <1>2, <1>3, Comparison
<1>6. AtMost(Register(f.end, t), Register(v, s)) <=> f.end <= v BY <1>2, <1>3, Comparison
<1>7. Enters(f, Register(v, s)) <=> Within(f, v)
  BY <1>2, <1>4, <1>5, <1>6, ZeroAndStep DEF Enters, Within
<1>8. QED BY <1>7 DEF s

LEMMA Between ==
    ASSUME NEW low \in Int, NEW high \in Int, NEW a \in low .. high, NEW b \in low .. high,
           NEW n \in Int, (a <= n /\ n <= b) \/ (b <= n /\ n <= a)
    PROVE  n \in low .. high
  OBVIOUS

\* Between the start and the end, every number is of the type and comparable.
LEMMA NextReached ==
    ASSUME NEW f \in Loops, Ordinary(f), NEW v, Reached(f, v), Within(f, v),
           Within(f, v + f.step)
    PROVE  Reached(f, v + f.step)
<1> DEFINE n == v + f.step
<1>1. v \in Values(f.ty) /\ ComparesRight(f, v) BY DEF Reached
<1>2. /\ f.ty \in Types /\ v \in Int /\ f.end \in Int /\ f.start \in Int
      /\ f.step \in Int /\ f.step # 0 /\ f.end \in Values(f.ty)
      /\ Size(f.ty) \in {Narrow, Wide} /\ Lowest(f.ty) \in Int
  BY <1>1, LoopFacts
<1>3. n \in Int /\ ((v <= n /\ n <= f.end) \/ (f.end <= n /\ n <= v)) BY <1>2 DEF Within
<1> HIDE DEF n
<1>4. n \in Values(f.ty)
  <2>1. Lowest(f.ty) + Size(f.ty) - 1 \in Int BY <1>2, IsSize
  <2>2. QED BY <1>1, <1>2, <1>3, <2>1, Between DEF Values
<1>5. ComparesRight(f, f.end) BY DEF Ordinary
<1>6. ComparesRight(f, n)
  <2>1. HalfWide \in Int /\ HalfNarrow \in Int BY Sizes
  <2>2. CASE f.ty = "INTEGER" BY <2>2 DEF ComparesRight
  <2>3. CASE f.ty = "CARDINAL"
    BY <1>1, <1>2, <1>3, <1>5, <2>1, <2>3 DEF ComparesRight, HalfWide
  <2>4. CASE f.ty = "INTEGER8" BY <1>1, <1>2, <1>3, <1>5, <2>4 DEF ComparesRight
  <2>5. CASE f.ty = "CARDINAL8"
    BY <1>1, <1>2, <1>3, <1>5, <2>1, <2>5 DEF ComparesRight, HalfNarrow
  <2>6. QED BY <1>2, <2>2, <2>3, <2>4, <2>5 DEF Types
<1>7. IF f.step > 0 THEN f.start <= n ELSE n <= f.start BY <1>2 DEF Reached, n
<1>8. QED BY <1>4, <1>6, <1>7 DEF Reached, n

\* The distance from a value within to the end.
LEMMA EndDistance ==
    ASSUME NEW f \in Loops, Ordinary(f), NEW v, Reached(f, v), Within(f, v)
    PROVE  LET cur == Register(v, Size(f.ty))
           IN  IF f.step > 0
               THEN Coerced(Minus(EndRegister(f), cur), Wide) = Register(f.end - v, Wide)
                    /\ 0 <= f.end - v /\ f.end - v < HalfWide
               ELSE Coerced(Minus(cur, EndRegister(f)), Wide) = Register(v - f.end, Wide)
                    /\ 0 <= v - f.end /\ v - f.end < HalfWide
<1> DEFINE s == Size(f.ty)
           t == IF f.typed THEN Size(f.ty) ELSE Wide
           cur == Register(v, s)
<1>1. v \in Values(f.ty) /\ ComparesRight(f, v) BY DEF Reached
<1>2. /\ v \in Int /\ f.end \in Int /\ f.start \in Int /\ f.step \in Int
      /\ f.end \in Values(f.ty) /\ Lowest(f.ty) \in Int
  BY <1>1, LoopFacts
<1>3. /\ s \in {Narrow, Wide} /\ t \in {Narrow, Wide}
      /\ s = t \/ (0 <= v /\ v < s /\ 0 <= f.end /\ f.end < t)
  BY <1>1, Comparable
<1>4. f.end - v < s /\ v - f.end < s BY <1>1, <1>2, <1>3, IsSize DEF Values
<1>5. EndRegister(f) = Register(f.end, t) BY RegisterEnd
<1>6. -HalfWide < f.end - f.start /\ f.end - f.start < HalfWide
  <2>1. Magnitude(f.end - f.start) < HalfWide BY DEF Ordinary, DistanceFits, HalfWide
  <2>2. QED BY <1>2, <2>1, Sizes DEF Magnitude
<1> HIDE DEF s, t
<1>7. CASE f.step > 0
  <2>1. 0 <= f.end - v /\ f.end - v < HalfWide BY <1>2, <1>6, <1>7, Sizes DEF Within, Reached
  <2>2. Coerced(Minus(Register(f.end, t), Register(v, s)), Wide) = Register(f.end - v, Wide)
    BY <1>2, <1>3, <1>4, <2>1, Distance
  <2>3. QED BY <1>5, <1>7, <2>1, <2>2 DEF s
<1>8. CASE ~(f.step > 0)
  <2>1. 0 <= v - f.end /\ v - f.end < HalfWide BY <1>2, <1>6, <1>8, Sizes DEF Within, Reached
  <2>2. Coerced(Minus(Register(v, s), Register(f.end, t)), Wide) = Register(v - f.end, Wide)
    BY <1>2, <1>3, <1>4, <2>1, Distance
  <2>3. QED BY <1>5, <1>8, <2>1, <2>2 DEF s
<1>9. QED BY <1>7, <1>8

\* A wide register and one of any size, when the numbers are small enough.
LEMMA AtMostWide ==
    ASSUME NEW r, NEW s \in {Narrow, Wide}, r.size = s, NEW a \in Int, NEW d \in Int,
           Coerced(r, Wide) = Register(d, Wide),
           -HalfWide <= a, a < HalfWide, -HalfWide <= d, d < HalfWide
    PROVE  AtMost(Register(a, Wide), r) <=> a <= d
<1> DEFINE l == Register(a, Wide)
<1>1. Larger(l, r) = Wide
  <2>1. l.size = Wide BY DEF Register
  <2>2. ~(Wide < s) BY Sizes
  <2>3. QED BY <2>1, <2>2 DEF Larger
<1>2. Coerced(l, Wide) = l
  <2>1. Wide \in Nat /\ 0 < Wide BY Sizes
  <2>2. QED BY <2>1, CoercedRegister
<1>3. Signed(l) = a /\ Signed(Register(d, Wide)) = d BY Sizes, SignedRegister
<1>4. QED BY <1>1, <1>2, <1>3 DEF AtMost

LEMMA SizeOfMinus ==
    ASSUME NEW s \in {Narrow, Wide}, NEW t \in {Narrow, Wide}, NEW a \in Int, NEW b \in Int
    PROVE  Minus(Register(a, s), Register(b, t)).size \in {Narrow, Wide}
<1>1. Minus(Register(a, s), Register(b, t)).size = Larger(Register(a, s), Register(b, t))
  BY DEF Minus, Register
<1>2. QED BY <1>1, Largest

LEMMA FitsWithin ==
    ASSUME NEW f \in Loops, Ordinary(f), NEW v, Reached(f, v), Within(f, v)
    PROVE  Fits(f, Register(v, Size(f.ty))) <=> Within(f, v + f.step)
<1> DEFINE cur == Register(v, Size(f.ty))
           up == Minus(EndRegister(f), cur)
           down == Minus(cur, EndRegister(f))
<1>1. v \in Values(f.ty) BY DEF Reached
<1>2. v \in Int /\ f.end \in Int /\ f.step \in Int /\ Size(f.ty) \in {Narrow, Wide}
  BY <1>1, LoopFacts
<1>3. up.size \in {Narrow, Wide} /\ down.size \in {Narrow, Wide}
  BY <1>2, RegisterEnd, SizeOfMinus
<1>4. /\ -HalfWide < f.step /\ f.step < HalfWide
      /\ Ascending(f) <=> f.step > 0
      /\ Minus(Zero, StepRegister(f)) = Register(0 - f.step, Wide)
  BY ZeroAndStep
<1>5. IF f.step > 0
      THEN Coerced(up, Wide) = Register(f.end - v, Wide) /\ 0 <= f.end - v /\ f.end - v < HalfWide
      ELSE Coerced(down, Wide) = Register(v - f.end, Wide) /\ 0 <= v - f.end /\ v - f.end < HalfWide
  BY EndDistance
<1>6. Fits(f, cur) <=> IF f.step > 0 THEN AtMost(Register(f.step, Wide), up)
                                      ELSE AtMost(Register(0 - f.step, Wide), down)
  BY <1>4 DEF Fits, StepRegister
<1> HIDE DEF cur, up, down
<1>7. CASE f.step > 0
  <2>1. AtMost(Register(f.step, Wide), up) <=> f.step <= f.end - v
    BY <1>2, <1>3, <1>4, <1>5, <1>7, Sizes, AtMostWide
  <2>2. QED BY <1>2, <1>6, <1>7, <2>1 DEF Within, cur
<1>8. CASE ~(f.step > 0)
  <2>1. AtMost(Register(0 - f.step, Wide), down) <=> 0 - f.step <= v - f.end
    BY <1>2, <1>3, <1>4, <1>5, <1>8, Sizes, AtMostWide
  <2>2. QED BY <1>2, <1>6, <1>8, <2>1 DEF Within, cur
<1>9. QED BY <1>7, <1>8

LEMMA AdvancedRegister ==
    ASSUME NEW f \in Loops, NEW v \in Values(f.ty)
    PROVE  Advanced(f, Register(v, Size(f.ty))) = Register(v + f.step, Size(f.ty))
<1> DEFINE s == Size(f.ty)
           cur == Register(v, s)
           n == f.step
<1>1. v \in Int /\ n \in Int /\ s \in {Narrow, Wide} BY LoopFacts
<1>2. s \in Nat /\ 0 < s /\ Wide \in Nat /\ 0 < Wide BY <1>1, IsSize, Sizes
<1>3. Wide % s = 0
  <2>1. Wide % Wide = 0 BY <1>2, ModUnique
  <2>2. QED BY <1>1, <2>1, Sizes
<1>4. Larger(cur, StepRegister(f)) = Wide BY <1>1, Largest DEF StepRegister
<1> HIDE DEF s, n
<1> DEFINE x == v % s
           y == n % Wide
<1>5. x \in Int /\ y \in Int BY <1>1, <1>2, DivisionFact
<1>6. ((x + y) % Wide) % s = (v + n) % s
  <2> DEFINE xy == x + y
  <2>1. xy \in Int BY <1>5
  <2> HIDE DEF xy
  <2>2. (xy % Wide) % s = xy % s BY <1>2, <1>3, <2>1, ModMod
  <2> USE DEF xy
  <2>3. (x + y) % s = (v + y) % s BY <1>1, <1>2, <1>5, ModSum
  <2>4. (y + v) % s = ((y % s) + v) % s BY <1>1, <1>2, <1>5, ModSum
  <2>5. y % s = n % s BY <1>1, <1>2, <1>3, ModMod
  <2>6. ((n % s) + v) % s = (n + v) % s BY <1>1, <1>2, ModSum
  <2>7. v + y = y + v /\ v + n = n + v BY <1>1, <1>5
  <2>8. QED BY <2>2, <2>3, <2>4, <2>5, <2>6, <2>7
<1>7. QED BY <1>4, <1>6 DEF Advanced, Coerced, Plus, Register, StepRegister, s, n

-----------------------------------------------------------------------------
(* The loop.                                                                 *)

\* The value the variable holds.
Value == IF place \in {"step", "advance"} THEN due - loop.step ELSE due

\* EveryValueOnce with what it rests on: the register holds a value of the
\* loop, and the blocks behind a test know its answer.
IInv ==
    /\ loop \in Loops /\ due \in Int
    /\ place \in {"cond", "body", "step", "advance", "exit"}
    /\ Ordinary(loop) =>
        /\ place # "exit" => /\ Reached(loop, Value)
                             /\ control = Register(Value, Size(loop.ty))
        /\ place \in {"body", "step", "advance"} => Within(loop, Value)
        /\ place = "advance" => Within(loop, due)
        /\ place = "exit" => ~Within(loop, due)

LEMMA IInvInit == ForInit => IInv
<1> SUFFICES ASSUME ForInit PROVE IInv OBVIOUS
<1>1. loop \in Loops /\ place = "cond" /\ due = loop.start BY DEF ForInit
<1>2. /\ loop.start \in Values(loop.ty) /\ loop.start \in Int /\ loop.step \in Int
      /\ Size(loop.ty) \in {Narrow, Wide}
  BY <1>1, LoopsAssumption, LoopFacts
<1>3. ASSUME Ordinary(loop) PROVE Reached(loop, loop.start)
  BY <1>2, <1>3 DEF Reached, Ordinary
<1>4. control = Register(loop.start, Size(loop.ty))
  <2>1. Size(loop.ty) \in Nat /\ 0 < Size(loop.ty) /\ Wide \in Nat /\ 0 < Wide
    BY <1>2, IsSize, Sizes
  <2>2. Wide % Size(loop.ty) = 0
    <3>1. Wide % Wide = 0 BY <2>1, ModUnique
    <3>2. QED BY <1>2, <3>1, Sizes
  <2>3. (loop.start % Wide) % Size(loop.ty) = loop.start % Size(loop.ty)
    BY <1>2, <2>1, <2>2, ModMod
  <2>4. QED BY <2>3 DEF ForInit, StartRegister, Coerced, Register
<1>5. QED BY <1>1, <1>2, <1>3, <1>4 DEF IInv, Value

LEMMA IInvNext == IInv /\ [ForNext]_forVars => IInv'
<1> SUFFICES ASSUME IInv, [ForNext]_forVars PROVE IInv' OBVIOUS
<1>1. loop \in Loops /\ due \in Int /\ loop.step \in Int BY LoopsAssumption DEF IInv
<1>2. CASE Header
  <2>1. loop' = loop /\ due' = due /\ control' = control /\ place = "cond"
    BY <1>2 DEF Header
  <2>2. place' = IF Enters(loop, control) THEN "body" ELSE "exit" BY <1>2 DEF Header
  <2>3. ASSUME Ordinary(loop) PROVE Enters(loop, control) <=> Within(loop, due)
    <3>1. Reached(loop, due) /\ control = Register(due, Size(loop.ty))
      BY <2>1, <2>3 DEF IInv, Value
    <3>2. QED BY <1>1, <2>3, <3>1, EntersWithin
  <2>4. QED BY <2>1, <2>2, <2>3 DEF IInv, Value
<1>3. CASE Body
  <2>1. /\ loop' = loop /\ due' = due + loop.step /\ control' = control
        /\ place = "body" /\ place' = "step"
    BY <1>3 DEF Body
  <2>2. due' \in Int /\ due' - loop.step = due BY <1>1, <2>1
  <2>3. QED BY <2>1, <2>2 DEF IInv, Value
<1>4. CASE StepTest
  <2>1. loop' = loop /\ due' = due /\ control' = control /\ place = "step"
    BY <1>4 DEF StepTest
  <2>2. place' = IF Fits(loop, control) THEN "advance" ELSE "exit" BY <1>4 DEF StepTest
  <2>3. ASSUME Ordinary(loop) PROVE Fits(loop, control) <=> Within(loop, due)
    <3>1. /\ Reached(loop, due - loop.step) /\ Within(loop, due - loop.step)
          /\ control = Register(due - loop.step, Size(loop.ty))
      BY <2>1, <2>3 DEF IInv, Value
    <3>2. (due - loop.step) + loop.step = due BY <1>1
    <3>3. QED BY <1>1, <2>3, <3>1, <3>2, FitsWithin
  <2>4. QED BY <2>1, <2>2, <2>3 DEF IInv, Value
<1>5. CASE Advance
  <2>1. /\ loop' = loop /\ due' = due /\ control' = Advanced(loop, control)
        /\ place = "advance" /\ place' = "cond"
    BY <1>5 DEF Advance
  <2>2. ASSUME Ordinary(loop)
        PROVE  Reached(loop, due) /\ control' = Register(due, Size(loop.ty))
    <3>1. /\ Reached(loop, due - loop.step) /\ Within(loop, due - loop.step)
          /\ control = Register(due - loop.step, Size(loop.ty)) /\ Within(loop, due)
      BY <2>1, <2>2 DEF IInv, Value
    <3>2. (due - loop.step) + loop.step = due BY <1>1
    <3>3. Reached(loop, due) BY <1>1, <2>2, <3>1, <3>2, NextReached
    <3>4. due - loop.step \in Values(loop.ty) BY <3>1 DEF Reached
    <3>5. Advanced(loop, control) = Register(due, Size(loop.ty))
      BY <1>1, <3>1, <3>2, <3>4, AdvancedRegister
    <3>6. QED BY <2>1, <3>3, <3>5
  <2>3. QED BY <2>1, <2>2 DEF IInv, Value
<1>6. CASE UNCHANGED forVars BY <1>6 DEF forVars, IInv, Value
<1>7. QED BY <1>2, <1>3, <1>4, <1>5, <1>6 DEF ForNext

LEMMA IInvImplies == IInv => EveryValueOnce
<1> SUFFICES ASSUME IInv, Ordinary(loop)
             PROVE  /\ place = "body" => Number(control, loop.ty) = due /\ Within(loop, due)
                    /\ place = "exit" => ~Within(loop, due)
  BY DEF EveryValueOnce
<1>1. ASSUME place = "body" PROVE Number(control, loop.ty) = due /\ Within(loop, due)
  <2>1. loop \in Loops /\ loop.ty \in Types BY LoopsAssumption DEF IInv
  <2>2. Reached(loop, due) /\ control = Register(due, Size(loop.ty)) /\ Within(loop, due)
    BY <1>1 DEF IInv, Value
  <2>3. QED BY <2>1, <2>2, NumberOf DEF Reached
<1>2. QED BY <1>1 DEF IInv

(* In every FOR loop whose numbers codegen can compare, for registers of any  *)
(* sizes, any type of the variable, any bounds and any step, the body runs    *)
(* with each value of the loop once and in order, and the loop ends when, and *)
(* only when, none is left (lower_for).                                       *)
THEOREM LoopTakesEveryValue == ForSpec => []EveryValueOnce
<1>1. IInv /\ [ForNext]_forVars => IInv' BY IInvNext
<1>2. QED BY <1>1, IInvInit, IInvImplies, PTL DEF ForSpec

(* The control variable stays a register of its type, and control flow in the *)
(* blocks of the loop, also in the loops whose numbers do not compare.        *)
THEOREM LoopShape == ForSpec => []TypeOKFor
<1>1. ForInit => TypeOKFor
  <2> SUFFICES ASSUME ForInit PROVE TypeOKFor OBVIOUS
  <2>1. loop \in Loops /\ loop.start \in Int /\ Size(loop.ty) \in Nat /\ 0 < Size(loop.ty)
    BY LoopsAssumption, LoopFacts, IsSize DEF ForInit
  <2>2. loop.start % Wide \in Int BY <2>1, Sizes, DivisionFact
  <2>3. control.bits \in 0 .. Size(loop.ty) - 1
    BY <2>1, <2>2, DivisionFact DEF ForInit, StartRegister, Coerced, Register
  <2>4. QED BY <2>1, <2>3 DEF TypeOKFor, ForInit, StartRegister, Coerced, Register
<1>2. TypeOKFor /\ [ForNext]_forVars => TypeOKFor'
  <2> SUFFICES ASSUME TypeOKFor, [ForNext]_forVars PROVE TypeOKFor' OBVIOUS
  <2>1. /\ loop \in Loops /\ loop.step \in Int /\ due \in Int
        /\ Size(loop.ty) \in Nat /\ 0 < Size(loop.ty)
    BY LoopsAssumption, LoopFacts, IsSize DEF TypeOKFor
  <2>2. CASE Header BY <2>1, <2>2 DEF Header, TypeOKFor
  <2>3. CASE Body BY <2>1, <2>3 DEF Body, TypeOKFor
  <2>4. CASE StepTest BY <2>1, <2>4 DEF StepTest, TypeOKFor
  <2>5. CASE Advance
    <3> DEFINE sum == Plus(control, StepRegister(loop))
    <3>1. control.bits \in Int /\ control.size = Size(loop.ty) BY <2>1 DEF TypeOKFor
    <3>2. loop.step % Wide \in Int
      <4>1. Wide \in Nat /\ 0 < Wide BY Sizes
      <4>2. QED BY <2>1, <4>1, DivisionFact
    <3>3. Larger(control, StepRegister(loop)) \in Nat /\ 0 < Larger(control, StepRegister(loop))
      BY <2>1, <3>1, Sizes DEF Larger, StepRegister, Register
    <3>4. sum.bits \in Int
      BY <3>1, <3>2, <3>3, DivisionFact DEF Plus, Register, StepRegister
    <3> HIDE DEF sum
    <3>5. sum.bits % Size(loop.ty) \in 0 .. Size(loop.ty) - 1 BY <2>1, <3>4, DivisionFact
    <3>6. control' = [bits |-> sum.bits % Size(loop.ty), size |-> Size(loop.ty)]
      BY <2>5, <3>1 DEF Advance, Advanced, Coerced, Register, sum
    <3>7. QED BY <2>1, <2>5, <3>5, <3>6 DEF Advance, TypeOKFor
  <2>6. CASE UNCHANGED forVars BY <2>6 DEF forVars, TypeOKFor
  <2>7. QED BY <2>2, <2>3, <2>4, <2>5, <2>6 DEF ForNext
<1>3. QED BY <1>1, <1>2, PTL DEF ForSpec

-----------------------------------------------------------------------------
(* Remainders of sums and products.                                          *)

LEMMA ProductOf ==
    ASSUME NEW s \in Int, NEW p \in Int, NEW q \in Int, NEW r \in Int, NEW t \in Int
    PROVE  (s * p + r) * (s * q + t) = r * t + s * (p * (s * q + t) + r * q)
  OBVIOUS

LEMMA ModBits ==
    ASSUME NEW s \in Nat, 0 < s, NEW a \in Int, NEW b \in Int
    PROVE  /\ ((a % s) + (b % s)) % s = (a + b) % s
           /\ ((a % s) - (b % s)) % s = (a - b) % s
           /\ ((a % s) * (b % s)) % s = (a * b) % s
<1> DEFINE p == a \div s
           q == b \div s
           r == a % s
           t == b % s
<1>1. a = s * p + r /\ b = s * q + t /\ p \in Int /\ q \in Int /\ r \in Int /\ t \in Int
  BY DivisionFact
<1> HIDE DEF p, q, r, t
<1>2. (r + t) % s = (a + b) % s
  <2>1. a + b = (r + t) + s * (p + q) BY <1>1
  <2>2. r + t \in Int /\ p + q \in Int /\ a + b \in Int BY <1>1
  <2>3. QED BY <2>1, <2>2, ModShift
<1>3. (r - t) % s = (a - b) % s
  <2>1. a - b = (r - t) + s * (p - q) BY <1>1
  <2>2. r - t \in Int /\ p - q \in Int /\ a - b \in Int BY <1>1
  <2>3. QED BY <2>1, <2>2, ModShift
<1>4. (r * t) % s = (a * b) % s
  <2> DEFINE k == p * b + r * q
  <2>1. a * b = r * t + s * k BY <1>1, ProductOf
  <2>2. k \in Int /\ r * t \in Int /\ a * b \in Int BY <1>1
  <2> HIDE DEF k
  <2>3. QED BY <2>1, <2>2, ModShift
<1>5. QED BY <1>2, <1>3, <1>4 DEF r, t

-----------------------------------------------------------------------------
(* Operators on whole numbers.                                               *)

\* The size of an operand's register.
Span(x) == IF ~x.const /\ x.ty = "CARDINAL8" THEN Narrow ELSE Wide

\* The size of the operation.
OperationSize(x, y) == IF Span(x) = Narrow /\ Span(y) = Narrow THEN Narrow ELSE Wide

LEMMA ValuesAre ==
    /\ Values("INTEGER") = -HalfWide .. HalfWide - 1 /\ Lowest("INTEGER") = -HalfWide
    /\ Values("INTEGER8") = -HalfNarrow .. HalfNarrow - 1
    /\ Values("CARDINAL") = 0 .. Wide - 1
    /\ Values("CARDINAL8") = 0 .. Narrow - 1
<1>1. /\ IsSigned("INTEGER") /\ IsSigned("INTEGER8") /\ ~IsSigned("CARDINAL") /\ ~IsSigned("CARDINAL8")
      /\ Size("INTEGER") = Wide /\ Size("CARDINAL") = Wide
      /\ Size("INTEGER8") = Narrow /\ Size("CARDINAL8") = Narrow
  BY DEF IsSigned, Size, IsWide
<1>2. /\ Lowest("INTEGER") = -HalfWide /\ Lowest("INTEGER8") = -HalfNarrow
      /\ Lowest("CARDINAL") = 0 /\ Lowest("CARDINAL8") = 0
  BY <1>1 DEF Lowest, HalfWide, HalfNarrow
<1>3. Values("INTEGER") = -HalfWide .. HalfWide - 1
  <2>1. -HalfWide + Wide - 1 = HalfWide - 1 BY Sizes
  <2>2. QED BY <1>1, <1>2, <2>1 DEF Values
<1>4. Values("INTEGER8") = -HalfNarrow .. HalfNarrow - 1
  <2>1. -HalfNarrow + Narrow - 1 = HalfNarrow - 1 BY Sizes
  <2>2. QED BY <1>1, <1>2, <2>1 DEF Values
<1>5. Values("CARDINAL") = 0 .. Wide - 1
  <2>1. 0 + Wide - 1 = Wide - 1 BY Sizes
  <2>2. QED BY <1>1, <1>2, <2>1 DEF Values
<1>6. Values("CARDINAL8") = 0 .. Narrow - 1
  <2>1. 0 + Narrow - 1 = Narrow - 1 BY Sizes
  <2>2. QED BY <1>1, <1>2, <2>1 DEF Values
<1>7. QED BY <1>2, <1>3, <1>4, <1>5, <1>6

LEMMA RangeIs ==
    ASSUME NEW a \in Int, NEW b \in Int, NEW v \in a .. b
    PROVE  v \in Int /\ a <= v /\ v <= b
  OBVIOUS

LEMMA Bounds ==
    ASSUME NEW v
    PROVE  /\ v \in -HalfWide .. Wide - 1 => v \in Int /\ -HalfWide <= v /\ v < Wide
           /\ v \in -HalfWide .. HalfWide - 1 => v \in Int /\ -HalfWide <= v /\ v < Wide /\ v < HalfWide
           /\ v \in -HalfNarrow .. HalfNarrow - 1 =>
                 v \in Int /\ -HalfWide <= v /\ v < Wide /\ v < HalfWide /\ -HalfNarrow <= v /\ v < HalfNarrow
           /\ v \in 0 .. Wide - 1 => v \in Int /\ -HalfWide <= v /\ v < Wide /\ 0 <= v
           /\ v \in 0 .. Narrow - 1 => v \in Int /\ -HalfWide <= v /\ v < Wide /\ 0 <= v /\ v < Narrow
<1>1. /\ -HalfWide \in Int /\ -HalfNarrow \in Int /\ 0 \in Int
      /\ Wide - 1 \in Int /\ HalfWide - 1 \in Int /\ HalfNarrow - 1 \in Int /\ Narrow - 1 \in Int
  BY Sizes
<1>2. CASE v \in Int
  BY <1>1, <1>2, Sizes
<1>3. CASE v \notin Int
  BY <1>1, <1>3, RangeIs
<1>4. QED BY <1>2, <1>3

LEMMA OperandIs ==
    ASSUME NEW x \in Operands
    PROVE  /\ x.ty \in Types /\ x.const \in BOOLEAN
           /\ x.value \in Int /\ -HalfWide <= x.value /\ x.value < Wide
           /\ Span(x) \in {Narrow, Wide}
           /\ Span(x) = Narrow => 0 <= x.value /\ x.value < Narrow /\ IsUnsigned(x) /\ x.ty = "CARDINAL8"
           /\ IsUnsigned(x) => 0 <= x.value
           /\ ~x.const /\ x.ty = "INTEGER8" => -HalfNarrow <= x.value /\ x.value < HalfNarrow
           /\ ~x.const /\ IsSigned(x.ty) => x.value < HalfWide
<1>1. /\ x.const \in BOOLEAN /\ x.ty \in Types
      /\ IF x.const THEN x.ty = "INTEGER" /\ x.value \in Lowest("INTEGER") .. Wide - 1
                    ELSE x.value \in Values(x.ty)
  BY OperandsAssumption
<1>2. Span(x) \in {Narrow, Wide} /\ (Span(x) = Narrow => ~x.const /\ x.ty = "CARDINAL8")
  BY Sizes DEF Span
<1>3. CASE x.const
  <2>1. x.value \in -HalfWide .. Wide - 1 BY <1>1, <1>3, ValuesAre
  <2>2. ~IsUnsigned(x) BY <1>3 DEF IsUnsigned
  <2>3. x.value \in Int /\ -HalfWide <= x.value /\ x.value < Wide
    BY <2>1, Bounds
  <2>4. QED BY <1>1, <1>2, <1>3, <2>2, <2>3
<1>4. CASE ~x.const /\ x.ty = "INTEGER"
  <2>1. x.value \in -HalfWide .. HalfWide - 1 BY <1>1, <1>4, ValuesAre
  <2>2. ~IsUnsigned(x) BY <1>4 DEF IsUnsigned, IsSigned
  <2>3. x.value \in Int /\ -HalfWide <= x.value /\ x.value < Wide /\ x.value < HalfWide
    BY <2>1, Bounds
  <2>4. QED BY <1>1, <1>2, <1>4, <2>2, <2>3
<1>5. CASE ~x.const /\ x.ty = "INTEGER8"
  <2>1. x.value \in -HalfNarrow .. HalfNarrow - 1 BY <1>1, <1>5, ValuesAre
  <2>2. ~IsUnsigned(x) BY <1>5 DEF IsUnsigned, IsSigned
  <2>3. x.value \in Int /\ -HalfWide <= x.value /\ x.value < Wide /\ x.value < HalfWide /\ -HalfNarrow <= x.value /\ x.value < HalfNarrow
    BY <2>1, Bounds
  <2>4. QED BY <1>1, <1>2, <1>5, <2>2, <2>3
<1>6. CASE ~x.const /\ x.ty = "CARDINAL"
  <2>1. x.value \in 0 .. Wide - 1 BY <1>1, <1>6, ValuesAre
  <2>2. IsUnsigned(x) /\ ~IsSigned(x.ty) BY <1>6 DEF IsUnsigned, IsSigned
  <2>3. x.value \in Int /\ -HalfWide <= x.value /\ x.value < Wide /\ 0 <= x.value
    BY <2>1, Bounds
  <2>4. QED BY <1>1, <1>2, <1>6, <2>2, <2>3
<1>7. CASE ~x.const /\ x.ty = "CARDINAL8"
  <2>1. x.value \in 0 .. Narrow - 1 BY <1>1, <1>7, ValuesAre
  <2>2. IsUnsigned(x) /\ ~IsSigned(x.ty) BY <1>7 DEF IsUnsigned, IsSigned
  <2>3. x.value \in Int /\ -HalfWide <= x.value /\ x.value < Wide /\ 0 <= x.value /\ x.value < Narrow
    BY <2>1, Bounds
  <2>4. QED BY <1>1, <1>2, <1>7, <2>2, <2>3
<1>8. QED BY <1>1, <1>3, <1>4, <1>5, <1>6, <1>7 DEF Types

LEMMA WidenedIs ==
    ASSUME NEW x \in Operands
    PROVE  Widened(x) = Register(x.value, Span(x))
<1>1. CASE ~x.const /\ x.ty = "INTEGER8"
  <2>1. Fetched(x) = Register(x.value, 2 * HalfNarrow)
    BY <1>1, Sizes DEF Fetched, Size, IsWide
  <2>2. Signed(Fetched(x)) = x.value
    BY <1>1, <2>1, OperandIs, Sizes, SignedRegister
  <2>3. QED BY <1>1, <2>2 DEF Widened, SignExtended, Span
<1>2. CASE ~(~x.const /\ x.ty = "INTEGER8")
  <2>1. Widened(x) = Fetched(x) BY <1>2 DEF Widened
  <2>2. (IF x.const THEN Wide ELSE Size(x.ty)) = Span(x)
    BY <1>2, OperandIs DEF Size, IsWide, Span, Types
  <2>3. QED BY <2>1, <2>2 DEF Fetched
<1>3. QED BY <1>1, <1>2

\* The operands, at the size of the operation.
LEMMA OperandsAligned ==
    ASSUME NEW x \in Operands, NEW y \in Operands
    PROVE  /\ OperationSize(x, y) \in {Narrow, Wide}
           /\ Larger(Widened(x), Widened(y)) = OperationSize(x, y)
           /\ Widened(x).bits = x.value % OperationSize(x, y)
           /\ Widened(y).bits = y.value % OperationSize(x, y)
           /\ Coerced(Widened(x), OperationSize(x, y)) = Register(x.value, OperationSize(x, y))
           /\ Coerced(Widened(y), OperationSize(x, y)) = Register(y.value, OperationSize(x, y))
<1> DEFINE s == OperationSize(x, y)
<1>1. s \in {Narrow, Wide} /\ s \in Nat /\ 0 < s
  BY Sizes DEF OperationSize
<1>2. Widened(x) = Register(x.value, Span(x)) /\ Widened(y) = Register(y.value, Span(y))
  BY WidenedIs
<1>3. Larger(Widened(x), Widened(y)) = s
  BY <1>2, OperandIs, Sizes DEF OperationSize, Larger, Register
<1>4. ASSUME NEW z \in {x, y}
      PROVE  Widened(z).bits = z.value % s /\ Coerced(Widened(z), s) = Register(z.value, s)
  <2>1. z.value \in Int /\ Span(z) \in {Narrow, Wide} /\ (Span(z) = s \/ (0 <= z.value /\ z.value < Span(z) /\ Span(z) <= s))
    <3>1. z \in Operands BY <1>4
    <3>2. CASE Span(z) = Narrow
      <4>1. Narrow <= s BY Sizes DEF OperationSize
      <4>2. QED BY <3>1, <3>2, <4>1, OperandIs
    <3>3. CASE Span(z) = Wide
      <4>1. s = Wide BY <1>4, <3>3, Sizes DEF OperationSize
      <4>2. QED BY <3>1, <3>3, <4>1, OperandIs
    <3>4. QED BY <3>1, <3>2, <3>3, OperandIs
  <2>2. Widened(z) = Register(z.value, Span(z)) /\ Span(z) \in Nat /\ 0 < Span(z)
    BY <1>2, <2>1, Sizes
  <2> HIDE DEF s
  <2>3. Coerced(Widened(z), s) = Register(z.value, s)
    BY <1>1, <2>1, <2>2, CoercedRegister
  <2>4. z.value % Span(z) = z.value % s
    <3>1. CASE Span(z) = s BY <3>1
    <3>2. CASE Span(z) # s
      <4>1. z.value % Span(z) = z.value /\ z.value % s = z.value
        BY <1>1, <2>1, <2>2, <3>2, ModLow
      <4>2. QED BY <4>1
    <3>3. QED BY <3>1, <3>2
  <2>5. QED BY <2>2, <2>3, <2>4 DEF Register
<1>5. QED BY <1>1, <1>3, <1>4

\* Which operations are unsigned, and that their operands are what they mean.
LEMMA KindsAre ==
    ASSUME NEW x \in Operands, NEW y \in Operands, SameKind(x, y)
    PROVE  IF UnsignedOperation(x, y)
           THEN 0 <= x.value /\ 0 <= y.value
           ELSE OperationSize(x, y) = Wide /\ x.value < HalfWide /\ y.value < HalfWide
<1>1. ASSUME NEW z \in Operands, UnsignedCompatible(z) PROVE 0 <= z.value
  BY <1>1, OperandIs DEF UnsignedCompatible
<1>2. CASE UnsignedOperation(x, y)
  BY <1>1, <1>2 DEF UnsignedOperation
<1>3. CASE ~UnsignedOperation(x, y)
  <2>1. ASSUME NEW z \in Operands, Natural(z) PROVE UnsignedCompatible(z) /\ (~z.const => IsUnsigned(z))
    BY <2>1, OperandIs DEF Natural, UnsignedCompatible, IsUnsigned
  <2>2. ~(Natural(x) /\ Natural(y) /\ ~(x.const /\ y.const))
    BY <1>3, <2>1 DEF UnsignedOperation
  <2>3. x.value < HalfWide /\ y.value < HalfWide
    BY <2>2 DEF SameKind, HalfWide
  <2>4. ~(IsUnsigned(x) /\ IsUnsigned(y))
    BY <1>3 DEF UnsignedOperation, UnsignedCompatible
  <2>5. OperationSize(x, y) = Wide
    BY <2>4, OperandIs DEF OperationSize
  <2>6. QED BY <1>3, <2>3, <2>5
<1>4. QED BY <1>2, <1>3

LEMMA ComparedIs ==
    ASSUME NEW x \in Operands, NEW y \in Operands, SameKind(x, y), NEW op \in Relations
    PROVE  Compared(op, x, y) = Related(op, x.value, y.value)
<1> DEFINE s == OperationSize(x, y)
           u == UnsignedOperation(x, y)
<1>1. /\ s \in {Narrow, Wide} /\ s \in Nat /\ 0 < s
      /\ x.value \in Int /\ -HalfWide <= x.value /\ x.value < Wide
      /\ y.value \in Int /\ -HalfWide <= y.value /\ y.value < Wide
  BY OperandsAligned, OperandIs, Sizes
<1>2. /\ Aligned(x, y, u) = IF u THEN Register(x.value, s).bits ELSE Signed(Register(x.value, s))
      /\ Aligned(y, x, u) = IF u THEN Register(y.value, s).bits ELSE Signed(Register(y.value, s))
  <2>1. Larger(Widened(x), Widened(y)) = s /\ Larger(Widened(y), Widened(x)) = s
    <3>1. OperationSize(y, x) = s BY DEF OperationSize
    <3>2. QED BY <3>1, OperandsAligned
  <2>2. Coerced(Widened(x), s) = Register(x.value, s) /\ Coerced(Widened(y), s) = Register(y.value, s)
    BY OperandsAligned
  <2> HIDE DEF s, u
  <2>3. QED BY <2>1, <2>2 DEF Aligned
<1>3. Aligned(x, y, u) = x.value /\ Aligned(y, x, u) = y.value
  <2>1. CASE u
    <3>1. 0 <= x.value /\ 0 <= y.value BY <2>1, KindsAre
    <3>2. x.value < s /\ y.value < s
      BY <1>1, OperandIs, Sizes DEF OperationSize
    <3>3. x.value % s = x.value /\ y.value % s = y.value
      BY <1>1, <3>1, <3>2, ModLow
    <3>4. QED BY <1>2, <2>1, <3>3 DEF Register
  <2>2. CASE ~u
    <3>1. s = 2 * HalfWide /\ x.value < HalfWide /\ y.value < HalfWide /\ HalfWide \in Nat
      BY <2>2, KindsAre, Sizes
    <3> HIDE DEF s, u
    <3>2. Signed(Register(x.value, s)) = x.value /\ Signed(Register(y.value, s)) = y.value
      BY <1>1, <3>1, SignedRegister
    <3>3. QED BY <1>2, <2>2, <3>2
  <2>3. QED BY <2>1, <2>2
<1> HIDE DEF u
<1>4. Compared(op, x, y) = Related(op, Aligned(x, y, u), Aligned(y, x, u))
  BY DEF Compared, u
<1>5. QED BY <1>3, <1>4

LEMMA NumberIs ==
    ASSUME NEW ty \in Types, NEW n \in Values(ty), NEW s \in {Narrow, Wide}, s = Wide \/ ty = "CARDINAL8"
    PROVE  Number(Register(n, s), ty) = n
<1>1. CASE ty \in {"INTEGER", "INTEGER8"}
  <2>1. n \in Int /\ -HalfWide <= n /\ n < HalfWide BY <1>1, ValuesAre, Bounds
  <2>2. s = 2 * HalfWide /\ HalfWide \in Nat BY <1>1, Sizes
  <2>3. Signed(Register(n, s)) = n BY <2>1, <2>2, SignedRegister
  <2>4. IsSigned(ty) BY <1>1 DEF IsSigned
  <2>5. QED BY <2>3, <2>4 DEF Number
<1>2. CASE ty \in {"CARDINAL", "CARDINAL8"}
  <2>1. n \in Int /\ 0 <= n /\ n < Wide /\ (ty = "CARDINAL8" => n < Narrow)
    BY <1>2, ValuesAre, Bounds, Sizes
  <2>2. n < s /\ s \in Nat BY <1>2, <2>1, Sizes
  <2>3. n % s = n BY <2>1, <2>2, ModLow
  <2>4. ~IsSigned(ty) BY <1>2 DEF IsSigned
  <2>5. QED BY <2>3, <2>4 DEF Number, Register
<1>3. QED BY <1>1, <1>2 DEF Types

\* Division that rounds towards zero leaves a remainder of the dividend's sign.
LEMMA TruncatedIs ==
    ASSUME NEW a \in Int, NEW b \in Int, b # 0
    PROVE  /\ Truncated(a, b) \in Int
           /\ a >= 0 /\ b > 0 => Truncated(a, b) = a \div b
           /\ a - Truncated(a, b) * b # 0 => (a - Truncated(a, b) * b < 0 <=> a < 0)
<1> DEFINE m == Magnitude(a)
           k == Magnitude(b)
           d == m \div k
           e == m % k
<1>1. m \in Nat /\ k \in Nat /\ 0 < k /\ (a < 0 => a = -m) /\ (a >= 0 => a = m) /\ (b < 0 => b = -k) /\ (b >= 0 => b = k)
  BY DEF Magnitude
<1> HIDE DEF m, k
<1>2. m = k * d + e /\ d \in Int /\ e \in Int /\ 0 <= e
  BY <1>1, DivisionFact
<1>3. Truncated(a, b) = IF (a < 0) = (b < 0) THEN d ELSE -d
  BY DEF Truncated, m, k
<1>4. a >= 0 /\ b > 0 => Truncated(a, b) = a \div b
  BY <1>1, <1>3
<1> HIDE DEF d, e
<1>5. CASE a >= 0 /\ b >= 0
  <2>1. Truncated(a, b) = d /\ a = m /\ b = k BY <1>1, <1>3, <1>5
  <2>2. a - Truncated(a, b) * b = e BY <1>1, <1>2, <2>1
  <2>3. QED BY <1>2, <1>4, <1>5, <2>1, <2>2
<1>6. CASE a >= 0 /\ b < 0
  <2>1. Truncated(a, b) = -d /\ a = m /\ b = -k BY <1>1, <1>3, <1>6
  <2>2. a - Truncated(a, b) * b = e BY <1>1, <1>2, <2>1
  <2>3. QED BY <1>2, <1>4, <1>6, <2>1, <2>2
<1>7. CASE a < 0 /\ b >= 0
  <2>1. Truncated(a, b) = -d /\ a = -m /\ b = k BY <1>1, <1>3, <1>7
  <2>2. a - Truncated(a, b) * b = -e BY <1>1, <1>2, <2>1
  <2>3. QED BY <1>2, <1>4, <1>7, <2>1, <2>2
<1>8. CASE a < 0 /\ b < 0
  <2>1. Truncated(a, b) = d /\ a = -m /\ b = -k BY <1>1, <1>3, <1>8
  <2>2. a - Truncated(a, b) * b = -e BY <1>1, <1>2, <2>1
  <2>3. QED BY <1>2, <1>4, <1>8, <2>1, <2>2
<1>9. QED BY <1>5, <1>6, <1>7, <1>8

\* The folded quotient and modulus, whichever sign decides the adjustment.
LEMMA FlooredIs ==
    ASSUME NEW a \in Int, NEW b \in Int, b # 0
    PROVE  /\ Quotient(a, b) \in Int
           /\ Quotient(a, b) = IF a - Truncated(a, b) * b # 0 /\ (a < 0) # (b < 0)
                               THEN Truncated(a, b) - 1 ELSE Truncated(a, b)
           /\ Modulus(a, b) = a - Quotient(a, b) * b
           /\ Remainder(a, b) = a - Truncated(a, b) * b
<1> DEFINE q == Truncated(a, b)
           r == a - q * b
<1>1. q \in Int /\ r \in Int BY TruncatedIs
<1>2. Quotient(a, b) = IF r # 0 /\ (r < 0) # (b < 0) THEN q - 1 ELSE q
  BY DEF Quotient
<1>3. Modulus(a, b) = IF r # 0 /\ (r < 0) # (b < 0) THEN r + b ELSE r
  BY DEF Modulus, Remainder
<1>4. r # 0 => (r < 0 <=> a < 0) BY TruncatedIs
<1>5. a - (q - 1) * b = r + b BY <1>1
<1>6. a - q * b = r OBVIOUS
<1>7. Remainder(a, b) = r BY DEF Remainder
<1> HIDE DEF q, r
<1>8. CASE r # 0 /\ (r < 0) # (b < 0)
  <2>1. Quotient(a, b) = q - 1 /\ Modulus(a, b) = r + b BY <1>2, <1>3, <1>8
  <2>2. (a < 0) # (b < 0) BY <1>4, <1>8
  <2>3. QED BY <1>1, <1>5, <1>6, <1>7, <1>8, <2>1, <2>2 DEF q
<1>9. CASE ~(r # 0 /\ (r < 0) # (b < 0))
  <2>1. Quotient(a, b) = q /\ Modulus(a, b) = r BY <1>2, <1>3, <1>9
  <2>2. ~(r # 0 /\ (a < 0) # (b < 0)) BY <1>4, <1>9
  <2>3. QED BY <1>1, <1>6, <1>7, <2>1, <2>2 DEF q
<1>10. QED BY <1>8, <1>9

\* What an operation leaves is the folded number, at the operation's size.
LEMMA UnsignedDivision ==
    ASSUME NEW s \in Nat, 0 < s, NEW a \in Nat, NEW b \in Nat, a < s, b < s, b # 0
    PROVE  /\ Quotient(a, b) = (a % s) \div (b % s)
           /\ Truncated(a, b) = (a % s) \div (b % s)
           /\ Modulus(a, b) = (a % s) % (b % s)
           /\ Remainder(a, b) = (a % s) % (b % s)
<1>1. a % s = a /\ b % s = b BY ModLow
<1> a \in Int /\ b \in Int /\ a >= 0 /\ b > 0 OBVIOUS
<1>2. Truncated(a, b) = a \div b BY TruncatedIs
<1>3. Quotient(a, b) = a \div b
  <2>1. ~((a < 0) # (b < 0)) OBVIOUS
  <2>2. QED BY <1>2, <2>1, FlooredIs
<1>4. a = b * (a \div b) + (a % b) /\ a \div b \in Int /\ a % b \in Int BY DivisionFact
<1>5. a - (a \div b) * b = a % b
  <2> DEFINE q == a \div b
             r == a % b
  <2>1. a = b * q + r /\ q \in Int /\ r \in Int BY <1>4
  <2> HIDE DEF q, r
  <2>2. a - q * b = r BY <2>1
  <2>3. QED BY <2>2 DEF q, r
<1>6. Modulus(a, b) = a % b /\ Remainder(a, b) = a % b BY <1>2, <1>3, <1>5, FlooredIs
<1>7. QED BY <1>1, <1>2, <1>3, <1>6

LEMMA ComputedIs ==
    ASSUME NEW x \in Operands, NEW y \in Operands, SameKind(x, y), NEW op \in Whole,
           op \in Division => y.value # 0,
           op = "/" => 0 <= x.value /\ 0 <= y.value
    PROVE  Computed(op, x, y) = Register(Folded(op, x.value, y.value), OperationSize(x, y))
<1> DEFINE s == OperationSize(x, y)
           l == Widened(x)
           r == Widened(y)
           v == x.value
           w == y.value
           u == UnsignedOperation(x, y)
<1>1. /\ s \in {Narrow, Wide} /\ s \in Nat /\ 0 < s
      /\ v \in Int /\ w \in Int
      /\ u => 0 <= v /\ 0 <= w
      /\ ~u => s = 2 * HalfWide /\ HalfWide \in Nat
               /\ -HalfWide <= v /\ v < HalfWide /\ -HalfWide <= w /\ w < HalfWide
  <2>1. s \in {Narrow, Wide} /\ s \in Nat /\ 0 < s BY Sizes DEF OperationSize
  <2>2. v \in Int /\ w \in Int /\ -HalfWide <= v /\ -HalfWide <= w BY OperandIs
  <2>3. IF u THEN 0 <= v /\ 0 <= w ELSE s = Wide /\ v < HalfWide /\ w < HalfWide
    BY KindsAre
  <2> HIDE DEF s, v, w, u
  <2>4. QED BY <2>1, <2>2, <2>3, Sizes
<1>2. /\ Larger(l, r) = s /\ l.bits = v % s /\ r.bits = w % s
      /\ Coerced(l, s) = Register(v, s) /\ Coerced(r, s) = Register(w, s)
  BY OperandsAligned
<1>3. v < s /\ w < s
  <2>1. v < Wide /\ w < Wide /\ (s = Wide \/ (v < Narrow /\ w < Narrow /\ s = Narrow))
    BY OperandIs DEF OperationSize
  <2>2. QED BY <2>1
<1>4. ~u => Signed(Coerced(l, s)) = v /\ Signed(Coerced(r, s)) = w
  BY <1>1, <1>2, SignedRegister
<1>5. Computed(op, x, y) =
        CASE op = "+" -> Plus(l, r)
          [] op = "-" -> Minus(l, r)
          [] op = "*" -> Times(l, r)
          [] op = "/" -> UnsignedQuotient(l, r)
          [] op = "DIV" -> IF u THEN UnsignedQuotient(l, r) ELSE FlooredQuotient(l, r)
          [] op = "MOD" -> IF u THEN UnsignedRemainder(l, r) ELSE FlooredModulus(l, r)
          [] op = "REM" -> IF u THEN UnsignedRemainder(l, r) ELSE SignedRemainder(l, r)
  BY DEF Computed
<1>6. op \in Division => w # 0 OBVIOUS
<1>7. op = "/" => 0 <= v /\ 0 <= w OBVIOUS
<1>8. ASSUME ~u, w # 0 PROVE FlooredQuotient(l, r) = Register(Quotient(v, w), s)
  <2> HIDE DEF s, l, r, v, w, u
  <2>1. FlooredQuotient(l, r) =
          Register(IF v - Truncated(v, w) * w # 0 /\ (v < 0) # (w < 0)
                   THEN Truncated(v, w) - 1 ELSE Truncated(v, w), s)
    BY <1>2, <1>4, <1>8 DEF FlooredQuotient
  <2>2. Quotient(v, w) = IF v - Truncated(v, w) * w # 0 /\ (v < 0) # (w < 0)
                         THEN Truncated(v, w) - 1 ELSE Truncated(v, w)
    BY <1>1, <1>8, FlooredIs
  <2>3. QED BY <2>1, <2>2
<1>9. SUFFICES Computed(op, x, y) = Register(Folded(op, v, w), s) OBVIOUS
<1> HIDE DEF s, l, r, v, w, u
<1>10. CASE op = "+"
  <2>1. ((v % s) + (w % s)) % s = (v + w) % s BY <1>1, ModBits
  <2>2. Plus(l, r) = Register(v + w, s) BY <1>2, <2>1 DEF Plus, Register
  <2>3. QED BY <1>5, <1>10, <2>2 DEF Folded
<1>11. CASE op = "-"
  <2>1. ((v % s) - (w % s)) % s = (v - w) % s BY <1>1, ModBits
  <2>2. Minus(l, r) = Register(v - w, s) BY <1>2, <2>1 DEF Minus, Register
  <2>3. QED BY <1>5, <1>11, <2>2 DEF Folded
<1>12. CASE op = "*"
  <2>1. ((v % s) * (w % s)) % s = (v * w) % s BY <1>1, ModBits
  <2>2. Times(l, r) = Register(v * w, s) BY <1>2, <2>1 DEF Times, Register
  <2>3. QED BY <1>5, <1>12, <2>2 DEF Folded
<1>13. CASE op = "/"
  <2>1. v \in Nat /\ w \in Nat /\ w # 0 BY <1>1, <1>6, <1>7, <1>13 DEF Division
  <2>2. Truncated(v, w) = (v % s) \div (w % s) BY <1>1, <1>3, <2>1, UnsignedDivision
  <2>3. UnsignedQuotient(l, r) = Register(Truncated(v, w), s) BY <1>2, <2>2 DEF UnsignedQuotient
  <2>4. QED BY <1>5, <1>13, <2>3 DEF Folded
<1>14. CASE op = "DIV"
  <2>1. CASE u
    <3>1. v \in Nat /\ w \in Nat /\ w # 0 BY <1>1, <1>6, <1>14, <2>1 DEF Division
    <3>2. Quotient(v, w) = (v % s) \div (w % s) BY <1>1, <1>3, <3>1, UnsignedDivision
    <3>3. UnsignedQuotient(l, r) = Register(Quotient(v, w), s) BY <1>2, <3>2 DEF UnsignedQuotient
    <3>4. QED BY <1>5, <1>14, <2>1, <3>3 DEF Folded
  <2>2. CASE ~u
    <3>1. FlooredQuotient(l, r) = Register(Quotient(v, w), s)
      BY <1>6, <1>14, <1>8, <2>2 DEF Division
    <3>2. QED BY <1>5, <1>14, <2>2, <3>1 DEF Folded
  <2>3. QED BY <2>1, <2>2
<1>15. CASE op = "MOD"
  <2>1. CASE u
    <3>1. v \in Nat /\ w \in Nat /\ w # 0 BY <1>1, <1>6, <1>15, <2>1 DEF Division
    <3>2. Modulus(v, w) = (v % s) % (w % s) BY <1>1, <1>3, <3>1, UnsignedDivision
    <3>3. UnsignedRemainder(l, r) = Register(Modulus(v, w), s) BY <1>2, <3>2 DEF UnsignedRemainder
    <3>4. QED BY <1>5, <1>15, <2>1, <3>3 DEF Folded
  <2>2. CASE ~u
    <3> DEFINE q == Quotient(v, w)
    <3>1. w # 0 /\ q \in Int /\ Modulus(v, w) = v - q * w
      BY <1>1, <1>6, <1>15, FlooredIs DEF Division
    <3>2. FlooredQuotient(l, r) = Register(q, s)
      BY <1>8, <3>1, <2>2
    <3> HIDE DEF q
    <3>3. Times(Register(q, s), Register(w, s)) = Register(q * w, s)
      BY <1>1, <3>1, ModBits DEF Times, Larger, Register
    <3>4. q * w \in Int BY <1>1, <3>1
    <3>5. Minus(Register(v, s), Register(q * w, s)) = Register(v - q * w, s)
      <4> DEFINE p == q * w
      <4>1. p \in Int BY <3>4
      <4> HIDE DEF p
      <4>2. Minus(Register(v, s), Register(p, s)) = Register(v - p, s)
        BY <1>1, <4>1, ModBits DEF Minus, Larger, Register
      <4>3. QED BY <4>2 DEF p
    <3>6. FlooredModulus(l, r) = Register(Modulus(v, w), s)
      BY <1>2, <3>1, <3>2, <3>3, <3>5 DEF FlooredModulus
    <3>7. QED BY <1>5, <1>15, <2>2, <3>6 DEF Folded
  <2>3. QED BY <2>1, <2>2
<1>16. CASE op = "REM"
  <2>1. CASE u
    <3>1. v \in Nat /\ w \in Nat /\ w # 0 BY <1>1, <1>6, <1>16, <2>1 DEF Division
    <3>2. Remainder(v, w) = (v % s) % (w % s) BY <1>1, <1>3, <3>1, UnsignedDivision
    <3>3. UnsignedRemainder(l, r) = Register(Remainder(v, w), s) BY <1>2, <3>2 DEF UnsignedRemainder
    <3>4. QED BY <1>5, <1>16, <2>1, <3>3 DEF Folded
  <2>2. CASE ~u
    <3>1. SignedRemainder(l, r) = Register(Remainder(v, w), s)
      BY <1>2, <1>4, <2>2 DEF SignedRemainder, Remainder
    <3>2. QED BY <1>5, <1>16, <2>2, <3>1 DEF Folded
  <2>3. QED BY <2>1, <2>2
<1>17. QED BY <1>10, <1>11, <1>12, <1>13, <1>14, <1>15, <1>16 DEF Whole

\* An operator on variables leaves the number that constant.rs folds it to:
\* lower.rs and codegen.rs pick the size, the extension and the signedness
\* of an operation so that this holds for registers of every size and all
\* operands that SameKind allows, even where a sum or a product wraps around
\* half-way.
THEOREM OperatorsFold == ExprInit => ArithmeticFolds
<1> SUFFICES ASSUME ExprInit, SameKind(expr.l, expr.r)
             PROVE  /\ expr.op \in Relations =>
                          Compared(expr.op, expr.l, expr.r) = Related(expr.op, expr.l.value, expr.r.value)
                    /\ \/ expr.op \notin Whole
                       \/ expr.op \in Division /\ ~Divides(expr.l, expr.r)
                       \/ expr.op = "/" /\ (expr.l.value < 0 \/ expr.r.value < 0)
                       \/ \A ty \in {expr.l.ty, expr.r.ty} :
                             Folded(expr.op, expr.l.value, expr.r.value) \in Values(ty) =>
                             Number(Computed(expr.op, expr.l, expr.r), ty)
                             = Folded(expr.op, expr.l.value, expr.r.value)
  BY DEF ArithmeticFolds
<1>1. PICK x \in Operands, y \in Operands : x = expr.l /\ y = expr.r BY DEF ExprInit
<1>2. expr.op \in Division => y.value # 0 BY <1>1 DEF ExprInit
<1>3. ASSUME expr.op \in Relations
      PROVE  Compared(expr.op, x, y) = Related(expr.op, x.value, y.value)
  BY <1>1, <1>3, ComparedIs
<1>4. ASSUME expr.op \in Whole, expr.op = "/" => ~(x.value < 0 \/ y.value < 0),
             NEW ty \in {x.ty, y.ty}, Folded(expr.op, x.value, y.value) \in Values(ty)
      PROVE  Number(Computed(expr.op, x, y), ty) = Folded(expr.op, x.value, y.value)
  <2> DEFINE s == OperationSize(x, y)
             n == Folded(expr.op, x.value, y.value)
  <2>1. x.value \in Int /\ y.value \in Int BY OperandIs
  <2>2. expr.op = "/" => 0 <= x.value /\ 0 <= y.value BY <1>4, <2>1
  <2>3. Computed(expr.op, x, y) = Register(n, s) BY <1>1, <1>2, <1>4, <2>2, ComputedIs
  <2>4. s \in {Narrow, Wide} /\ ty \in Types /\ (s = Wide \/ ty = "CARDINAL8")
    BY <1>4, OperandIs, Sizes DEF OperationSize
  <2> HIDE DEF s, n
  <2>5. n \in Values(ty) BY <1>4 DEF n
  <2>6. Number(Register(n, s), ty) = n BY <2>4, <2>5, NumberIs
  <2>7. QED BY <2>3, <2>6 DEF n
<1>5. QED BY <1>1, <1>3, <1>4

-----------------------------------------------------------------------------
(* A text with conditions, one piece longer.                                  *)


Grown(n, piece) ==
    /\ pieces \in Seq(TextPieces) /\ piece \in TextPieces
    /\ n = Len(pieces)
    /\ pieces' = Append(pieces, piece)

LEMMA GrownPieces ==
  ASSUME NEW n, NEW piece, Grown(n, piece)
  PROVE  /\ n \in Nat
         /\ pieces' \in Seq(TextPieces) /\ Len(pieces') = n + 1
         /\ \A k \in 1..n : pieces'[k] = pieces[k]
         /\ pieces'[n + 1] = piece
BY DEF Grown

\* What lies before a place that is read, or before the next place, stays.
LEMMA BeforeGrown ==
  ASSUME NEW n, NEW piece, Grown(n, piece), NEW kind
  PROVE  /\ \A i \in 1..(n + 1) : Before(i, kind)' = Before(i, kind)
         /\ Before(n + 2, kind)' = Before(n + 1, kind) \cup (IF piece.kind = kind THEN {n + 1} ELSE {})
<1>1. /\ n \in Nat
      /\ \A k \in 1..n : pieces'[k] = pieces[k]
      /\ pieces'[n + 1] = piece
  BY GrownPieces
<1>2. ASSUME NEW i \in 1..(n + 1) PROVE Before(i, kind)' = Before(i, kind)
  BY <1>1, <1>2 DEF Before
<1>3. Before(n + 2, kind)' = Before(n + 1, kind) \cup (IF piece.kind = kind THEN {n + 1} ELSE {})
  <2>1. ASSUME NEW k
        PROVE  k \in Before(n + 2, kind)' <=> k \in Before(n + 1, kind) \/ (piece.kind = kind /\ k = n + 1)
    <3>1. 1..(n + 2 - 1) = 1..(n + 1) /\ 1..(n + 1 - 1) = 1..n
      BY <1>1
    <3>2. k \in 1..(n + 1) <=> k \in 1..n \/ k = n + 1
      BY <1>1
    <3> QED  BY <1>1, <3>1, <3>2 DEF Before
  <2> QED  BY <2>1
<1> QED  BY <1>2, <1>3

LEMMA BeforeFinite ==
  ASSUME NEW i \in Nat, NEW kind
  PROVE  IsFiniteSet(Before(i, kind)) /\ Cardinality(Before(i, kind)) \in Nat
<1>1. IsFiniteSet(1..(i - 1))
  BY FS_Interval
<1>2. Before(i, kind) \in SUBSET (1..(i - 1))
  BY DEF Before
<1>3. IsFiniteSet(Before(i, kind))
  BY <1>1, <1>2, FS_Subset
<1> QED  BY <1>3, FS_CardinalityType

LEMMA BeforeCounted ==
  ASSUME NEW n, NEW piece, Grown(n, piece), NEW kind
  PROVE  Cardinality(Before(n + 2, kind)') =
            Cardinality(Before(n + 1, kind)) + (IF piece.kind = kind THEN 1 ELSE 0)
<1>1. n \in Nat
  BY GrownPieces
<1>2. IsFiniteSet(Before(n + 1, kind)) /\ Cardinality(Before(n + 1, kind)) \in Nat
  BY <1>1, BeforeFinite
<1>3. n + 1 \notin Before(n + 1, kind)
  BY <1>1 DEF Before
<1>4. Before(n + 2, kind)' = Before(n + 1, kind) \cup (IF piece.kind = kind THEN {n + 1} ELSE {})
  BY BeforeGrown
<1>5. Cardinality(Before(n + 1, kind) \cup {n + 1}) = Cardinality(Before(n + 1, kind)) + 1
  BY <1>2, <1>3, FS_AddElement
<1> QED  BY <1>2, <1>4, <1>5

LEMMA DepthGrown ==
  ASSUME NEW n, NEW piece, Grown(n, piece)
  PROVE  /\ \A i \in 1..(n + 1) : Depth(i) \in Int /\ Depth(i)' = Depth(i)
         /\ Depth(n + 2)' = Depth(n + 1) + (IF piece.kind = "%IF" THEN 1
                                            ELSE IF piece.kind = "%END" THEN -1 ELSE 0)
<1>1. n \in Nat
  BY GrownPieces
<1>2. ASSUME NEW i \in 1..(n + 1) PROVE Depth(i) \in Int /\ Depth(i)' = Depth(i)
  <2>1. i \in Nat
    BY <1>1
  <2>2. Cardinality(Before(i, "%IF")) \in Nat /\ Cardinality(Before(i, "%END")) \in Nat
    BY <2>1, BeforeFinite
  <2>3. Before(i, "%IF")' = Before(i, "%IF") /\ Before(i, "%END")' = Before(i, "%END")
    BY BeforeGrown
  <2> QED  BY <2>2, <2>3 DEF Depth
<1>3. /\ Cardinality(Before(n + 2, "%IF")') =
            Cardinality(Before(n + 1, "%IF")) + (IF piece.kind = "%IF" THEN 1 ELSE 0)
      /\ Cardinality(Before(n + 2, "%END")') =
            Cardinality(Before(n + 1, "%END")) + (IF piece.kind = "%END" THEN 1 ELSE 0)
  BY BeforeCounted
<1>4. Cardinality(Before(n + 1, "%IF")) \in Nat /\ Cardinality(Before(n + 1, "%END")) \in Nat
  BY <1>1, BeforeFinite
<1> QED  BY <1>2, <1>3, <1>4 DEF Depth

Around(i) == {o \in 1..(i - 1) : Encloses(o, i)}

LEMMA EnclosesGrown ==
  ASSUME NEW n, NEW piece, Grown(n, piece)
  PROVE  /\ \A i \in 1..(n + 1) : \A o : Encloses(o, i)' <=> Encloses(o, i)
         /\ \A o \in 1..n : Encloses(o, n + 2)' <=> Encloses(o, n + 1) /\ Depth(n + 2)' > Depth(o)
         /\ Encloses(n + 1, n + 2)' <=> piece.kind = "%IF"
         /\ \A i \in 1..(n + 2) : \A o : Encloses(o, i)' => o \in 1..(i - 1)
<1>1. /\ n \in Nat
      /\ \A k \in 1..n : pieces'[k] = pieces[k]
      /\ pieces'[n + 1] = piece
  BY GrownPieces
<1>2. \A i \in 1..(n + 1) : Depth(i) \in Int /\ Depth(i)' = Depth(i)
  BY DepthGrown
<1>3. ASSUME NEW i \in 1..(n + 1), NEW o PROVE Encloses(o, i)' <=> Encloses(o, i)
  <2>1. CASE o \notin 1..(i - 1)
    BY <2>1 DEF Encloses
  <2>2. CASE o \in 1..(i - 1)
    <3>1. o \in 1..n /\ o \in 1..(n + 1) /\ pieces'[o] = pieces[o]
      BY <1>1, <2>2
    <3>2. \A k \in (o + 1)..i : k \in 1..(n + 1)
      BY <1>1, <2>2
    <3>3. \A k \in (o + 1)..i : Depth(k)' > Depth(o)' <=> Depth(k) > Depth(o)
      BY <1>2, <3>1, <3>2
    <3> QED  BY <3>1, <3>3 DEF Encloses
  <2> QED  BY <2>1, <2>2
<1>4. ASSUME NEW o \in 1..n
      PROVE  Encloses(o, n + 2)' <=> Encloses(o, n + 1) /\ Depth(n + 2)' > Depth(o)
  <2>1. o \in 1..(n + 2 - 1) /\ o \in 1..(n + 1 - 1) /\ o \in 1..(n + 1) /\ pieces'[o] = pieces[o]
    BY <1>1
  <2>2. Encloses(o, n + 2)' <=> pieces[o].kind = "%IF" /\ \A k \in (o + 1)..(n + 2) : Depth(k)' > Depth(o)
    <3>1. Encloses(o, n + 2)' <=>
            pieces'[o].kind = "%IF" /\ \A k \in (o + 1)..(n + 2) : Depth(k)' > Depth(o)'
      BY <1>1, <2>1 DEF Encloses
    <3>2. Depth(o)' = Depth(o)
      BY <1>2, <2>1
    <3> QED  BY <2>1, <3>1, <3>2, Zenon
  <2>3. \A k : k \in (o + 1)..(n + 2) <=> k \in (o + 1)..(n + 1) \/ k = n + 2
    BY <1>1
  <2>4. \A k \in (o + 1)..(n + 1) : Depth(k)' = Depth(k)
    <3>1. \A k \in (o + 1)..(n + 1) : k \in 1..(n + 1)
      BY <1>1
    <3> QED  BY <1>2, <3>1
  <2>5. Encloses(o, n + 1) <=> pieces[o].kind = "%IF" /\ \A k \in (o + 1)..(n + 1) : Depth(k) > Depth(o)
    BY <1>1, <2>1 DEF Encloses
  <2> QED  BY <2>2, <2>3, <2>4, <2>5
<1>5. Encloses(n + 1, n + 2)' <=> piece.kind = "%IF"
  <2>1. n + 1 \in 1..(n + 2 - 1) /\ n + 1 \in 1..(n + 1)
    BY <1>1
  <2>2. \A k : k \in (n + 1 + 1)..(n + 2) <=> k = n + 2
    BY <1>1
  <2>3. Depth(n + 2)' = Depth(n + 1) + (IF piece.kind = "%IF" THEN 1
                                            ELSE IF piece.kind = "%END" THEN -1 ELSE 0)
    BY DepthGrown
  <2>4. Encloses(n + 1, n + 2)' <=> piece.kind = "%IF" /\ Depth(n + 2)' > Depth(n + 1)'
    BY <1>1, <2>1, <2>2 DEF Encloses
  <2> QED  BY <1>2, <2>1, <2>3, <2>4
<1>6. \A i \in 1..(n + 2) : \A o : Encloses(o, i)' => o \in 1..(i - 1)
  BY DEF Encloses
<1> QED  BY <1>3, <1>4, <1>5, <1>6

\* The pass may keep the piece; what it has decided before stays.
Carried(n, piece) ==
    /\ Grown(n, piece)
    /\ pass.kept \subseteq 1..n
    /\ pass'.kept \in {pass.kept, pass.kept \cup {n + 1}}

LEMMA VersionsGrown ==
  ASSUME NEW n, NEW piece, Carried(n, piece), NEW i \in 1..(n + 1)
  PROVE  VersionsAt(i)' = VersionsAt(i)
<1>1. /\ n \in Nat
      /\ \A k \in 1..n : pieces'[k] = pieces[k]
  BY GrownPieces DEF Carried
<1>2. {j \in pass'.kept : j < i} = {j \in pass.kept : j < i}
  BY <1>1 DEF Carried
<1>3. \A k \in {j \in pass.kept : j < i} : pieces'[k] = pieces[k]
  BY <1>1 DEF Carried
<1>4. {Introduces(pieces'[k]) : k \in {j \in pass'.kept : j < i}} =
        {Introduces(pieces[k]) : k \in {j \in pass.kept : j < i}}
  BY <1>2, <1>3
<1> QED  BY <1>4 DEF VersionsAt

LEMMA TruthGrown ==
  ASSUME NEW n, NEW piece, Carried(n, piece), NEW j \in 1..n
  PROVE  IsTrue(j)' <=> IsTrue(j)
<1>1. n \in Nat /\ pieces'[j] = pieces[j]
  BY GrownPieces DEF Carried
<1>2. j \in 1..(n + 1)
  BY <1>1
<1>3. VersionsAt(j)' = VersionsAt(j)
  BY <1>2, VersionsGrown
<1> QED  BY <1>1, <1>3 DEF IsTrue

LEMMA HeadsGrown ==
  ASSUME NEW n, NEW piece, Grown(n, piece)
  PROVE  /\ \A i \in 1..(n + 1) : \A o \in 1..(i - 1) :
                Heads(o, i)' = Heads(o, i) /\ Heads(o, i) \subseteq 1..n
         /\ \A o \in 1..n :
                Heads(o, n + 2)' =
                    Heads(o, n + 1) \cup (IF piece.kind \in {"%ELSIF", "%ELSE"} /\ Depth(n + 1) = Depth(o) + 1
                                          THEN {n + 1} ELSE {})
         /\ Heads(n + 1, n + 2)' = {n + 1}
<1>1. /\ n \in Nat
      /\ \A k \in 1..n : pieces'[k] = pieces[k]
      /\ pieces'[n + 1] = piece
  BY GrownPieces
<1>2. \A i \in 1..(n + 1) : Depth(i) \in Int /\ Depth(i)' = Depth(i)
  BY DepthGrown
<1>3. ASSUME NEW i \in 1..(n + 1), NEW o \in 1..(i - 1)
      PROVE  Heads(o, i)' = Heads(o, i) /\ Heads(o, i) \subseteq 1..n
  <2>1. o \in 1..n /\ o \in 1..(n + 1) /\ \A j \in (o + 1)..(i - 1) : j \in 1..n /\ j \in 1..(n + 1)
    BY <1>1
  <2>2. \A j \in (o + 1)..(i - 1) : pieces'[j] = pieces[j] /\ Depth(j)' = Depth(j)
    BY <1>1, <1>2, <2>1
  <2>3. Depth(o)' = Depth(o)
    BY <1>2, <2>1
  <2> QED  BY <2>1, <2>2, <2>3 DEF Heads
<1>4. ASSUME NEW o \in 1..n
      PROVE  Heads(o, n + 2)' =
                Heads(o, n + 1) \cup (IF piece.kind \in {"%ELSIF", "%ELSE"} /\ Depth(n + 1) = Depth(o) + 1
                                      THEN {n + 1} ELSE {})
  <2>1. \A j : j \in (o + 1)..(n + 2 - 1) <=> j \in (o + 1)..(n + 1 - 1) \/ j = n + 1
    BY <1>1
  <2>2. o \in 1..(n + 1) /\ n + 1 \in 1..(n + 1) /\ \A j \in (o + 1)..(n + 1 - 1) : j \in 1..n /\ j \in 1..(n + 1)
    BY <1>1
  <2>3. \A j \in (o + 1)..(n + 1 - 1) : pieces'[j] = pieces[j] /\ Depth(j)' = Depth(j)
    BY <1>1, <1>2, <2>2
  <2>4. Depth(o)' = Depth(o) /\ Depth(n + 1)' = Depth(n + 1)
    BY <1>2, <2>2
  <2>5. ASSUME NEW j
        PROVE  j \in Heads(o, n + 2)' <=>
                \/ j \in Heads(o, n + 1)
                \/ j = n + 1 /\ piece.kind \in {"%ELSIF", "%ELSE"} /\ Depth(n + 1) = Depth(o) + 1
    <3>1. CASE j = n + 1
      <4>1. j \in (o + 1)..(n + 2 - 1) /\ j \notin (o + 1)..(n + 1 - 1) /\ j # o
        BY <1>1, <3>1
      <4> QED  BY <1>1, <2>4, <3>1, <4>1 DEF Heads
    <3>2. CASE j # n + 1
      <4>1. j \in (o + 1)..(n + 2 - 1) <=> j \in (o + 1)..(n + 1 - 1)
        BY <2>1, <3>2
      <4> QED  BY <1>1, <2>3, <2>4, <3>2, <4>1 DEF Heads
    <3> QED  BY <3>1, <3>2
  <2> QED  BY <2>5
<1>5. Heads(n + 1, n + 2)' = {n + 1}
  <2>1. (n + 1 + 1)..(n + 2 - 1) = {}
    BY <1>1
  <2> QED  BY <1>1, <2>1 DEF Heads
<1> QED  BY <1>3, <1>4, <1>5

LEMMA LastGrown ==
  ASSUME NEW n, NEW piece, Carried(n, piece), NEW i \in 1..(n + 1), NEW o \in 1..(i - 1)
  PROVE  LastIsFirst(Heads(o, i))' <=> LastIsFirst(Heads(o, i))
<1>1. Heads(o, i)' = Heads(o, i) /\ Heads(o, i) \subseteq 1..n
  BY HeadsGrown DEF Carried
<1>2. \A j \in Heads(o, i) : IsTrue(j)' <=> IsTrue(j)
  BY <1>1, TruthGrown
<1> QED  BY <1>1, <1>2 DEF LastIsFirst

LEMMA PathGrown ==
  ASSUME NEW n, NEW piece, Carried(n, piece), NEW i \in 1..(n + 1)
  PROVE  OnChosenPath(i)' <=> OnChosenPath(i)
<1>1. \A o \in 1..(i - 1) : LastIsFirst(Heads(o, i))' <=> LastIsFirst(Heads(o, i))
  BY LastGrown
<1>2. \A o : Encloses(o, i)' <=> Encloses(o, i)
  BY EnclosesGrown DEF Carried
<1> QED  BY <1>1, <1>2 DEF OnChosenPath

LEMMA FitsGrown ==
  ASSUME NEW n, NEW piece, Grown(n, piece)
  PROVE  /\ \A i \in 1..n : InPlace(i)' <=> InPlace(i)
         /\ InPlace(n + 1)' <=> /\ piece.kind \in Directives \ {"%IF"} => Depth(n + 1) > 0
                                /\ piece.kind \in {"%IF", "%ELSIF"} => Legible(piece.below)
<1>1. /\ n \in Nat
      /\ \A k \in 1..n : pieces'[k] = pieces[k] /\ k \in 1..(n + 1)
      /\ pieces'[n + 1] = piece
      /\ n + 1 \in 1..(n + 1)
  BY GrownPieces
<1>2. \A i \in 1..(n + 1) : Depth(i)' = Depth(i)
  BY DepthGrown
<1> QED  BY <1>1, <1>2 DEF InPlace

-----------------------------------------------------------------------------
(* What the stack means: its levels are the %IFs around the next place, each  *)
(* knows whether it is on the chosen path, and whether an arm was taken.      *)

Here == Len(pieces) + 1

LastOf(o) == LastIsFirst(Heads(o, Here))

SomeOf(o) == \E j \in Heads(o, Here) : IsTrue(j)

LevelsMatch ==
    /\ Len(pass.stack) = Depth(Here)
    /\ \A o \in Around(Here) : Depth(o) \in Int /\ Depth(o) + 1 \in DOMAIN pass.stack
    /\ \A d \in DOMAIN pass.stack : \E o \in Around(Here) : Depth(o) + 1 = d
    /\ \A o, e \in Around(Here) : Depth(o) = Depth(e) => o = e

Means(level, o) ==
    /\ level.parentActive <=> \A e \in Around(Here) : Depth(e) < Depth(o) => LastOf(e)
    /\ level.anyTaken <=> level.parentActive /\ SomeOf(o)
    /\ level.currentTake <=> level.parentActive /\ LastOf(o)

LevelsMean == \A o \in Around(Here) : Means(pass.stack[Depth(o) + 1], o)

Understood == pass.versions = VersionsAt(Here) /\ LevelsMatch /\ LevelsMean

\* A piece is passed on exactly when it is on the chosen path.
LEMMA ActiveMeans ==
  ASSUME TypeOKBranches, LevelsMatch, LevelsMean
  PROVE  /\ Active(pass) <=> \A o \in Around(Here) : LastOf(o)
         /\ Active(pass) <=> OnChosenPath(Here)
<1>1. \A o \in Around(Here) : Depth(o) \in Int /\ Depth(o) + 1 \in DOMAIN pass.stack
                              /\ Means(pass.stack[Depth(o) + 1], o)
  BY DEF LevelsMatch, LevelsMean
<1>2. ASSUME Active(pass), NEW o \in Around(Here) PROVE LastOf(o)
  BY <1>1, <1>2 DEF Active, Means
<1>3. ASSUME \A o \in Around(Here) : LastOf(o), NEW d \in DOMAIN pass.stack
      PROVE  pass.stack[d].currentTake
  <2>1. PICK o \in Around(Here) : Depth(o) + 1 = d
    BY DEF LevelsMatch
  <2>2. Means(pass.stack[d], o)
    BY <1>1, <2>1
  <2> QED  BY <1>3, <2>2 DEF Means
<1>4. Active(pass) <=> \A o \in Around(Here) : LastOf(o)
  BY <1>2, <1>3 DEF Active
<1>5. (\A o \in Around(Here) : LastOf(o)) <=> OnChosenPath(Here)
  BY DEF Around, LastOf, OnChosenPath
<1> QED  BY <1>4, <1>5

-----------------------------------------------------------------------------
(* The five things a piece can do.                                            *)

Same == pass'.versions = pass.versions /\ pass'.kept = pass.kept

Fails(piece) ==
    /\ \/ piece.kind \in {"%IF", "%ELSIF"} /\ ~Legible(piece.below)
       \/ piece.kind \in Directives \ {"%IF"} /\ pass.stack = <<>>
    /\ ~pass'.ok /\ pass'.stack = pass.stack /\ Same

Opens(piece) ==
    /\ piece.kind = "%IF" /\ Legible(piece.below)
    /\ pass'.ok /\ Same
    /\ pass'.stack = Append(pass.stack, NextArm(NewLevel(Active(pass)), Wanted(pass, piece)))

Turns(piece) ==
    /\ piece.kind \in {"%ELSIF", "%ELSE"} /\ pass.stack # <<>>
    /\ piece.kind = "%ELSIF" => Legible(piece.below)
    /\ pass'.ok /\ Same
    /\ pass'.stack = [pass.stack EXCEPT ![Len(pass.stack)] = NextArm(@, Wanted(pass, piece))]

Closes(piece) ==
    /\ piece.kind = "%END" /\ pass.stack # <<>>
    /\ pass'.ok /\ Same
    /\ pass'.stack = SubSeq(pass.stack, 1, Len(pass.stack) - 1)

Emits(n, piece) ==
    /\ piece.kind \notin Directives
    /\ pass'.ok /\ pass'.stack = pass.stack
    /\ IF Active(pass)
       THEN pass'.versions = pass.versions \cup Introduces(piece) /\ pass'.kept = pass.kept \cup {n + 1}
       ELSE Same

LEMMA ArmShape ==
  ASSUME NEW level \in LevelSet, NEW wanted
  PROVE  /\ NextArm(level, wanted) \in LevelSet
         /\ NextArm(level, wanted).parentActive = level.parentActive
         /\ NextArm(level, wanted).anyTaken <=> level.anyTaken \/ (level.parentActive /\ wanted)
         /\ NextArm(level, wanted).currentTake <=> level.parentActive /\ ~level.anyTaken /\ wanted
BY DEF NextArm, LevelSet

LEMMA NewShape ==
  ASSUME NEW active \in BOOLEAN
  PROVE  /\ NewLevel(active) \in LevelSet
         /\ NewLevel(active).parentActive = active
         /\ ~NewLevel(active).anyTaken
BY DEF NewLevel, LevelSet

LEMMA StepCases ==
  ASSUME TypeOKBranches, pass.ok, NEW piece \in TextPieces, ReadPiece(piece), NEW n, n = Len(pieces)
  PROVE  /\ Grown(n, piece)
         /\ Carried(n, piece)
         /\ TypeOKBranches'
         /\ Fails(piece) \/ Opens(piece) \/ Turns(piece) \/ Closes(piece) \/ Emits(n, piece)
<1> DEFINE PassSet(k) == [env : {Predefined}, versions : SUBSET Named, stack : Seq(LevelSet),
                          kept : SUBSET (1..k), ok : BOOLEAN]
<1>1. Grown(n, piece) /\ n \in Nat
  BY DEF Grown, TypeOKBranches, ReadPiece
<1>2. DOMAIN pieces = 1..n /\ pieces' \in Seq(TextPieces) /\ DOMAIN pieces' = 1..(n + 1)
  BY <1>1, GrownPieces DEF Grown
<1>3. pass \in PassSet(n + 1) /\ pass.stack \in Seq(LevelSet) /\ pass.kept \subseteq 1..n
  BY <1>1, <1>2 DEF TypeOKBranches
<1>4. Introduces(piece) \subseteq Named
  BY NamedAssumption
<1>5. pass' = IF piece.kind \in Directives THEN HandleDirective(pass, piece) ELSE Emit(pass, n + 1, piece)
  BY DEF ReadPiece, PieceStep
<1>6. Active(pass) \in BOOLEAN
  BY <1>3 DEF Active
<1>7. pass' \in PassSet(n + 1) => TypeOKBranches'
  BY <1>2 DEF TypeOKBranches
<1>8. pass'.kept \in {pass.kept, pass.kept \cup {n + 1}} => Carried(n, piece)
  BY <1>1, <1>3 DEF Carried
<1>9. CASE \/ piece.kind \in {"%IF", "%ELSIF"} /\ ~Legible(piece.below)
           \/ piece.kind \in Directives \ {"%IF"} /\ pass.stack = <<>>
  <2>1. pass' = [pass EXCEPT !.ok = FALSE]
    BY <1>5, <1>9 DEF HandleDirective, Directives, Spoiled
  <2>2. pass' \in PassSet(n + 1) /\ Same /\ pass'.stack = pass.stack /\ pass'.ok = FALSE
    BY <1>3, <2>1 DEF Same
  <2> QED  BY <1>1, <1>7, <1>8, <1>9, <2>2 DEF Fails, Same
<1>10. CASE piece.kind = "%IF" /\ Legible(piece.below)
  <2> DEFINE level == NextArm(NewLevel(Active(pass)), Wanted(pass, piece))
  <2>1. level \in LevelSet
    BY <1>6, NewShape, ArmShape
  <2>2. pass' = [pass EXCEPT !.stack = Append(@, level)]
    BY <1>5, <1>10 DEF HandleDirective, Directives
  <2> HIDE DEF level
  <2>3. Append(pass.stack, level) \in Seq(LevelSet)
    BY <1>3, <2>1
  <2>4. pass' \in PassSet(n + 1) /\ Same /\ pass'.ok /\ pass'.stack = Append(pass.stack, level)
    BY <1>3, <2>2, <2>3 DEF Same
  <2> QED  BY <1>1, <1>7, <1>8, <1>10, <2>4 DEF Same, Opens, level
<1>11. CASE /\ piece.kind \in {"%ELSIF", "%ELSE"} /\ pass.stack # <<>>
            /\ piece.kind = "%ELSIF" => Legible(piece.below)
  <2> DEFINE top == Len(pass.stack)
             level == NextArm(pass.stack[top], Wanted(pass, piece))
             turned == [pass.stack EXCEPT ![top] = level]
  <2>1. top \in DOMAIN pass.stack
    BY <1>3, <1>11
  <2>2. level \in LevelSet
    BY <1>3, <2>1, ArmShape
  <2>3. pass' = [pass EXCEPT !.stack[Len(pass.stack)] = NextArm(@, Wanted(pass, piece))]
    BY <1>5, <1>11 DEF HandleDirective, Directives
  <2>4. turned \in Seq(LevelSet)
    <3> HIDE DEF level
    <3> QED  BY <1>3, <2>1, <2>2
  <2>5. pass' = [pass EXCEPT !.stack = turned]
    BY <2>3
  <2> HIDE DEF turned
  <2>6. pass' \in PassSet(n + 1) /\ Same /\ pass'.ok /\ pass'.stack = turned
    BY <1>3, <2>4, <2>5 DEF Same
  <2> QED  BY <1>1, <1>7, <1>8, <1>11, <2>6 DEF Same, Turns, turned
<1>12. CASE piece.kind = "%END" /\ pass.stack # <<>>
  <2> DEFINE lower == SubSeq(pass.stack, 1, Len(pass.stack) - 1)
  <2>1. lower \in Seq(LevelSet)
    BY <1>3, <1>12
  <2>2. pass' = [pass EXCEPT !.stack = lower]
    BY <1>5, <1>12 DEF HandleDirective, Directives
  <2> HIDE DEF lower
  <2>3. pass' \in PassSet(n + 1) /\ Same /\ pass'.ok /\ pass'.stack = lower
    BY <1>3, <2>1, <2>2 DEF Same
  <2> QED  BY <1>1, <1>7, <1>8, <1>12, <2>3 DEF Same, Closes, lower
<1>13. CASE piece.kind \notin Directives /\ Active(pass)
  <2>1. pass' = [pass EXCEPT !.versions = @ \cup Introduces(piece), !.kept = @ \cup {n + 1}]
    BY <1>5, <1>13 DEF Emit
  <2>2. pass.kept \cup {n + 1} \subseteq 1..(n + 1)
    BY <1>1, <1>3
  <2>3. /\ pass' \in PassSet(n + 1) /\ pass'.ok /\ pass'.stack = pass.stack
        /\ pass'.versions = pass.versions \cup Introduces(piece) /\ pass'.kept = pass.kept \cup {n + 1}
    BY <1>3, <1>4, <2>1, <2>2
  <2> QED  BY <1>1, <1>7, <1>8, <1>13, <2>3 DEF Emits
<1>14. CASE piece.kind \notin Directives /\ ~Active(pass)
  <2>1. pass' = pass
    BY <1>5, <1>14 DEF Emit
  <2> QED  BY <1>1, <1>3, <1>7, <1>8, <1>14, <2>1 DEF Emits, Same
<1> QED  BY <1>9, <1>10, <1>11, <1>12, <1>13, <1>14 DEF Directives
-----------------------------------------------------------------------------
(* What a piece does to the %IFs around the next place.                       *)

LEMMA HereNext ==
  ASSUME NEW n, NEW piece, Grown(n, piece)
  PROVE  /\ n \in Nat /\ Here = n + 1
         /\ Around(Here)' = Around(n + 2)'
         /\ \A o : Heads(o, Here)' = Heads(o, n + 2)'
         /\ Depth(Here)' = Depth(n + 2)'
         /\ VersionsAt(Here)' = VersionsAt(n + 2)'
<1>1. n \in Nat /\ Len(pieces') = n + 1
  BY GrownPieces
<1>2. Len(pieces') + 1 = n + 2
  BY <1>1
<1>3. Here = n + 1
  BY DEF Here, Grown
<1>4. Around(Here)' = Around(n + 2)'
  BY <1>2 DEF Around, Here, Encloses
<1>5. \A o : Heads(o, Here)' = Heads(o, n + 2)'
  BY <1>2 DEF Heads, Here
<1>6. Depth(Here)' = Depth(n + 2)'
  BY <1>2 DEF Depth, Before, Here
<1>7. VersionsAt(Here)' = VersionsAt(n + 2)'
  BY <1>2 DEF VersionsAt, Here
<1> QED  BY <1>1, <1>3, <1>4, <1>5, <1>6, <1>7

LEMMA AroundShape ==
  ASSUME NEW n, NEW piece, Grown(n, piece), NEW o \in Around(Here)
  PROVE  o \in 1..n /\ Depth(o) \in Int /\ Depth(o)' = Depth(o) /\ Depth(o) < Depth(n + 1)
<1>1. n \in Nat /\ Here = n + 1
  BY HereNext
<1>2. o \in 1..n /\ o \in 1..(n + 1) /\ n + 1 \in (o + 1)..(n + 1) /\ Encloses(o, n + 1)
  BY <1>1 DEF Around
<1>3. Depth(n + 1) > Depth(o)
  BY <1>2 DEF Encloses
<1>4. n + 1 \in 1..(n + 1)
  BY <1>1
<1>5. Depth(o) \in Int /\ Depth(o)' = Depth(o) /\ Depth(n + 1) \in Int
  BY <1>2, <1>4, DepthGrown
<1> QED  BY <1>2, <1>3, <1>5

LEMMA AroundNext ==
  ASSUME NEW n, NEW piece, Grown(n, piece)
  PROVE  \A o : o \in Around(Here)' <=>
            \/ o \in Around(Here) /\ (piece.kind = "%END" => Depth(o) + 1 < Depth(n + 1))
            \/ o = n + 1 /\ piece.kind = "%IF"
<1>1. n \in Nat /\ Here = n + 1 /\ Around(Here)' = Around(n + 2)'
  BY HereNext
<1>2. n + 1 \in 1..(n + 1)
  BY <1>1
<1>3. /\ Depth(n + 1) \in Int
      /\ Depth(n + 2)' = Depth(n + 1) + (IF piece.kind = "%IF" THEN 1
                                            ELSE IF piece.kind = "%END" THEN -1 ELSE 0)
  BY <1>2, DepthGrown
<1>4. ASSUME NEW o PROVE o \in Around(n + 2)' <=> o \in 1..(n + 2 - 1) /\ Encloses(o, n + 2)'
  BY <1>1 DEF Around
<1>5. \A o : o \in Around(Here) <=> o \in 1..n /\ Encloses(o, n + 1)
  BY <1>1 DEF Around
<1>6. ASSUME NEW o, o \in 1..n
      PROVE  o \in Around(n + 2)' <=>
                o \in Around(Here) /\ (piece.kind = "%END" => Depth(o) + 1 < Depth(n + 1))
  <2>1. o \in Around(n + 2)' <=> Encloses(o, n + 1) /\ Depth(n + 2)' > Depth(o)
    BY <1>1, <1>4, <1>6, EnclosesGrown
  <2>2. o \in Around(Here) <=> Encloses(o, n + 1)
    BY <1>5, <1>6
  <2>3. o \in Around(Here) => Depth(o) \in Int /\ Depth(o) < Depth(n + 1)
    BY AroundShape
  <2>4. "%IF" # "%END"
    OBVIOUS
  <2> QED  BY <1>3, <2>1, <2>2, <2>3, <2>4
<1>7. n + 1 \in Around(n + 2)' <=> piece.kind = "%IF"
  BY <1>1, <1>4, EnclosesGrown
<1>8. \A o : o \in 1..(n + 2 - 1) <=> o \in 1..n \/ o = n + 1
  BY <1>1
<1>9. n + 1 \notin Around(Here)
  BY <1>1, <1>5
<1> QED  BY <1>1, <1>4, <1>5, <1>6, <1>7, <1>8, <1>9

\* An arm of an %IF that does not get a new head is as it was.
LEMMA ArmStays ==
  ASSUME NEW n, NEW piece, Carried(n, piece), NEW o \in Around(Here),
         ~(piece.kind \in {"%ELSIF", "%ELSE"} /\ Depth(n + 1) = Depth(o) + 1)
  PROVE  (LastOf(o)' <=> LastOf(o)) /\ (SomeOf(o)' <=> SomeOf(o))
<1>1. Grown(n, piece) /\ n \in Nat /\ Here = n + 1 /\ Heads(o, Here)' = Heads(o, n + 2)'
  BY HereNext DEF Carried
<1>2. o \in 1..n /\ n + 1 \in 1..(n + 1) /\ o \in 1..(n + 1 - 1)
  BY <1>1, AroundShape
<1>3. Heads(o, Here)' = Heads(o, Here) /\ Heads(o, Here) \subseteq 1..n
  <2>1. Heads(o, n + 1) \subseteq 1..n
    BY <1>1, <1>2, HeadsGrown
  <2>2. Heads(o, n + 2)' = Heads(o, n + 1) \cup {}
    <3>1. Heads(o, n + 2)' =
             Heads(o, n + 1) \cup (IF piece.kind \in {"%ELSIF", "%ELSE"} /\ Depth(n + 1) = Depth(o) + 1
                                   THEN {n + 1} ELSE {})
      BY <1>1, <1>2, HeadsGrown
    <3> QED  BY <3>1
  <2> QED  BY <1>1, <2>1, <2>2
<1>4. \A j \in Heads(o, Here) : IsTrue(j)' <=> IsTrue(j)
  BY <1>3, TruthGrown
<1> QED  BY <1>3, <1>4 DEF LastOf, SomeOf, LastIsFirst

\* A new head is taken when it is true and none before it was.
LEMMA ArmTurns ==
  ASSUME NEW n, NEW piece, Carried(n, piece), NEW o \in Around(Here),
         piece.kind \in {"%ELSIF", "%ELSE"}, Depth(n + 1) = Depth(o) + 1
  PROVE  /\ LastOf(o)' <=> IsTrue(n + 1)' /\ ~SomeOf(o)
         /\ SomeOf(o)' <=> IsTrue(n + 1)' \/ SomeOf(o)
<1>1. Grown(n, piece) /\ n \in Nat /\ Here = n + 1 /\ Heads(o, Here)' = Heads(o, n + 2)'
  BY HereNext DEF Carried
<1>2. o \in 1..n /\ n + 1 \in 1..(n + 1) /\ o \in 1..(n + 1 - 1)
  BY <1>1, AroundShape
<1>3. Heads(o, Here)' = Heads(o, Here) \cup {n + 1} /\ Heads(o, Here) \subseteq 1..n
  BY <1>1, <1>2, HeadsGrown
<1>4. \A j \in Heads(o, Here) : IsTrue(j)' <=> IsTrue(j)
  BY <1>3, TruthGrown
<1>5. SomeOf(o)' <=> \E j \in Heads(o, Here)' : IsTrue(j)'
  BY DEF SomeOf
<1>6. LastOf(o)' <=> \A j \in Heads(o, Here)' : IsTrue(j)' <=> \A k \in Heads(o, Here)' : k <= j
  BY DEF LastOf, LastIsFirst
<1>7. \A j \in Heads(o, Here) : ~(n + 1 <= j) /\ j <= n + 1
  BY <1>1, <1>3
<1>8. n + 1 <= n + 1
  BY <1>1
<1>9. SomeOf(o)' <=> IsTrue(n + 1)' \/ SomeOf(o)
  BY <1>3, <1>4, <1>5 DEF SomeOf
<1>10. ASSUME NEW j \in Heads(o, Here) PROVE ~\A k \in Heads(o, Here)' : k <= j
  BY <1>3, <1>7
<1>11. \A k \in Heads(o, Here)' : k <= n + 1
  BY <1>3, <1>7, <1>8
<1>12. LastOf(o)' <=> IsTrue(n + 1)' /\ \A j \in Heads(o, Here) : ~IsTrue(j)'
  BY <1>3, <1>6, <1>10, <1>11
<1> QED  BY <1>4, <1>9, <1>12 DEF SomeOf

\* The first arm of a new %IF.
LEMMA ArmOpens ==
  ASSUME NEW n, NEW piece, Carried(n, piece)
  PROVE  (LastOf(n + 1)' <=> IsTrue(n + 1)') /\ (SomeOf(n + 1)' <=> IsTrue(n + 1)')
<1>1. Grown(n, piece) /\ n \in Nat /\ Heads(n + 1, Here)' = Heads(n + 1, n + 2)'
  BY HereNext DEF Carried
<1>2. Heads(n + 1, Here)' = {n + 1}
  BY <1>1, HeadsGrown
<1>3. SomeOf(n + 1)' <=> \E j \in Heads(n + 1, Here)' : IsTrue(j)'
  BY DEF SomeOf
<1>4. LastOf(n + 1)' <=> \A j \in Heads(n + 1, Here)' : IsTrue(j)' <=> \A k \in Heads(n + 1, Here)' : k <= j
  BY DEF LastOf, LastIsFirst
<1>5. n + 1 <= n + 1
  BY <1>1
<1> QED  BY <1>2, <1>3, <1>4, <1>5

\* A condition is read with the versions that are defined before it.
LEMMA TruthNext ==
  ASSUME NEW n, NEW piece, Carried(n, piece), TypeOKBranches, pass.versions = VersionsAt(Here)
  PROVE  IsTrue(n + 1)' <=> Wanted(pass, piece)
<1>1. Grown(n, piece) /\ n \in Nat /\ Here = n + 1 /\ pieces'[n + 1] = piece
  BY HereNext, GrownPieces DEF Carried
<1>2. n + 1 \in 1..(n + 1)
  BY <1>1
<1>3. VersionsAt(n + 1)' = VersionsAt(n + 1)
  BY <1>2, VersionsGrown
<1>4. pass.env = Predefined /\ pass.versions = VersionsAt(n + 1)
  BY <1>1 DEF TypeOKBranches
<1>5. IsTrue(n + 1)' <=> pieces'[n + 1].kind = "%ELSE" \/ Satisfied(Predefined, VersionsAt(n + 1)', pieces'[n + 1].below)
  BY DEF IsTrue
<1> QED  BY <1>1, <1>3, <1>4, <1>5 DEF Wanted

LEMMA VersionsNext ==
  ASSUME NEW n, NEW piece, Carried(n, piece), pass.versions = VersionsAt(Here),
         \/ Same
         \/ pass'.versions = pass.versions \cup Introduces(piece) /\ pass'.kept = pass.kept \cup {n + 1}
  PROVE  pass'.versions = VersionsAt(Here)'
<1>1. /\ n \in Nat /\ Here = n + 1 /\ VersionsAt(Here)' = VersionsAt(n + 2)'
      /\ \A k \in 1..n : pieces'[k] = pieces[k]
      /\ pieces'[n + 1] = piece
      /\ pass.kept \subseteq 1..n
  BY HereNext, GrownPieces DEF Carried
<1>2. VersionsAt(n + 2)' = UNION {Introduces(pieces'[k]) : k \in {j \in pass'.kept : j < n + 2}}
  BY DEF VersionsAt
<1>3. pass.versions = UNION {Introduces(pieces[k]) : k \in {j \in pass.kept : j < n + 1}}
  BY <1>1 DEF VersionsAt
<1>4. {j \in pass.kept : j < n + 1} = pass.kept
  BY <1>1
<1>5. {Introduces(pieces[k]) : k \in pass.kept} = {Introduces(pieces'[k]) : k \in pass.kept}
  BY <1>1
<1>6. CASE Same
  <2>1. {j \in pass'.kept : j < n + 2} = pass.kept
    BY <1>1, <1>6 DEF Same
  <2> QED  BY <1>1, <1>2, <1>3, <1>4, <1>5, <1>6, <2>1 DEF Same
<1>7. CASE pass'.versions = pass.versions \cup Introduces(piece) /\ pass'.kept = pass.kept \cup {n + 1}
  <2>1. {j \in pass'.kept : j < n + 2} = pass.kept \cup {n + 1}
    BY <1>1, <1>7
  <2>2. UNION {Introduces(pieces'[k]) : k \in pass.kept \cup {n + 1}} =
            (UNION {Introduces(pieces'[k]) : k \in pass.kept}) \cup Introduces(piece)
    BY <1>1
  <2> QED  BY <1>1, <1>2, <1>3, <1>4, <1>5, <1>7, <2>1, <2>2
<1> QED  BY <1>6, <1>7
LEMMA ArmsIdle ==
  ASSUME pieces' = pieces, pass' = pass, NEW o
  PROVE  (LastOf(o)' <=> LastOf(o)) /\ (SomeOf(o)' <=> SomeOf(o))
<1>1. Heads(o, Here)' = Heads(o, Here)
  BY DEF Heads, Depth, Before, Here
<1>2. \A j : IsTrue(j)' <=> IsTrue(j)
  BY DEF IsTrue, VersionsAt
<1>3. SomeOf(o)' <=> SomeOf(o)
  BY <1>1, <1>2 DEF SomeOf
<1>4. LastOf(o)' <=> LastOf(o)
  BY <1>1, <1>2 DEF LastOf, LastIsFirst
<1> QED  BY <1>3, <1>4

-----------------------------------------------------------------------------
(* A piece keeps what the stack means.                                        *)

\* What a level has to mean after the piece.
MeansNext(level, o) ==
    /\ level.parentActive <=> \A e \in Around(Here)' : Depth(e)' < Depth(o)' => LastOf(e)'
    /\ level.anyTaken <=> level.parentActive /\ SomeOf(o)'
    /\ level.currentTake <=> level.parentActive /\ LastOf(o)'

LEMMA LevelsMeanNext ==
  ASSUME \A o \in Around(Here)' : MeansNext(pass'.stack[Depth(o)' + 1], o)
  PROVE  LevelsMean'
BY DEF LevelsMean, Means, MeansNext

\* A level means what it did when the %IFs below it have the same arms.
LEMMA MeansStays ==
  ASSUME NEW n, NEW piece, Carried(n, piece), NEW o \in Around(Here), o \in Around(Here)', NEW level,
         \A e \in Around(Here) : Depth(e) < Depth(o) => e \in Around(Here)',
         \A e \in Around(Here)' : Depth(e)' < Depth(o) => e \in Around(Here),
         \A e \in Around(Here) : Depth(e) < Depth(o) => (LastOf(e)' <=> LastOf(e)),
         LastOf(o)' <=> LastOf(o), SomeOf(o)' <=> SomeOf(o),
         Means(level, o)
  PROVE  MeansNext(level, o)
<1>1. \A e \in Around(Here) : Depth(e)' = Depth(e)
  BY AroundShape DEF Carried
<1>2. (\A e \in Around(Here)' : Depth(e)' < Depth(o)' => LastOf(e)') <=>
        \A e \in Around(Here) : Depth(e) < Depth(o) => LastOf(e)
  BY <1>1
<1> QED  BY <1>2 DEF Means, MeansNext

LEMMA OpensMeans ==
  ASSUME NEW n, NEW piece, Carried(n, piece), TypeOKBranches, Understood, Opens(piece), n = Len(pieces)
  PROVE  LevelsMatch' /\ LevelsMean'
<1> DEFINE top == n + 1
           level == NextArm(NewLevel(Active(pass)), Wanted(pass, piece))
           D == Len(pass.stack)
<1>1. /\ Grown(n, piece) /\ n \in Nat /\ Here = n + 1
      /\ pass.stack \in Seq(LevelSet) /\ D \in Nat /\ D = Depth(n + 1)
      /\ piece.kind = "%IF"
  <2>1. Grown(n, piece) /\ n \in Nat /\ Here = n + 1
    BY HereNext DEF Carried
  <2> QED  BY <2>1 DEF TypeOKBranches, Understood, LevelsMatch, Opens
<1>2. top \in 1..(n + 1) /\ Depth(top)' = D
  BY <1>1, DepthGrown
<1>3. Depth(Here)' = D + 1
  <2>1. Depth(n + 2)' = Depth(n + 1) + 1
    BY <1>1, DepthGrown
  <2> QED  BY <1>1, <2>1, HereNext
<1>4. \A o : o \in Around(Here)' <=> o \in Around(Here) \/ o = top
  BY <1>1, AroundNext
<1>5. \A o \in Around(Here) : Depth(o) \in Int /\ Depth(o)' = Depth(o) /\ Depth(o) < D /\ o # top
  BY <1>1, AroundShape
<1>6. Active(pass) \in BOOLEAN
  BY <1>1 DEF Active
<1>7. /\ level.parentActive = Active(pass)
      /\ level.anyTaken <=> Active(pass) /\ Wanted(pass, piece)
      /\ level.currentTake <=> Active(pass) /\ Wanted(pass, piece)
  BY <1>6, NewShape, ArmShape
<1> HIDE DEF level
<1>8. /\ pass'.stack = Append(pass.stack, level)
      /\ Len(pass'.stack) = D + 1 /\ DOMAIN pass'.stack = 1..(D + 1)
      /\ DOMAIN pass.stack = 1..D
      /\ \A d \in 1..D : pass'.stack[d] = pass.stack[d]
      /\ pass'.stack[D + 1] = level
  <2>1. pass'.stack = Append(pass.stack, level)
    BY DEF Opens, level
  <2> QED  BY <1>1, <2>1
<1> HIDE DEF D, top
<1>9. LevelsMatch'
  <2>1. Len(pass'.stack) = Depth(Here)'
    BY <1>3, <1>8
  <2>2. \A o \in Around(Here)' : Depth(o)' \in Int /\ Depth(o)' + 1 \in DOMAIN pass'.stack
    <3>1. \A o \in Around(Here) : Depth(o) \in Int /\ Depth(o) + 1 \in 1..D
      BY <1>8 DEF Understood, LevelsMatch
    <3>2. \A d \in 1..D : d \in 1..(D + 1)
      BY <1>1
    <3>3. D \in Int /\ D + 1 \in 1..(D + 1)
      BY <1>1
    <3>4. \A o \in Around(Here) : Depth(o)' \in Int /\ Depth(o)' + 1 \in 1..(D + 1)
      BY <1>5, <3>1, <3>2
    <3> QED  BY <1>2, <1>4, <1>8, <3>3, <3>4
  <2>3. \A d \in DOMAIN pass'.stack : \E o \in Around(Here)' : Depth(o)' + 1 = d
    <3>1. ASSUME NEW d \in 1..D PROVE \E o \in Around(Here)' : Depth(o)' + 1 = d
      <4>1. PICK o \in Around(Here) : Depth(o) + 1 = d
        BY <1>8 DEF Understood, LevelsMatch
      <4> QED  BY <1>4, <1>5, <4>1
    <3>2. \E o \in Around(Here)' : Depth(o)' + 1 = D + 1
      BY <1>2, <1>4
    <3>3. \A d \in 1..(D + 1) : d \in 1..D \/ d = D + 1
      BY <1>1
    <3> QED  BY <1>8, <3>1, <3>2, <3>3
  <2>4. \A o, e \in Around(Here)' : Depth(o)' = Depth(e)' => o = e
    <3>1. \A o, e \in Around(Here) : Depth(o) = Depth(e) => o = e
      BY DEF Understood, LevelsMatch
    <3> QED  BY <1>1, <1>2, <1>4, <1>5, <3>1
  <2> QED  BY <2>1, <2>2, <2>3, <2>4 DEF LevelsMatch
<1>10. ASSUME NEW o \in Around(Here) PROVE MeansNext(pass'.stack[Depth(o)' + 1], o)
  <2>1. \A e \in Around(Here) : (LastOf(e)' <=> LastOf(e)) /\ (SomeOf(e)' <=> SomeOf(e))
    BY <1>1, ArmStays
  <2>2. \A e \in Around(Here)' : Depth(e)' < Depth(o) => e \in Around(Here)
    BY <1>1, <1>2, <1>4, <1>5
  <2>3. Depth(o)' + 1 \in 1..D /\ Means(pass.stack[Depth(o) + 1], o)
    BY <1>5, <1>8 DEF Understood, LevelsMatch, LevelsMean
  <2>4. pass'.stack[Depth(o)' + 1] = pass.stack[Depth(o) + 1]
    <3>1. \A d \in 1..D : pass'.stack[d] = pass.stack[d]
      BY <1>8
    <3>2. pass'.stack[Depth(o)' + 1] = pass.stack[Depth(o)' + 1]
      BY <2>3, <3>1
    <3> QED  BY <1>5, <3>2
  <2>5. MeansNext(pass.stack[Depth(o) + 1], o)
    BY <1>4, <2>1, <2>2, <2>3, MeansStays
  <2> QED  BY <2>4, <2>5
<1>11. MeansNext(pass'.stack[Depth(top)' + 1], top)
  <2>1. (LastOf(top)' <=> IsTrue(top)') /\ (SomeOf(top)' <=> IsTrue(top)')
    BY ArmOpens DEF top
  <2>2. IsTrue(top)' <=> Wanted(pass, piece)
    BY TruthNext DEF top, Understood
  <2>3. \A e \in Around(Here) : LastOf(e)' <=> LastOf(e)
    BY <1>1, ArmStays
  <2>4. Active(pass) <=> \A e \in Around(Here) : LastOf(e)
    BY ActiveMeans DEF Understood
  <2>5. Active(pass) <=> \A e \in Around(Here)' : Depth(e)' < Depth(top)' => LastOf(e)'
    BY <1>1, <1>2, <1>4, <1>5, <2>3, <2>4
  <2>6. pass'.stack[Depth(top)' + 1] = level
    BY <1>2, <1>8
  <2> QED  BY <1>7, <2>1, <2>2, <2>5, <2>6 DEF MeansNext
<1>12. LevelsMean'
  BY <1>4, <1>10, <1>11, LevelsMeanNext
<1> QED  BY <1>9, <1>12
LEMMA TurnsMeans ==
  ASSUME NEW n, NEW piece, Carried(n, piece), TypeOKBranches, Understood, Turns(piece), n = Len(pieces)
  PROVE  LevelsMatch' /\ LevelsMean'
<1> DEFINE D == Len(pass.stack)
           level == NextArm(pass.stack[D], Wanted(pass, piece))
<1>1. /\ Grown(n, piece) /\ n \in Nat /\ Here = n + 1
      /\ pass.stack \in Seq(LevelSet) /\ D \in Nat \ {0} /\ D = Depth(n + 1)
      /\ piece.kind \in {"%ELSIF", "%ELSE"}
  <2>1. Grown(n, piece) /\ n \in Nat /\ Here = n + 1
    BY HereNext DEF Carried
  <2> QED  BY <2>1 DEF TypeOKBranches, Understood, LevelsMatch, Turns
<1>2. Depth(Here)' = D
  <2>1. Depth(n + 2)' = Depth(n + 1) + 0
    BY <1>1, DepthGrown
  <2> QED  BY <1>1, <2>1, HereNext
<1>3. \A o : o \in Around(Here)' <=> o \in Around(Here)
  BY <1>1, AroundNext
<1>4. \A o \in Around(Here) : Depth(o) \in Int /\ Depth(o)' = Depth(o)
  BY <1>1, AroundShape
<1>5. /\ level.parentActive = pass.stack[D].parentActive
      /\ level.anyTaken <=> pass.stack[D].anyTaken \/ (pass.stack[D].parentActive /\ Wanted(pass, piece))
      /\ level.currentTake <=>
            pass.stack[D].parentActive /\ ~pass.stack[D].anyTaken /\ Wanted(pass, piece)
  <2>1. pass.stack[D] \in LevelSet
    BY <1>1
  <2> QED  BY <2>1, ArmShape
<1>6. /\ pass'.stack = [pass.stack EXCEPT ![D] = level]
      /\ Len(pass'.stack) = D /\ DOMAIN pass'.stack = 1..D
      /\ DOMAIN pass.stack = 1..D
      /\ \A d \in 1..D : d # D => pass'.stack[d] = pass.stack[d]
      /\ pass'.stack[D] = level
  <2>1. pass'.stack = [pass.stack EXCEPT ![D] = level]
    BY DEF Turns
  <2> HIDE DEF level
  <2> QED  BY <1>1, <2>1
<1> HIDE DEF D, level
<1>7. LevelsMatch'
  <2>1. \A o \in Around(Here) : Depth(o) + 1 \in 1..D
    BY <1>6 DEF Understood, LevelsMatch
  <2>2. \A d \in 1..D : \E o \in Around(Here) : Depth(o) + 1 = d
    BY <1>6 DEF Understood, LevelsMatch
  <2>3. \A o, e \in Around(Here) : Depth(o) = Depth(e) => o = e
    BY DEF Understood, LevelsMatch
  <2>4. \A o \in Around(Here)' : Depth(o)' \in Int /\ Depth(o)' + 1 \in DOMAIN pass'.stack
    BY <1>3, <1>4, <1>6, <2>1
  <2>5. \A d \in DOMAIN pass'.stack : \E o \in Around(Here)' : Depth(o)' + 1 = d
    BY <1>3, <1>4, <1>6, <2>2
  <2>6. \A o, e \in Around(Here)' : Depth(o)' = Depth(e)' => o = e
    BY <1>3, <1>4, <2>3
  <2> QED  BY <1>2, <1>6, <2>4, <2>5, <2>6 DEF LevelsMatch
<1>8. \A o \in Around(Here) : Depth(o) + 1 \in 1..D /\ Means(pass.stack[Depth(o) + 1], o)
  BY <1>6 DEF Understood, LevelsMatch, LevelsMean
<1>9. \A e \in Around(Here) : Depth(e) + 1 # D => (LastOf(e)' <=> LastOf(e)) /\ (SomeOf(e)' <=> SomeOf(e))
  <2>1. \A e \in Around(Here) : Depth(e) + 1 # D => Depth(n + 1) # Depth(e) + 1
    BY <1>1, <1>4
  <2> QED  BY <2>1, ArmStays
<1>10. \A o \in Around(Here) :
         (\A e \in Around(Here)' : Depth(e)' < Depth(o)' => LastOf(e)') <=>
            \A e \in Around(Here) : Depth(e) < Depth(o) => LastOf(e)
  <2>1. ASSUME NEW o \in Around(Here), NEW e \in Around(Here), Depth(e) < Depth(o)
        PROVE  LastOf(e)' <=> LastOf(e)
    <3>1. Depth(o) + 1 \in 1..D /\ Depth(e) \in Int /\ Depth(o) \in Int
      BY <1>4, <1>8
    <3>2. Depth(e) + 1 # D
      BY <1>1, <2>1, <3>1
    <3> QED  BY <1>9, <3>2
  <2> QED  BY <1>3, <1>4, <2>1
<1>11. ASSUME NEW o \in Around(Here), Depth(o) + 1 # D
       PROVE  MeansNext(pass'.stack[Depth(o)' + 1], o)
  <2>1. pass'.stack[Depth(o)' + 1] = pass.stack[Depth(o) + 1]
    <3>1. Depth(o)' + 1 \in 1..D /\ Depth(o)' + 1 # D
      BY <1>4, <1>8, <1>11
    <3>2. pass'.stack[Depth(o)' + 1] = pass.stack[Depth(o)' + 1]
      BY <1>6, <3>1
    <3> QED  BY <1>4, <3>2
  <2>2. Means(pass.stack[Depth(o) + 1], o)
    BY <1>8
  <2>3. MeansNext(pass.stack[Depth(o) + 1], o)
    BY <1>9, <1>10, <1>11, <2>2 DEF Means, MeansNext
  <2> QED  BY <2>1, <2>3
<1>12. ASSUME NEW o \in Around(Here), Depth(o) + 1 = D
       PROVE  MeansNext(pass'.stack[Depth(o)' + 1], o)
  <2>1. pass'.stack[Depth(o)' + 1] = level
    BY <1>4, <1>6, <1>12
  <2>2. Means(pass.stack[D], o)
    BY <1>8, <1>12
  <2>3. /\ LastOf(o)' <=> Wanted(pass, piece) /\ ~SomeOf(o)
        /\ SomeOf(o)' <=> Wanted(pass, piece) \/ SomeOf(o)
    <3>1. IsTrue(n + 1)' <=> Wanted(pass, piece)
      BY TruthNext DEF Understood
    <3>2. Depth(n + 1) = Depth(o) + 1
      BY <1>1, <1>12
    <3> QED  BY <1>1, <3>1, <3>2, ArmTurns
  <2>4. MeansNext(level, o)
    BY <1>5, <1>10, <2>2, <2>3 DEF Means, MeansNext
  <2> QED  BY <2>1, <2>4
<1>13. LevelsMean'
  BY <1>3, <1>11, <1>12, LevelsMeanNext
<1> QED  BY <1>7, <1>13

LEMMA ClosesMeans ==
  ASSUME NEW n, NEW piece, Carried(n, piece), TypeOKBranches, Understood, Closes(piece), n = Len(pieces)
  PROVE  LevelsMatch' /\ LevelsMean'
<1> DEFINE D == Len(pass.stack)
<1>1. /\ Grown(n, piece) /\ n \in Nat /\ Here = n + 1
      /\ pass.stack \in Seq(LevelSet) /\ D \in Nat \ {0} /\ D = Depth(n + 1)
      /\ piece.kind = "%END"
  <2>1. Grown(n, piece) /\ n \in Nat /\ Here = n + 1
    BY HereNext DEF Carried
  <2> QED  BY <2>1 DEF TypeOKBranches, Understood, LevelsMatch, Closes
<1>2. Depth(Here)' = D - 1
  <2>1. Depth(n + 2)' = Depth(n + 1) + -1
    BY <1>1, DepthGrown
  <2> QED  BY <1>1, <2>1, HereNext
<1>3. \A o : o \in Around(Here)' <=> o \in Around(Here) /\ Depth(o) + 1 < D
  BY <1>1, AroundNext
<1>4. \A o \in Around(Here) : Depth(o) \in Int /\ Depth(o)' = Depth(o)
  BY <1>1, AroundShape
<1>5. /\ Len(pass'.stack) = D - 1 /\ DOMAIN pass'.stack = 1..(D - 1)
      /\ DOMAIN pass.stack = 1..D
      /\ \A d \in 1..(D - 1) : pass'.stack[d] = pass.stack[d]
  <2>1. pass'.stack = SubSeq(pass.stack, 1, D - 1)
    BY DEF Closes
  <2> QED  BY <1>1, <2>1
<1> HIDE DEF D
<1>6. \A o \in Around(Here) : Depth(o) + 1 \in 1..D /\ Means(pass.stack[Depth(o) + 1], o)
  BY <1>5 DEF Understood, LevelsMatch, LevelsMean
<1>7. LevelsMatch'
  <2>1. \A d \in 1..D : \E o \in Around(Here) : Depth(o) + 1 = d
    BY <1>5 DEF Understood, LevelsMatch
  <2>2. \A o, e \in Around(Here) : Depth(o) = Depth(e) => o = e
    BY DEF Understood, LevelsMatch
  <2>3. \A o \in Around(Here)' : Depth(o)' \in Int /\ Depth(o)' + 1 \in DOMAIN pass'.stack
    <3>1. \A o \in Around(Here) : Depth(o) \in Int /\ Depth(o) + 1 \in 1..D
      BY <1>4, <1>6
    <3>2. \A o \in Around(Here) : Depth(o) + 1 < D => Depth(o) + 1 \in 1..(D - 1)
      BY <1>1, <3>1
    <3> QED  BY <1>3, <1>4, <1>5, <3>2
  <2>4. \A d \in DOMAIN pass'.stack : \E o \in Around(Here)' : Depth(o)' + 1 = d
    <3>1. \A d \in 1..(D - 1) : d \in 1..D /\ d < D
      BY <1>1
    <3> QED  BY <1>3, <1>4, <1>5, <2>1, <3>1
  <2>5. \A o, e \in Around(Here)' : Depth(o)' = Depth(e)' => o = e
    BY <1>3, <1>4, <2>2
  <2> QED  BY <1>2, <1>5, <2>3, <2>4, <2>5 DEF LevelsMatch
<1>8. ASSUME NEW o \in Around(Here)' PROVE MeansNext(pass'.stack[Depth(o)' + 1], o)
  <2>1. o \in Around(Here) /\ Depth(o) + 1 < D
    BY <1>3
  <2>2. pass'.stack[Depth(o)' + 1] = pass.stack[Depth(o) + 1]
    <3>1. Depth(o)' + 1 \in 1..(D - 1)
      BY <1>1, <1>4, <1>6, <2>1
    <3>2. pass'.stack[Depth(o)' + 1] = pass.stack[Depth(o)' + 1]
      BY <1>5, <3>1
    <3> QED  BY <1>4, <2>1, <3>2
  <2>3. \A e \in Around(Here) : (LastOf(e)' <=> LastOf(e)) /\ (SomeOf(e)' <=> SomeOf(e))
    BY <1>1, ArmStays
  <2>4. \A e \in Around(Here) : Depth(e) < Depth(o) => e \in Around(Here)'
    BY <1>1, <1>3, <1>4, <2>1
  <2>5. Means(pass.stack[Depth(o) + 1], o)
    BY <1>6, <2>1
  <2>6. MeansNext(pass.stack[Depth(o) + 1], o)
    BY <1>3, <2>1, <2>3, <2>4, <2>5, MeansStays
  <2> QED  BY <2>2, <2>6
<1>9. LevelsMean'
  BY <1>8, LevelsMeanNext
<1> QED  BY <1>7, <1>9

LEMMA EmitsMeans ==
  ASSUME NEW n, NEW piece, Carried(n, piece), TypeOKBranches, Understood, Emits(n, piece), n = Len(pieces)
  PROVE  LevelsMatch' /\ LevelsMean'
<1>1. /\ Grown(n, piece) /\ n \in Nat /\ Here = n + 1
      /\ pass'.stack = pass.stack
      /\ piece.kind \notin Directives
  BY HereNext DEF Carried, Emits
<1>2. Depth(Here)' = Depth(Here)
  <2>1. Depth(n + 2)' = Depth(n + 1) + 0
    BY <1>1, DepthGrown DEF Directives
  <2>2. Depth(n + 1) \in Int
    BY <1>1, DepthGrown
  <2>3. Depth(n + 2)' = Depth(n + 1)
    BY <2>1, <2>2
  <2> QED  BY <1>1, <2>3, HereNext
<1>3. \A o : o \in Around(Here)' <=> o \in Around(Here)
  BY <1>1, AroundNext DEF Directives
<1>4. \A o \in Around(Here) : Depth(o) \in Int /\ Depth(o)' = Depth(o)
  BY <1>1, AroundShape
<1>5. LevelsMatch'
  <2>1. /\ Len(pass'.stack) = Depth(Here)'
        /\ \A o \in Around(Here)' : Depth(o)' \in Int /\ Depth(o)' + 1 \in DOMAIN pass'.stack
    <3>1. \A o \in Around(Here) : Depth(o) + 1 \in DOMAIN pass'.stack
      BY <1>1 DEF Understood, LevelsMatch
    <3>2. Len(pass'.stack) = Depth(Here)'
      BY <1>1, <1>2 DEF Understood, LevelsMatch
    <3> QED  BY <1>3, <1>4, <3>1, <3>2
  <2>2. \A d \in DOMAIN pass'.stack : \E o \in Around(Here)' : Depth(o)' + 1 = d
    BY <1>1, <1>3, <1>4 DEF Understood, LevelsMatch
  <2>3. \A o, e \in Around(Here)' : Depth(o)' = Depth(e)' => o = e
    BY <1>3, <1>4 DEF Understood, LevelsMatch
  <2> QED  BY <2>1, <2>2, <2>3 DEF LevelsMatch
<1>6. ASSUME NEW o \in Around(Here) PROVE MeansNext(pass'.stack[Depth(o)' + 1], o)
  <2>1. pass'.stack[Depth(o)' + 1] = pass.stack[Depth(o) + 1]
    BY <1>1, <1>4
  <2>2. \A e \in Around(Here) : (LastOf(e)' <=> LastOf(e)) /\ (SomeOf(e)' <=> SomeOf(e))
    BY <1>1, ArmStays DEF Directives
  <2>3. Means(pass.stack[Depth(o) + 1], o)
    BY DEF Understood, LevelsMean
  <2>4. MeansNext(pass.stack[Depth(o) + 1], o)
    BY <1>3, <2>2, <2>3, MeansStays
  <2> QED  BY <2>1, <2>4
<1>7. LevelsMean'
  BY <1>3, <1>6, LevelsMeanNext
<1> QED  BY <1>5, <1>7

-----------------------------------------------------------------------------
(* Of a text with conditions what the conditions choose is passed on.         *)

\* The strengthening: until an error the stack and the versions mean what they
\* should at the next place.
BranchesInv == TypeOKBranches /\ BranchesChosen /\ (pass.ok => Understood)

LEMMA BranchesStart == BranchesInit => BranchesInv
<1> SUFFICES ASSUME BranchesInit PROVE BranchesInv
  OBVIOUS
<1>1. /\ pieces = <<>> /\ Len(pieces) = 0 /\ DOMAIN pieces = {} /\ Here = 1
      /\ pass.stack = <<>> /\ pass.kept = {} /\ pass.versions = {} /\ pass.ok
  BY DEF BranchesInit, Preproc, Here
<1>2. TypeOKBranches
  BY DEF BranchesInit, TypeOKBranches, Preproc
<1>3. \A kind : Before(1, kind) = {}
  BY DEF Before
<1>4. Depth(1) = 0
  BY <1>3, FS_EmptySet DEF Depth
<1>5. Around(1) = {}
  BY DEF Around
<1>6. VersionsAt(1) = {}
  BY <1>1 DEF VersionsAt
<1>7. Understood
  BY <1>1, <1>4, <1>5, <1>6 DEF Understood, LevelsMatch, LevelsMean
<1>8. BranchesChosen
  BY <1>1, <1>4 DEF BranchesChosen
<1> QED  BY <1>2, <1>7, <1>8 DEF BranchesInv

LEMMA BranchesStep ==
  ASSUME BranchesInv, NEW piece \in TextPieces, ReadPiece(piece), NEW n, n = Len(pieces)
  PROVE  BranchesInv'
<1>1. TypeOKBranches /\ BranchesChosen /\ Understood /\ pass.ok
  BY DEF BranchesInv, ReadPiece
<1>2. /\ Grown(n, piece) /\ Carried(n, piece) /\ TypeOKBranches'
      /\ Fails(piece) \/ Opens(piece) \/ Turns(piece) \/ Closes(piece) \/ Emits(n, piece)
  BY <1>1, StepCases
<1>3. /\ n \in Nat /\ Here = n + 1
      /\ pieces'[n + 1] = piece
      /\ \A k \in 1..n : pieces'[k] = pieces[k]
      /\ DOMAIN pieces = 1..n /\ DOMAIN pieces' = 1..(n + 1)
  BY <1>2, HereNext, GrownPieces DEF Grown
<1>4. \A i \in 1..(n + 1) : i \in 1..n \/ i = n + 1
  BY <1>3
<1>5. /\ Depth(n + 1) = Len(pass.stack)
      /\ pass.stack \in Seq(LevelSet)
      /\ \A i \in 1..n : InPlace(i)
      /\ pass.kept = {i \in 1..n : pieces[i].kind \notin Directives /\ OnChosenPath(i)}
  BY <1>1, <1>3 DEF TypeOKBranches, BranchesChosen, Understood, LevelsMatch
\* An error is reported exactly for a directive out of place.
<1>6. pass'.ok <=> \A i \in DOMAIN pieces' : InPlace(i)'
  <2>1. Depth(n + 1) > 0 <=> pass.stack # <<>>
    BY <1>5
  <2>2. /\ \A i \in 1..n : InPlace(i)' <=> InPlace(i)
        /\ InPlace(n + 1)' <=> /\ piece.kind \in Directives \ {"%IF"} => Depth(n + 1) > 0
                               /\ piece.kind \in {"%IF", "%ELSIF"} => Legible(piece.below)
    BY <1>2, FitsGrown
  <2>3. pass'.ok <=> InPlace(n + 1)'
    BY <1>2, <2>1, <2>2 DEF Fails, Opens, Turns, Closes, Emits, Directives
  <2> QED  BY <1>3, <1>4, <1>5, <2>2, <2>3
\* What is passed on is on the chosen path.
<1>7. ASSUME pass'.ok
      PROVE  pass'.kept = {i \in DOMAIN pieces' : pieces'[i].kind \notin Directives /\ OnChosenPath(i)'}
  <2>1. \A i \in 1..(n + 1) : OnChosenPath(i)' <=> OnChosenPath(i)
    BY <1>2, PathGrown
  <2>2. n + 1 \in 1..(n + 1) /\ n + 1 \notin 1..n
    BY <1>3
  <2>3. \A i : i \in pass.kept <=> i \in 1..n /\ pieces'[i].kind \notin Directives /\ OnChosenPath(i)'
    <3>1. \A i \in 1..n : i \in 1..(n + 1)
      BY <1>3
    <3> QED  BY <1>3, <1>5, <2>1, <3>1
  <2>4. pass'.kept = pass.kept \cup (IF piece.kind \notin Directives /\ OnChosenPath(n + 1)' THEN {n + 1} ELSE {})
    <3>1. Active(pass) <=> OnChosenPath(n + 1)
      BY <1>1, <1>3, ActiveMeans DEF Understood
    <3>2. piece.kind \in Directives => pass'.kept = pass.kept
      BY <1>2, <1>7 DEF Fails, Opens, Turns, Closes, Emits, Same
    <3>3. piece.kind \notin Directives =>
            pass'.kept = IF Active(pass) THEN pass.kept \cup {n + 1} ELSE pass.kept
      BY <1>2 DEF Fails, Opens, Turns, Closes, Emits, Same, Directives
    <3> QED  BY <2>1, <2>2, <3>1, <3>2, <3>3
  <2>5. \A i : i \in pass'.kept <=>
            i \in 1..(n + 1) /\ pieces'[i].kind \notin Directives /\ OnChosenPath(i)'
    BY <1>3, <1>4, <2>2, <2>3, <2>4
  <2> QED  BY <1>3, <2>5
<1>8. ASSUME pass'.ok PROVE Understood'
  <2>1. LevelsMatch' /\ LevelsMean'
    BY <1>1, <1>2, <1>8, OpensMeans, TurnsMeans, ClosesMeans, EmitsMeans DEF Fails
  <2>2. pass'.versions = VersionsAt(Here)'
    BY <1>1, <1>2, <1>8, VersionsNext DEF Fails, Opens, Turns, Closes, Emits, Understood
  <2> QED  BY <2>1, <2>2 DEF Understood
<1>9. ASSUME pass'.ok PROVE pass'.stack = <<>> <=> Depth(Len(pieces) + 1)' = 0
  <2>1. Len(pass'.stack) = Depth(Here)'
    BY <1>8, <1>9 DEF Understood, LevelsMatch
  <2>2. pass'.stack \in Seq(LevelSet)
    BY <1>2 DEF TypeOKBranches
  <2>3. Depth(Here)' = Depth(Len(pieces) + 1)'
    BY DEF Here
  <2> QED  BY <2>1, <2>2, <2>3
<1>10. BranchesChosen'
  BY <1>6, <1>7, <1>9 DEF BranchesChosen
<1> QED  BY <1>2, <1>8, <1>10 DEF BranchesInv

LEMMA BranchesIdle ==
  ASSUME BranchesInv, pieces' = pieces, pass' = pass
  PROVE  BranchesInv'
<1>1. pieces' = pieces /\ pass' = pass /\ Here' = Here
  BY DEF Here
<1>2. \A i : Depth(i)' = Depth(i) /\ VersionsAt(i)' = VersionsAt(i)
  BY <1>1 DEF Depth, Before, VersionsAt
<1>3. ASSUME NEW o, NEW i PROVE (Encloses(o, i)' <=> Encloses(o, i)) /\ Heads(o, i)' = Heads(o, i)
  BY <1>1, <1>2 DEF Encloses, Heads
<1>4. \A i : (IsTrue(i)' <=> IsTrue(i)) /\ (InPlace(i)' <=> InPlace(i))
  BY <1>1, <1>2 DEF IsTrue, InPlace
<1>5. \A o, i : LastIsFirst(Heads(o, i))' <=> LastIsFirst(Heads(o, i))
  BY <1>3, <1>4 DEF LastIsFirst
<1>6. \A i : OnChosenPath(i)' <=> OnChosenPath(i)
  BY <1>3, <1>5 DEF OnChosenPath
<1>7. TypeOKBranches'
  BY <1>1 DEF BranchesInv, TypeOKBranches
<1>8. BranchesChosen'
  <2>1. Depth(Len(pieces) + 1)' = Depth(Len(pieces) + 1)
    BY <1>1 DEF Depth, Before
  <2> QED  BY <1>1, <1>4, <1>6, <2>1 DEF BranchesInv, BranchesChosen
<1>9. ASSUME pass.ok PROVE Understood'
  <2>1. Around(Here)' = Around(Here)
    BY <1>1 DEF Around, Encloses, Depth, Before, Here
  <2>2. Depth(Here)' = Depth(Here) /\ VersionsAt(Here)' = VersionsAt(Here)
    BY <1>1 DEF Depth, Before, VersionsAt, Here
  <2>4. \A o : (LastOf(o)' <=> LastOf(o)) /\ (SomeOf(o)' <=> SomeOf(o))
    BY <1>1, ArmsIdle
  <2>5. LevelsMatch'
    BY <1>1, <1>2, <1>9, <2>1, <2>2 DEF BranchesInv, Understood, LevelsMatch
  <2>6. ASSUME NEW o \in Around(Here)' PROVE MeansNext(pass'.stack[Depth(o)' + 1], o)
    BY <1>1, <1>2, <1>9, <2>1, <2>4 DEF BranchesInv, Understood, LevelsMean, Means, MeansNext
  <2>7. LevelsMean'
    BY <2>6, LevelsMeanNext
  <2> QED  BY <1>1, <1>9, <2>2, <2>5, <2>7 DEF BranchesInv, Understood
<1> QED  BY <1>1, <1>7, <1>8, <1>9 DEF BranchesInv

LEMMA BranchesKept == BranchesInv /\ [BranchesNext]_branchVars => BranchesInv'
<1> SUFFICES ASSUME BranchesInv, [BranchesNext]_branchVars PROVE BranchesInv'
  OBVIOUS
<1>1. CASE BranchesNext
  <2>1. PICK piece \in TextPieces : ReadPiece(piece)
    BY <1>1 DEF BranchesNext
  <2>2. PICK n : n = Len(pieces)
    OBVIOUS
  <2> QED  BY <2>1, <2>2, BranchesStep
<1>2. CASE UNCHANGED branchVars
  BY <1>2, BranchesIdle DEF branchVars
<1> QED  BY <1>1, <1>2

(* The text and the state of the pass are of their types.                     *)
THEOREM TypeOfBranches == BranchesSpec => []TypeOKBranches
<1>1. BranchesInv => TypeOKBranches
  BY DEF BranchesInv
<1> QED  BY <1>1, BranchesStart, BranchesKept, PTL DEF BranchesSpec

(* Whatever the text, the conditions and what is predefined, the preprocessor *)
(* passes on what the conditions choose and nothing else, and reports an error *)
(* exactly for a directive without its %IF or a condition that cannot be read *)
(* (preprocess.rs, handle_directive).                                         *)
THEOREM BranchesAreChosen == BranchesSpec => []BranchesChosen
<1>1. BranchesInv => BranchesChosen
  BY DEF BranchesInv
<1> QED  BY <1>1, BranchesStart, BranchesKept, PTL DEF BranchesSpec

-----------------------------------------------------------------------------
(* A procedure with NEW and DISPOSE, and the pass over it: one statement more. *)

LEMMA CodeAppended ==
  ASSUME code \in Seq(Statement), NEW s \in Statement, code' = Append(code, s)
  PROVE  /\ code' \in Seq(Statement) /\ Len(code') = Len(code) + 1 /\ code' # <<>>
         /\ \A i \in DOMAIN code : i \in DOMAIN code' /\ code'[i] = code[i]
         /\ Len(code') \in DOMAIN code' /\ LastStatement' = s
<1>1. code' \in Seq(Statement) /\ Len(code') = Len(code) + 1 /\ Len(code) \in Nat
  OBVIOUS
<1>2. DOMAIN code = 1..Len(code) /\ DOMAIN code' = 1..(Len(code) + 1)
  BY <1>1
<1>3. code'[Len(code) + 1] = s /\ \A i \in 1..Len(code) : code'[i] = code[i]
  OBVIOUS
<1> QED  BY <1>1, <1>2, <1>3 DEF LastStatement

LEMMA CodeExtended ==
  ASSUME code \in Seq(Statement), code # <<>>, NEW op \in Simple \cup {"|", "exit"}, code' = Extended(op)
  PROVE  /\ code' \in Seq(Statement) /\ Len(code') = Len(code) /\ code' # <<>>
         /\ DOMAIN code' = DOMAIN code
         /\ Len(code) \in DOMAIN code
         /\ \A i \in DOMAIN code : code'[i].kind = code[i].kind /\ code'[i].test = code[i].test
         /\ \A i \in DOMAIN code : i # Len(code) => code'[i].body = code[i].body
         /\ LastStatement'.kind = LastStatement.kind /\ LastStatement'.test = LastStatement.test
         /\ LastStatement'.body = Append(LastStatement.body, op)
         /\ LastStatement.body \in Seq(Simple \cup {"|", "exit"})
<1> DEFINE n == Len(code)
<1>1. n \in Nat \ {0} /\ DOMAIN code = 1..n /\ n \in DOMAIN code
  OBVIOUS
<1>2. \A i \in DOMAIN code : code[i] \in Statement
  BY <1>1
<1>3. code' = [code EXCEPT ![n].body = Append(code[n].body, op)]
  BY DEF Extended
<1>4. code[n].body \in Seq(Simple \cup {"|", "exit"})
  BY <1>1, <1>2 DEF Statement
<1>5. Append(code[n].body, op) \in Seq(Simple \cup {"|", "exit"})
  BY <1>4
<1> DEFINE last == [code[n] EXCEPT !.body = Append(code[n].body, op)]
<1>6. /\ last \in Statement /\ last.kind = code[n].kind /\ last.test = code[n].test
      /\ last.body = Append(code[n].body, op)
  BY <1>1, <1>2, <1>5 DEF Statement
<1>7. code' = [code EXCEPT ![n] = last]
  BY <1>3
<1> HIDE DEF last
<1>8. code' \in Seq(Statement) /\ Len(code') = n
  BY <1>1, <1>6, <1>7
<1>9. DOMAIN code' = DOMAIN code /\ code'[n] = last /\ \A i \in DOMAIN code : i # n => code'[i] = code[i]
  BY <1>1, <1>7
<1>10. code' # <<>>
  BY <1>1, <1>8
<1>11. LastStatement' = last /\ LastStatement = code[n]
  BY <1>8, <1>9 DEF LastStatement
<1> QED  BY <1>1, <1>4, <1>6, <1>8, <1>9, <1>10, <1>11

\* What the procedure has it keeps, and what is added to it it has.
LEMMA BodyAppended ==
  ASSUME NEW b \in Seq(Simple \cup {"|", "exit"}), NEW op
  PROVE  /\ DOMAIN b = 1..Len(b) /\ Len(b) \in Nat
         /\ DOMAIN Append(b, op) = 1..(Len(b) + 1)
         /\ Append(b, op)[Len(b) + 1] = op
         /\ \A j \in 1..Len(b) : Append(b, op)[j] = b[j]
OBVIOUS

\* What excuses an alarm stays.
ReasonsStay ==
    /\ \A op \in Simple : Has(op) => Has(op)'
    /\ LeftInBetween => LeftInBetween'
    /\ (\E i \in DOMAIN code : code[i].kind = "repeat" /\ code[i].test)
            => (\E i \in DOMAIN code' : code'[i].kind = "repeat" /\ code'[i].test)

LEMMA ReasonsStayByAppend ==
  ASSUME code \in Seq(Statement), NEW s \in Statement, code' = Append(code, s)
  PROVE  ReasonsStay /\ Has(s.kind)'
<1>1. /\ \A i \in DOMAIN code : i \in DOMAIN code' /\ code'[i] = code[i]
      /\ Len(code') \in DOMAIN code' /\ code'[Len(code')] = s
  BY CodeAppended DEF LastStatement
<1> QED  BY <1>1 DEF ReasonsStay, Has, LeftInBetween

LEMMA ReasonsStayByExtension ==
  ASSUME code \in Seq(Statement), code # <<>>, NEW op \in Simple \cup {"|", "exit"}, code' = Extended(op)
  PROVE  ReasonsStay /\ Has(op)'
<1> DEFINE b == LastStatement.body
           n == Len(code)
<1>1. /\ DOMAIN code' = DOMAIN code /\ n \in DOMAIN code
      /\ \A i \in DOMAIN code : code'[i].kind = code[i].kind /\ code'[i].test = code[i].test
      /\ \A i \in DOMAIN code : i # n => code'[i].body = code[i].body
      /\ code'[n].body = Append(b, op) /\ code[n].body = b
      /\ b \in Seq(Simple \cup {"|", "exit"})
  BY CodeExtended DEF LastStatement
<1>2. /\ DOMAIN b = 1..Len(b) /\ Len(b) \in Nat
      /\ DOMAIN Append(b, op) = 1..(Len(b) + 1)
      /\ Append(b, op)[Len(b) + 1] = op
      /\ \A j \in 1..Len(b) : Append(b, op)[j] = b[j]
  BY <1>1, BodyAppended
<1> HIDE DEF b, n
<1>3. \A i \in DOMAIN code : \A j \in DOMAIN code[i].body :
            j \in DOMAIN code'[i].body /\ code'[i].body[j] = code[i].body[j]
  <2> SUFFICES ASSUME NEW i \in DOMAIN code, NEW j \in DOMAIN code[i].body
               PROVE  j \in DOMAIN code'[i].body /\ code'[i].body[j] = code[i].body[j]
    OBVIOUS
  <2>1. CASE i = n
    BY <2>1, <1>1, <1>2
  <2>2. CASE i # n
    BY <2>2, <1>1
  <2> QED  BY <2>1, <2>2
<1>4. Has(op)'
  <2>1. Len(b) + 1 \in DOMAIN code'[n].body /\ code'[n].body[Len(b) + 1] = op
    BY <1>1, <1>2
  <2> QED  BY <2>1, <1>1 DEF Has
<1>5. \A o \in Simple : Has(o) => Has(o)'
  BY <1>1, <1>3 DEF Has
<1>6. LeftInBetween => LeftInBetween'
  BY <1>1, <1>3 DEF LeftInBetween
<1> QED  BY <1>1, <1>4, <1>5, <1>6 DEF ReasonsStay

-----------------------------------------------------------------------------
\* The type invariant, action by action.
LEMMA ScansPlain ==
  ASSUME NEW v \in Scans, NEW op \in Simple
  PROVE  ScanPlain(v, op) \in Scans
BY DEF Scans, ScanPlain, Simple, Plain, Given

LEMMA Effects ==
  ASSUME NEW c \in Concrete, NEW op \in Simple
  PROVE  Effect(c, op) \in Concrete
BY DEF Concrete, Effect, Simple, Plain, Given

LEMMA FalseAreWarnings ==
  ASSUME NEW v, NEW op
  PROVE  False(v, op) \subseteq {"lost", "double", "use", "target"}
BY DEF False, Warnings

LEMMA BehindIsConcrete ==
  ASSUME TypeOKCheck, open
  PROVE  Behind(LastStatement.kind) \subseteq Concrete
<1> DEFINE again == Rounds(frame.runs, frame.through)
<1>1. /\ frame.runs \subseteq Concrete /\ frame.past \subseteq Concrete /\ runs \subseteq Concrete
      /\ frame.through \in [Concrete -> Concrete] /\ frame.ways \subseteq [Concrete -> Concrete]
      /\ LastStatement.kind \in {"if", "case", "while", "repeat", "loop"}
  BY DEF TypeOKCheck, Compound
<1>2. again \subseteq Concrete
  BY DEF Rounds
<1>3. \A f \in [Concrete -> Concrete] : Via(f, again) \subseteq Concrete
  BY <1>2 DEF Via
<1> HIDE DEF again
<1>4. UNION {Via(f, again) : f \in frame.ways} \subseteq Concrete
  BY <1>1, <1>3
<1>5. Behind(LastStatement.kind) =
        CASE LastStatement.kind = "if"     -> frame.runs \cup frame.past \cup runs
          [] LastStatement.kind = "case"   -> frame.past \cup runs
          [] LastStatement.kind = "while"  -> again
          [] LastStatement.kind = "repeat" -> Via(frame.through, again)
          [] LastStatement.kind = "loop"   -> UNION {Via(f, again) : f \in frame.ways}
  BY DEF Behind, again
<1> QED  BY <1>1, <1>2, <1>3, <1>4, <1>5

FrameSet ==
    [scan : Scans, runs : SUBSET Concrete, touched : BOOLEAN, past : SUBSET Concrete,
     through : [Concrete -> Concrete], ways : SUBSET [Concrete -> Concrete]]

LEMMA TypeCheckStep ==
  ASSUME TypeOKCheck, CheckNext
  PROVE  TypeOKCheck'
<1>1. /\ code \in Seq(Statement) /\ scan \in Scans /\ runs \subseteq Concrete
      /\ alarms \subseteq {"lost", "double", "use", "target"}
      /\ frame \in FrameSet
      /\ open => code # <<>> /\ LastStatement.kind \in Compound /\ part = "body"
      /\ open \in BOOLEAN /\ part \in {"body", "except", "finally"}
      /\ been \subseteq Concrete /\ handled \subseteq Concrete /\ (part = "body" => handled = {})
  BY DEF TypeOKCheck, FrameSet
<1>2. SUFFICES
        /\ code' \in Seq(Statement)
        /\ open' \in BOOLEAN
        /\ open' => code' # <<>> /\ LastStatement'.kind \in Compound /\ part' = "body"
        /\ part' \in {"body", "except", "finally"}
        /\ been' \subseteq Concrete /\ handled' \subseteq Concrete /\ (part' = "body" => handled' = {})
        /\ scan' \in Scans /\ runs' \subseteq Concrete
        /\ alarms' \subseteq {"lost", "double", "use", "target"}
        /\ frame' \in FrameSet
  BY DEF TypeOKCheck, FrameSet
<1>3. Identity \in [Concrete -> Concrete] /\ Began \in FrameSet
  BY <1>1 DEF Identity, Began, FrameSet
<1>4. \A v, op : False(v, op) \subseteq {"lost", "double", "use", "target"}
  BY FalseAreWarnings
<1>5. \A op \in Simple : CheckPlain(op) =>
        /\ scan' \in Scans /\ runs' \subseteq Concrete /\ been' \subseteq Concrete
        /\ alarms' \subseteq {"lost", "double", "use", "target"}
  BY <1>1, <1>4, ScansPlain, Effects DEF CheckPlain
<1>6. ASSUME NEW op \in Simple, AddPlain(op)
      PROVE  <1>2!1
  <2>1. [kind |-> op, test |-> FALSE, body |-> <<>>] \in Statement
    BY DEF Statement
  <2>2. /\ code' \in Seq(Statement) /\ open' = open /\ frame' = frame /\ ~open /\ CheckPlain(op)
        /\ part' = part /\ handled' = handled
    BY <1>1, <1>6, <2>1, CodeAppended DEF AddPlain
  <2> QED  BY <2>2, <1>1, <1>5
<1>7. ASSUME NEW kind \in Compound, NEW test \in BOOLEAN, BeginCompound(kind, test)
      PROVE  <1>2!1
  <2> DEFINE s == [kind |-> kind, test |-> test, body |-> <<>>]
  <2>1. s \in Statement /\ s.kind = kind
    BY DEF Statement
  <2>2. code' \in Seq(Statement) /\ code' # <<>> /\ LastStatement' = s
    BY <1>1, <1>7, <2>1, CodeAppended DEF BeginCompound
  <2>3. /\ open' = TRUE /\ scan' = scan /\ runs' = runs /\ frame' = Began
        /\ part = "body" /\ part' = part /\ been' = been /\ handled' = handled
    BY <1>7 DEF BeginCompound
  <2>4. alarms' \subseteq {"lost", "double", "use", "target"}
    BY <1>1, <1>4, <1>7 DEF BeginCompound
  <2> QED  BY <1>1, <1>3, <2>1, <2>2, <2>3, <2>4
<1>8. ASSUME open, NEW op \in Simple \cup {"|", "exit"}, code' = Extended(op),
             open' = open, part' = part, handled' = handled
      PROVE  /\ code' \in Seq(Statement)
             /\ open' \in BOOLEAN /\ part' = "body" /\ handled' = {}
             /\ open' => code' # <<>> /\ LastStatement'.kind \in Compound
  BY <1>1, <1>8, CodeExtended
<1>9. ASSUME NEW op \in Simple, AddToBody(op)
      PROVE  <1>2!1
  <2>1. /\ open /\ code' = Extended(op) /\ open' = open /\ CheckPlain(op)
        /\ part' = part /\ handled' = handled
    BY <1>9 DEF AddToBody
  <2>2. [c \in Concrete |-> Effect(frame.through[c], op)] \in [Concrete -> Concrete]
    BY <1>1, Effects DEF FrameSet
  <2>3. frame' = [frame EXCEPT !.through = [c \in Concrete |-> Effect(frame.through[c], op)]]
    BY <1>9 DEF AddToBody
  <2>4. frame' \in FrameSet
    BY <1>1, <2>2, <2>3 DEF FrameSet
  <2> QED  BY <2>1, <2>4, <1>5, <1>8
<1>10. ASSUME AddArm
       PROVE  <1>2!1
  <2>1. /\ open /\ code' = Extended("|") /\ open' = open /\ alarms' = alarms /\ runs' = frame.runs
        /\ part' = part /\ handled' = handled /\ been' = been
    BY <1>10 DEF AddArm
  <2>2. scan' \in Scans
    BY <1>1, <1>10 DEF AddArm, ScanBranch, Scans, FrameSet
  <2>3. ArmTouches \in BOOLEAN
    BY <1>1 DEF ArmTouches, Touched, FrameSet
  <2>4. frame' \in FrameSet
    BY <1>1, <1>3, <1>10, <2>3 DEF AddArm, FrameSet
  <2>5. runs' \subseteq Concrete
    BY <1>1, <2>1 DEF FrameSet
  <2> QED  BY <1>1, <1>8, <2>1, <2>2, <2>4, <2>5
<1>11. ASSUME AddExit
       PROVE  <1>2!1
  <2>1. /\ open /\ code' = Extended("exit") /\ open' = open
        /\ alarms' = alarms /\ runs' = runs /\ scan' = scan
        /\ part' = part /\ handled' = handled /\ been' = been
    BY <1>11 DEF AddExit
  <2>2. frame' \in FrameSet
    BY <1>1, <1>11 DEF AddExit, FrameSet
  <2> QED  BY <1>1, <1>8, <2>1, <2>2
<1>12. ASSUME EndCompound
       PROVE  <1>2!1
  <2>1. /\ open' = FALSE /\ code' = code /\ frame' = frame
        /\ part' = part /\ handled' = handled /\ been' = been \cup runs'
    BY <1>12 DEF EndCompound
  <2>2. scan' \in Scans
    <3>1. ScanBranch(frame.scan, scan) \in Scans
      BY <1>1 DEF ScanBranch, Scans, FrameSet
    <3> QED  BY <3>1, <1>12 DEF EndCompound, Scans
  <2>3. runs' \subseteq Concrete
    BY <1>12, BehindIsConcrete DEF EndCompound
  <2>4. alarms' \subseteq {"lost", "double", "use", "target"}
    BY <1>1, <1>4, <1>12 DEF EndCompound
  <2> QED  BY <1>1, <2>1, <2>2, <2>3, <2>4
<1>13. ASSUME BeginExcept \/ BeginFinally
       PROVE  <1>2!1
  <2>1. /\ code' = code /\ open' = open /\ scan' = scan /\ runs' = runs /\ been' = been
        /\ alarms' = alarms /\ frame' = frame /\ ~open
        /\ part' \in {"except", "finally"} /\ handled' \in {been, handled}
    BY <1>13 DEF BeginExcept, BeginFinally
  <2> QED  BY <1>1, <2>1
<1>14. ASSUME NEW op \in Simple, AddToPart(op)
       PROVE  <1>2!1
  <2>1. /\ code' = code /\ open' = open /\ scan' = scan /\ been' = been /\ part' = part
        /\ alarms' = alarms /\ frame' = frame /\ ~open /\ part # "body"
        /\ handled' = {Effect(c, op) : c \in handled}
        /\ runs' = {Effect(c, op) : c \in runs} \/ runs' = runs
    BY <1>1, <1>14 DEF AddToPart
  <2>2. handled' \subseteq Concrete /\ runs' \subseteq Concrete
    BY <1>1, <2>1, Effects
  <2> QED  BY <1>1, <2>1, <2>2
<1> QED  BY <1>6, <1>7, <1>9, <1>10, <1>11, <1>12, <1>13, <1>14 DEF CheckNext

LEMMA TypeCheckStart ==
  ASSUME CheckInit
  PROVE  TypeOKCheck
<1>1. /\ code = <<>> /\ open = FALSE /\ scan = Start /\ runs = {"none"} /\ alarms = {}
      /\ frame = Began /\ part = "body" /\ been = runs /\ handled = {}
  BY DEF CheckInit
<1>2. Identity \in [Concrete -> Concrete] /\ runs \subseteq Concrete
  BY <1>1 DEF Identity, Concrete
<1>3. scan \in Scans
  BY <1>1 DEF Start, Scans
<1>4. frame \in FrameSet
  BY <1>1, <1>2, <1>3 DEF Began, FrameSet
<1>5. code \in Seq(Statement) /\ alarms \subseteq {"lost", "double", "use", "target"}
  BY <1>1
<1> QED  BY <1>1, <1>2, <1>3, <1>4, <1>5 DEF TypeOKCheck, FrameSet

(* The scan, what executions can do and the open statement are of their types *)
(* (heapcheck.rs, Vars).                                                      *)
THEOREM TypeOfCheck == CheckSpec => []TypeOKCheck
<1>1. CheckInit => TypeOKCheck
  BY TypeCheckStart
<1>2. TypeOKCheck /\ [CheckNext]_checkVars => TypeOKCheck'
  <2>1. TypeOKCheck /\ UNCHANGED checkVars => TypeOKCheck'
    BY DEF TypeOKCheck, checkVars, LastStatement
  <2> QED  BY <2>1, TypeCheckStep
<1> QED  BY <1>1, <1>2, PTL DEF CheckSpec

-----------------------------------------------------------------------------
(* What p can be where the pass has a state for it.                          *)

May(st) ==
    CASE st = "alloc"    -> {"own", "shared"}
      [] st = "disposed" -> {"gone"}
      [] OTHER           -> Concrete

\* A pointer that has been copied has escaped.
SafeAt(v, copied) == {c \in May(v.st) : c = "shared" => copied /\ v.escaped}

LEMMA SafeIsConcrete ==
  ASSUME NEW v, NEW k
  PROVE  SafeAt(v, k) \subseteq Concrete
BY DEF SafeAt, May, Concrete

LEMMA PlainKeeps ==
  ASSUME NEW v \in Scans, NEW op \in Plain, NEW c
  PROVE  /\ c \in May(v.st) => Effect(c, op) \in May(ScanPlain(v, op).st)
         /\ Effect(c, op) = "shared" => c = "shared" \/ (op = "copy" /\ ScanPlain(v, op).escaped)
<1> DEFINE w == ScanPlain(v, op)
<1>1. CASE op = "new"
  <2>1. w.st = "alloc" /\ Effect(c, op) = "own"
    BY <1>1 DEF ScanPlain, Effect
  <2> QED  BY <2>1 DEF May
<1>2. CASE op = "dispose"
  <2>1. w.st = "disposed" /\ Effect(c, op) = "gone"
    BY <1>2 DEF ScanPlain, Effect
  <2> QED  BY <2>1 DEF May
<1>3. CASE op = "set"
  <2>1. w.st = "unknown" /\ Effect(c, op) = "other"
    BY <1>3 DEF ScanPlain, Effect
  <2> QED  BY <2>1 DEF May, Concrete
<1>4. CASE op = "deref"
  <2>1. w.st = v.st /\ Effect(c, op) = c
    BY <1>4 DEF ScanPlain, Effect
  <2> QED  BY <2>1
<1>5. CASE op = "copy"
  <2>1. w.st = v.st /\ w.escaped = TRUE
    BY <1>5 DEF ScanPlain
  <2>2. Effect(c, op) = c \/ (c = "own" /\ Effect(c, op) = "shared")
    BY <1>5 DEF Effect
  <2>3. c = "own" /\ c \in May(v.st) => "shared" \in May(v.st)
    BY DEF May, Concrete
  <2> QED  BY <1>5, <2>1, <2>2, <2>3
<1> QED  BY <1>1, <1>2, <1>3, <1>4, <1>5 DEF Plain

\* What f makes of p fits what the pass has made of v, and shares p only when the
\* pass has seen that.
Keeps(f, v, w, copied) ==
    /\ \A c \in May(v.st) : f[c] \in May(w.st)
    /\ \A c \in Concrete : f[c] = "shared" => c = "shared" \/ (copied /\ w.escaped)

LEMMA KeepsSafe ==
  ASSUME NEW f, NEW v, NEW w, NEW k, v.escaped => w.escaped, Keeps(f, v, w, k), NEW c \in SafeAt(v, k)
  PROVE  f[c] \in SafeAt(w, k)
BY SafeIsConcrete DEF Keeps, SafeAt

LEMMA KeepsGrows ==
  ASSUME NEW f, NEW v, NEW w, NEW x, NEW k, NEW l, Keeps(f, v, w, k), k => l, w.escaped => x.escaped,
         x.st = w.st
  PROVE  Keeps(f, v, x, l)
BY DEF Keeps

LEMMA UnknownStays ==
  ASSUME NEW f \in [Concrete -> Concrete], NEW v, NEW w, NEW x, NEW k, Keeps(f, v, w, k), w.escaped => x.escaped,
         x.st = "unknown", NEW c \in SafeAt(x, k)
  PROVE  f[c] \in SafeAt(x, k)
BY DEF Keeps, SafeAt, May

LEMMA SafeGrows ==
  ASSUME NEW v, NEW w, NEW k, NEW l, k => l, v.escaped => w.escaped,
         v.st = w.st \/ w.st \in {"none", "unknown"}
  PROVE  SafeAt(v, k) \subseteq SafeAt(w, l)
BY DEF SafeAt, May, Concrete

\* A warning that is not deserved has one of the excuses.
LEMMA PlainAlarms ==
  ASSUME NEW v \in Scans, NEW k \in BOOLEAN, NEW op \in Plain, runs \subseteq SafeAt(v, k),
         NEW w \in False(v, op)
  PROVE  w = "target" \/ (w = "lost" /\ k)
<1>1. PICK c \in runs : w \notin Mistakes(c, op)
  BY DEF False
<1>2. w \in Warnings(v, op) /\ c \in May(v.st) /\ (c = "shared" => k)
  BY <1>1 DEF False, SafeAt
<1> QED  BY <1>1, <1>2 DEF Warnings, Mistakes, May, Plain, Given

LEMMA RoundsStay ==
  ASSUME NEW C, NEW S, S \subseteq Concrete, C \subseteq S, NEW f, \A c \in S : f[c] \in S
  PROVE  Rounds(C, f) \subseteq S
<1>1. S \in SUBSET Concrete /\ Via(f, S) \subseteq S
  BY DEF Via
<1> QED  BY <1>1 DEF Rounds

-----------------------------------------------------------------------------
(* The inductive invariant.                                                  *)

Changed == \E j \in DOMAIN LastStatement.body : LastStatement.body[j] \in Changes

Turned ==
    \E j, k \in DOMAIN LastStatement.body :
        j < k /\ LastStatement.body[j] \in Changes /\ LastStatement.body[k] = "exit"

Copies == Has("copy")

UntilTested == \E i \in DOMAIN code : code[i].kind = "repeat" /\ code[i].test

Excused(w) ==
    \/ w = "target"
    \/ w = "use" /\ UntilTested
    \/ w = "lost" /\ Copies

\* What the pass would know if the statement ended with the arms so far.
Joined == [st |-> IF frame.touched THEN "unknown" ELSE frame.scan.st, escaped |-> scan.escaped]

\* What it would know if the arm had changed nothing.
AsBefore == [st |-> frame.scan.st, escaped |-> scan.escaped]

\* Where the body is left p is as before the statement, or has been changed, and
\* then is not changed any more before the body's end.
WayOut(f) ==
    \/ Keeps(f, frame.scan, AsBefore, Copies)
    \/ Turned /\ Keeps(f, frame.scan, scan, Copies)

FrameInv ==
    /\ frame.runs \subseteq SafeAt(frame.scan, Copies)
    /\ frame.past \subseteq SafeAt(Joined, Copies)
    /\ frame.scan.escaped => scan.escaped
    /\ ~Changed => scan.st = frame.scan.st
    /\ Keeps(frame.through, frame.scan, scan, Copies)
    /\ \A f \in frame.ways : WayOut(f) /\ LastStatement.kind = "loop"

StateInv ==
    /\ part = "body" => runs \subseteq SafeAt(scan, Copies)
    /\ \A w \in alarms : Excused(w)
    /\ open => FrameInv

\* A pointer that has been given away has escaped.
GivenEscapes == GivenByVar => scan.escaped

CheckInv == TypeOKCheck /\ GivenEscapes /\ (LeftInBetween \/ GivenByVar \/ StateInv)

\* A plain statement, wherever it is.
LEMMA PlainStep ==
  ASSUME TypeOKCheck, StateInv, NEW op \in Plain, CheckPlain(op), ReasonsStay, op = "copy" => Copies',
         part = "body"
  PROVE  /\ runs' \subseteq SafeAt(scan', Copies')
         /\ \A w \in alarms' : Excused(w)'
         /\ scan.escaped => scan'.escaped
         /\ op \notin Changes => scan'.st = scan.st
<1>1. scan \in Scans /\ runs \subseteq Concrete /\ runs \subseteq SafeAt(scan, Copies)
  BY DEF TypeOKCheck, StateInv
<1>2. /\ scan' = ScanPlain(scan, op) /\ runs' = {Effect(c, op) : c \in runs}
      /\ alarms' = alarms \cup False(scan, op)
  BY DEF CheckPlain
<1>3. Copies => Copies'
  BY DEF ReasonsStay, Copies, Simple, Plain
<1>4. scan.escaped => scan'.escaped
  BY <1>1, <1>2 DEF ScanPlain, Scans
<1>5. ASSUME NEW c \in runs
      PROVE  Effect(c, op) \in SafeAt(scan', Copies')
  <2>1. c \in May(scan.st) /\ (c = "shared" => Copies /\ scan.escaped)
    BY <1>1 DEF SafeAt
  <2>2. /\ Effect(c, op) \in May(scan'.st)
        /\ Effect(c, op) = "shared" => c = "shared" \/ (op = "copy" /\ scan'.escaped)
    BY <1>1, <1>2, <2>1, PlainKeeps
  <2> QED  BY <1>3, <1>4, <2>1, <2>2 DEF SafeAt
<1>6. ASSUME NEW w \in alarms'
      PROVE  Excused(w)'
  <2>1. CASE w \in alarms
    <3>1. Excused(w)
      BY <2>1 DEF StateInv
    <3>2. UntilTested => UntilTested'
      BY DEF ReasonsStay, UntilTested
    <3> QED  BY <1>3, <3>1, <3>2 DEF Excused
  <2>2. CASE w \in False(scan, op)
    <3>1. Copies \in BOOLEAN
      BY DEF Copies, Has
    <3>2. w = "target" \/ (w = "lost" /\ Copies)
      BY <1>1, <2>2, <3>1, PlainAlarms
    <3> QED  BY <1>3, <3>2 DEF Excused
  <2> QED  BY <1>2, <2>1, <2>2
<1>7. op \notin Changes => scan'.st = scan.st
  BY <1>2 DEF ScanPlain, Changes
<1> QED  BY <1>2, <1>4, <1>5, <1>6, <1>7

\* The body grows: what has been left in the middle has been left in the middle.
LEMMA BodyGrows ==
  ASSUME TypeOKCheck, open, NEW op \in Simple \cup {"|", "exit"}, code' = Extended(op)
  PROVE  /\ LastStatement'.kind = LastStatement.kind
         /\ Changed => Changed'
         /\ op \in Changes => Changed'
         /\ Turned => Turned'
         /\ Changed /\ op = "exit" => Turned'
         /\ Turned /\ op \in Changes => LeftInBetween'
<1> DEFINE b == LastStatement.body
           n == Len(code)
<1>1. code \in Seq(Statement) /\ code # <<>>
  BY DEF TypeOKCheck
<1>2. /\ DOMAIN code' = DOMAIN code /\ n \in DOMAIN code /\ Len(code') = n
      /\ LastStatement'.kind = LastStatement.kind
      /\ LastStatement'.body = Append(b, op)
      /\ b \in Seq(Simple \cup {"|", "exit"})
  BY <1>1, CodeExtended
<1>3. /\ DOMAIN b = 1..Len(b) /\ Len(b) \in Nat
      /\ DOMAIN Append(b, op) = 1..(Len(b) + 1)
      /\ Append(b, op)[Len(b) + 1] = op
      /\ \A j \in 1..Len(b) : Append(b, op)[j] = b[j]
  BY <1>2, BodyAppended
<1>4. code'[n].body = LastStatement'.body /\ n \in DOMAIN code'
  BY <1>2 DEF LastStatement
<1> DEFINE e == LastStatement'.body
<1>5. /\ DOMAIN e = 1..(Len(b) + 1) /\ e[Len(b) + 1] = op
      /\ \A j \in DOMAIN b : j \in DOMAIN e /\ e[j] = b[j] /\ j \in Nat /\ j < Len(b) + 1
      /\ Len(b) + 1 \in DOMAIN e
  BY <1>2, <1>3
<1>6. Changed = \E j \in DOMAIN b : b[j] \in Changes
  BY DEF Changed
<1>7. Turned = \E j, k \in DOMAIN b : j < k /\ b[j] \in Changes /\ b[k] = "exit"
  BY DEF Turned
<1>8. Changed' = \E j \in DOMAIN e : e[j] \in Changes
  BY DEF Changed
<1>9. Turned' = \E j, k \in DOMAIN e : j < k /\ e[j] \in Changes /\ e[k] = "exit"
  BY DEF Turned
<1>10. ASSUME NEW j \in DOMAIN e, NEW k \in DOMAIN e, NEW l \in DOMAIN e,
              j < k, k < l, e[j] \in Changes, e[k] = "exit", e[l] \in Changes
       PROVE  LeftInBetween'
  BY <1>4, <1>10 DEF LeftInBetween
<1> HIDE DEF b, e, n
<1>11. Turned /\ op \in Changes => LeftInBetween'
  <2> SUFFICES ASSUME Turned, op \in Changes PROVE LeftInBetween'
    OBVIOUS
  <2>1. PICK j \in DOMAIN b, k \in DOMAIN b : j < k /\ b[j] \in Changes /\ b[k] = "exit"
    BY <1>7
  <2> QED  BY <1>5, <1>10, <2>1
<1> QED  BY <1>2, <1>5, <1>6, <1>7, <1>8, <1>9, <1>11

\* Identity keeps everything, and a statement more what it does with all of it.
LEMMA IdentityKeeps ==
  ASSUME NEW v, NEW w, w.st = v.st, NEW k
  PROVE  Keeps(Identity, v, w, k)
BY DEF Keeps, Identity, May, Concrete

LEMMA OneMoreKeeps ==
  ASSUME NEW f \in [Concrete -> Concrete], NEW g, NEW v, NEW w \in Scans, NEW op \in Plain, NEW k, NEW l,
         Keeps(f, v, w, k), k => l, op = "copy" => l, w.escaped => ScanPlain(w, op).escaped,
         g = [c \in Concrete |-> Effect(f[c], op)]
  PROVE  Keeps(g, v, ScanPlain(w, op), l)
<1>1. ASSUME NEW c \in May(v.st)
      PROVE  g[c] \in May(ScanPlain(w, op).st)
  <2>1. c \in Concrete /\ f[c] \in May(w.st)
    BY <1>1 DEF Keeps, May, Concrete
  <2> QED  BY <2>1, PlainKeeps
<1>2. ASSUME NEW c \in Concrete, g[c] = "shared"
      PROVE  c = "shared" \/ (l /\ ScanPlain(w, op).escaped)
  <2>1. f[c] = "shared" \/ (op = "copy" /\ ScanPlain(w, op).escaped)
    BY <1>2, PlainKeeps
  <2>2. f[c] = "shared" => c = "shared" \/ (k /\ w.escaped)
    BY <1>2 DEF Keeps
  <2> QED  BY <2>1, <2>2
<1> QED  BY <1>1, <1>2 DEF Keeps

LEMMA CheckOfAddPlain ==
  ASSUME TypeOKCheck, StateInv, NEW op \in Plain, AddPlain(op)
  PROVE  StateInv'
<1>1. code \in Seq(Statement) /\ ~open /\ open' = open /\ CheckPlain(op) /\ part = "body"
  BY DEF TypeOKCheck, AddPlain
<1>2. [kind |-> op, test |-> FALSE, body |-> <<>>] \in Statement
  BY DEF Statement, Simple
<1>3. ReasonsStay /\ Has(op)'
  BY <1>1, <1>2, ReasonsStayByAppend DEF AddPlain
<1>4. op = "copy" => Copies'
  BY <1>3 DEF Copies
<1>5. runs' \subseteq SafeAt(scan', Copies') /\ \A w \in alarms' : Excused(w)'
  BY <1>1, <1>3, <1>4, PlainStep
<1> QED  BY <1>1, <1>5 DEF StateInv

LEMMA CheckOfBegin ==
  ASSUME TypeOKCheck, StateInv, NEW kind \in Compound, NEW test \in BOOLEAN, BeginCompound(kind, test)
  PROVE  StateInv'
<1> DEFINE s == [kind |-> kind, test |-> test, body |-> <<>>]
<1>1. s \in Statement /\ s.body = <<>> /\ code \in Seq(Statement)
  BY DEF Statement, TypeOKCheck
<1>2. ReasonsStay /\ LastStatement' = s
  BY <1>1, ReasonsStayByAppend, CodeAppended DEF BeginCompound
<1>3. scan' = scan /\ runs' = runs /\ frame' = Began /\ scan \in Scans /\ part = "body"
  BY DEF BeginCompound, TypeOKCheck
<1>4. (Copies => Copies') /\ (UntilTested => UntilTested') /\ Copies \in BOOLEAN
  BY <1>2 DEF ReasonsStay, Copies, UntilTested, Simple, Plain, Has
<1>5. runs \subseteq SafeAt(scan, Copies) /\ SafeAt(scan, Copies) \subseteq SafeAt(scan, Copies')
  BY <1>3, <1>4, SafeGrows DEF StateInv
<1>6. ASSUME NEW w \in alarms'
      PROVE  Excused(w)'
  <2>1. w \in alarms \/ w \in False(scan, "deref")
    BY <1>6 DEF BeginCompound
  <2>2. w \in alarms => Excused(w)
    BY DEF StateInv
  <2>3. w \in False(scan, "deref") => w = "target" \/ (w = "lost" /\ Copies)
    BY <1>3, <1>4, <1>5, PlainAlarms DEF Plain
  <2> QED  BY <1>4, <2>1, <2>2, <2>3 DEF Excused
<1>7. FrameInv'
  <2>1. /\ frame'.scan = scan' /\ frame'.runs = runs /\ frame'.past = {} /\ frame'.ways = {}
        /\ frame'.through = Identity
    BY <1>3 DEF Began
  <2>2. Keeps(frame'.through, frame'.scan, scan', Copies')
    BY <2>1, IdentityKeeps
  <2> QED  BY <1>3, <1>5, <2>1, <2>2 DEF FrameInv
<1> QED  BY <1>3, <1>5, <1>6, <1>7 DEF StateInv

LEMMA CheckOfAddToBody ==
  ASSUME TypeOKCheck, StateInv, NEW op \in Plain, AddToBody(op), ~LeftInBetween'
  PROVE  StateInv'
<1>1. /\ code \in Seq(Statement) /\ code # <<>> /\ open /\ CheckPlain(op) /\ code' = Extended(op)
      /\ open' = open /\ frame \in FrameSet /\ scan \in Scans /\ part = "body"
  BY DEF TypeOKCheck, AddToBody, FrameSet
<1>2. ReasonsStay /\ Has(op)'
  BY <1>1, ReasonsStayByExtension DEF Simple
<1>3. (op = "copy" => Copies') /\ (Copies => Copies')
  BY <1>2 DEF Copies, ReasonsStay, Simple, Plain
<1>4. /\ runs' \subseteq SafeAt(scan', Copies') /\ \A w \in alarms' : Excused(w)'
      /\ scan.escaped => scan'.escaped
      /\ op \notin Changes => scan'.st = scan.st
  BY <1>1, <1>2, <1>3, PlainStep
<1>5. /\ LastStatement'.kind = LastStatement.kind
      /\ Changed => Changed'
      /\ op \in Changes => Changed'
      /\ Turned => Turned'
      /\ Turned => op \notin Changes
  BY <1>1, BodyGrows DEF Simple
<1>6. /\ frame'.scan = frame.scan /\ frame'.runs = frame.runs /\ frame'.past = frame.past
      /\ frame'.touched = frame.touched /\ frame'.ways = frame.ways
      /\ frame'.through = [c \in Concrete |-> Effect(frame.through[c], op)]
  BY <1>1 DEF AddToBody, FrameSet
<1>7. FrameInv
  BY <1>1 DEF StateInv
<1>8. frame'.runs \subseteq SafeAt(frame'.scan, Copies')
  BY <1>3, <1>6, <1>7, SafeGrows DEF FrameInv
<1>9. frame'.past \subseteq SafeAt(Joined', Copies')
  <2>1. Joined'.st = Joined.st /\ (Joined.escaped => Joined'.escaped)
    BY <1>4, <1>6 DEF Joined
  <2>2. SafeAt(Joined, Copies) \subseteq SafeAt(Joined', Copies')
    BY <1>3, <2>1, SafeGrows
  <2> QED  BY <1>6, <1>7, <2>2 DEF FrameInv
<1>10. Keeps(frame'.through, frame'.scan, scan', Copies')
  <2>1. frame.through \in [Concrete -> Concrete] /\ scan' = ScanPlain(scan, op)
    BY <1>1 DEF FrameSet, CheckPlain
  <2>2. Keeps(frame.through, frame.scan, scan, Copies)
    BY <1>7 DEF FrameInv
  <2> QED  BY <1>1, <1>3, <1>4, <1>6, <2>1, <2>2, OneMoreKeeps
<1>11. ASSUME NEW f \in frame'.ways
       PROVE  WayOut(f)' /\ LastStatement'.kind = "loop"
  <2>1. WayOut(f) /\ LastStatement.kind = "loop"
    BY <1>6, <1>7 DEF FrameInv
  <2>2. CASE Keeps(f, frame.scan, AsBefore, Copies)
    <3>1. AsBefore'.st = AsBefore.st /\ (AsBefore.escaped => AsBefore'.escaped)
      BY <1>4, <1>6 DEF AsBefore
    <3>2. Keeps(f, frame'.scan, AsBefore', Copies')
      BY <1>3, <1>6, <2>2, <3>1, KeepsGrows
    <3> QED  BY <1>5, <2>1, <3>2 DEF WayOut
  <2>3. CASE Turned /\ Keeps(f, frame.scan, scan, Copies)
    <3>1. scan'.st = scan.st /\ Turned'
      BY <1>4, <1>5, <2>3
    <3>2. Keeps(f, frame'.scan, scan', Copies')
      BY <1>3, <1>4, <1>6, <2>3, <3>1, KeepsGrows
    <3> QED  BY <1>5, <2>1, <3>1, <3>2 DEF WayOut
  <2> QED  BY <2>1, <2>2, <2>3 DEF WayOut
<1>12. (frame'.scan.escaped => scan'.escaped) /\ (~Changed' => scan'.st = frame'.scan.st)
  BY <1>4, <1>5, <1>6, <1>7 DEF FrameInv
<1>13. FrameInv'
  BY <1>8, <1>9, <1>10, <1>11, <1>12 DEF FrameInv
<1> QED  BY <1>1, <1>4, <1>13 DEF StateInv

LEMMA CheckOfAddArm ==
  ASSUME TypeOKCheck, StateInv, AddArm
  PROVE  StateInv'
<1>1. /\ code \in Seq(Statement) /\ code # <<>> /\ open /\ code' = Extended("|") /\ open' = open
      /\ LastStatement.kind # "loop" /\ frame \in FrameSet /\ scan \in Scans
      /\ alarms' = alarms /\ runs' = frame.runs /\ part = "body"
  BY DEF TypeOKCheck, AddArm, FrameSet
<1>2. ReasonsStay
  BY <1>1, ReasonsStayByExtension
<1>3. (Copies => Copies') /\ (UntilTested => UntilTested')
  BY <1>2 DEF Copies, UntilTested, ReasonsStay, Simple, Plain
<1>4. scan'.st = frame.scan.st /\ scan'.escaped = (frame.scan.escaped \/ scan.escaped)
  BY <1>1 DEF AddArm, ScanBranch, FrameSet, Scans
<1>5. /\ frame'.scan = frame.scan /\ frame'.runs = frame.runs /\ frame'.past = frame.past \cup runs
      /\ frame'.touched = ArmTouches /\ frame'.ways = frame.ways /\ frame'.through = Identity
  BY <1>1 DEF AddArm, FrameSet
<1>6. FrameInv
  BY <1>1 DEF StateInv
<1>7. scan'.escaped = scan.escaped
  BY <1>1, <1>4, <1>6 DEF FrameInv, Scans, FrameSet
<1>8. frame'.runs \subseteq SafeAt(frame'.scan, Copies')
  BY <1>3, <1>5, <1>6, SafeGrows DEF FrameInv
<1>9. runs' \subseteq SafeAt(scan', Copies')
  <2>1. SafeAt(frame.scan, Copies) \subseteq SafeAt(scan', Copies')
    BY <1>3, <1>4, SafeGrows
  <2> QED  BY <1>1, <1>6, <2>1 DEF FrameInv
<1>10. frame'.past \subseteq SafeAt(Joined', Copies')
  <2>1. Joined'.escaped = scan.escaped /\ Joined.escaped = scan.escaped
    BY <1>7 DEF Joined
  <2>2. Joined'.st = "unknown" \/ (Joined'.st = Joined.st /\ Joined'.st = scan.st)
    BY <1>5 DEF Joined, ArmTouches, Touched
  <2>3. SafeAt(Joined, Copies) \subseteq SafeAt(Joined', Copies')
    BY <1>3, <2>1, <2>2, SafeGrows
  <2>4. SafeAt(scan, Copies) \subseteq SafeAt(Joined', Copies')
    BY <1>3, <2>1, <2>2, SafeGrows
  <2> QED  BY <1>1, <1>5, <1>6, <2>3, <2>4 DEF FrameInv, StateInv
<1>11. Keeps(frame'.through, frame'.scan, scan', Copies')
  BY <1>4, <1>5, IdentityKeeps
<1>12. frame'.ways = {}
  BY <1>1, <1>5, <1>6 DEF FrameInv
<1>13. FrameInv'
  BY <1>4, <1>5, <1>8, <1>10, <1>11, <1>12 DEF FrameInv
<1>14. \A w \in alarms' : Excused(w)'
  BY <1>1, <1>3 DEF StateInv, Excused
<1> QED  BY <1>9, <1>13, <1>14 DEF StateInv

LEMMA CheckOfAddExit ==
  ASSUME TypeOKCheck, StateInv, AddExit
  PROVE  StateInv'
<1>1. /\ code \in Seq(Statement) /\ code # <<>> /\ open /\ code' = Extended("exit") /\ open' = open
      /\ LastStatement.kind = "loop" /\ frame \in FrameSet
      /\ alarms' = alarms /\ runs' = runs /\ scan' = scan /\ part = "body"
  BY DEF TypeOKCheck, AddExit, FrameSet
<1>2. ReasonsStay
  BY <1>1, ReasonsStayByExtension
<1>3. (Copies => Copies') /\ (UntilTested => UntilTested')
  BY <1>2 DEF Copies, UntilTested, ReasonsStay, Simple, Plain
<1>4. /\ LastStatement'.kind = LastStatement.kind
      /\ Changed => Changed'
      /\ Turned => Turned'
      /\ Changed => Turned'
  BY <1>1, BodyGrows
<1>5. /\ frame'.scan = frame.scan /\ frame'.runs = frame.runs /\ frame'.past = frame.past
      /\ frame'.touched = frame.touched /\ frame'.through = frame.through
      /\ frame'.ways = frame.ways \cup {frame.through}
  BY <1>1 DEF AddExit, FrameSet
<1>6. FrameInv
  BY <1>1 DEF StateInv
<1>7. Joined' = Joined /\ AsBefore' = AsBefore
  BY <1>1, <1>5 DEF Joined, AsBefore
<1>8. /\ frame'.runs \subseteq SafeAt(frame'.scan, Copies') /\ runs' \subseteq SafeAt(scan', Copies')
      /\ frame'.past \subseteq SafeAt(Joined', Copies')
  BY <1>1, <1>3, <1>5, <1>6, <1>7, SafeGrows DEF FrameInv, StateInv
<1>9. \A f : Keeps(f, frame.scan, scan, Copies) => Keeps(f, frame'.scan, scan', Copies')
  BY <1>1, <1>3, <1>5, KeepsGrows
<1>10. \A f : Keeps(f, frame.scan, AsBefore, Copies) => Keeps(f, frame'.scan, AsBefore', Copies')
  BY <1>3, <1>5, <1>7, KeepsGrows
<1>11. Keeps(frame'.through, frame'.scan, scan', Copies')
  BY <1>5, <1>6, <1>9 DEF FrameInv
<1>12. ASSUME NEW f \in frame'.ways
       PROVE  WayOut(f)' /\ LastStatement'.kind = "loop"
  <2>1. CASE f \in frame.ways
    <3>1. WayOut(f)
      BY <1>6, <2>1 DEF FrameInv
    <3> QED  BY <1>1, <1>4, <1>9, <1>10, <3>1 DEF WayOut
  <2>2. CASE f = frame.through /\ Changed
    BY <1>1, <1>4, <1>5, <1>11, <2>2 DEF WayOut
  <2>3. CASE f = frame.through /\ ~Changed
    <3>1. AsBefore.st = scan.st /\ AsBefore.escaped = scan.escaped
      BY <1>6, <2>3 DEF FrameInv, AsBefore
    <3>2. Keeps(f, frame.scan, AsBefore, Copies)
      BY <1>6, <2>3, <3>1 DEF FrameInv, Keeps
    <3> QED  BY <1>1, <1>4, <1>10, <3>2 DEF WayOut
  <2> QED  BY <1>5, <2>1, <2>2, <2>3
<1>13. FrameInv'
  BY <1>1, <1>4, <1>5, <1>6, <1>8, <1>11, <1>12 DEF FrameInv
<1>14. \A w \in alarms' : Excused(w)'
  BY <1>1, <1>3 DEF StateInv, Excused
<1> QED  BY <1>8, <1>13, <1>14 DEF StateInv

\* What p can be behind the statement is what the pass makes of it.
LEMMA BehindIsSafe ==
  ASSUME TypeOKCheck, StateInv, open, NEW x, x.escaped <=> scan.escaped,
         x.st = IF ArmTouches THEN "unknown" ELSE frame.scan.st
  PROVE  Behind(LastStatement.kind) \subseteq SafeAt(x, Copies)
<1> DEFINE S == SafeAt(x, Copies)
           again == Rounds(frame.runs, frame.through)
<1>1. /\ FrameInv /\ frame \in FrameSet
      /\ LastStatement.kind \in {"if", "case", "while", "repeat", "loop"}
      /\ runs \subseteq SafeAt(scan, Copies)
  BY DEF StateInv, TypeOKCheck, FrameSet, Compound
<1>2. S \subseteq Concrete
  BY SafeIsConcrete
<1>3. x.st = "unknown" \/ (x.st = frame.scan.st /\ scan.st = frame.scan.st /\ ~frame.touched)
  BY DEF ArmTouches, Touched
<1>4. frame.runs \subseteq S
  <2>1. SafeAt(frame.scan, Copies) \subseteq S
    BY <1>1, <1>3, SafeGrows DEF FrameInv
  <2> QED  BY <1>1, <2>1 DEF FrameInv
<1>5. frame.past \subseteq S
  <2>1. Joined.escaped = scan.escaped /\ (x.st = "unknown" \/ x.st = Joined.st)
    BY <1>3 DEF Joined
  <2>2. SafeAt(Joined, Copies) \subseteq S
    BY <2>1, SafeGrows
  <2> QED  BY <1>1, <2>2 DEF FrameInv
<1>6. runs \subseteq S
  <2>1. SafeAt(scan, Copies) \subseteq S
    BY <1>3, SafeGrows
  <2> QED  BY <1>1, <2>1
<1>7. ASSUME NEW f \in [Concrete -> Concrete], NEW w, Keeps(f, frame.scan, w, Copies),
             w.escaped <=> scan.escaped, w.st = scan.st \/ w.st = frame.scan.st, NEW c \in S
      PROVE  f[c] \in S
  <2>1. CASE x.st = "unknown"
    BY <1>7, <2>1, UnknownStays
  <2>2. CASE x.st = frame.scan.st /\ scan.st = frame.scan.st
    <3>1. c \in May(frame.scan.st) /\ (c = "shared" => Copies /\ x.escaped) /\ c \in Concrete
      BY <1>2, <1>7, <2>2 DEF SafeAt
    <3>2. f[c] \in May(w.st) /\ (f[c] = "shared" => c = "shared" \/ (Copies /\ w.escaped))
      BY <1>7, <3>1 DEF Keeps
    <3> QED  BY <1>7, <2>2, <3>1, <3>2 DEF SafeAt
  <2> QED  BY <1>3, <2>1, <2>2
<1>8. frame.through \in [Concrete -> Concrete] /\ frame.ways \subseteq [Concrete -> Concrete]
  BY <1>1 DEF FrameSet
<1>9. \A c \in S : frame.through[c] \in S
  BY <1>1, <1>7, <1>8 DEF FrameInv
<1>10. again \subseteq S
  BY <1>2, <1>4, <1>9, RoundsStay
<1> HIDE DEF again, S
<1>11. Via(frame.through, again) \subseteq S
  BY <1>9, <1>10 DEF Via
<1>12. ASSUME NEW f \in frame.ways
       PROVE  Via(f, again) \subseteq S
  <2>1. WayOut(f) /\ f \in [Concrete -> Concrete]
    BY <1>1, <1>8 DEF FrameInv
  <2>2. AsBefore.escaped = scan.escaped /\ AsBefore.st = frame.scan.st
    BY DEF AsBefore
  <2>3. \A c \in S : f[c] \in S
    BY <1>7, <2>1, <2>2 DEF WayOut
  <2> QED  BY <1>10, <2>3 DEF Via
<1>13. UNION {Via(f, again) : f \in frame.ways} \subseteq S
  BY <1>12
<1>14. Behind(LastStatement.kind) =
        CASE LastStatement.kind = "if"     -> frame.runs \cup frame.past \cup runs
          [] LastStatement.kind = "case"   -> frame.past \cup runs
          [] LastStatement.kind = "while"  -> again
          [] LastStatement.kind = "repeat" -> Via(frame.through, again)
          [] LastStatement.kind = "loop"   -> UNION {Via(f, again) : f \in frame.ways}
  BY DEF Behind, again
<1>15. Behind(LastStatement.kind) \subseteq S
  BY <1>1, <1>4, <1>5, <1>6, <1>10, <1>11, <1>13, <1>14
<1> QED  BY <1>15 DEF S

LEMMA CheckOfEnd ==
  ASSUME TypeOKCheck, StateInv, EndCompound
  PROVE  StateInv'
<1>1. /\ open /\ open' = FALSE /\ code' = code /\ frame \in FrameSet /\ scan \in Scans
      /\ runs' = Behind(LastStatement.kind)
  BY DEF EndCompound, TypeOKCheck, FrameSet
<1>2. /\ scan'.escaped = (frame.scan.escaped \/ scan.escaped)
      /\ scan'.st = IF ArmTouches THEN "unknown" ELSE frame.scan.st
  <2> DEFINE y == ScanBranch(frame.scan, scan)
  <2>1. y \in Scans /\ y.st = frame.scan.st /\ y.escaped = (frame.scan.escaped \/ scan.escaped)
    BY <1>1 DEF ScanBranch, FrameSet, Scans
  <2>2. scan' = [y EXCEPT !.st = IF ArmTouches THEN "unknown" ELSE y.st]
    BY DEF EndCompound
  <2> HIDE DEF y
  <2> QED  BY <2>1, <2>2 DEF Scans
<1>3. scan'.escaped <=> scan.escaped
  BY <1>1, <1>2 DEF StateInv, FrameInv
<1>4. Copies' = Copies /\ UntilTested' = UntilTested
  BY <1>1 DEF Copies, Has, UntilTested
<1>5. runs' \subseteq SafeAt(scan', Copies')
  BY <1>1, <1>2, <1>3, <1>4, BehindIsSafe
<1>6. ASSUME NEW w \in alarms'
      PROVE  Excused(w)'
  <2>1. CASE w \in alarms
    BY <1>4, <2>1 DEF StateInv, Excused
  <2>2. CASE w \notin alarms
    <3>1. LastStatement.test /\ LastStatement.kind = "repeat" /\ w \in False(frame.scan, "deref")
      BY <1>6, <2>2 DEF EndCompound
    <3>2. w = "use"
      BY <3>1 DEF False, Warnings
    <3>3. UntilTested
      <4>1. Len(code) \in DOMAIN code
        BY <1>1 DEF TypeOKCheck
      <4> QED  BY <3>1, <4>1 DEF UntilTested, LastStatement
    <3> QED  BY <1>4, <3>2, <3>3 DEF Excused
  <2> QED  BY <2>1, <2>2
<1> QED  BY <1>1, <1>5, <1>6 DEF StateInv

LEMMA CheckOfParts ==
  ASSUME StateInv, \/ BeginExcept
                   \/ BeginFinally
                   \/ \E op \in Simple : AddToPart(op)
  PROVE  StateInv'
<1>1. /\ code' = code /\ open' = open /\ frame' = frame /\ scan' = scan /\ alarms' = alarms
      /\ part' # "body"
  BY DEF BeginExcept, BeginFinally, AddToPart
<1>2. LastStatement' = LastStatement /\ Copies' = Copies /\ UntilTested' = UntilTested
  BY <1>1 DEF LastStatement, Copies, Has, UntilTested
<1>3. Changed' = Changed /\ Turned' = Turned /\ Joined' = Joined /\ AsBefore' = AsBefore
  BY <1>1, <1>2 DEF Changed, Turned, Joined, AsBefore
<1>4. FrameInv => FrameInv'
  BY <1>1, <1>2, <1>3 DEF FrameInv, WayOut
<1> QED  BY <1>1, <1>2, <1>4 DEF StateInv, Excused

\* A call that is given p is one of the reasons from then on.
LEMMA GivenIsGiven ==
  ASSUME TypeOKCheck, NEW op \in Given, AddPlain(op) \/ AddToBody(op)
  PROVE  GivenByVar'
<1>1. code \in Seq(Statement) /\ (open => code # <<>>)
  BY DEF TypeOKCheck
<1>2. CASE AddPlain(op)
  <2> DEFINE s == [kind |-> op, test |-> FALSE, body |-> <<>>]
  <2>1. s \in Statement /\ s.kind = op /\ code' = Append(code, s)
    BY <1>2 DEF AddPlain, Statement, Simple
  <2> HIDE DEF s
  <2> QED  BY <1>1, <2>1, ReasonsStayByAppend DEF GivenByVar
<1>3. CASE AddToBody(op)
  BY <1>1, <1>3, ReasonsStayByExtension DEF AddToBody, GivenByVar, Simple
<1> QED  BY <1>2, <1>3

\* Nothing else makes one.
LEMMA GivenByCalls ==
  ASSUME TypeOKCheck, GivenByVar',
         \/ \E op \in Plain : AddPlain(op)
         \/ \E op \in Plain : AddToBody(op)
         \/ \E kind \in Compound, test \in BOOLEAN : BeginCompound(kind, test)
         \/ AddArm
         \/ AddExit
         \/ code' = code
  PROVE  GivenByVar
<1>1. code \in Seq(Statement) /\ (open => code # <<>>)
  BY DEF TypeOKCheck
<1>2. PICK o \in Given : Has(o)'
  BY DEF GivenByVar
<1>3. ASSUME NEW s \in Statement, code' = Append(code, s), s.kind \notin Given, s.body = <<>>
      PROVE  Has(o)
  <2>1. /\ DOMAIN code' = DOMAIN code \cup {Len(code')} /\ code'[Len(code')] = s
        /\ \A i \in DOMAIN code : code'[i] = code[i]
    BY <1>1, <1>3, CodeAppended DEF LastStatement
  <2> QED  BY <1>2, <1>3, <2>1 DEF Has
<1>4. ASSUME open, NEW op \in Plain \cup {"|", "exit"}, code' = Extended(op)
      PROVE  Has(o)
  <2> DEFINE n == Len(code)
             b == LastStatement.body
  <2>1. /\ DOMAIN code' = DOMAIN code /\ n \in DOMAIN code /\ n = Len(code')
        /\ \A i \in DOMAIN code : code'[i].kind = code[i].kind
        /\ \A i \in DOMAIN code : i # n => code'[i].body = code[i].body
        /\ code'[n].body = Append(b, op) /\ code[n].body = b
        /\ b \in Seq(Simple \cup {"|", "exit"})
    BY <1>1, <1>4, CodeExtended DEF LastStatement, Simple
  <2>2. /\ DOMAIN b = 1..Len(b) /\ Len(b) \in Nat /\ DOMAIN Append(b, op) = 1..(Len(b) + 1)
        /\ Append(b, op)[Len(b) + 1] = op
        /\ \A j \in 1..Len(b) : Append(b, op)[j] = b[j]
    BY <2>1, BodyAppended
  <2>3. op # o
    BY <1>4, <1>2 DEF Given, Plain
  <2> HIDE DEF b, n
  <2>4. PICK i \in DOMAIN code' : code'[i].kind = o \/ \E j \in DOMAIN code'[i].body : code'[i].body[j] = o
    BY <1>2 DEF Has
  <2>5. CASE i = n
    <3>1. code'[n].kind = o => Has(o)
      BY <2>1 DEF Has
    <3>2. ASSUME NEW j \in DOMAIN Append(b, op), Append(b, op)[j] = o
          PROVE  j \in DOMAIN b /\ b[j] = o
      BY <2>2, <2>3, <3>2
    <3>3. (\E j \in DOMAIN b : b[j] = o) => Has(o)
      BY <2>1 DEF Has
    <3> QED  BY <2>1, <2>4, <2>5, <3>1, <3>2, <3>3
  <2>6. CASE i # n
    BY <2>1, <2>4, <2>6 DEF Has
  <2> QED  BY <2>5, <2>6
<1>5. ASSUME NEW op \in Plain, AddPlain(op)
      PROVE  Has(o)
  <2> DEFINE s == [kind |-> op, test |-> FALSE, body |-> <<>>]
  <2>1. s \in Statement /\ s.kind = op /\ s.body = <<>> /\ code' = Append(code, s)
    BY <1>5 DEF AddPlain, Statement, Simple
  <2>2. op \notin Given
    BY DEF Plain, Given
  <2> HIDE DEF s
  <2> QED  BY <1>3, <2>1, <2>2
<1>6. ASSUME NEW kind \in Compound, NEW test \in BOOLEAN, BeginCompound(kind, test)
      PROVE  Has(o)
  <2> DEFINE s == [kind |-> kind, test |-> test, body |-> <<>>]
  <2>1. s \in Statement /\ s.kind = kind /\ s.body = <<>> /\ code' = Append(code, s)
    BY <1>6 DEF BeginCompound, Statement
  <2>2. kind \notin Given
    BY DEF Compound, Given
  <2> HIDE DEF s
  <2> QED  BY <1>3, <2>1, <2>2
<1>7. CASE code' = code
  BY <1>2, <1>7 DEF Has, GivenByVar
<1>8. AddArm \/ AddExit \/ (\E op \in Plain : AddToBody(op)) => Has(o)
  BY <1>4 DEF AddArm, AddExit, AddToBody
<1> QED  BY <1>5, <1>6, <1>7, <1>8 DEF GivenByVar

\* What the calls are given has escaped, and what has escaped stays so.
LEMMA GivenStaysEscaped ==
  ASSUME TypeOKCheck, GivenEscapes, CheckNext
  PROVE  GivenEscapes'
<1>1. scan \in Scans /\ frame \in FrameSet
  BY DEF TypeOKCheck, FrameSet
<1>2. scan.escaped => scan'.escaped
  <2>1. \A op : CheckPlain(op) => scan'.escaped = (scan.escaped \/ op \in {"copy", "set"} \cup Given)
    BY DEF CheckPlain, ScanPlain
  <2>2. AddArm => scan'.escaped = (frame.scan.escaped \/ scan.escaped)
    BY <1>1 DEF AddArm, ScanBranch, FrameSet, Scans
  <2>3. EndCompound => scan'.escaped = (frame.scan.escaped \/ scan.escaped)
    <3> DEFINE y == ScanBranch(frame.scan, scan)
    <3>1. y \in Scans /\ y.escaped = (frame.scan.escaped \/ scan.escaped)
      BY <1>1 DEF ScanBranch, FrameSet, Scans
    <3>2. EndCompound => scan' = [y EXCEPT !.st = IF ArmTouches THEN "unknown" ELSE y.st]
      BY DEF EndCompound
    <3> HIDE DEF y
    <3> QED  BY <3>1, <3>2 DEF Scans
  <2>4. ASSUME NEW kind, NEW test, BeginCompound(kind, test) PROVE scan' = scan
    BY <2>4 DEF BeginCompound
  <2>5. AddExit \/ BeginExcept \/ BeginFinally => scan' = scan
    BY DEF AddExit, BeginExcept, BeginFinally
  <2>6. ASSUME NEW op, AddToPart(op) PROVE scan' = scan
    BY <2>6 DEF AddToPart
  <2>7. ASSUME NEW op, AddPlain(op) \/ AddToBody(op) PROVE CheckPlain(op)
    BY <2>7 DEF AddPlain, AddToBody
  <2> QED  BY <2>1, <2>2, <2>3, <2>4, <2>5, <2>6, <2>7 DEF CheckNext
<1>3. ASSUME NEW op \in Given, AddPlain(op) \/ AddToBody(op)
      PROVE  scan'.escaped
  <2>1. scan' = ScanPlain(scan, op)
    BY <1>3 DEF AddPlain, AddToBody, CheckPlain
  <2> QED  BY <2>1 DEF ScanPlain
<1>4. EndCompound \/ BeginExcept \/ BeginFinally \/ (\E op : AddToPart(op)) => code' = code
  BY DEF EndCompound, BeginExcept, BeginFinally, AddToPart
<1>5. \/ GivenByVar' => GivenByVar
      \/ \E op \in Given : AddPlain(op) \/ AddToBody(op)
  BY <1>4, GivenByCalls DEF CheckNext, Simple
<1> QED  BY <1>2, <1>3, <1>5 DEF GivenEscapes

LEMMA CheckStep ==
  ASSUME CheckInv, CheckNext
  PROVE  CheckInv'
<1>1. TypeOKCheck /\ TypeOKCheck'
  BY TypeCheckStep DEF CheckInv
<1>2. ReasonsStay
  <2>1. code \in Seq(Statement) /\ (open => code # <<>>)
    BY <1>1 DEF TypeOKCheck
  <2>2. \/ \E s \in Statement : code' = Append(code, s)
        \/ open /\ \E op \in Simple \cup {"|", "exit"} : code' = Extended(op)
        \/ code' = code
    <3>1. ASSUME NEW op \in Simple, AddPlain(op) PROVE <2>2!1
      <4> DEFINE s == [kind |-> op, test |-> FALSE, body |-> <<>>]
      <4>1. s \in Statement /\ code' = Append(code, s)
        BY <3>1 DEF AddPlain, Statement
      <4> HIDE DEF s
      <4> QED  BY <4>1
    <3>2. ASSUME NEW kind \in Compound, NEW test \in BOOLEAN, BeginCompound(kind, test) PROVE <2>2!1
      <4> DEFINE s == [kind |-> kind, test |-> test, body |-> <<>>]
      <4>1. s \in Statement /\ code' = Append(code, s)
        BY <3>2 DEF BeginCompound, Statement
      <4> HIDE DEF s
      <4> QED  BY <4>1
    <3>3. ASSUME NEW op \in Simple, AddToBody(op) PROVE <2>2!2
      BY <3>3 DEF AddToBody
    <3>4. AddArm => <2>2!2
      BY DEF AddArm
    <3>5. AddExit => <2>2!2
      BY DEF AddExit
    <3>6. EndCompound \/ BeginExcept \/ BeginFinally => code' = code
      BY DEF EndCompound, BeginExcept, BeginFinally
    <3>7. ASSUME NEW op \in Simple, AddToPart(op) PROVE code' = code
      BY <3>7 DEF AddToPart
    <3> QED  BY <3>1, <3>2, <3>3, <3>4, <3>5, <3>6, <3>7 DEF CheckNext
  <2>3. CASE code' = code
    BY <2>3 DEF ReasonsStay, Has, LeftInBetween
  <2>4. CASE code' # code
    BY <2>1, <2>2, <2>4, ReasonsStayByAppend, ReasonsStayByExtension
  <2> QED  BY <2>3, <2>4
<1>3. (LeftInBetween => LeftInBetween') /\ (GivenByVar => GivenByVar')
  BY <1>2 DEF ReasonsStay, GivenByVar, Simple
<1>4. ASSUME ~LeftInBetween', ~GivenByVar'
      PROVE  StateInv'
  <2>1. StateInv
    BY <1>3, <1>4 DEF CheckInv
  <2>2. ASSUME NEW op \in Simple, AddPlain(op) \/ AddToBody(op)
        PROVE  op \in Plain
    BY <1>1, <1>4, <2>2, GivenIsGiven DEF Simple
  <2> QED  BY <1>1, <1>4, <2>1, <2>2, CheckOfAddPlain, CheckOfBegin, CheckOfAddToBody, CheckOfAddArm,
              CheckOfAddExit, CheckOfEnd, CheckOfParts DEF CheckNext
<1>5. GivenEscapes'
  BY GivenStaysEscaped DEF CheckInv
<1> QED  BY <1>1, <1>4, <1>5 DEF CheckInv

LEMMA CheckIdle ==
  ASSUME CheckInv, UNCHANGED checkVars
  PROVE  CheckInv'
<1>1. /\ code' = code /\ open' = open /\ scan' = scan /\ runs' = runs /\ alarms' = alarms
      /\ frame' = frame /\ part' = part /\ been' = been /\ handled' = handled
  BY DEF checkVars
<1>2. LastStatement' = LastStatement
  BY <1>1 DEF LastStatement
<1>3. TypeOKCheck' /\ (LeftInBetween => LeftInBetween')
  BY <1>1, <1>2 DEF CheckInv, TypeOKCheck, LeftInBetween
<1>8. GivenByVar' = GivenByVar /\ GivenEscapes'
  BY <1>1 DEF GivenByVar, Has, CheckInv, GivenEscapes
<1>4. Copies' = Copies /\ UntilTested' = UntilTested
  BY <1>1 DEF Copies, Has, UntilTested
<1>5. Changed' = Changed /\ Turned' = Turned /\ Joined' = Joined /\ AsBefore' = AsBefore
  BY <1>1, <1>2 DEF Changed, Turned, Joined, AsBefore
<1>6. FrameInv => FrameInv'
  BY <1>1, <1>2, <1>4, <1>5 DEF FrameInv, WayOut
<1>7. StateInv => StateInv'
  BY <1>1, <1>4, <1>6 DEF StateInv, Excused
<1> QED  BY <1>3, <1>7, <1>8 DEF CheckInv

LEMMA WarningsAreExcused ==
  ASSUME CheckInv
  PROVE  WarningsReal
<1> SUFFICES ASSUME ~LeftInBetween, NEW w \in FalseAlarms
             PROVE  Excused(w) \/ (w # "leak" /\ GivenByVar) \/ (w = "leak" /\ part # "body")
  BY DEF WarningsReal, Excused, UntilTested, Copies
<1>1. GivenEscapes /\ (GivenByVar \/ StateInv)
  BY DEF CheckInv
<1>2. CASE w \in alarms
  <2>1. w # "leak"
    BY <1>2 DEF CheckInv, TypeOKCheck
  <2> QED  BY <1>1, <1>2, <2>1 DEF StateInv
<1>3. CASE w \notin alarms
  <2>1. w = "leak" /\ LeakReported /\ \E c \in runs \cup handled : c # "own"
    BY <1>3 DEF FalseAlarms
  <2>2. scan.st = "alloc" /\ ~scan.escaped
    BY <2>1 DEF LeakReported
  <2>3. CASE part = "body"
    <3>1. StateInv /\ handled = {}
      BY <1>1, <2>2, <2>3 DEF GivenEscapes, CheckInv, TypeOKCheck
    <3>2. \A c \in runs : c = "own"
      BY <2>2, <2>3, <3>1 DEF StateInv, SafeAt, May
    <3> QED  BY <2>1, <3>1, <3>2
  <2> QED  BY <2>1, <2>3
<1> QED  BY <1>2, <1>3

(* Whatever the procedure, however many statements and arms it has, a warning *)
(* of the pass is one for every execution that comes to its place, but for    *)
(* the six exceptions (heapcheck.rs, scan_stmt, scan_branch, report_leaks).  *)
THEOREM WarningsAreReal == CheckSpec => []WarningsReal
<1>1. CheckInit => CheckInv
  <2> SUFFICES ASSUME CheckInit PROVE CheckInv
    OBVIOUS
  <2>1. TypeOKCheck
    BY TypeCheckStart
  <2>2. open = FALSE /\ scan.st = "none" /\ runs = {"none"} /\ alarms = {}
    BY DEF CheckInit, Start
  <2>3. runs \subseteq SafeAt(scan, Copies)
    BY <2>2 DEF SafeAt, May, Concrete
  <2>4. GivenEscapes
    BY DEF CheckInit, GivenEscapes, GivenByVar, Has
  <2> QED  BY <2>1, <2>2, <2>3, <2>4 DEF CheckInv, StateInv
<1>2. CheckInv /\ [CheckNext]_checkVars => CheckInv'
  <2>1. CheckInv /\ UNCHANGED checkVars => CheckInv'
    BY CheckIdle
  <2> QED  BY <2>1, CheckStep
<1>3. CheckInv => WarningsReal
  BY WarningsAreExcused
<1> QED  BY <1>1, <1>2, <1>3, PTL DEF CheckSpec
=============================================================================
