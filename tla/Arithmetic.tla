----------------------------- MODULE Arithmetic -----------------------------
(***************************************************************************)
(* Operators on whole numbers: what an expression of constants is folded   *)
(* to (constant.rs), with numbers of any size, and what the same expres-   *)
(* sion with variables computes in registers (lower.rs and codegen.rs).    *)
(* An operand is a variable of a type or a constant, with its value.       *)
(***************************************************************************)
EXTENDS Ordinals

CONSTANT Operands

\* A constant is one that a register can be loaded with.
ASSUME OperandsAssumption ==
    \A x \in Operands :
        /\ x.const \in BOOLEAN /\ x.ty \in Types
        /\ IF x.const THEN x.ty = "INTEGER" /\ x.value \in Lowest("INTEGER") .. Wide - 1
                      ELSE x.value \in Values(x.ty)

VARIABLE expr

Whole == {"+", "-", "*", "/", "DIV", "MOD", "REM"}
Relations == {"=", "#", "<", "<=", ">", ">="}
Division == {"/", "DIV", "MOD", "REM"}

\* Each expression by itself; a divisor of 0 is an error in either case.
ExprInit ==
    /\ expr \in [op : Whole \cup Relations, l : Operands, r : Operands]
    /\ expr.op \in Division => expr.r.value # 0

-----------------------------------------------------------------------------
(* Folding. *)

Quotient(a, b) ==
    LET q == Truncated(a, b)
        r == a - q * b
    IN  IF r # 0 /\ (r < 0) # (b < 0) THEN q - 1 ELSE q

Remainder(a, b) == a - Truncated(a, b) * b

Modulus(a, b) ==
    LET r == Remainder(a, b) IN IF r # 0 /\ (r < 0) # (b < 0) THEN r + b ELSE r

Folded(op, a, b) ==
    CASE op = "+" -> a + b
      [] op = "-" -> a - b
      [] op = "*" -> a * b
      [] op = "/" -> Truncated(a, b)
      [] op = "DIV" -> Quotient(a, b)
      [] op = "MOD" -> Modulus(a, b)
      [] op = "REM" -> Remainder(a, b)

Related(op, a, b) ==
    CASE op = "=" -> a = b
      [] op = "#" -> a # b
      [] op = "<" -> a < b
      [] op = "<=" -> a <= b
      [] op = ">" -> a > b
      [] op = ">=" -> a >= b

-----------------------------------------------------------------------------
(* Computing. *)

Fetched(x) == Register(x.value, IF x.const THEN Wide ELSE Size(x.ty))

\* widen_if_signed_narrow.
Widened(x) ==
    IF ~x.const /\ x.ty = "INTEGER8" THEN SignExtended(Fetched(x), Wide) ELSE Fetched(x)

\* expr_is_unsigned: a constant has the type INTEGER.
IsUnsigned(x) == ~x.const /\ ~IsSigned(x.ty)

\* Mutant: a constant makes the operation a signed one.
OnlyUnsigned(x) == IsUnsigned(x)

\* unsigned_compatible: a constant goes with an unsigned operand.
UnsignedCompatible(x) == IsUnsigned(x) \/ (x.const /\ x.value >= 0)

UnsignedOperation(l, r) ==
    /\ IsUnsigned(l) \/ IsUnsigned(r)
    /\ UnsignedCompatible(l) /\ UnsignedCompatible(r)

\* The operands at the size of the larger one, as numbers.
Aligned(x, other, unsigned) ==
    LET reg == Coerced(Widened(x), Larger(Widened(x), Widened(other)))
    IN  IF unsigned THEN reg.bits ELSE Signed(reg)

UnsignedQuotient(l, r) ==
    LET size == Larger(l, r) IN Register(l.bits \div r.bits, size)

UnsignedRemainder(l, r) ==
    LET size == Larger(l, r) IN Register(l.bits % r.bits, size)

FlooredModulus(l, r) ==
    LET size == Larger(l, r)
    IN  Minus(Coerced(l, size), Times(FlooredQuotient(l, r), Coerced(r, size)))

\* `/` is the unsigned quotient, whatever the operands.
Computed(op, x, y) ==
    LET l == Widened(x)
        r == Widened(y)
        unsigned == UnsignedOperation(x, y)
    IN  CASE op = "+" -> Plus(l, r)
          [] op = "-" -> Minus(l, r)
          [] op = "*" -> Times(l, r)
          [] op = "/" -> UnsignedQuotient(l, r)
          [] op = "DIV" -> IF unsigned THEN UnsignedQuotient(l, r) ELSE FlooredQuotient(l, r)
          [] op = "MOD" -> IF unsigned THEN UnsignedRemainder(l, r) ELSE FlooredModulus(l, r)
          [] op = "REM" -> IF unsigned THEN UnsignedRemainder(l, r) ELSE SignedRemainder(l, r)

Compared(op, x, y) ==
    LET unsigned == UnsignedOperation(x, y)
    IN  Related(op, Aligned(x, y, unsigned), Aligned(y, x, unsigned))

-----------------------------------------------------------------------------

\* An operand of an unsigned type, or a constant that may go with one.
Natural(x) == IF x.const THEN x.value >= 0 ELSE ~IsSigned(x.ty)

\* Both operands are of a kind: unsigned ones, or numbers of the signed half.
SameKind(x, y) ==
    \/ Natural(x) /\ Natural(y) /\ ~(x.const /\ y.const)
    \/ x.value < Wide \div 2 /\ y.value < Wide \div 2

\* What the machine's division cannot do: the lowest number by -1.
Divides(x, y) == ~(x.value = Lowest("INTEGER") /\ y.value = -1)

(* An expression has the value its constants would fold to, when a type of    *)
(* its operands has that value: for operands of every size and sign, unless   *)
(* a number of half the range or more meets a signed one, or `/` a negative   *)
(* one.                                                                       *)
ArithmeticFolds ==
    LET x == expr.l
        y == expr.r
    IN  SameKind(x, y) =>
        /\ expr.op \in Relations => Compared(expr.op, x, y) = Related(expr.op, x.value, y.value)
        /\ \/ expr.op \notin Whole
           \/ expr.op \in Division /\ ~Divides(x, y)
           \/ expr.op = "/" /\ (x.value < 0 \/ y.value < 0)
           \/ LET n == Folded(expr.op, x.value, y.value)
              IN  \A ty \in {x.ty, y.ty} :
                     n \in Values(ty) => Number(Computed(expr.op, x, y), ty) = n
=============================================================================
