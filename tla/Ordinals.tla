------------------------------ MODULE Ordinals ------------------------------
(***************************************************************************)
(* Whole numbers as compiled code handles them: what lower.rs makes of an  *)
(* expression, and what codegen.rs makes of that.  A register has a size,  *)
(* the number of its values: Wide for a 64-bit one, Narrow for one of 8,   *)
(* 16 or 32 bits.  INTEGER8 stands for the narrow signed types, CARDINAL8  *)
(* for the narrow unsigned ones, CHAR among them.                          *)
(***************************************************************************)
EXTENDS Integers

CONSTANTS Wide, Narrow

ASSUME SizesAssumption ==
    /\ Narrow \in Nat /\ Narrow > 0 /\ Narrow % 2 = 0
    /\ Wide \in Nat /\ Wide >= 2 * Narrow /\ Wide % 2 = 0 /\ Wide % Narrow = 0

Types == {"INTEGER", "CARDINAL", "INTEGER8", "CARDINAL8"}

IsWide(ty) == ty \in {"INTEGER", "CARDINAL"}

IsSigned(ty) == ty \in {"INTEGER", "INTEGER8"}

Size(ty) == IF IsWide(ty) THEN Wide ELSE Narrow

Lowest(ty) == IF IsSigned(ty) THEN -(Size(ty) \div 2) ELSE 0

Values(ty) == Lowest(ty) .. (Lowest(ty) + Size(ty) - 1)

Register(n, size) == [bits |-> n % size, size |-> size]

Signed(r) == IF 2 * r.bits >= r.size THEN r.bits - r.size ELSE r.bits

\* The number a register holds for a variable of type ty.
Number(r, ty) == IF IsSigned(ty) THEN Signed(r) ELSE r.bits

-----------------------------------------------------------------------------

\* Zero extension, or truncation: what a store, an argument and a RETURN do.
Coerced(r, size) == Register(r.bits, size)

SignExtended(r, size) == Register(Signed(r), size)

Larger(l, r) == IF l.size < r.size THEN r.size ELSE l.size

Plus(l, r) == Register(l.bits + r.bits, Larger(l, r))

Minus(l, r) == Register(l.bits - r.bits, Larger(l, r))

Times(l, r) == Register(l.bits * r.bits, Larger(l, r))

AtMost(l, r) == Signed(Coerced(l, Larger(l, r))) <= Signed(Coerced(r, Larger(l, r)))

Equal(l, r) == l.bits = r.bits

\* The machine's signed division rounds towards zero.
Magnitude(n) == IF n < 0 THEN -n ELSE n

Truncated(a, b) ==
    LET q == Magnitude(a) \div Magnitude(b) IN IF (a < 0) = (b < 0) THEN q ELSE -q

FlooredQuotient(l, r) ==
    LET size == Larger(l, r)
        a == Signed(Coerced(l, size))
        b == Signed(Coerced(r, size))
        q == Truncated(a, b)
        adjust == a - q * b # 0 /\ (a < 0) # (b < 0)
    IN  Register(IF adjust THEN q - 1 ELSE q, size)

SignedRemainder(l, r) ==
    LET size == Larger(l, r)
        a == Signed(Coerced(l, size))
        b == Signed(Coerced(r, size))
    IN  Register(a - Truncated(a, b) * b, size)

-----------------------------------------------------------------------------
(* FOR: the tests on the control variable.  A loop has the type of the     *)
(* variable, the bounds and the step, and says whether its end is of the   *)
(* variable's type (typed) or a constant, which has a wide register.       *)

EndRegister(f) == Register(f.end, IF f.typed THEN Size(f.ty) ELSE Wide)

StepRegister(f) == Register(f.step, Wide)

StartRegister(f) == Coerced(Register(f.start, Wide), Size(f.ty))

Zero == Register(0, Wide)

Ascending(f) == AtMost(Zero, StepRegister(f))

\* The header: is the variable within the bounds?
Enters(f, cur) ==
    IF Ascending(f) THEN AtMost(cur, EndRegister(f)) ELSE AtMost(EndRegister(f), cur)

\* Mutant: the test is on the next value.
FitsByNext(f, cur) ==
    LET next == Plus(cur, StepRegister(f))
    IN  IF Ascending(f) THEN AtMost(next, EndRegister(f)) ELSE AtMost(EndRegister(f), next)

\* Is there room for another whole step?
Fits(f, cur) ==
    IF Ascending(f)
    THEN AtMost(StepRegister(f), Minus(EndRegister(f), cur))
    ELSE AtMost(Minus(Zero, StepRegister(f)), Minus(cur, EndRegister(f)))

\* Mutant: the variable takes over the size of the sum.
AdvancedWide(f, cur) == Plus(cur, StepRegister(f))

Advanced(f, cur) == Coerced(Plus(cur, StepRegister(f)), cur.size)

\* What the source says: v is a value the variable takes.
Within(f, v) == IF f.step > 0 THEN v <= f.end ELSE v >= f.end
=============================================================================
