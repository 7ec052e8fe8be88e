------------------------------- MODULE Words -------------------------------
(***************************************************************************)
(* Numbers as the compiler and the machine compute with them: a literal of *)
(* the compiler has LiteralBits (INT_VALUE, src/shared/sys.h), a slot of   *)
(* the machine WordBits (long), both two's complement.  A Float is counted *)
(* in quarters, rounded toward zero where a double would keep more digits. *)
(***************************************************************************)
EXTENDS Integers, Bitwise

CONSTANTS LiteralBits, WordBits

ASSUME WidthsAssumption == LiteralBits \in Nat \ {0} /\ WordBits \in Nat /\ LiteralBits < WordBits

Wrap(n, bits) ==
  LET m == n % 2^bits IN IF m >= 2^(bits - 1) THEN m - 2^bits ELSE m

Abs(n) == IF n < 0 THEN -n ELSE n
Sign(n) == IF n < 0 THEN -1 ELSE 1

(* Division of C: toward zero, the remainder with the sign of the dividend. *)
Quot(a, b) == Sign(a) * Sign(b) * (Abs(a) \div Abs(b))
Rem(a, b) == a - b * Quot(a, b)

(* Shift counts are taken as they are below the width; a right shift of a   *)
(* signed number keeps its sign.                                            *)
ShiftLeft(a, n, bits) == Wrap(a * 2^(n % bits), bits)
ShiftRight(a, n, bits) == a \div 2^(n % bits)

Boolean(b) == IF b THEN 1 ELSE 0

IntCalc(op, a, b, bits) ==
  LET u(n) == n % 2^bits
  IN  CASE op = "ADD" -> Wrap(a + b, bits)
        [] op = "SUB" -> Wrap(a - b, bits)
        [] op = "MUL" -> Wrap(a * b, bits)
        [] op = "DIV" -> Wrap(Quot(a, b), bits)
        [] op = "MOD" -> Rem(a, b)
        [] op = "SHL" -> ShiftLeft(a, b, bits)
        [] op = "SHR" -> ShiftRight(a, b, bits)
        [] op = "BIT_AND" -> Wrap(u(a) & u(b), bits)
        [] op = "BIT_OR" -> Wrap(u(a) | u(b), bits)
        [] op = "BIT_XOR" -> Wrap(u(a) ^^ u(b), bits)

Compare(op, a, b) ==
  Boolean(CASE op = "EQL" -> a = b
            [] op = "NEQL" -> a # b
            [] op = "LES" -> a < b
            [] op = "GTR" -> a > b
            [] op = "LES_EQL" -> a <= b
            [] op = "GTR_EQL" -> a >= b)

One == 4   \* the quarters of 1.0

FloatCalc(op, a, b) ==
  CASE op = "ADD" -> a + b
    [] op = "SUB" -> a - b
    [] op = "MUL" -> Quot(a * b, One)
    [] op = "DIV" -> Quot(a * One, b)

IntToFloat(n) == n * One
FloatToInt(f) == Quot(f, One)
====
