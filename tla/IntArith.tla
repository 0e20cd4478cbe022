------------------------------ MODULE IntArith ------------------------------
(***************************************************************************)
(* The C int of W bits and the functions jvm_utils.c applies to it.  The   *)
(* program is built without -ftrapv: a result that does not fit wraps      *)
(* around, as it does in the build's machine code.  A division that the    *)
(* processor traps has no result.                                          *)
(***************************************************************************)
EXTENDS Integers

CONSTANT W  (* bits of an int: 32 in the program *)

ASSUME WidthAssumption == W \in Nat /\ W >= 8

INT_MAX == 2^(W - 1) - 1
INT_MIN == -(2^(W - 1))
Int_t == INT_MIN .. INT_MAX

Unsigned(x) == x % 2^W

(* The int with the low W bits of x. *)
Wrap(x) == IF Unsigned(x) > INT_MAX THEN Unsigned(x) - 2^W ELSE Unsigned(x)

Magnitude(x) == IF x < 0 THEN -x ELSE x

(* C divides towards zero. *)
Quotient(a, b) ==
  IF (a < 0) = (b < 0) THEN Magnitude(a) \div Magnitude(b)
                       ELSE -(Magnitude(a) \div Magnitude(b))

Bit(x, k) == (Unsigned(x) \div 2^k) % 2

(* The int whose bit k is f applied to bits k of a and b. *)
OnBits(f(_, _), a, b) ==
  LET low[k \in 0 .. W] ==
        IF k = 0 THEN 0 ELSE low[k - 1] + f(Bit(a, k - 1), Bit(b, k - 1)) * 2^(k - 1)
  IN  Wrap(low[W])

-----------------------------------------------------------------------------
(* Mutant: the remainder takes the sign of the divisor. *)
_integer_rem_floored(a, b) == IF b < 0 THEN -((-a) % (-b)) ELSE a % b

_integer_sum(a, b) == Wrap(a + b)
_integer_sub(a, b) == Wrap(a - b)
_integer_mul(a, b) == Wrap(a * b)
_integer_div(a, b) == Quotient(a, b)
_integer_rem(a, b) == a - b * Quotient(a, b)

_logical_and(a, b) == OnBits(LAMBDA x, y : x * y, a, b)
_logical_or(a, b)  == OnBits(LAMBDA x, y : IF x + y > 0 THEN 1 ELSE 0, a, b)
_logical_xor(a, b) == OnBits(LAMBDA x, y : (x + y) % 2, a, b)

(* ~a: every bit of a turned over. *)
Complement(a) == OnBits(LAMBDA x, y : 1 - x, a, 0)

(* Mutant: the complement without the 1. *)
_logical_neg_of_bits(a) == Complement(a)

_logical_neg(a) == Wrap(Complement(a) + 1)

(* The processor stops the process: no divisor, or no room for the quotient. *)
Traps(a, b) == b = 0 \/ (a = INT_MIN /\ b = -1)
=============================================================================
