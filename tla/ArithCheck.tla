----------------------------- MODULE ArithCheck -----------------------------
(***************************************************************************)
(* The arithmetic of the instructions against what mathematics says of it, *)
(* for every pair of operands of a small int.  Nothing moves: the pairs    *)
(* are the initial states.                                                 *)
(***************************************************************************)
EXTENDS Instructions

VARIABLES left, right

vars == <<left, right>>

Init == left \in Int_t /\ right \in Int_t
Spec == Init /\ [][UNCHANGED vars]_vars

(* idiv and irem: unless the processor traps, quotient and remainder are ints, *)
(* they give the dividend back, and the remainder is smaller than the divisor  *)
(* and has the sign of the dividend.                                           *)
DivisionIsTruncated ==
  ~Traps(left, right) =>
    LET q == _integer_div(left, right)
        r == _integer_rem(left, right)
    IN  /\ q \in Int_t /\ r \in Int_t
        /\ left = right * q + r
        /\ Magnitude(r) < Magnitude(right)
        /\ r = 0 \/ (r < 0) = (left < 0)

(* iadd, isub, imul and ineg give the int congruent to the true result, ineg  *)
(* although it is computed from the bits; iand, ior and ixor are what binary   *)
(* addition says of them: what two ints share counts twice in their sum.       *)
ArithmeticWraps ==
  LET Represents(r, x) == r \in Int_t /\ (r - x) % 2^W = 0
      both == _logical_and(left, right)
      either == _logical_or(left, right)
  IN  /\ Represents(_integer_sum(left, right), left + right)
      /\ Represents(_integer_sub(left, right), left - right)
      /\ Represents(_integer_mul(left, right), left * right)
      /\ Represents(_logical_neg(left), -left)
      /\ both \in Int_t /\ either \in Int_t
      /\ both + either = left + right
      /\ _logical_xor(left, right) = either - both

(* "The top is the last": what was pushed last is the right operand, and what *)
(* lies under the two operands is not touched.                                *)
TopIsTheLast ==
  LET v == [size |-> 0, data |-> << >>]
      After(n) == Outcomes(n, 0, <<5, left, right>>, v)
  IN  /\ \A o \in After("isub") : o.stack \in Pushed(<<5>>, _integer_sub(left, right))
      /\ \A o \in After("idiv") :
           IF Traps(left, right) THEN o.killed
           ELSE o.stack \in Pushed(<<5>>, _integer_div(left, right))
=============================================================================
