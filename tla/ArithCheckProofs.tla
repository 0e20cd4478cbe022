--------------------------- MODULE ArithCheckProofs ---------------------------
(***************************************************************************)
(* The arithmetic of the instructions is right for every width of the int: *)
(* the invariants of ArithCheck, that TLC checks for every pair of         *)
(* operands of a small int, hold for every pair of operands of any int.    *)
(***************************************************************************)
EXTENDS ArithCheck, SharedLemmas, SequenceTheorems

Operands == left \in Int_t /\ right \in Int_t

(* The operands stay the two ints they were. *)
LEMMA AlwaysOperands == Spec => []Operands
  <1>1. Init => Operands
    BY DEF Init, Operands
  <1>2. Operands /\ [UNCHANGED vars]_vars => Operands'
    BY DEF Operands, vars
  <1>. QED
    BY <1>1, <1>2, PTL DEF Spec

(* idiv and irem divide towards zero. *)
THEOREM DivisionIsC == Spec => []DivisionIsTruncated
  <1>1. Operands => DivisionIsTruncated
    <2>. SUFFICES ASSUME Operands, ~Traps(left, right)
                  PROVE  LET q == _integer_div(left, right)
                             r == _integer_rem(left, right)
                         IN  /\ q \in Int_t /\ r \in Int_t
                             /\ left = right * q + r
                             /\ Magnitude(r) < Magnitude(right)
                             /\ r = 0 \/ (r < 0) = (left < 0)
      BY DEF DivisionIsTruncated
    <2>1. left \in Int /\ right \in Int /\ right # 0
      BY WidthProperties DEF Operands, Int_t, Traps
    <2>2. PICK q, r \in Int :
            /\ q = Quotient(left, right) /\ r = _integer_rem(left, right)
            /\ left = right * q + r
            /\ Magnitude(r) < Magnitude(right) /\ (r = 0 \/ (r < 0) = (left < 0))
      <3>1. PICK q, r \in Int :
              /\ q = Quotient(left, right) /\ r = _integer_rem(left, right)
              /\ left = right * q + r
              /\ Magnitude(r) < Magnitude(right) /\ (r = 0 \/ (r < 0) = (left < 0))
              /\ Magnitude(q) \in 0 .. Magnitude(left)
              /\ Magnitude(right) > 1 /\ left # 0 => Magnitude(q) < Magnitude(left)
              /\ right = 1 => q = left
              /\ right = -1 => q = -left
        BY <2>1, QuotientProperties
      <3>. QED
        BY <3>1, Zenon
    <2>3. _integer_div(left, right) \in Int_t /\ _integer_rem(left, right) \in Int_t
      BY DivisionOfInts DEF Operands
    <2>4. q = _integer_div(left, right)
      BY <2>2 DEF _integer_div
    <2>. QED
      BY <2>2, <2>3, <2>4, Zenon
  <1>. QED
    BY <1>1, AlwaysOperands, PTL

(* A result that does not fit is wrapped, whatever way it is computed. *)
THEOREM ResultsWrap == Spec => []ArithmeticWraps
  <1>1. Operands => ArithmeticWraps
    <2>. SUFFICES ASSUME Operands PROVE ArithmeticWraps
      OBVIOUS
    <2>. DEFINE Represents(r, x) == r \in Int_t /\ (r - x) % 2^W = 0
    <2>1. left \in Int /\ right \in Int
      BY WidthProperties DEF Operands, Int_t
    <2>2. ASSUME NEW x \in Int PROVE Represents(Wrap(x), x)
      <3>1. Wrap(x) \in Int_t
        BY WrapProperties
      <3>2. PICK k \in Int : Wrap(x) = x + 2^W * k
        BY WrapProperties
      <3>3. 2^W \in Nat \ {0} /\ 0 \in 0 .. 2^W - 1
        BY WidthProperties
      <3>4. (2^W * k + 0) % 2^W = 0
        BY <3>3, DivisionIsUnique
      <3>5. Wrap(x) - x = 2^W * k + 0
        BY <3>2, <3>3
      <3>. QED
        BY <3>1, <3>4, <3>5
    <2>3. left + right \in Int /\ left - right \in Int /\ left * right \in Int /\ -left \in Int
      BY <2>1
    <2>4. /\ Represents(_integer_sum(left, right), left + right)
          /\ Represents(_integer_sub(left, right), left - right)
          /\ Represents(_integer_mul(left, right), left * right)
          /\ Represents(_logical_neg(left), -left)
      <3>. HIDE DEF Represents
      <3>. QED
        BY <2>2, <2>3, NegationProperties
          DEF Operands, _integer_sum, _integer_sub, _integer_mul
    <2>5. /\ _logical_and(left, right) \in Int_t /\ _logical_or(left, right) \in Int_t
          /\ _logical_and(left, right) + _logical_or(left, right) = left + right
          /\ _logical_xor(left, right) = _logical_or(left, right) - _logical_and(left, right)
      BY ResultsAreInts, SharedBits DEF Operands
    <2>. QED
      BY <2>4, <2>5, Zenon DEF ArithmeticWraps
  <1>. QED
    BY <1>1, AlwaysOperands, PTL

(* The operand pushed last is the right one. *)
THEOREM TheTopIsTheRightOperand == Spec => []TopIsTheLast
  <1>1. ASSUME Operands PROVE TopIsTheLast
    <2>. DEFINE s == <<5, left, right>>
                v == [size |-> 0, data |-> << >>]
    <2>1. /\ Top(s) = right /\ Popped(s) = <<5, left>>
          /\ Top(<<5, left>>) = left /\ Popped(<<5, left>>) = <<5>>
      <3>1. s \in Seq(Int) /\ Len(s) = 3 /\ s[1] = 5 /\ s[2] = left /\ s[3] = right /\ s # << >>
        BY <1>1, WidthProperties DEF Operands, Int_t
      <3>2. <<5, left>> \in Seq(Int) /\ <<5>> \in Seq(Int)
        BY <3>1
      <3>. HIDE DEF s
      <3>3. /\ SubSeq(s, 1, 2) \in Seq(Int) /\ Len(SubSeq(s, 1, 2)) = 2
            /\ SubSeq(s, 1, 2)[1] = 5 /\ SubSeq(s, 1, 2)[2] = left
        BY <3>1, SubSeqProperties
      <3>4. SubSeq(s, 1, 2) = <<5, left>>
        <4>. DEFINE p == SubSeq(s, 1, 2)
                    t == <<5, left>>
        <4>1. t \in Seq(Int) /\ Len(t) = 2 /\ t[1] = 5 /\ t[2] = left
          BY <3>2
        <4>2. p \in Seq(Int) /\ Len(p) = 2 /\ p[1] = 5 /\ p[2] = left
          BY <3>3
        <4>. HIDE DEF p, t
        <4>3. \A k \in 1 .. 2 : p[k] = t[k]
          BY <4>1, <4>2
        <4>4. p = t
          BY <4>1, <4>2, <4>3, SeqEqual
        <4>. QED
          BY <4>4 DEF p, t
      <3>5. /\ SubSeq(<<5, left>>, 1, 1) \in Seq(Int) /\ Len(SubSeq(<<5, left>>, 1, 1)) = 1
            /\ SubSeq(<<5, left>>, 1, 1)[1] = 5
        BY <3>2, SubSeqProperties
      <3>6. SubSeq(<<5, left>>, 1, 1) = <<5>>
        <4>. DEFINE p == SubSeq(<<5, left>>, 1, 1)
                    t == <<5>>
        <4>1. t \in Seq(Int) /\ Len(t) = 1 /\ t[1] = 5
          BY <3>2
        <4>2. p \in Seq(Int) /\ Len(p) = 1 /\ p[1] = 5
          BY <3>5
        <4>. HIDE DEF p, t
        <4>3. p = t
          BY <4>1, <4>2, SeqEqual
        <4>. QED
          BY <4>3 DEF p, t
      <3>. QED
        BY <3>1, <3>4, <3>6 DEF Top, Popped
    <2>. HIDE DEF s, v
    <2>2. /\ Outcomes("isub", 0, s, v) = _jvm_function_apply_two_integer_function("isub", s, v)
          /\ Outcomes("idiv", 0, s, v) = _jvm_function_apply_two_integer_function("idiv", s, v)
      BY Zenon DEF Outcomes
    <2>3. /\ integer_func("isub", left, right) = _integer_sub(left, right)
          /\ integer_func("idiv", left, right) = _integer_div(left, right)
      BY Zenon DEF integer_func
    <2>4. \A o \in Outcomes("isub", 0, s, v) : o.stack \in Pushed(<<5>>, _integer_sub(left, right))
      BY <2>1, <2>2, <2>3 DEF _jvm_function_apply_two_integer_function, Goes
    <2>5. \A o \in Outcomes("idiv", 0, s, v) :
            IF Traps(left, right) THEN o.killed
            ELSE o.stack \in Pushed(<<5>>, _integer_div(left, right))
      BY <2>1, <2>2, <2>3 DEF _jvm_function_apply_two_integer_function, Goes, Dies
    <2>. QED
      BY <2>4, <2>5 DEF TopIsTheLast, s, v
  <1>. QED
    BY <1>1, AlwaysOperands, PTL
=============================================================================
