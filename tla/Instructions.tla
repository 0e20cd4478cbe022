---------------------------- MODULE Instructions ----------------------------
(***************************************************************************)
(* The instructions of jvm_utils.c: how a byte is recognised, whether it   *)
(* takes the next byte, and what its function does to the operands stack   *)
(* and to the variables.  The stack is a sequence with its top at the end. *)
(* An instruction has a set of outcomes, for malloc may fail, and an iload *)
(* past the end reads whatever is there.                                   *)
(***************************************************************************)
EXTENDS IntArith, Sequences

CONSTANTS
  MemoryFails,  (* whether the mallocs of stack_push may fail           *)
  Junk          (* ints that may lie in memory after the variables      *)

ASSUME InstructionsAssumption == MemoryFails \in BOOLEAN /\ Junk \subseteq Int_t

Byte == 0 .. 255

jvm_byte_code ==
  [istore |-> 54, iload |-> 21, bipush |-> 16, dup |-> 89, iand |-> 126, ixor |-> 130,
   ior |-> 128, irem |-> 112, ineg |-> 116, idiv |-> 108, iadd |-> 96, imul |-> 104,
   isub |-> 100]

Names == DOMAIN jvm_byte_code

(* jvm_argument_detect *)
Known(b)  == \E n \in Names : jvm_byte_code[n] = b
NameOf(b) == CHOOSE n \in Names : jvm_byte_code[n] = b

RequiresVector(n)  == n \in {"istore", "iload"}
RequiresOperand(n) == n = "bipush"
RequiresByte(n)    == RequiresVector(n) \/ RequiresOperand(n)

(* A byte as a char, widened to int. *)
SignExtended(b) == IF b > 127 THEN b - 256 ELSE b

-----------------------------------------------------------------------------
(* stack_pop of an empty stack returns OPERATION_FAILURE_NULL_POINTER, and *)
(* none of the callers can tell it from an element.                        *)
OPERATION_FAILURE_NULL_POINTER == 1

Top(s) == IF s = << >> THEN OPERATION_FAILURE_NULL_POINTER ELSE s[Len(s)]
Popped(s) == IF s = << >> THEN s ELSE SubSeq(s, 1, Len(s) - 1)

(* The stacks stack_push may leave. *)
Pushed(s, x) == {Append(s, x)} \cup (IF MemoryFails THEN {s} ELSE {})

(* The variables: v.size is _size, v.data what _data points to, empty when *)
(* malloc failed.                                                          *)
Allocated(v) == v.size = 0 \/ DOMAIN v.data # {}

Goes(s, v) == [stack |-> s, vec |-> v, killed |-> FALSE]
Dies(s, v) == [stack |-> s, vec |-> v, killed |-> TRUE]

jvm_function_bipush(b, s, v) == {Goes(t, v) : t \in Pushed(s, SignExtended(b))}

(* The second push is tried only when the first has succeeded. *)
jvm_function_dup(s, v) ==
  LET p == Popped(s)
      x == Top(s)
  IN  {Goes(t, v) : t \in Pushed(Append(p, x), x) \cup (IF MemoryFails THEN {p} ELSE {})}

(* Mutant: int_vector_set without its test of the upper bound. *)
jvm_function_istore_unchecked(pos, s, v) ==
  IF ~Allocated(v) THEN {Dies(Popped(s), v)}
  ELSE {Goes(Popped(s), [v EXCEPT !.data = [i \in DOMAIN v.data \cup {pos} |->
                                              IF i = pos THEN Top(s) ELSE v.data[i]]])}

(* int_vector_set drops a value that is out of bounds; the value is popped *)
(* all the same.                                                           *)
jvm_function_istore(pos, s, v) ==
  IF pos >= v.size THEN {Goes(Popped(s), v)}
  ELSE IF ~Allocated(v) THEN {Dies(Popped(s), v)}
  ELSE {Goes(Popped(s), [v EXCEPT !.data[pos] = Top(s)])}

(* int_vector_get has no test of its bounds. *)
jvm_function_iload(pos, s, v) ==
  IF pos \in DOMAIN v.data THEN {Goes(t, v) : t \in Pushed(s, v.data[pos])}
  ELSE {Dies(s, v)} \cup
       (IF Allocated(v) THEN {Goes(t, v) : t \in UNION {Pushed(s, x) : x \in Junk}} ELSE {})

(* Mutant: the operands the other way round. *)
integer_func_swapped(n, lower, top) ==
  CASE n = "isub" -> _integer_sub(top, lower)
    [] n = "idiv" -> _integer_div(top, lower)
    [] n = "irem" -> _integer_rem(top, lower)
    [] OTHER      -> _integer_sum(top, lower)

integer_func(n, lower, top) ==
  CASE n = "iadd" -> _integer_sum(lower, top)
    [] n = "isub" -> _integer_sub(lower, top)
    [] n = "imul" -> _integer_mul(lower, top)
    [] n = "idiv" -> _integer_div(lower, top)
    [] n = "irem" -> _integer_rem(lower, top)
    [] n = "iand" -> _logical_and(lower, top)
    [] n = "ior"  -> _logical_or(lower, top)
    [] n = "ixor" -> _logical_xor(lower, top)

(* The top of the stack is the right operand. *)
_jvm_function_apply_two_integer_function(n, s, v) ==
  LET top   == Top(s)
      lower == Top(Popped(s))
      rest  == Popped(Popped(s))
  IN  IF n \in {"idiv", "irem"} /\ Traps(lower, top) THEN {Dies(rest, v)}
      ELSE {Goes(t, v) : t \in Pushed(rest, integer_func(n, lower, top))}

_jvm_function_apply_integer_function(s, v) ==
  {Goes(t, v) : t \in Pushed(Popped(s), _logical_neg(Top(s)))}

(* arg.func(...): what instruction n may do, b being the byte after it if it *)
(* takes one.                                                                *)
Outcomes(n, b, s, v) ==
  CASE n = "bipush" -> jvm_function_bipush(b, s, v)
    [] n = "istore" -> jvm_function_istore(b, s, v)
    [] n = "iload"  -> jvm_function_iload(b, s, v)
    [] n = "dup"    -> jvm_function_dup(s, v)
    [] n = "ineg"   -> _jvm_function_apply_integer_function(s, v)
    [] OTHER        -> _jvm_function_apply_two_integer_function(n, s, v)
=============================================================================
