-------------------------------- MODULE Lifo --------------------------------
(***************************************************************************)
(* What the operands stack promises its callers: the sequence on which the *)
(* instructions of module Instructions are defined.                        *)
(***************************************************************************)
EXTENDS Instructions

CONSTANT Values  (* the ints the program pushes *)

VARIABLES
  operands,  (* the stack, its top at the end               *)
  result     (* what the last call of a caller has returned *)

OPERATION_SUCCESS == 0
OPERATION_FAILURE_NO_MEMORY == 2

Init == operands = << >> /\ result = OPERATION_SUCCESS

(* All or nothing, and the caller is told which. *)
Push(x) ==
  /\ operands' \in Pushed(operands, x)
  /\ result' = IF operands' = operands THEN OPERATION_FAILURE_NO_MEMORY ELSE OPERATION_SUCCESS

Pop ==
  /\ result' = Top(operands)
  /\ operands' = Popped(operands)

(* stack_destroy takes the operands off one by one. *)
Discard ==
  /\ operands # << >>
  /\ operands' = Popped(operands)
  /\ UNCHANGED result

Next == (\E x \in Values : Push(x)) \/ Pop \/ Discard

Spec == Init /\ [][Next]_<<operands, result>>
=============================================================================
