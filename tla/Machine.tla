------------------------------- MODULE Machine ------------------------------
(***************************************************************************)
(* What the server promises to do with a program: it runs its instructions *)
(* one after the other, from the first on, and may stop between two of     *)
(* them.  There are no chunks: the whole program is at hand.               *)
(***************************************************************************)
EXTENDS Instructions

VARIABLES
  program,  (* the bytes of the program                             *)
  at,       (* number of bytes the machine has gone past            *)
  stack,    (* the operands                                         *)
  vec,      (* the variables                                        *)
  trace     (* names of the instructions run                        *)

vars == <<program, at, stack, vec, trace>>

Init ==
  /\ at = 0
  /\ stack = << >>
  /\ trace = << >>

(* A byte that is no instruction is passed over. *)
PassOver ==
  /\ at < Len(program)
  /\ ~Known(program[at + 1])
  /\ at' = at + 1
  /\ UNCHANGED <<program, stack, vec, trace>>

(* The machine dies in the middle of an instruction, or goes on to the next. *)
RunInstruction ==
  /\ at < Len(program)
  /\ Known(program[at + 1])
  /\ LET n == NameOf(program[at + 1])
         last == at + IF RequiresByte(n) THEN 2 ELSE 1
     IN  /\ last <= Len(program)
         /\ \E o \in Outcomes(n, program[last], stack, vec) :
              /\ ~o.killed
              /\ stack' = o.stack
              /\ vec' = o.vec
         /\ at' = last
         /\ trace' = Append(trace, n)
  /\ UNCHANGED program

Next == PassOver \/ RunInstruction

Spec == Init /\ [][Next]_vars
=============================================================================
