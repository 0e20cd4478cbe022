--------------------------- MODULE MCInterpreter ---------------------------
(* Programs for TLC: every sequence of up to four of a few bytes, and longer *)
(* ones that compute.                                                        *)
EXTENDS Interpreter

(* istore, iload, bipush, dup, iadd, a byte that is no instruction. *)
SomeBytes == {54, 21, 16, 89, 96, 1}

ShortPrograms == UNION {[1 .. n -> SomeBytes] : n \in 0 .. 4}

LongPrograms == {
  (* (-128 * 127) - 5, stored and loaded; the product does not fit *)
  <<16, 128, 16, 127, 104, 16, 5, 100, 54, 1, 21, 1, 116>>,
  (* division by zero after some work *)
  <<16, 7, 89, 16, 2, 112, 54, 0, 16, 0, 108, 89>>,
  (* the int that has no negative, divided by -1; the operations on bits *)
  <<16, 127, 89, 96, 16, 2, 96, 89, 126, 16, 255, 130, 16, 3, 128>>,
  <<16, 255, 116, 16, 200, 128, 16, 128, 130, 16, 6, 126, 54, 0>>,
  <<16, 128, 89, 96, 16, 255, 108>>}

AllPrograms == ShortPrograms \cup LongPrograms
SizesSome == {-1, 0, 2}
JunkSome == {77}
=============================================================================
