----------------------------- MODULE ByteStream -----------------------------
(***************************************************************************)
(* What the callers of socket.c may rely on for one direction of a         *)
(* connection.  The bytes written are named by their positions 1 .. sent.  *)
(* A reader is handed contiguous runs of them, in order, none twice and    *)
(* none that was not written; it may miss bytes between two runs.  It is   *)
(* told the end of the stream only after the writer closed it, and is      *)
(* handed nothing afterwards.                                              *)
(***************************************************************************)
EXTENDS Integers, Sequences

VARIABLES
  sent,    (* number of bytes written so far               *)
  closed,  (* the writer has ended the stream              *)
  got,     (* positions of the bytes handed to the reader  *)
  eof      (* the reader has been told the stream is over  *)

vars == <<sent, closed, got, eof>>

(* The positions first .. last as a sequence. *)
Run(first, last) == [i \in 1 .. (last - first + 1) |-> first + i - 1]

Latest == IF got = << >> THEN 0 ELSE got[Len(got)]

Init ==
  /\ sent = 0
  /\ closed = FALSE
  /\ got = << >>
  /\ eof = FALSE

Write ==
  /\ ~closed
  /\ sent' \in Nat
  /\ sent' > sent
  /\ UNCHANGED <<closed, got, eof>>

Close ==
  /\ ~closed
  /\ closed' = TRUE
  /\ UNCHANGED <<sent, got, eof>>

Read ==
  /\ ~eof
  /\ \E first \in Latest + 1 .. sent :
       \E last \in first .. sent : got' = got \o Run(first, last)
  /\ UNCHANGED <<sent, closed, eof>>

End ==
  /\ closed
  /\ eof' = TRUE
  /\ UNCHANGED <<sent, closed, got>>

Next == Write \/ Close \/ Read \/ End

Spec == Init /\ [][Next]_vars
=============================================================================
