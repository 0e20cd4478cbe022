---------------------------- MODULE SocketCalls -----------------------------
(***************************************************************************)
(* The loops of socket_send and socket_recv (src/src/socket.c) as pure     *)
(* operators on the record of a call in progress: the record a call starts *)
(* with, the loop condition, one turn of the loop given what the system    *)
(* call answered, and the value the function returns.  Transport and       *)
(* Session use the same operators, so both run the same loops.             *)
(***************************************************************************)
EXTENDS Integers

SOCKET_CONNECTION_ERROR == -1

(***************************************************************************)
(* socket_send: s is the answer of send(), 1 .. size - sent or -1.         *)
(***************************************************************************)
SendCalls == [size : Nat, sent : Nat, valid : BOOLEAN]

SendCall(size) == [size |-> size, sent |-> 0, valid |-> TRUE]

SendLooping(c) == c.sent < c.size /\ c.valid

(* Mutants: a partial send() taken for the whole, and an error not noticed. *)
SendStepWhole(c, s) ==
  IF s <= 0 THEN [c EXCEPT !.valid = FALSE] ELSE [c EXCEPT !.sent = c.size]
SendStepErrorMissed(c, s) == IF s <= 0 THEN c ELSE [c EXCEPT !.sent = @ + s]

SendStep(c, s) ==
  IF s <= 0 THEN [c EXCEPT !.valid = FALSE] ELSE [c EXCEPT !.sent = @ + s]

SendResult(c) == IF c.valid THEN c.sent ELSE SOCKET_CONNECTION_ERROR

(***************************************************************************)
(* socket_recv: n is the answer of recv(), 0 at the end of the stream, -1  *)
(* on an error.  The test "Didn't get new bytes" compares n with the       *)
(* answer s of the previous turn, so two equal answers in a row end the    *)
(* call and the second one is not counted in received.                     *)
(***************************************************************************)
RecvCalls == [chunk : Nat, received : Nat, s : Nat,
              connected : BOOLEAN, finished : BOOLEAN, result : BOOLEAN]

RecvCall(chunk_size) ==
  [chunk |-> chunk_size, received |-> 0, s |-> 0,
   connected |-> TRUE, finished |-> FALSE, result |-> TRUE]

(* Mutant: finished is not looked at. *)
RecvLoopingUnfinished(c) == c.connected /\ c.received < c.chunk

RecvLooping(c) == c.connected /\ ~c.finished /\ c.received < c.chunk

(* Mutants: the error branch missing, the error not reported, and received *)
(* set to the last answer instead of increased by it.                      *)
RecvStepNoErrorBranch(c, n) ==
  IF n = c.s THEN [c EXCEPT !.finished = TRUE]
  ELSE IF n = 0 THEN [c EXCEPT !.connected = FALSE]
  ELSE [c EXCEPT !.s = n, !.received = @ + n]
RecvStepErrorAsEnd(c, n) ==
  IF n = c.s THEN [c EXCEPT !.finished = TRUE]
  ELSE IF n <= 0 THEN [c EXCEPT !.connected = FALSE]
  ELSE [c EXCEPT !.s = n, !.received = @ + n]
RecvStepLastOnly(c, n) ==
  IF n = c.s THEN [c EXCEPT !.finished = TRUE]
  ELSE IF n = 0 THEN [c EXCEPT !.connected = FALSE]
  ELSE IF n < 0 THEN [c EXCEPT !.connected = FALSE, !.result = FALSE]
  ELSE [c EXCEPT !.s = n, !.received = n]

RecvStep(c, n) ==
  IF n = c.s THEN [c EXCEPT !.finished = TRUE]
  ELSE IF n = 0 THEN [c EXCEPT !.connected = FALSE]
  ELSE IF n < 0 THEN [c EXCEPT !.connected = FALSE, !.result = FALSE]
  ELSE [c EXCEPT !.s = n, !.received = @ + n]

RecvResult(c) == IF c.result THEN c.received ELSE SOCKET_CONNECTION_ERROR
=============================================================================
