----------------------------- MODULE MCSession -----------------------------
(* Small sessions for TLC. *)
EXTENDS Session

(* No byte takes an argument; the last chunk is not full. *)
CodePlain == <<"plain", "trap", "plain">>

(* Cut after the second byte, these programs end inside an instruction. *)
CodeCut3 == <<"plain", "argument", "plain">>
CodeCut5 == <<"plain", "argument", "plain", "plain", "plain">>

(* A file, whole and with a cut; a pipe, of which ftell has no length; a file *)
(* that has shrunk since its length was taken.                                *)
InputsAll == {[len |-> 3, code |-> CodePlain], [len |-> 3, code |-> CodeCut3],
              [len |-> -1, code |-> CodePlain], [len |-> 3, code |-> SubSeq(CodePlain, 1, 2)]}
InputPipe == {[len |-> -1, code |-> CodePlain]}
InputCut5 == {[len |-> 5, code |-> CodeCut5]}
GarbageSome == {-1, 3}
=============================================================================
