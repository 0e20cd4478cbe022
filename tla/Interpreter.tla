----------------------------- MODULE Interpreter ----------------------------
(***************************************************************************)
(* The server's loop over the byte codes: receive_and_process_byte_codes   *)
(* and process_byte_codes_chunk of jvm_server.c.  The program arrives in   *)
(* chunks of 1 .. CHUNK_SIZE bytes; each is run from its first byte on, on *)
(* one stack and one vector of variables.  How a chunk gets here and what  *)
(* may be lost on the way is the matter of Transport and Session.          *)
(***************************************************************************)
EXTENDS Instructions, FiniteSets

CONSTANTS
  Programs,     (* the programs clients send                       *)
  VectorSizes,  (* the quantities of variables they ask for        *)
  CHUNK_SIZE

ASSUME InterpreterAssumption ==
  /\ Programs \subseteq Seq(Byte)
  /\ VectorSizes \subseteq Int
  /\ CHUNK_SIZE \in Nat \ {0}

VARIABLES
  program,   (* the bytes the client sends                                     *)
  received,  (* how many of them have been received                            *)
  pc,        (* "receive", "run", "stopped" or "killed"                        *)
  chunk, i,  (* byte_codes and i of process_byte_codes_chunk                   *)
  error,     (* its error                                                      *)
  stack,     (* the operands                                                   *)
  vec,       (* the int_vector                                                 *)
  output,    (* the names printed                                              *)
  done,      (* history: bytes of the instructions run and of those unknown    *)
  executed   (* history: names of the instructions run                         *)

state   == <<stack, vec>>
history == <<done, executed>>
vars    == <<program, received, pc, chunk, i, error, state, output, history>>

(* int_vector_create of every size, whose malloc may fail. *)
Vectors ==
  UNION {{[size |-> n, data |-> d] :
            d \in (IF n >= 0 THEN {[k \in 0 .. n - 1 |-> 0]} ELSE {}) \cup
                  (IF n < 0 \/ MemoryFails THEN {<< >>} ELSE {})} : n \in VectorSizes}

Init ==
  /\ program \in Programs
  /\ received = 0
  /\ pc = "receive"
  /\ chunk = << >> /\ i = 0 /\ error = FALSE
  /\ stack = << >> /\ vec \in Vectors
  /\ output = << >>
  /\ done = 0 /\ executed = << >>

(* socket_recv has put n bytes in the buffer. *)
ReceiveChunk(n) ==
  /\ pc = "receive"
  /\ n <= Len(program) - received
  /\ pc' = "run"
  /\ chunk' = SubSeq(program, received + 1, received + n)
  /\ received' = received + n
  /\ i' = 0
  /\ error' = FALSE
  /\ UNCHANGED <<program, state, output, history>>

(* socket_recv returns 0 at the end of the program, -1 at any time. *)
NoChunk ==
  /\ pc = "receive"
  /\ pc' = "stopped"
  /\ UNCHANGED <<program, received, chunk, i, error, state, output, history>>

(* Mutant: the loop stops one byte early. *)
ChunkDoneEarly ==
  /\ pc = "run"
  /\ error \/ i >= Len(chunk) - 1
  /\ pc' = IF error THEN "stopped" ELSE "receive"
  /\ UNCHANGED <<program, received, chunk, i, error, state, output, history>>

(* process_byte_codes_chunk returns; an error ends the loop of its caller. *)
ChunkDone ==
  /\ pc = "run"
  /\ error \/ i = Len(chunk)
  /\ pc' = IF error THEN "stopped" ELSE "receive"
  /\ UNCHANGED <<program, received, chunk, i, error, state, output, history>>

Running == pc = "run" /\ ~error /\ i < Len(chunk)

byte_code == chunk[i + 1]

(* Mutant: i is not advanced past an unknown byte. *)
UnknownByteCodeStuck ==
  /\ Running
  /\ ~Known(byte_code)
  /\ UNCHANGED vars

UnknownByteCode ==
  /\ Running
  /\ ~Known(byte_code)
  /\ i' = i + 1
  /\ done' = done + 1
  /\ UNCHANGED <<program, received, pc, chunk, error, state, output, executed>>

(* Mutant: error is not set, and the next chunk is run from its start. *)
MissingByteIgnored ==
  /\ Running
  /\ Known(byte_code)
  /\ RequiresByte(NameOf(byte_code))
  /\ i + 1 = Len(chunk)
  /\ i' = i + 1
  /\ output' = Append(output, NameOf(byte_code))
  /\ UNCHANGED <<program, received, pc, chunk, error, state, history>>

(* The chunk ends before the byte the instruction needs; its name is printed. *)
MissingByte ==
  /\ Running
  /\ Known(byte_code)
  /\ RequiresByte(NameOf(byte_code))
  /\ i + 1 = Len(chunk)
  /\ i' = i + 1
  /\ error' = TRUE
  /\ output' = Append(output, NameOf(byte_code))
  /\ UNCHANGED <<program, received, pc, chunk, state, history>>

(* Mutant: the name is printed before the function is called. *)
ExecutePrintingFirst(n, last) ==
  \E o \in Outcomes(n, chunk[last], stack, vec) :
    /\ output' = Append(output, n)
    /\ IF o.killed
       THEN pc' = "killed" /\ UNCHANGED <<i, state, history>>
       ELSE /\ i' = last
            /\ stack' = o.stack /\ vec' = o.vec
            /\ done' = done + (last - i) /\ executed' = Append(executed, n)
            /\ UNCHANGED pc

(* arg.func is called, then the name printed; chunk[last] is the last byte *)
(* of the instruction.                                                     *)
Execute(n, last) ==
  \E o \in Outcomes(n, chunk[last], stack, vec) :
    IF o.killed
    THEN pc' = "killed" /\ UNCHANGED <<i, state, output, history>>
    ELSE /\ i' = last
         /\ stack' = o.stack /\ vec' = o.vec
         /\ output' = Append(output, n)
         /\ done' = done + (last - i) /\ executed' = Append(executed, n)
         /\ UNCHANGED pc

RunWithByte ==
  /\ Running
  /\ Known(byte_code)
  /\ RequiresByte(NameOf(byte_code))
  /\ i + 1 < Len(chunk)
  /\ Execute(NameOf(byte_code), i + 2)
  /\ UNCHANGED <<program, received, chunk, error>>

RunAlone ==
  /\ Running
  /\ Known(byte_code)
  /\ ~RequiresByte(NameOf(byte_code))
  /\ Execute(NameOf(byte_code), i + 1)
  /\ UNCHANGED <<program, received, chunk, error>>

Next ==
  \/ \E n \in 1 .. CHUNK_SIZE : ReceiveChunk(n)
  \/ NoChunk \/ ChunkDone \/ UnknownByteCode \/ MissingByte \/ RunWithByte \/ RunAlone

Spec == Init /\ [][Next]_vars
FairSpec == Spec /\ WF_vars(Next)

-----------------------------------------------------------------------------
(* Types: every operand and every variable fits an int, and the vector keeps *)
(* the elements it was created with.                                         *)
TypeOK ==
  /\ program \in Programs /\ received \in 0 .. Len(program)
  /\ pc \in {"receive", "run", "stopped", "killed"}
  /\ chunk \in Seq(Byte) /\ i \in 0 .. Len(chunk) /\ error \in BOOLEAN
  /\ stack \in Seq(Int_t)
  /\ vec.size \in VectorSizes
  /\ vec.data = << >> \/ vec.data \in [0 .. vec.size - 1 -> Int_t]
  /\ output \in Seq(Names) /\ executed \in Seq(Names)
  /\ done \in 0 .. received

(* No byte of a chunk is carried over, run twice or left out: when the next    *)
(* chunk is awaited every byte received has been interpreted, and when an      *)
(* instruction was cut the program has been interpreted up to it.              *)
NothingSkipped ==
  /\ pc = "receive" => done = received
  /\ pc = "stopped" => done = received - (IF error THEN 1 ELSE 0)

(* The trace is what was run, but for the name of an instruction that the end  *)
(* of the chunk cut; an instruction that stops the process is not in it.       *)
TraceIsWhatRan ==
  IF error THEN \E n \in Names : RequiresByte(n) /\ output = Append(executed, n)
  ELSE output = executed

(* The chunks make no difference to what is computed: however the program is  *)
(* cut, its instructions are run in order on one stack and one vector, and if *)
(* they stop early they stop between two instructions.                        *)
Whole == INSTANCE Machine WITH at <- done, trace <- executed
ImplementsMachine == Whole!Spec

(* The loops end: every turn of process_byte_codes_chunk moves on.            *)
Terminates == <>(pc \in {"stopped", "killed"})

=============================================================================
