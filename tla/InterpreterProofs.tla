-------------------------- MODULE InterpreterProofs --------------------------
(***************************************************************************)
(* The loop over the chunks of byte code, for chunks and programs of any   *)
(* length: no byte is left out or read twice, the trace is that of the     *)
(* instructions run, and the chunks make no difference (a refinement of    *)
(* Machine).  The instance of Machine brings the operators of the          *)
(* instructions a second time; the lemmas named Same... say that they are  *)
(* the same.                                                               *)
(***************************************************************************)
EXTENDS Interpreter, SharedLemmas, SequenceTheorems

(* The wrapped operations are the same in both instances. *)
LEMMA SameArithmetic ==
  ASSUME NEW a, NEW b
  PROVE  /\ Whole!Wrap(a) = Wrap(a)
         /\ Whole!_integer_sum(a, b) = _integer_sum(a, b)
         /\ Whole!_integer_sub(a, b) = _integer_sub(a, b)
         /\ Whole!_integer_mul(a, b) = _integer_mul(a, b)
         /\ Whole!_integer_div(a, b) = _integer_div(a, b)
         /\ Whole!_integer_rem(a, b) = _integer_rem(a, b)
         /\ Whole!Traps(a, b) = Traps(a, b)
  BY DEF Wrap, Unsigned, INT_MAX, INT_MIN, Traps, Quotient, Magnitude, _integer_sum,
         _integer_sub, _integer_mul, _integer_div, _integer_rem,
         Whole!Wrap, Whole!Unsigned, Whole!INT_MAX, Whole!INT_MIN, Whole!Traps,
         Whole!Quotient, Whole!Magnitude, Whole!_integer_sum, Whole!_integer_sub,
         Whole!_integer_mul, Whole!_integer_div, Whole!_integer_rem

(* So are those on bits. *)
LEMMA SameLogic ==
  ASSUME NEW a, NEW b
  PROVE  /\ Whole!_logical_and(a, b) = _logical_and(a, b)
         /\ Whole!_logical_or(a, b) = _logical_or(a, b)
         /\ Whole!_logical_xor(a, b) = _logical_xor(a, b)
         /\ Whole!_logical_neg(a) = _logical_neg(a)
  BY DEF OnBits, Bit, Unsigned, Wrap, INT_MAX, _logical_and, _logical_or, _logical_xor, _logical_neg, Complement,
     Whole!OnBits, Whole!Bit, Whole!Unsigned, Whole!Wrap, Whole!INT_MAX, Whole!_logical_and,
     Whole!_logical_or, Whole!_logical_xor, Whole!_logical_neg, Whole!Complement

(* So is the choice of the function by the name of the instruction. *)
LEMMA SameFunction ==
  ASSUME NEW n, NEW a, NEW b
  PROVE  Whole!integer_func(n, a, b) = integer_func(n, a, b)
  BY SameArithmetic, SameLogic, Zenon DEF integer_func, Whole!integer_func

(* So are push, pop and top. *)
LEMMA SameStack ==
  ASSUME NEW s, NEW x
  PROVE  Whole!Pushed(s, x) = Pushed(s, x) /\ Whole!Popped(s) = Popped(s) /\ Whole!Top(s) = Top(s)
  BY DEF Whole!Pushed, Pushed, Whole!Popped, Popped, Whole!Top, Top, Whole!OPERATION_FAILURE_NULL_POINTER,
     OPERATION_FAILURE_NULL_POINTER

(* So are the outcomes of an instruction. *)
LEMMA SameOutcomes ==
  ASSUME NEW n, NEW b, NEW s, NEW v
  PROVE  Whole!Outcomes(n, b, s, v) = Outcomes(n, b, s, v)
  <1>1. Whole!jvm_function_bipush(b, s, v) = jvm_function_bipush(b, s, v)
    BY SameStack DEF Whole!jvm_function_bipush, jvm_function_bipush, Whole!SignExtended, SignExtended, Whole!Goes, Goes
  <1>2. Whole!jvm_function_dup(s, v) = jvm_function_dup(s, v)
    BY SameStack DEF Whole!jvm_function_dup, jvm_function_dup, Whole!Goes, Goes
  <1>3. Whole!jvm_function_istore(b, s, v) = jvm_function_istore(b, s, v)
    BY SameStack DEF Whole!jvm_function_istore, jvm_function_istore, Whole!Goes, Goes, Whole!Dies, Dies, Whole!Allocated, Allocated
  <1>4. Whole!jvm_function_iload(b, s, v) = jvm_function_iload(b, s, v)
    BY SameStack DEF Whole!jvm_function_iload, jvm_function_iload, Whole!Goes, Goes, Whole!Dies, Dies, Whole!Allocated, Allocated
  <1>5. Whole!_jvm_function_apply_integer_function(s, v) = _jvm_function_apply_integer_function(s, v)
    BY SameStack, SameLogic DEF Whole!_jvm_function_apply_integer_function, _jvm_function_apply_integer_function, Whole!Goes, Goes
  <1>6. Whole!_jvm_function_apply_two_integer_function(n, s, v) = _jvm_function_apply_two_integer_function(n, s, v)
    BY SameStack, SameFunction, SameArithmetic DEF Whole!_jvm_function_apply_two_integer_function, _jvm_function_apply_two_integer_function, Whole!Goes, Goes, Whole!Dies, Dies
  <1>. QED
    BY <1>1, <1>2, <1>3, <1>4, <1>5, <1>6, Zenon DEF Whole!Outcomes, Outcomes

-----------------------------------------------------------------------------
(* The inductive invariant: the chunk is the end of what has been received, *)
(* and done counts the bytes before it and those of it that have been run.  *)
Place ==
  /\ program \in Seq(Byte) /\ received \in 0 .. Len(program)
  /\ pc \in {"receive", "run", "stopped", "killed"}
  /\ chunk \in Seq(Byte) /\ Len(chunk) <= received
  /\ \A k \in 1 .. Len(chunk) : chunk[k] = program[received - Len(chunk) + k]
  /\ i \in 0 .. Len(chunk) /\ error \in BOOLEAN
  /\ error => i >= 1 /\ i = Len(chunk)
  /\ pc \in {"receive", "stopped"} => i = Len(chunk)
  /\ pc \in {"receive", "killed"} => ~error
  /\ error => done = received - 1
  /\ ~error => done = received - Len(chunk) + i

(* The same of the names. *)
Traced ==
  /\ output \in Seq(Names) /\ executed \in Seq(Names)
  /\ TraceIsWhatRan

(* A known byte has a name, and the name that byte. *)
LEMMA NameProperties ==
  ASSUME NEW b, Known(b)
  PROVE  NameOf(b) \in Names /\ jvm_byte_code[NameOf(b)] = b
  BY DEF Known, NameOf

(* Nothing is received, run or printed at the start. *)
LEMMA InitPlace == Init => Place /\ Traced
  <1>. SUFFICES ASSUME Init PROVE Place /\ Traced
    OBVIOUS
  <1>1. Place
    <2>1. program \in Seq(Byte) /\ Len(program) \in Nat
      BY InterpreterAssumption DEF Init
    <2>2. chunk \in Seq(Byte) /\ Len(chunk) = 0
      BY DEF Init
    <2>3. received = 0 /\ pc = "receive" /\ i = 0 /\ error \in BOOLEAN /\ ~error /\ done = 0
      BY DEF Init
    <2>4. \A k \in 1 .. Len(chunk) : chunk[k] = program[received - Len(chunk) + k]
      BY <2>2
    <2>5. i \in 0 .. Len(chunk) /\ received \in 0 .. Len(program) /\ Len(chunk) <= received
      BY <2>1, <2>2, <2>3
    <2>6. done = received - Len(chunk) + i
      BY <2>2, <2>3
    <2>. QED
      BY <2>1, <2>2, <2>3, <2>4, <2>5, <2>6 DEF Place
  <1>2. Traced
    BY DEF Init, Traced, TraceIsWhatRan
  <1>. QED
    BY <1>1, <1>2

(* Each branch of the loop moves i and done together; a byte that waits for its *)
(* argument in the next chunk (error) is counted only when it is run.           *)
LEMMA PlaceKept ==
  ASSUME Place, [Next]_vars
  PROVE  Place'
  <1>. USE DEF Place, state, history
  <1>1. ASSUME NEW n \in 1 .. CHUNK_SIZE, ReceiveChunk(n) PROVE Place'
    <2>. n \in Nat \ {0}
      BY InterpreterAssumption
    <2>. DEFINE c == SubSeq(program, received + 1, received + n)
    <2>1. /\ c \in Seq(Byte) /\ Len(c) = n
          /\ \A k \in 1 .. n : c[k] = program[received + k]
      BY <1>1, SubSeqProperties DEF ReceiveChunk
    <2>2. chunk' = c
      BY <1>1 DEF ReceiveChunk
    <2>. HIDE DEF c
    <2>3. /\ program' = program /\ received' = received + n /\ pc' = "run" /\ pc = "receive"
          /\ n <= Len(program) - received
          /\ i' = 0 /\ error' = FALSE /\ done' = done
      BY <1>1 DEF ReceiveChunk
    <2>4. /\ received' \in 0 .. Len(program') /\ Len(chunk') = n
          /\ done' = received' - Len(chunk') + i'
      BY <2>1, <2>2, <2>3
    <2>5. \A k \in 1 .. n : chunk'[k] = program'[received' - n + k]
      BY <2>1, <2>2, <2>3
    <2>6. chunk' \in Seq(Byte) /\ Len(chunk') <= received' /\ i' \in 0 .. Len(chunk')
      BY <2>1, <2>2, <2>3, <2>4
    <2>7. ~error' /\ error' \in BOOLEAN
      BY <1>1 DEF ReceiveChunk
    <2>. QED
      BY <2>3, <2>4, <2>5, <2>6, <2>7
  <1>2. CASE NoChunk
    BY <1>2 DEF NoChunk
  <1>3. CASE ChunkDone
    BY <1>3 DEF ChunkDone
  <1>4. CASE UnknownByteCode
    BY <1>4 DEF UnknownByteCode, Running
  <1>5. CASE MissingByte
    <2>0. /\ ~error /\ i + 1 = Len(chunk) /\ i \in Nat /\ received \in Nat /\ Len(chunk) \in Nat
          /\ done = received - Len(chunk) + i
      BY <1>5 DEF MissingByte, Running
    <2>1. done = received - 1 /\ i + 1 \in 1 .. Len(chunk)
      BY ONLY <2>0
    <2>. QED
      BY <1>5, <2>1 DEF MissingByte, Running
  <1>6. ASSUME NEW n, NEW last \in i + 1 .. Len(chunk), Running, Execute(n, last),
               UNCHANGED <<program, received, chunk, error>>
        PROVE  Place'
    <2>1. PICK o \in Outcomes(n, chunk[last], stack, vec) :
            IF o.killed THEN pc' = "killed" /\ UNCHANGED i /\ UNCHANGED done
            ELSE i' = last /\ done' = done + (last - i) /\ UNCHANGED pc
      BY <1>6, Zenon DEF Execute
    <2>2. CASE o.killed
      BY <1>6, <2>1, <2>2 DEF Running
    <2>3. CASE ~o.killed
      BY <1>6, <2>1, <2>3 DEF Running
    <2>. QED
      BY <2>2, <2>3
  <1>7. CASE RunWithByte
    BY <1>6, <1>7 DEF RunWithByte, Running
  <1>8. CASE RunAlone
    BY <1>6, <1>8 DEF RunAlone, Running
  <1>9. CASE UNCHANGED vars
    BY <1>9 DEF vars
  <1>. QED
    BY <1>1, <1>2, <1>3, <1>4, <1>5, <1>7, <1>8, <1>9 DEF Next

(* What an instruction prints is what it runs. *)
LEMMA TracedKept ==
  ASSUME Place, Traced, [Next]_vars
  PROVE  Traced'
  <1>. USE DEF Traced, TraceIsWhatRan, state, history
  <1>1. ASSUME NEW n \in 1 .. CHUNK_SIZE, ReceiveChunk(n) PROVE Traced'
    BY <1>1 DEF ReceiveChunk, Place
  <1>2. CASE NoChunk
    BY <1>2 DEF NoChunk
  <1>3. CASE ChunkDone
    BY <1>3 DEF ChunkDone
  <1>4. CASE UnknownByteCode
    BY <1>4 DEF UnknownByteCode
  <1>5. CASE MissingByte
    BY <1>5, NameProperties, AppendProperties DEF MissingByte, Running
  <1>6. ASSUME NEW n \in Names, NEW last, Running, Execute(n, last), UNCHANGED error
        PROVE  Traced'
    <2>1. PICK o \in Outcomes(n, chunk[last], stack, vec) :
            IF o.killed THEN UNCHANGED <<output, executed>>
            ELSE output' = Append(output, n) /\ executed' = Append(executed, n)
      BY <1>6, Zenon DEF Execute
    <2>2. CASE o.killed
      BY <1>6, <2>1, <2>2
    <2>3. CASE ~o.killed
      <3>1. output' = Append(output, n) /\ executed' = Append(executed, n) /\ error' = FALSE
            /\ output = executed
        BY <1>6, <2>1, <2>3 DEF Running
      <3>. QED
        BY <3>1, AppendProperties
    <2>. QED
      BY <2>2, <2>3
  <1>7. CASE RunWithByte
    BY <1>6, <1>7, NameProperties DEF RunWithByte, Running
  <1>8. CASE RunAlone
    BY <1>6, <1>8, NameProperties DEF RunAlone, Running
  <1>9. CASE UNCHANGED vars
    BY <1>9 DEF vars
  <1>. QED
    BY <1>1, <1>2, <1>3, <1>4, <1>5, <1>7, <1>8, <1>9 DEF Next

(* Both parts hold in every state of the program. *)
LEMMA AlwaysPlace == Spec => [](Place /\ Traced)
  <1>1. (Place /\ Traced) /\ [Next]_vars => (Place /\ Traced)'
    BY PlaceKept, TracedKept
  <1>. QED
    BY InitPlace, <1>1, PTL DEF Spec

(* No byte is carried over from chunk to chunk, run twice or left out. *)
THEOREM EveryByteIsInterpreted == Spec => []NothingSkipped
  <1>1. Place => NothingSkipped
    BY DEF Place, NothingSkipped
  <1>. QED
    BY AlwaysPlace, <1>1, PTL

(* The names printed are those of the instructions run. *)
THEOREM TheTraceIsTrue == Spec => []TraceIsWhatRan
  <1>1. Traced => TraceIsWhatRan
    BY DEF Traced
  <1>. QED
    BY AlwaysPlace, <1>1, PTL

-----------------------------------------------------------------------------
(* A step of the loop over chunks is a step of the machine that has the whole *)
(* program, or none.                                                          *)
LEMMA StepOfMachine ==
  ASSUME Place, [Next]_vars
  PROVE  [Whole!Next]_(Whole!vars)
  <1>. USE DEF Whole!vars, state, history
  <1>1. ASSUME NEW n \in 1 .. CHUNK_SIZE, ReceiveChunk(n) PROVE UNCHANGED Whole!vars
    BY <1>1 DEF ReceiveChunk
  <1>2. CASE NoChunk
    BY <1>2 DEF NoChunk
  <1>3. CASE ChunkDone
    BY <1>3 DEF ChunkDone
  <1>. DEFINE at == done + 1
  <1>0. ASSUME Running
        PROVE  /\ done \in Nat /\ done < Len(program)
               /\ program[done + 1] = byte_code
               /\ i + 1 < Len(chunk) => done + 2 <= Len(program) /\ program[done + 2] = chunk[i + 2]
    <2>1. /\ i \in Nat /\ i < Len(chunk) /\ Len(chunk) \in Nat /\ Len(program) \in Nat
          /\ received \in Nat /\ received <= Len(program) /\ Len(chunk) <= received
          /\ done = received - Len(chunk) + i
      BY <1>0 DEF Running, Place
    <2>2. \A k \in 1 .. Len(chunk) : chunk[k] = program[received - Len(chunk) + k]
      BY DEF Place
    <2>3. chunk[i + 1] = program[done + 1]
      <3>1. i + 1 \in 1 .. Len(chunk) /\ received - Len(chunk) + (i + 1) = done + 1
        BY <2>1
      <3>. QED
        BY <2>2, <3>1
    <2>4. i + 1 < Len(chunk) => chunk[i + 2] = program[done + 2]
      <3>1. ASSUME i + 1 < Len(chunk)
            PROVE  i + 2 \in 1 .. Len(chunk) /\ received - Len(chunk) + (i + 2) = done + 2
        BY <2>1, <3>1
      <3>. QED
        BY <2>2, <3>1
    <2>. QED
      BY <2>1, <2>3, <2>4 DEF byte_code
  <1>. HIDE DEF byte_code
  <1>10. \A b : Whole!Known(b) = Known(b) /\ Whole!NameOf(b) = NameOf(b)
    BY Zenon DEF Known, NameOf, Names, jvm_byte_code,
       Whole!Known, Whole!NameOf, Whole!Names, Whole!jvm_byte_code
  <1>11. \A n : Whole!RequiresByte(n) = RequiresByte(n)
    BY DEF RequiresByte, RequiresVector, RequiresOperand,
       Whole!RequiresByte, Whole!RequiresVector, Whole!RequiresOperand
  <1>4. CASE UnknownByteCode
    <2>1. Whole!PassOver
      BY <1>4, <1>0, <1>10, Zenon DEF UnknownByteCode, Whole!PassOver
    <2>. QED
      BY <2>1 DEF Whole!Next
  <1>5. CASE MissingByte
    BY <1>5 DEF MissingByte
  <1>6. ASSUME Running, Known(byte_code), UNCHANGED program,
               NEW last, last = i + (IF RequiresByte(NameOf(byte_code)) THEN 2 ELSE 1),
               last <= Len(chunk), Execute(NameOf(byte_code), last)
        PROVE  [Whole!Next]_(Whole!vars)
    <2>. DEFINE n == NameOf(byte_code)
                there == done + (IF RequiresByte(n) THEN 2 ELSE 1)
    <2>1. PICK o \in Outcomes(n, chunk[last], stack, vec) :
            IF o.killed THEN UNCHANGED <<stack, vec, done, executed>>
            ELSE /\ stack' = o.stack /\ vec' = o.vec
                 /\ done' = done + (last - i) /\ executed' = Append(executed, n)
      BY <1>6, Zenon DEF Execute
    <2>2. CASE o.killed
      BY <1>6, <2>1, <2>2
    <2>3. CASE ~o.killed
      <3>1. /\ there <= Len(program)
            /\ program[there] = chunk[last]
            /\ done + (last - i) = there
        <4>1. /\ i \in Nat /\ i < Len(chunk) /\ Len(chunk) \in Nat /\ Len(program) \in Nat
              /\ done \in Nat /\ done < Len(program) /\ i + 1 <= Len(chunk)
          BY <1>0, <1>6 DEF Place, Running
        <4>2. /\ chunk[i + 1] = program[done + 1]
              /\ i + 1 < Len(chunk) => done + 2 <= Len(program) /\ program[done + 2] = chunk[i + 2]
          BY <1>0, <1>6 DEF byte_code
        <4>3. CASE RequiresByte(n)
          <5>1. last = i + 2 /\ there = done + 2 /\ i + 1 < Len(chunk)
            BY <1>6, <4>1, <4>3
          <5>. HIDE DEF there
          <5>. QED
            BY ONLY <4>1, <4>2, <5>1
        <4>4. CASE ~RequiresByte(n)
          <5>1. last = i + 1 /\ there = done + 1
            BY <1>6, <4>4
          <5>. HIDE DEF there
          <5>. QED
            BY ONLY <4>1, <4>2, <5>1
        <4>. QED
          BY <4>3, <4>4
      <3>2. o \in Whole!Outcomes(n, program[there], stack, vec)
        BY <3>1, <2>1, SameOutcomes
      <3>3. Whole!RunInstruction
        BY <1>0, <1>6, <1>10, <1>11, <2>1, <2>3, <3>1, <3>2, Zenon DEF Whole!RunInstruction
      <3>. QED
        BY <3>3 DEF Whole!Next
    <2>. QED
      BY <2>2, <2>3
  <1>7. CASE RunWithByte
    BY <1>6, <1>7 DEF RunWithByte, Running, Place
  <1>8. CASE RunAlone
    BY <1>6, <1>8 DEF RunAlone, Running, Place
  <1>9. CASE UNCHANGED vars
    BY <1>9 DEF vars
  <1>. QED
    BY <1>1, <1>2, <1>3, <1>4, <1>5, <1>7, <1>8, <1>9 DEF Next

(* The refinement: however the program is cut into chunks, the loop does what *)
(* the machine does with the whole of it.                                     *)
THEOREM TheChunksMakeNoDifference == Spec => ImplementsMachine
  <1>1. Init => Whole!Init
    BY DEF Init, Whole!Init
  <1>2. Place /\ [Next]_vars => [Whole!Next]_(Whole!vars)
    BY StepOfMachine
  <1>. QED
    BY <1>1, <1>2, AlwaysPlace, PTL DEF Spec, ImplementsMachine, Whole!Spec

-----------------------------------------------------------------------------
(* Types: what an instruction leaves are operands and variables that fit an *)
(* int, whatever it finds.                                                  *)
VectorType ==
  UNION {[size : {n}, data : {<< >>} \cup [0 .. n - 1 -> Int_t]] : n \in VectorSizes}

(* A vector is its size and its elements, or no element where calloc failed. *)
LEMMA VectorProperties ==
  ASSUME NEW v \in VectorType
  PROVE  /\ v = [size |-> v.size, data |-> v.data]
         /\ v.size \in VectorSizes /\ v.size \in Int
         /\ v.data = << >> \/ v.data \in [0 .. v.size - 1 -> Int_t]
  <1>1. PICK n \in VectorSizes : v \in [size : {n}, data : {<< >>} \cup [0 .. n - 1 -> Int_t]]
    BY DEF VectorType
  <1>2. v.size = n /\ v.data \in {<< >>} \cup [0 .. n - 1 -> Int_t]
    BY <1>1
  <1>3. n \in Int
    BY InterpreterAssumption
  <1>4. v = [size |-> v.size, data |-> v.data]
    BY <1>1
  <1>. QED
    BY <1>2, <1>3, <1>4

(* And a record of these is a vector. *)
LEMMA VectorMade ==
  ASSUME NEW n \in VectorSizes, NEW d, d = << >> \/ d \in [0 .. n - 1 -> Int_t]
  PROVE  [size |-> n, data |-> d] \in VectorType
  BY DEF VectorType

(* A byte, and what stack_pop gives when there is nothing, fit an int. *)
LEMMA SmallInts ==
  /\ \A x \in -128 .. 127 : x \in Int_t
  /\ OPERATION_FAILURE_NULL_POINTER \in Int_t
  <1>. DEFINE P == {k \in Nat : 2^(7 + k) >= 128}
  <1>1. 0 \in P
    <2>. DEFINE p(n) == 2^n
    <2>1. p(0) = 1
      OBVIOUS
    <2>2. \A n \in Nat : p(n + 1) = 2 * p(n)
      BY PowerOfTwo
    <2>3. /\ p(0 + 1) = 2 * p(0) /\ p(1 + 1) = 2 * p(1) /\ p(2 + 1) = 2 * p(2) /\ p(3 + 1) = 2 * p(3)
          /\ p(4 + 1) = 2 * p(4) /\ p(5 + 1) = 2 * p(5) /\ p(6 + 1) = 2 * p(6)
      <3>. HIDE DEF p
      <3>. QED
        BY <2>2
    <2>4. p(7) = 128
      <3>. HIDE DEF p
      <3>. QED
        BY <2>1, <2>3
    <2>. QED
      BY <2>4
  <1>2. ASSUME NEW k \in Nat, k \in P PROVE k + 1 \in P
    <2>1. 2^((7 + k) + 1) = 2 * 2^(7 + k) /\ 2^(7 + k) \in Nat
      BY PowerOfTwo
    <2>2. 7 + (k + 1) = (7 + k) + 1
      OBVIOUS
    <2>. QED
      BY <1>2, <2>1, <2>2
  <1>3. Half >= 128
    <2>1. W - 8 \in Nat /\ 7 + (W - 8) = W - 1
      BY WidthAssumption
    <2>2. W - 8 \in P
      <3>. HIDE DEF P
      <3>. QED
        BY <1>1, <1>2, <2>1, SetInduction
    <2>. QED
      BY <2>1, <2>2 DEF Half
  <1>. QED
    BY <1>3, WidthProperties DEF Int_t, OPERATION_FAILURE_NULL_POINTER

(* Pushes and pops keep a sequence of ints one, the pop of an empty stack included. *)
LEMMA StackProperties ==
  ASSUME NEW s \in Seq(Int_t), NEW x \in Int_t
  PROVE  /\ Top(s) \in Int_t /\ Popped(s) \in Seq(Int_t)
         /\ Append(s, x) \in Seq(Int_t) /\ Pushed(s, x) \subseteq Seq(Int_t)
  <1>1. Top(s) \in Int_t
    <2>1. s # << >> => s[Len(s)] \in Int_t
      <3>1. s # << >> => Len(s) \in 1 .. Len(s)
        BY EmptySeq
      <3>. QED
        BY <3>1
    <2>. QED
      BY <2>1, SmallInts DEF Top
  <1>2. Popped(s) \in Seq(Int_t)
    BY SubSeqProperties DEF Popped
  <1>3. Append(s, x) \in Seq(Int_t)
    BY AppendProperties
  <1>. QED
    BY <1>1, <1>2, <1>3 DEF Pushed

(* The functions of two operands give an int, where they do not trap. *)
LEMMA FunctionProperties ==
  ASSUME NEW n \in Names \ {"istore", "iload", "bipush", "dup", "ineg"},
         NEW a \in Int_t, NEW b \in Int_t, n \in {"idiv", "irem"} => ~Traps(a, b)
  PROVE  integer_func(n, a, b) \in Int_t
  <1>1. n \in {"iadd", "isub", "imul", "idiv", "irem", "iand", "ior", "ixor"}
    BY DEF Names, jvm_byte_code
  <1>2. n = "iadd" => integer_func(n, a, b) = _integer_sum(a, b)
    BY Zenon DEF integer_func
  <1>3. n = "isub" => integer_func(n, a, b) = _integer_sub(a, b)
    BY Zenon DEF integer_func
  <1>4. n = "imul" => integer_func(n, a, b) = _integer_mul(a, b)
    BY Zenon DEF integer_func
  <1>5. n = "idiv" => integer_func(n, a, b) = _integer_div(a, b)
    BY Zenon DEF integer_func
  <1>6. n = "irem" => integer_func(n, a, b) = _integer_rem(a, b)
    BY Zenon DEF integer_func
  <1>7. n = "iand" => integer_func(n, a, b) = _logical_and(a, b)
    BY Zenon DEF integer_func
  <1>8. n = "ior" => integer_func(n, a, b) = _logical_or(a, b)
    BY Zenon DEF integer_func
  <1>9. n = "ixor" => integer_func(n, a, b) = _logical_xor(a, b)
    BY Zenon DEF integer_func
  <1>10. n \in {"idiv", "irem"} => _integer_div(a, b) \in Int_t /\ _integer_rem(a, b) \in Int_t
    BY DivisionOfInts
  <1>11. /\ _integer_sum(a, b) \in Int_t /\ _integer_sub(a, b) \in Int_t
         /\ _integer_mul(a, b) \in Int_t /\ _logical_and(a, b) \in Int_t
         /\ _logical_or(a, b) \in Int_t /\ _logical_xor(a, b) \in Int_t
    BY ResultsAreInts
  <1>. HIDE DEF Int_t
  <1>. QED
    BY <1>1, <1>2, <1>3, <1>4, <1>5, <1>6, <1>7, <1>8, <1>9, <1>10, <1>11, Zenon

(* What an instruction leaves. *)
Leaves(o) == o.stack \in Seq(Int_t) /\ o.vec \in VectorType

(* Every outcome of every instruction leaves ints. *)
LEMMA OutcomeProperties ==
  ASSUME NEW n \in Names, NEW b \in Byte, NEW s \in Seq(Int_t), NEW v \in VectorType
  PROVE  \A o \in Outcomes(n, b, s, v) : Leaves(o)
  <1>1. ASSUME NEW t \in Seq(Int_t), NEW w \in VectorType PROVE Leaves(Goes(t, w)) /\ Leaves(Dies(t, w))
    BY DEF Leaves, Goes, Dies
  <1>2. b \in Nat /\ SignExtended(b) \in -128 .. 127
    BY DEF Byte, SignExtended
  <1>3. \A o \in jvm_function_bipush(b, s, v) : Leaves(o)
    BY <1>1, <1>2, SmallInts, StackProperties DEF jvm_function_bipush
  <1>4. \A o \in jvm_function_dup(s, v) : Leaves(o)
    <2>. DEFINE p == Popped(s)
                x == Top(s)
    <2>1. p \in Seq(Int_t) /\ x \in Int_t /\ Append(p, x) \in Seq(Int_t)
          /\ Pushed(Append(p, x), x) \subseteq Seq(Int_t)
      BY SmallInts, StackProperties
    <2>2. \A t \in Pushed(Append(p, x), x) \cup (IF MemoryFails THEN {p} ELSE {}) : t \in Seq(Int_t)
      BY <2>1
    <2>. QED
      BY <1>1, <2>2 DEF jvm_function_dup
  <1>5. \A o \in jvm_function_istore(b, s, v) : Leaves(o)
    <2>1. Popped(s) \in Seq(Int_t) /\ Top(s) \in Int_t
      BY SmallInts, StackProperties
    <2>2. CASE b >= v.size \/ ~Allocated(v)
      BY <1>1, <2>1, <2>2 DEF jvm_function_istore
    <2>3. CASE ~(b >= v.size) /\ Allocated(v)
      <3>1. v.data \in [0 .. v.size - 1 -> Int_t] /\ b \in 0 .. v.size - 1
        <4>1. v.size \in Int /\ v.size # 0 /\ b \in 0 .. v.size - 1
          BY <1>2, <2>3, VectorProperties
        <4>2. v.data # << >>
          BY <2>3, <4>1 DEF Allocated
        <4>. QED
          BY <4>1, <4>2, VectorProperties
      <3>. DEFINE w == [v EXCEPT !.data[b] = Top(s)]
      <3>2. w = [size |-> v.size, data |-> [v.data EXCEPT ![b] = Top(s)]]
        BY VectorProperties
      <3>3. w \in VectorType
        <4>1. [v.data EXCEPT ![b] = Top(s)] \in [0 .. v.size - 1 -> Int_t]
          BY <2>1, <3>1
        <4>. QED
          BY <3>2, <4>1, VectorProperties, VectorMade
      <3>. HIDE DEF w
      <3>4. jvm_function_istore(b, s, v) = {Goes(Popped(s), w)}
        BY <2>3 DEF jvm_function_istore, w
      <3>. QED
        BY <1>1, <2>1, <3>3, <3>4
    <2>. QED
      BY <2>2, <2>3
  <1>6. \A o \in jvm_function_iload(b, s, v) : Leaves(o)
    <2>1. CASE b \in DOMAIN v.data
      <3>1. v.data[b] \in Int_t
        BY <2>1, VectorProperties
      <3>2. Pushed(s, v.data[b]) \subseteq Seq(Int_t)
        BY <3>1, StackProperties
      <3>. QED
        BY <1>1, <2>1, <3>2 DEF jvm_function_iload
    <2>2. CASE b \notin DOMAIN v.data
      <3>1. \A x \in Junk : Pushed(s, x) \subseteq Seq(Int_t)
        BY StackProperties, InstructionsAssumption
      <3>2. UNION {Pushed(s, x) : x \in Junk} \subseteq Seq(Int_t)
        BY <3>1
      <3>. QED
        BY <1>1, <2>2, <3>2 DEF jvm_function_iload
    <2>. QED
      BY <2>1, <2>2
  <1>7. \A o \in _jvm_function_apply_integer_function(s, v) : Leaves(o)
    <2>1. Popped(s) \in Seq(Int_t) /\ Top(s) \in Int_t
      BY SmallInts, StackProperties
    <2>2. _logical_neg(Top(s)) \in Int_t
      BY <2>1, ResultsAreInts
    <2>3. Pushed(Popped(s), _logical_neg(Top(s))) \subseteq Seq(Int_t)
      BY <2>1, <2>2, StackProperties
    <2>. QED
      BY <1>1, <2>3 DEF _jvm_function_apply_integer_function
  <1>8. ASSUME n \notin {"istore", "iload", "bipush", "dup", "ineg"}
        PROVE  \A o \in _jvm_function_apply_two_integer_function(n, s, v) : Leaves(o)
    <2>. DEFINE top == Top(s)
                lower == Top(Popped(s))
                rest == Popped(Popped(s))
    <2>1. top \in Int_t /\ lower \in Int_t /\ rest \in Seq(Int_t)
      BY SmallInts, StackProperties
    <2>. HIDE DEF top, lower, rest
    <2>2. CASE n \in {"idiv", "irem"} /\ Traps(lower, top)
      BY <1>1, <2>1, <2>2 DEF _jvm_function_apply_two_integer_function, top, lower, rest
    <2>3. CASE ~(n \in {"idiv", "irem"} /\ Traps(lower, top))
      <3>1. Pushed(rest, integer_func(n, lower, top)) \subseteq Seq(Int_t)
        BY <1>8, <2>1, <2>3, FunctionProperties, StackProperties
      <3>2. \A o \in _jvm_function_apply_two_integer_function(n, s, v) :
              \E t \in Pushed(rest, integer_func(n, lower, top)) : o = Goes(t, v)
        BY <2>3 DEF _jvm_function_apply_two_integer_function, top, lower, rest
      <3>. QED
        BY <1>1, <3>1, <3>2
    <2>. QED
      BY <2>2, <2>3
  <1>. DEFINE Among(S) == Outcomes(n, b, s, v) = S
  <1>9. /\ n = "bipush" => Among(jvm_function_bipush(b, s, v))
        /\ n = "istore" => Among(jvm_function_istore(b, s, v))
        /\ n = "iload" => Among(jvm_function_iload(b, s, v))
        /\ n = "dup" => Among(jvm_function_dup(s, v))
        /\ n = "ineg" => Among(_jvm_function_apply_integer_function(s, v))
        /\ n \notin {"istore", "iload", "bipush", "dup", "ineg"}
             => Among(_jvm_function_apply_two_integer_function(n, s, v))
    BY Zenon DEF Outcomes
  <1>. QED
    BY <1>3, <1>4, <1>5, <1>6, <1>7, <1>8, <1>9

(* The operands and the variables of the loop. *)
Operands ==
  /\ program \in Programs
  /\ stack \in Seq(Int_t) /\ vec \in VectorType

(* No operand at the start, and a vector of zeros. *)
LEMMA InitOperands == Init => Operands
  <1>. SUFFICES ASSUME Init PROVE Operands
    OBVIOUS
  <1>1. PICK n \in VectorSizes :
          vec \in {[size |-> n, data |-> d] :
                     d \in (IF n >= 0 THEN {[k \in 0 .. n - 1 |-> 0]} ELSE {}) \cup
                           (IF n < 0 \/ MemoryFails THEN {<< >>} ELSE {})}
    BY DEF Init, Vectors
  <1>2. PICK d \in {[k \in 0 .. n - 1 |-> 0]} \cup {<< >>} : vec = [size |-> n, data |-> d]
    BY <1>1
  <1>3. d = << >> \/ d \in [0 .. n - 1 -> Int_t]
    <2>1. 0 \in Int_t
      BY SmallInts
    <2>. HIDE DEF Int_t
    <2>2. [k \in 0 .. n - 1 |-> 0] \in [0 .. n - 1 -> Int_t]
      BY <2>1
    <2>. QED
      BY <1>2, <2>2
  <1>4. vec \in VectorType
    BY <1>2, <1>3, VectorMade
  <1>. QED
    BY <1>4 DEF Init, Operands

(* Only an instruction changes the operands, and it leaves ints. *)
LEMMA OperandsKept ==
  ASSUME Place, Operands, [Next]_vars
  PROVE  Operands'
  <1>. USE DEF Operands, state
  <1>1. VectorType' = VectorType /\ Int_t' = Int_t
    OBVIOUS
  <1>2. ASSUME NEW n \in 1 .. CHUNK_SIZE, ReceiveChunk(n) PROVE Operands'
    BY <1>2 DEF ReceiveChunk
  <1>3. CASE NoChunk
    BY <1>3 DEF NoChunk
  <1>4. CASE ChunkDone
    BY <1>4 DEF ChunkDone
  <1>5. CASE UnknownByteCode
    BY <1>5 DEF UnknownByteCode
  <1>6. CASE MissingByte
    BY <1>6 DEF MissingByte
  <1>7. ASSUME NEW n \in Names, NEW last \in 1 .. Len(chunk), Execute(n, last), UNCHANGED program
        PROVE  Operands'
    <2>1. PICK o \in Outcomes(n, chunk[last], stack, vec) :
            IF o.killed THEN UNCHANGED <<stack, vec>> ELSE stack' = o.stack /\ vec' = o.vec
      BY <1>7, Zenon DEF Execute
    <2>2. chunk[last] \in Byte
      BY DEF Place
    <2>3. Leaves(o)
      BY <2>1, <2>2, OutcomeProperties
    <2>4. CASE o.killed
      BY <1>7, <2>1, <2>4
    <2>5. CASE ~o.killed
      BY <1>7, <2>1, <2>3, <2>5 DEF Leaves
    <2>. QED
      BY <2>4, <2>5
  <1>8. CASE RunWithByte
    <2>1. i + 2 \in 1 .. Len(chunk)
      BY <1>8 DEF RunWithByte, Running, Place
    <2>. QED
      BY <1>7, <1>8, <2>1, NameProperties DEF RunWithByte
  <1>9. CASE RunAlone
    <2>1. i + 1 \in 1 .. Len(chunk)
      BY <1>9 DEF RunAlone, Running, Place
    <2>. QED
      BY <1>7, <1>9, <2>1, NameProperties DEF RunAlone
  <1>10. CASE UNCHANGED vars
    BY <1>10 DEF vars
  <1>. QED
    BY <1>2, <1>3, <1>4, <1>5, <1>6, <1>8, <1>9, <1>10 DEF Next

(* Operands and variables fit an int, whatever its width, the program and    *)
(* its chunks, and the vector keeps the elements it was created with.        *)
THEOREM OperandsFitAnInt == Spec => []TypeOK
  <1>1. (Place /\ Traced /\ Operands) /\ [Next]_vars => (Place /\ Traced /\ Operands)'
    BY PlaceKept, TracedKept, OperandsKept
  <1>2. Place /\ Traced /\ Operands => TypeOK
    <2>. SUFFICES ASSUME Place, Traced, Operands PROVE TypeOK
      OBVIOUS
    <2>1. done \in 0 .. received
      <3>1. CASE error
        BY <3>1 DEF Place
      <3>2. CASE ~error
        BY <3>2 DEF Place
      <3>. QED
        BY <3>1, <3>2
    <2>2. vec.size \in VectorSizes /\ (vec.data = << >> \/ vec.data \in [0 .. vec.size - 1 -> Int_t])
      BY VectorProperties DEF Operands
    <2>. QED
      BY <2>1, <2>2 DEF TypeOK, Place, Traced, Operands
  <1>. QED
    BY InitPlace, InitOperands, <1>1, <1>2, PTL DEF Spec
=============================================================================
