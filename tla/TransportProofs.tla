--------------------------- MODULE TransportProofs --------------------------
(***************************************************************************)
(* Proofs about Transport for all sizes, capacities and lengths.           *)
(***************************************************************************)
EXTENDS Transport, SharedLemmas, SequenceTheorems

(* The call of socket_send in progress has taken no more than it was given; *)
(* after the shutdown there is none.                                        *)
SenderInv ==
  /\ sndPc # "idle" => snd.sent <= snd.size
  /\ fin => sndPc = "idle"

(* The bytes in flight are the next ones, and unless the connection broke   *)
(* they are all that was accepted and not read.                             *)
WireInv ==
  /\ \A i \in 1 .. Len(wire) : wire[i] = taken + i
  /\ taken + Len(wire) <= Accepted
  /\ ~broken => taken + Len(wire) = Accepted

(* The buffer of the socket_recv in progress holds the last bytes read; the *)
(* counted ones are all of it until the loop ends, and what the repeated    *)
(* answer left uncounted is at most the answer before it.                   *)
BufferInv ==
  rcvPc = "call" =>
    /\ rcv.chunk > 0
    /\ rcv.s <= rcv.received
    /\ rcv.received <= Len(buffer)
    /\ Len(buffer) <= rcv.received + rcv.s
    /\ RecvLooping(rcv) => Len(buffer) = rcv.received
    /\ Len(buffer) <= taken
    /\ \A i \in 1 .. Len(buffer) : buffer[i] = taken - Len(buffer) + i

(* The bytes read in earlier calls. *)
Before == IF rcvPc = "call" THEN taken - Len(buffer) ELSE taken

DeliveredInv ==
  /\ \A i, j \in 1 .. Len(delivered) : i < j => delivered[i] < delivered[j]
  /\ \A i \in 1 .. Len(delivered) : delivered[i] <= Before
  /\ ~broken /\ rcvPc # "stopped" => Before <= 2 * Len(delivered)
  /\ rcvPc = "stopped" => broken
  /\ rcvPc = "call" /\ ~rcv.result => broken

EndInv ==
  /\ eof => fin /\ wire = << >>
  /\ rcvPc = "call" /\ ~RecvLooping(rcv) /\ RecvResult(rcv) = 0 => fin /\ wire = << >>

IInv == TypeOK /\ SenderInv /\ WireInv /\ BufferInv /\ DeliveredInv /\ EndInv

-----------------------------------------------------------------------------
(* A run of bytes, by their positions. *)
LEMMA BytesProperties ==
  ASSUME NEW p \in Nat, NEW n \in Nat
  PROVE  /\ Bytes(p, n) \in Seq(Nat)
         /\ Len(Bytes(p, n)) = n
         /\ \A i \in 1 .. n : Bytes(p, n)[i] = p + i
  BY DEF Bytes

(* A prefix and a suffix of a sequence, as recv() and a reset cut them. *)
LEMMA CutProperties ==
  ASSUME NEW s \in Seq(Nat), NEW n \in 0 .. Len(s)
  PROVE  /\ SubSeq(s, 1, n) \in Seq(Nat)
         /\ Len(SubSeq(s, 1, n)) = n
         /\ \A i \in 1 .. n : SubSeq(s, 1, n)[i] = s[i]
         /\ SubSeq(s, n + 1, Len(s)) \in Seq(Nat)
         /\ Len(SubSeq(s, n + 1, Len(s))) = Len(s) - n
         /\ \A i \in 1 .. Len(s) - n : SubSeq(s, n + 1, Len(s))[i] = s[n + i]
  <1>1. \A i \in 1 .. Len(s) : s[i] \in Nat
    BY ElementOfSeq
  <1>2. Len(s) \in Nat
    BY LenProperties
  <1>3. /\ SubSeq(s, 1, n) \in Seq(Nat)
        /\ Len(SubSeq(s, 1, n)) = n
        /\ \A i \in 1 .. n : SubSeq(s, 1, n)[i] = s[i]
    BY <1>1, <1>2, SubSeqProperties
  <1>4. /\ SubSeq(s, n + 1, Len(s)) \in Seq(Nat)
        /\ Len(SubSeq(s, n + 1, Len(s))) = Len(s) - n
        /\ \A i \in 1 .. Len(s) - n : SubSeq(s, n + 1, Len(s))[i] = s[n + i]
    BY <1>1, <1>2, SubSeqProperties
  <1>. QED BY <1>3, <1>4

(* Nothing is written, in flight or read. *)
LEMMA InitIInv == Init => IInv
  <1> SUFFICES ASSUME Init PROVE IInv
    OBVIOUS
  <1>1. << >> \in Seq(Nat) /\ Len(<< >>) = 0
    BY EmptySeq
  <1>2. TypeOK
    BY <1>1, SendCallProperties, RecvCallProperties DEF Init, TypeOK, CallStates
  <1>3. SenderInv /\ WireInv /\ BufferInv /\ DeliveredInv /\ EndInv
    BY <1>1 DEF Init, SenderInv, WireInv, BufferInv, DeliveredInv, EndInv, Before, Accepted
  <1>. QED BY <1>2, <1>3 DEF IInv

(* A step of the sender that leaves the kernel alone keeps what is said of *)
(* the receiver, and what is said of the wire if it keeps Accepted.        *)
LEMMA SenderFrame ==
  ASSUME IInv, UNCHANGED <<wire, taken, broken, receiver>>, fin => fin',
         TypeOK', SenderInv', Accepted' = Accepted
  PROVE  IInv'
  <1>1. WireInv'
    BY DEF IInv, WireInv
  <1>2. BufferInv' /\ DeliveredInv'
    BY DEF IInv, BufferInv, DeliveredInv, Before, receiver
  <1>3. EndInv'
    BY DEF IInv, EndInv, receiver
  <1>. QED BY <1>1, <1>2, <1>3 DEF IInv

(* A call of socket_send begins with nothing sent. *)
LEMMA SendStartStep ==
  ASSUME IInv, NEW size \in Sizes, SendStart(size)
  PROVE  IInv'
  <1>1. size \in Nat
    BY TransportAssumption
  <1>2. TypeOK'
    BY <1>1, SendCallProperties DEF IInv, SendStart, TypeOK, kernel, receiver, CallStates
  <1>3. SenderInv' /\ Accepted' = Accepted
    BY <1>1, SendCallProperties DEF IInv, SendStart, SenderInv, Accepted, TypeOK, kernel
  <1>. QED BY <1>2, <1>3, SenderFrame DEF SendStart, kernel

(* A send() that fails sends nothing. *)
LEMMA SendFailsStep ==
  ASSUME IInv, SendFails
  PROVE  IInv'
  <1>1. /\ snd' \in SendCalls /\ snd'.size = snd.size /\ snd'.sent = snd.sent
    <2>1. snd \in SendCalls /\ snd' = SendStep(snd, -1)
      BY DEF SendFails, IInv, TypeOK
    <2>. QED BY <2>1, SendStepProperties
  <1>2. TypeOK'
    BY <1>1 DEF IInv, SendFails, TypeOK, kernel, receiver
  <1>3. SenderInv' /\ Accepted' = Accepted
    BY <1>1 DEF IInv, SendFails, SenderInv, Accepted, kernel
  <1>. QED BY <1>2, <1>3, SenderFrame DEF SendFails, kernel

(* A return of socket_send ends the call. *)
LEMMA SendReturnStep ==
  ASSUME IInv, SendReturn
  PROVE  IInv'
  <1> USE DEF SendReturn, SendResult, SOCKET_CONNECTION_ERROR
  <1>1. snd.sent \in Nat /\ snd.valid \in BOOLEAN /\ written \in Nat
    BY SendCallProperties DEF IInv, TypeOK
  <1>2. TypeOK'
    BY <1>1 DEF IInv, TypeOK, kernel, receiver, CallStates
  <1>3. SenderInv' /\ Accepted' = Accepted
    BY <1>1 DEF IInv, SenderInv, Accepted, kernel
  <1>. QED BY <1>2, <1>3, SenderFrame DEF kernel

(* No call of socket_send is cut by the shutdown. *)
LEMMA ShutdownStep ==
  ASSUME IInv, Shutdown
  PROVE  IInv'
  <1>1. TypeOK'
    BY DEF IInv, Shutdown, TypeOK, sender, receiver
  <1>2. SenderInv' /\ Accepted' = Accepted
    BY DEF IInv, Shutdown, SenderInv, Accepted, sender
  <1>. QED BY <1>1, <1>2, SenderFrame DEF Shutdown

(* The bytes accepted are the next ones of the buffer, put behind those in flight. *)
LEMMA SendAcceptStep ==
  ASSUME IInv, NEW k \in 1 .. MaxBytes, SendAccept(k)
  PROVE  IInv'
  <1>1. k \in Nat /\ k > 0 /\ snd.size \in Nat /\ snd.sent \in Nat /\ written \in Nat
    BY TransportAssumption, SendCallProperties DEF IInv, TypeOK
  <1>2. /\ sndPc = "call" /\ sndPc' = "call" /\ ~fin /\ ~broken /\ snd.sent + k <= snd.size
        /\ UNCHANGED <<taken, fin, broken, written, receiver>>
    BY <1>1 DEF SendAccept, IInv, SenderInv
  <1>3. snd' \in SendCalls /\ snd'.size = snd.size /\ snd'.sent = snd.sent + k
    <2>1. snd \in SendCalls /\ snd' = SendStep(snd, k)
      BY DEF SendAccept, IInv, TypeOK
    <2>2. /\ SendStep(snd, k) \in SendCalls
          /\ SendStep(snd, k).size = snd.size /\ SendStep(snd, k).sent = snd.sent + k
      <3>1. snd \in SendCalls /\ k \in Int /\ k > 0
        BY <1>1, <2>1
      <3>. QED BY ONLY <3>1, SendStepProperties
    <2>. QED BY <2>1, <2>2
  <1>4. PICK new \in Seq(Nat) :
          /\ new = Bytes(written + snd.sent, k)
          /\ Len(new) = k
          /\ \A i \in 1 .. k : new[i] = written + snd.sent + i
    <2>1. PICK p \in Nat : p = written + snd.sent
      BY <1>1
    <2>2. /\ Bytes(p, k) \in Seq(Nat)
          /\ Len(Bytes(p, k)) = k
          /\ \A i \in 1 .. k : Bytes(p, k)[i] = p + i
      BY <1>1, <2>1, BytesProperties
    <2>. QED BY <2>1, <2>2
  <1>5. wire \in Seq(Nat) /\ Len(wire) \in Nat /\ taken \in Nat
    BY LenProperties DEF IInv, TypeOK
  <1>6. /\ wire' \in Seq(Nat)
        /\ Len(wire') = Len(wire) + k
        /\ \A i \in 1 .. Len(wire) + k :
             wire'[i] = IF i <= Len(wire) THEN wire[i] ELSE new[i - Len(wire)]
    <2>1. wire' = wire \o new
      BY <1>4 DEF SendAccept
    <2>2. /\ wire \o new \in Seq(Nat) /\ Len(wire \o new) = Len(wire) + Len(new)
          /\ \A i \in 1 .. Len(wire) + Len(new) :
               (wire \o new)[i] = IF i <= Len(wire) THEN wire[i] ELSE new[i - Len(wire)]
      BY <1>5, ConcatProperties
    <2>. QED BY <2>1, <2>2, <1>4
  <1>7. taken + Len(wire) = written + snd.sent
    BY <1>2 DEF IInv, WireInv, Accepted
  <1>8. TypeOK'
    BY <1>2, <1>3, <1>6 DEF IInv, TypeOK, receiver
  <1>9. WireInv'
    <2>1. \A i \in 1 .. Len(wire') : wire'[i] = taken + i
      <3> SUFFICES ASSUME NEW i \in 1 .. Len(wire) + k
                   PROVE  wire'[i] = taken + i
        BY <1>6
      <3>1. CASE i <= Len(wire)
        <4>1. wire'[i] = wire[i] /\ i \in 1 .. Len(wire)
          BY <3>1, <1>1, <1>5, <1>6
        <4>. QED BY <4>1 DEF IInv, WireInv
      <3>2. CASE i > Len(wire)
        <4>1. i - Len(wire) \in 1 .. k
          BY <3>2, <1>1, <1>5
        <4>2. new[i - Len(wire)] = written + snd.sent + (i - Len(wire))
          BY <4>1, <1>4
        <4>3. wire'[i] = new[i - Len(wire)]
          BY <3>2, <1>1, <1>5, <1>6
        <4>. QED BY <4>2, <4>3, <1>1, <1>5, <1>7
      <3>. QED BY <3>1, <3>2, <1>5
    <2>2. Accepted' = written + snd.sent + k
      BY <1>1, <1>2, <1>3 DEF Accepted
    <2>3. taken + Len(wire') = Accepted' /\ Accepted' \in Nat
      <3>1. Len(wire') = Len(wire) + k
        BY <1>6
      <3>2. taken + (Len(wire) + k) = written + snd.sent + k /\ written + snd.sent + k \in Nat
        BY <1>1, <1>5, <1>7
      <3>. QED BY <2>2, <3>1, <3>2
    <2>. QED BY <2>1, <2>3, <1>2 DEF WireInv
  <1>10. SenderInv'
    BY <1>1, <1>2, <1>3 DEF SenderInv
  <1>11. BufferInv' /\ DeliveredInv'
    BY <1>2 DEF IInv, BufferInv, DeliveredInv, Before, receiver
  <1>12. EndInv'
    BY <1>2 DEF IInv, EndInv, receiver
  <1>. QED BY <1>8, <1>9, <1>10, <1>11, <1>12 DEF IInv

-----------------------------------------------------------------------------
(* A step of the receiver that leaves the kernel alone keeps what is said of *)
(* the sender and of the wire.                                               *)
LEMMA ReceiverFrame ==
  ASSUME IInv, UNCHANGED <<kernel, sender>>
  PROVE  SenderInv' /\ WireInv'
  BY DEF IInv, SenderInv, WireInv, Accepted, kernel, sender

(* A call of socket_recv begins with an empty buffer. *)
LEMMA RecvStartStep ==
  ASSUME IInv, NEW want \in Wants, RecvStart(want)
  PROVE  IInv'
  <1>1. want \in Nat /\ want > 0
    BY TransportAssumption
  <1>2. /\ rcv' \in RecvCalls /\ rcv'.chunk = want /\ rcv'.received = 0 /\ rcv'.s = 0
        /\ rcv'.result /\ RecvLooping(rcv')
    BY <1>1, RecvCallProperties DEF RecvStart
  <1>3. buffer' = << >> /\ buffer' \in Seq(Nat) /\ Len(buffer') = 0 /\ taken \in Nat
    BY EmptySeq DEF RecvStart, IInv, TypeOK
  <1>4. rcvPc = "idle" /\ rcvPc' = "call" /\ UNCHANGED <<kernel, sender, delivered, eof>>
    BY DEF RecvStart
  <1>5. TypeOK'
    BY <1>2, <1>3, <1>4 DEF IInv, TypeOK, kernel, sender, CallStates
  <1>6. SenderInv' /\ WireInv'
    BY <1>4, ReceiverFrame
  <1>7. BufferInv'
    BY <1>1, <1>2, <1>3, <1>4 DEF BufferInv, kernel
  <1>8. Before' = Before
    BY <1>3, <1>4 DEF Before, kernel
  <1>9. DeliveredInv'
    BY <1>2, <1>4, <1>8 DEF IInv, DeliveredInv, kernel
  <1>10. EndInv'
    BY <1>2, <1>4 DEF IInv, EndInv, kernel
  <1>. QED BY <1>5, <1>6, <1>7, <1>9, <1>10 DEF IInv

(* What recv() takes from the wire continues the buffer. *)
LEMMA TakeProperties ==
  ASSUME IInv, NEW n \in 1 .. MaxBytes, RecvTake(n)
  PROVE  /\ taken' = taken + n /\ wire' \in Seq(Nat) /\ buffer' \in Seq(Nat)
         /\ Len(wire') = Len(wire) - n
         /\ \A i \in 1 .. Len(wire') : wire'[i] = taken' + i
         /\ Len(buffer') = Len(buffer) + n
         /\ \A i \in 1 .. Len(buffer') : buffer'[i] = taken' - Len(buffer') + i
  <1>1. /\ wire \in Seq(Nat) /\ Len(wire) \in Nat /\ taken \in Nat
        /\ buffer \in Seq(Nat) /\ Len(buffer) \in Nat /\ n \in Nat /\ n > 0
    BY TransportAssumption, LenProperties DEF IInv, TypeOK
  <1>2. n \in 0 .. Len(wire) /\ taken' = taken + n /\ wire' = SubSeq(wire, n + 1, Len(wire))
    BY <1>1 DEF RecvTake
  <1>3. \A i \in 1 .. Len(wire) : wire[i] = taken + i
    BY DEF IInv, WireInv
  <1>4. /\ Len(buffer) = rcv.received
        /\ \A i \in 1 .. Len(buffer) : buffer[i] = taken - Len(buffer) + i
    BY DEF IInv, BufferInv, RecvTake
  <1>5. /\ wire' \in Seq(Nat) /\ Len(wire') = Len(wire) - n
        /\ \A i \in 1 .. Len(wire) - n : wire'[i] = wire[n + i]
    BY <1>1, <1>2, CutProperties
  <1>6. \A i \in 1 .. Len(wire') : wire'[i] = taken' + i
    <2> SUFFICES ASSUME NEW i \in 1 .. Len(wire')
                 PROVE  wire'[i] = taken' + i
      OBVIOUS
    <2>1. n + i \in 1 .. Len(wire) /\ i \in 1 .. Len(wire) - n
      BY <1>1, <1>2, <1>5
    <2>2. wire'[i] = taken + (n + i)
      BY <2>1, <1>3, <1>5
    <2>. QED BY <2>2, <1>1, <1>2
  <1>7. PICK old \in Seq(Nat), new \in Seq(Nat) :
          /\ buffer' = old \o new
          /\ Len(old) = Len(buffer) /\ \A i \in 1 .. Len(buffer) : old[i] = buffer[i]
          /\ Len(new) = n /\ \A i \in 1 .. n : new[i] = wire[i]
    <2>1. buffer' = SubSeq(buffer, 1, Len(buffer)) \o SubSeq(wire, 1, n)
      BY <1>4 DEF RecvTake
    <2>2. Len(buffer) \in 0 .. Len(buffer)
      BY <1>1
    <2>3. /\ SubSeq(buffer, 1, Len(buffer)) \in Seq(Nat)
          /\ Len(SubSeq(buffer, 1, Len(buffer))) = Len(buffer)
          /\ \A i \in 1 .. Len(buffer) : SubSeq(buffer, 1, Len(buffer))[i] = buffer[i]
      BY <1>1, <2>2, CutProperties
    <2>4. /\ SubSeq(wire, 1, n) \in Seq(Nat) /\ Len(SubSeq(wire, 1, n)) = n
          /\ \A i \in 1 .. n : SubSeq(wire, 1, n)[i] = wire[i]
      BY <1>1, <1>2, CutProperties
    <2>. QED BY <2>1, <2>3, <2>4
  <1>8. /\ buffer' \in Seq(Nat) /\ Len(buffer') = Len(buffer) + n
        /\ \A i \in 1 .. Len(buffer) + n :
             buffer'[i] = IF i <= Len(buffer) THEN old[i] ELSE new[i - Len(buffer)]
    <2>1. /\ old \o new \in Seq(Nat) /\ Len(old \o new) = Len(old) + Len(new)
          /\ \A i \in 1 .. Len(old) + Len(new) :
               (old \o new)[i] = IF i <= Len(old) THEN old[i] ELSE new[i - Len(old)]
      BY ConcatProperties
    <2>. QED BY <2>1, <1>7
  <1>9. ASSUME NEW i \in 1 .. Len(buffer')
        PROVE  buffer'[i] = taken' - Len(buffer') + i
    <2>1. taken' - Len(buffer') = taken - Len(buffer) /\ i \in 1 .. Len(buffer) + n
      BY <1>1, <1>2, <1>8
    <2>2. CASE i <= Len(buffer)
      <3>1. i \in 1 .. Len(buffer)
        BY <2>2, <2>1, <1>1
      <3>2. buffer'[i] = buffer[i]
        BY <2>2, <2>1, <3>1, <1>7, <1>8
      <3>. QED BY <3>1, <3>2, <1>4, <2>1
    <2>3. CASE i > Len(buffer)
      <3>1. i - Len(buffer) \in 1 .. n /\ i - Len(buffer) \in 1 .. Len(wire)
        BY <2>3, <2>1, <1>1, <1>2
      <3>2. new[i - Len(buffer)] = taken + (i - Len(buffer))
        BY <3>1, <1>3, <1>7
      <3>3. buffer'[i] = new[i - Len(buffer)]
        BY <2>3, <2>1, <1>1, <1>8
      <3>. QED BY <3>2, <3>3, <2>1, <1>1
    <2>. QED BY <2>1, <2>2, <2>3, <1>1
  <1>. QED BY <1>2, <1>5, <1>6, <1>8, <1>9

(* The bytes taken are the next ones, put behind those counted so far. *)
LEMMA RecvTakeStep ==
  ASSUME IInv, NEW n \in 1 .. MaxBytes, RecvTake(n)
  PROVE  IInv'
  <1>1. n \in Nat /\ n > 0
    BY TransportAssumption
  <1>2. /\ taken' = taken + n /\ wire' \in Seq(Nat) /\ buffer' \in Seq(Nat)
        /\ Len(wire') = Len(wire) - n
        /\ \A i \in 1 .. Len(wire') : wire'[i] = taken' + i
        /\ Len(buffer') = Len(buffer) + n
        /\ \A i \in 1 .. Len(buffer') : buffer'[i] = taken' - Len(buffer') + i
    BY TakeProperties
  <1>3. /\ Len(wire) \in Nat /\ Len(buffer) \in Nat /\ taken \in Nat
        /\ rcv \in RecvCalls /\ rcv.chunk \in Nat /\ rcv.received \in Nat /\ rcv.s \in Nat
    BY LenProperties, RecvCallProperties DEF IInv, TypeOK
  <1>4. /\ rcvPc = "call" /\ rcvPc' = "call" /\ RecvLooping(rcv) /\ n <= Len(wire)
        /\ rcv' = RecvStep(rcv, n)
        /\ UNCHANGED <<fin, broken, sender, delivered, eof>>
    BY DEF RecvTake
  <1>5. /\ rcv.chunk > 0 /\ rcv.s <= rcv.received
        /\ Len(buffer) = rcv.received /\ Len(buffer) <= taken
    BY <1>4 DEF IInv, BufferInv
  <1>6. /\ rcv' \in RecvCalls /\ rcv'.chunk = rcv.chunk /\ rcv'.result = rcv.result
        /\ \/ n = rcv.s /\ rcv'.received = rcv.received /\ rcv'.s = rcv.s /\ ~RecvLooping(rcv')
           \/ rcv'.received = rcv.received + n /\ rcv'.s = n
    <2>1. CASE n = rcv.s
      BY <2>1, <1>3, <1>4, RecvRepeated
    <2>2. CASE n # rcv.s
      BY <2>2, <1>1, <1>3, <1>4, RecvCounted
    <2>. QED BY <2>1, <2>2
  <1>7. /\ rcv'.received \in Nat /\ rcv'.received > 0
        /\ rcv'.s <= rcv'.received /\ rcv'.received <= Len(buffer')
        /\ Len(buffer') <= rcv'.received + rcv'.s
        /\ RecvLooping(rcv') => Len(buffer') = rcv'.received
    <2>1. Len(buffer') = Len(buffer) + n
      BY <1>2
    <2>2. CASE n = rcv.s /\ rcv'.received = rcv.received /\ rcv'.s = rcv.s /\ ~RecvLooping(rcv')
      BY <2>1, <2>2, <1>1, <1>3, <1>5
    <2>3. CASE rcv'.received = rcv.received + n /\ rcv'.s = n
      BY <2>1, <2>3, <1>1, <1>3, <1>5
    <2>. QED BY <2>2, <2>3, <1>6
  <1>8. TypeOK'
    <2>1. taken' \in Nat
      BY <1>1, <1>2, <1>3
    <2>. QED BY <2>1, <1>2, <1>4, <1>6 DEF IInv, TypeOK, sender
  <1>9. SenderInv'
    BY <1>4 DEF IInv, SenderInv, sender
  <1>10. WireInv'
    <2>1. Accepted' = Accepted
      BY <1>4 DEF Accepted, sender
    <2>2. taken' + Len(wire') = taken + Len(wire)
      BY <1>1, <1>2, <1>3
    <2>. QED BY <2>1, <2>2, <1>2, <1>4 DEF IInv, WireInv
  <1>11. BufferInv'
    <2>1. Len(buffer') <= taken'
      BY <1>1, <1>2, <1>3, <1>5
    <2>. QED BY <2>1, <1>2, <1>5, <1>6, <1>7 DEF BufferInv
  <1>12. DeliveredInv'
    <2>1. Before' = Before
      BY <1>1, <1>2, <1>3, <1>4 DEF Before
    <2>. QED BY <2>1, <1>4, <1>6 DEF IInv, DeliveredInv
  <1>13. EndInv'
    <2>1. ~eof'
      <3>1. ~(wire = << >>)
        BY <1>1, <1>3, <1>4, EmptySeq
      <3>. QED BY <3>1, <1>4 DEF IInv, EndInv
    <2>2. RecvResult(rcv') # 0
      BY <1>7 DEF RecvResult, SOCKET_CONNECTION_ERROR
    <2>. QED BY <2>1, <2>2 DEF EndInv
  <1>. QED BY <1>8, <1>9, <1>10, <1>11, <1>12, <1>13 DEF IInv

(* recv() answers 0 or -1: the loop of socket_recv ends, its buffer stays. *)
LEMMA RecvEndsFrame ==
  ASSUME IInv, rcvPc = "call", RecvLooping(rcv),
         UNCHANGED <<kernel, sender, rcvPc, buffer, delivered, eof>>,
         rcv' \in RecvCalls, rcv'.chunk = rcv.chunk, rcv'.received = rcv.received,
         rcv'.s = rcv.s, ~RecvLooping(rcv'),
         rcv'.result \/ broken,
         RecvResult(rcv') = 0 => fin /\ wire = << >>
  PROVE  IInv'
  <1>1. TypeOK'
    BY DEF IInv, TypeOK, kernel, sender
  <1>2. SenderInv' /\ WireInv'
    BY ReceiverFrame
  <1>3. BufferInv'
    BY DEF IInv, BufferInv, kernel
  <1>4. Before' = Before
    BY DEF Before, kernel
  <1>5. DeliveredInv'
    BY <1>4 DEF IInv, DeliveredInv, kernel
  <1>6. EndInv'
    BY DEF IInv, EndInv, kernel
  <1>. QED BY <1>1, <1>2, <1>3, <1>5, <1>6 DEF IInv

(* An answer 0: nothing is taken and the stream is at its end. *)
LEMMA RecvEofStep ==
  ASSUME IInv, RecvEof
  PROVE  IInv'
  <1>1. /\ rcv \in RecvCalls /\ rcvPc = "call" /\ RecvLooping(rcv) /\ fin /\ wire = << >>
        /\ rcv' = RecvStep(rcv, 0)
        /\ UNCHANGED <<kernel, sender, rcvPc, buffer, delivered, eof>>
    BY DEF IInv, TypeOK, RecvEof
  <1>2. /\ rcv' \in RecvCalls /\ rcv'.chunk = rcv.chunk /\ rcv'.received = rcv.received
        /\ rcv'.s = rcv.s /\ rcv'.result = rcv.result /\ ~RecvLooping(rcv')
    <2>1. CASE rcv.s = 0
      BY <2>1, <1>1, RecvRepeated
    <2>2. CASE rcv.s # 0
      BY <2>2, <1>1, RecvClosed
    <2>. QED BY <2>1, <2>2
  <1>3. rcv'.result \/ broken
    BY <1>1, <1>2 DEF IInv, DeliveredInv
  <1>. QED BY <1>1, <1>2, <1>3, RecvEndsFrame

(* An answer -1: nothing is taken. *)
LEMMA RecvFailsStep ==
  ASSUME IInv, RecvFails
  PROVE  IInv'
  <1>1. /\ rcv \in RecvCalls /\ rcvPc = "call" /\ RecvLooping(rcv) /\ broken
        /\ rcv' = RecvStep(rcv, -1)
        /\ UNCHANGED <<kernel, sender, rcvPc, buffer, delivered, eof>>
    BY DEF IInv, TypeOK, RecvFails
  <1>2. /\ rcv' \in RecvCalls /\ rcv'.chunk = rcv.chunk /\ rcv'.received = rcv.received
        /\ rcv'.s = rcv.s /\ ~rcv'.result /\ ~RecvLooping(rcv')
    BY <1>1, RecvFailed
  <1>3. RecvResult(rcv') # 0
    BY <1>2 DEF RecvResult, SOCKET_CONNECTION_ERROR
  <1>. QED BY <1>1, <1>2, <1>3, RecvEndsFrame

(* What is returned continues what was returned before. *)
LEMMA RecvReturnStep ==
  ASSUME IInv, RecvReturn
  PROVE  IInv'
  <1>1. /\ rcv \in RecvCalls /\ rcv.received \in Nat /\ rcv.s \in Nat
        /\ taken \in Nat /\ buffer \in Seq(Nat) /\ Len(buffer) \in Nat
        /\ delivered \in Seq(Nat) /\ Len(delivered) \in Nat
    BY LenProperties, RecvCallProperties DEF IInv, TypeOK
  <1>2. /\ rcvPc = "call" /\ ~RecvLooping(rcv) /\ rcvPc' # "call"
        /\ UNCHANGED <<kernel, sender, rcv, buffer>>
    BY DEF RecvReturn
  <1>3. /\ rcv.s <= rcv.received /\ rcv.received <= Len(buffer)
        /\ Len(buffer) <= rcv.received + rcv.s /\ Len(buffer) <= taken
        /\ \A i \in 1 .. Len(buffer) : buffer[i] = taken - Len(buffer) + i
    BY <1>2 DEF IInv, BufferInv
  <1>4. Before = taken - Len(buffer) /\ Before' = taken
    BY <1>2 DEF Before, kernel
  <1>5. /\ \A i, j \in 1 .. Len(delivered) : i < j => delivered[i] < delivered[j]
        /\ \A i \in 1 .. Len(delivered) : delivered[i] <= Before
        /\ ~broken => Before <= 2 * Len(delivered)
        /\ ~rcv.result => broken
    BY <1>2 DEF IInv, DeliveredInv
  <1>6. SenderInv' /\ WireInv' /\ BufferInv'
    BY <1>2, ReceiverFrame DEF BufferInv
  <1>7. \A i \in 1 .. Len(delivered) : delivered[i] \in Nat
    BY <1>1, ElementOfSeq
  <1>8. CASE RecvResult(rcv) = SOCKET_CONNECTION_ERROR
    <2>1. rcvPc' = "stopped" /\ UNCHANGED <<delivered, eof>>
      BY <1>8 DEF RecvReturn
    <2>2. ~rcv.result
      BY <1>1, <1>8 DEF RecvResult, SOCKET_CONNECTION_ERROR
    <2>3. TypeOK'
      BY <1>2, <2>1 DEF IInv, TypeOK, kernel, sender, CallStates
    <2>4. \A i \in 1 .. Len(delivered) : delivered[i] <= taken
      BY <1>1, <1>4, <1>5, <1>7
    <2>5. DeliveredInv'
      BY <1>2, <1>4, <1>5, <2>1, <2>2, <2>4 DEF DeliveredInv, kernel
    <2>6. EndInv'
      BY <1>2, <2>1 DEF IInv, EndInv, kernel
    <2>. QED BY <1>6, <2>3, <2>5, <2>6 DEF IInv
  <1>9. CASE RecvResult(rcv) # SOCKET_CONNECTION_ERROR
    <2>1. RecvResult(rcv) = rcv.received
      BY <1>9 DEF RecvResult
    <2>2. /\ rcvPc' = "idle" /\ delivered' = delivered \o SubSeq(buffer, 1, rcv.received)
          /\ eof' = (eof \/ RecvResult(rcv) = 0)
      BY <1>9, <2>1 DEF RecvReturn
    <2>3. PICK new \in Seq(Nat) :
            /\ new = SubSeq(buffer, 1, rcv.received)
            /\ Len(new) = rcv.received
            /\ \A i \in 1 .. rcv.received : new[i] = buffer[i]
      <3>1. rcv.received \in 0 .. Len(buffer)
        BY <1>1, <1>3
      <3>. QED BY <3>1, <1>1, CutProperties
    <2>4. /\ delivered \o new \in Seq(Nat)
          /\ Len(delivered \o new) = Len(delivered) + Len(new)
          /\ \A i \in 1 .. Len(delivered) + Len(new) : (delivered \o new)[i] =
               IF i <= Len(delivered) THEN delivered[i] ELSE new[i - Len(delivered)]
      BY <1>1, ConcatProperties
    <2>5. /\ delivered' \in Seq(Nat) /\ Len(delivered') = Len(delivered) + rcv.received
          /\ \A i \in 1 .. Len(delivered) + rcv.received : delivered'[i] =
               IF i <= Len(delivered) THEN delivered[i] ELSE new[i - Len(delivered)]
      BY <2>2, <2>3, <2>4
    <2>6. ASSUME NEW i \in 1 .. Len(delivered')
          PROVE  \/ /\ i \in 1 .. Len(delivered) /\ delivered'[i] = delivered[i]
                    /\ delivered'[i] <= Before
                 \/ /\ i - Len(delivered) \in 1 .. rcv.received
                    /\ delivered'[i] = Before + (i - Len(delivered))
      <3>1. CASE i <= Len(delivered)
        <4>1. i \in 1 .. Len(delivered)
          BY <3>1
        <4>2. delivered'[i] = delivered[i]
          BY <2>5, <3>1
        <4>. QED BY <4>1, <4>2, <1>5
      <3>2. CASE i > Len(delivered)
        <4>1. i - Len(delivered) \in 1 .. rcv.received /\ i - Len(delivered) \in 1 .. Len(buffer)
          <5>1. i \in 1 .. Len(delivered) + rcv.received
            BY <2>5
          <5>. QED BY <3>2, <5>1, <1>1, <1>3
        <4>2. delivered'[i] = new[i - Len(delivered)]
          BY <2>5, <3>2, <1>1
        <4>3. new[i - Len(delivered)] = Before + (i - Len(delivered))
          BY <4>1, <2>3, <1>3, <1>4
        <4>. QED BY <4>1, <4>2, <4>3
      <3>. QED BY <3>1, <3>2, <1>1
    <2>7. \A i, j \in 1 .. Len(delivered') : i < j => delivered'[i] < delivered'[j]
      <3> SUFFICES ASSUME NEW i \in 1 .. Len(delivered'), NEW j \in 1 .. Len(delivered'), i < j
                   PROVE  delivered'[i] < delivered'[j]
        OBVIOUS
      <3>1. Before \in Int
        BY <1>1, <1>4
      <3>2. CASE i \in 1 .. Len(delivered) /\ delivered'[i] = delivered[i] /\ delivered'[i] <= Before
        <4>1. delivered'[i] \in Nat
          BY <3>2, <1>7
        <4>2. CASE j \in 1 .. Len(delivered) /\ delivered'[j] = delivered[j]
          BY <3>2, <4>2, <1>5
        <4>3. CASE /\ j - Len(delivered) \in 1 .. rcv.received
                   /\ delivered'[j] = Before + (j - Len(delivered))
          BY <3>1, <3>2, <4>1, <4>3, <1>1
        <4>. QED BY <4>2, <4>3, <2>6
      <3>3. CASE /\ i - Len(delivered) \in 1 .. rcv.received
                 /\ delivered'[i] = Before + (i - Len(delivered))
        <4>1. /\ j - Len(delivered) \in 1 .. rcv.received
              /\ delivered'[j] = Before + (j - Len(delivered))
          BY <3>3, <2>6, <1>1
        <4>. QED BY <3>1, <3>3, <4>1, <1>1
      <3>. QED BY <3>2, <3>3, <2>6
    <2>8. ASSUME NEW i \in 1 .. Len(delivered')
          PROVE  delivered'[i] <= taken
      <3>1. CASE i \in 1 .. Len(delivered) /\ delivered'[i] = delivered[i] /\ delivered'[i] <= Before
        BY <3>1, <1>1, <1>4, <1>7
      <3>2. CASE /\ i - Len(delivered) \in 1 .. rcv.received
                 /\ delivered'[i] = Before + (i - Len(delivered))
        BY <3>2, <1>1, <1>3, <1>4
      <3>. QED BY <3>1, <3>2, <2>6
    <2>9. ~broken => taken <= 2 * Len(delivered')
      BY <2>5, <1>1, <1>3, <1>4, <1>5
    <2>10. TypeOK'
      BY <1>2, <2>2, <2>5 DEF IInv, TypeOK, kernel, sender, CallStates
    <2>11. DeliveredInv'
      BY <1>2, <1>4, <2>2, <2>7, <2>8, <2>9 DEF DeliveredInv, kernel
    <2>12. EndInv'
      BY <1>2, <2>2 DEF IInv, EndInv, kernel
    <2>. QED BY <1>6, <2>10, <2>11, <2>12 DEF IInv
  <1>. QED BY <1>8, <1>9

(* A tail of what is in flight is lost: what is left still begins at taken + 1. *)
LEMMA ResetStep ==
  ASSUME IInv, Reset
  PROVE  IInv'
  <1>1. wire \in Seq(Nat) /\ Len(wire) \in Nat /\ taken \in Nat
    BY LenProperties DEF IInv, TypeOK
  <1>2. broken' /\ UNCHANGED <<taken, fin, sender, receiver>>
    BY DEF Reset
  <1>3. PICK n \in 0 .. Len(wire) : wire' = SubSeq(wire, 1, n)
    BY DEF Reset
  <1>4. /\ wire' \in Seq(Nat) /\ Len(wire') = n
        /\ \A i \in 1 .. n : wire'[i] = wire[i]
    <2>1. /\ SubSeq(wire, 1, n) \in Seq(Nat) /\ Len(SubSeq(wire, 1, n)) = n
          /\ \A i \in 1 .. n : SubSeq(wire, 1, n)[i] = wire[i]
      BY <1>1, CutProperties
    <2>. QED BY <2>1, <1>3
  <1>5. TypeOK'
    <2>1. broken' \in BOOLEAN
      BY DEF Reset
    <2>. QED BY <2>1, <1>2, <1>4 DEF IInv, TypeOK, sender, receiver
  <1>6. SenderInv'
    BY <1>2 DEF IInv, SenderInv, sender
  <1>7. WireInv'
    <2>1. Accepted' = Accepted /\ taken + Len(wire) <= Accepted
      BY <1>2 DEF IInv, WireInv, Accepted, sender
    <2>2. Accepted \in Nat
      BY SendCallProperties DEF IInv, TypeOK, Accepted
    <2>3. taken' + Len(wire') <= Accepted'
      BY <2>1, <2>2, <1>1, <1>2, <1>4
    <2>4. \A i \in 1 .. Len(wire') : wire'[i] = taken' + i
      BY <1>1, <1>2, <1>4 DEF IInv, WireInv
    <2>. QED BY <2>3, <2>4, <1>2 DEF WireInv
  <1>8. BufferInv'
    BY <1>2 DEF IInv, BufferInv, receiver
  <1>9. Before' = Before
    BY <1>2 DEF Before, receiver
  <1>10. DeliveredInv'
    BY <1>2, <1>9 DEF IInv, DeliveredInv, receiver
  <1>11. wire = << >> => wire' = << >>
    BY <1>1, <1>4, EmptySeq
  <1>12. EndInv'
    BY <1>2, <1>11 DEF IInv, EndInv, receiver
  <1>. QED BY <1>5, <1>6, <1>7, <1>8, <1>10, <1>12 DEF IInv

(* Nothing happens. *)
LEMMA StutterStep ==
  ASSUME IInv, UNCHANGED vars
  PROVE  IInv'
  <1>1. SenderInv' /\ WireInv'
    BY ReceiverFrame DEF vars
  <1>2. TypeOK' /\ BufferInv' /\ EndInv'
    BY DEF IInv, TypeOK, BufferInv, EndInv, vars, kernel, sender, receiver
  <1>3. DeliveredInv'
    BY DEF IInv, DeliveredInv, Before, vars, kernel, sender, receiver
  <1>. QED BY <1>1, <1>2, <1>3 DEF IInv

(* The step of the induction. *)
LEMMA NextIInv == IInv /\ [Next]_vars => IInv'
  <1> SUFFICES ASSUME IInv, [Next]_vars PROVE IInv'
    OBVIOUS
  <1>1. CASE Send
    BY <1>1, SendStartStep, SendAcceptStep, SendFailsStep, SendReturnStep, ShutdownStep DEF Send
  <1>2. CASE Recv
    BY <1>2, RecvStartStep, RecvTakeStep, RecvEofStep, RecvFailsStep, RecvReturnStep DEF Recv
  <1>3. CASE Reset
    BY <1>3, ResetStep
  <1>4. CASE UNCHANGED vars
    BY <1>4, StutterStep
  <1>. QED BY <1>1, <1>2, <1>3, <1>4 DEF Next

-----------------------------------------------------------------------------
(* The inductive invariant holds of every behaviour. *)
THEOREM Inductive == Spec => []IInv
  BY InitIInv, NextIInv, PTL DEF Spec

(* The variables of socket_send, socket_recv and the stream keep their types, *)
(* whatever the kernel answers.                                               *)
THEOREM TypeCorrect == Spec => []TypeOK
  <1>1. IInv => TypeOK
    BY DEF IInv
  <1>. QED BY <1>1, Inductive, PTL

(* socket_recv hands bytes out in the order of the calls of socket_send, none *)
(* twice, for all sizes of buffers, chunks and answers of send() and recv().  *)
THEOREM DeliveryInOrder == Spec => []InOrder
  <1>1. IInv => InOrder
    <2> SUFFICES ASSUME IInv PROVE InOrder
      OBVIOUS
    <2>1. Before <= taken /\ Before \in Int /\ taken \in Nat
      BY LenProperties DEF IInv, TypeOK, Before
    <2>2. \A i \in 1 .. Len(delivered) : delivered[i] \in Nat
      BY ElementOfSeq DEF IInv, TypeOK
    <2>. QED BY <2>1, <2>2 DEF IInv, DeliveredInv, InOrder
  <1>. QED BY <1>1, Inductive, PTL

(* The bytes that socket_recv reads and does not count are at most as many as *)
(* the bytes it counts.                                                       *)
THEOREM LossIsBounded == Spec => []AtMostHalfLost
  <1>1. IInv => AtMostHalfLost
    <2> SUFFICES ASSUME IInv, ~broken PROVE taken - Counted <= Counted
      BY DEF AtMostHalfLost
    <2>1. /\ taken \in Nat /\ Len(buffer) \in Nat /\ Len(delivered) \in Nat
          /\ rcv.received \in Nat /\ rcv.s \in Nat
      BY LenProperties, RecvCallProperties DEF IInv, TypeOK
    <2>2. rcvPc # "stopped" /\ Before <= 2 * Len(delivered)
      BY DEF IInv, DeliveredInv
    <2>3. CASE rcvPc = "call"
      <3>1. rcv.s <= rcv.received /\ Len(buffer) <= rcv.received + rcv.s
        BY <2>3 DEF IInv, BufferInv
      <3>. QED BY <2>1, <2>2, <2>3, <3>1 DEF Before, Counted
    <2>4. CASE rcvPc # "call"
      BY <2>1, <2>2, <2>4 DEF Before, Counted
    <2>. QED BY <2>3, <2>4
  <1>. QED BY <1>1, Inductive, PTL

(* socket_recv returns 0 only at the end of the stream. *)
THEOREM EndIsGenuine == Spec => []EofIsTheEnd
  <1>1. IInv => EofIsTheEnd
    BY DEF IInv, EndInv, EofIsTheEnd
  <1>. QED BY <1>1, Inductive, PTL

(* socket_send resumes a partial send() where it stopped. *)
THEOREM NothingSentTwice == Spec => []SentOnce
  <1>1. IInv => SentOnce
    BY DEF IInv, WireInv, SentOnce
  <1>. QED BY <1>1, Inductive, PTL

-----------------------------------------------------------------------------
(* A reader that has been told the end is told nothing else: what it may call *)
(* after it finds the wire empty.                                             *)
AfterTheEnd == eof /\ rcvPc = "call" => rcv.received = 0

(* A call after one that returned 0 finds the stream as empty as that one did. *)
LEMMA AfterTheEndKept ==
  ASSUME IInv, AfterTheEnd, [Next]_vars
  PROVE  AfterTheEnd'
  <1>. USE DEF AfterTheEnd
  <1>1. ASSUME UNCHANGED receiver PROVE AfterTheEnd'
    BY <1>1 DEF receiver
  <1>2. ASSUME Send \/ Reset \/ UNCHANGED vars PROVE UNCHANGED receiver
    BY <1>2 DEF Send, SendStart, SendAccept, SendFails, SendReturn, Shutdown, Reset, vars
  <1>3. ASSUME NEW want \in Wants, RecvStart(want) PROVE AfterTheEnd'
    BY <1>3 DEF RecvStart, RecvCall
  <1>4. ASSUME NEW n \in 1 .. MaxBytes, RecvTake(n) PROVE AfterTheEnd'
    <2>1. eof => Len(wire) = 0
      BY DEF IInv, EndInv
    <2>2. ~eof /\ eof' = eof
      BY <1>4, <2>1, TransportAssumption DEF RecvTake
    <2>. QED
      BY <2>2
  <1>5. ASSUME RecvEof \/ RecvFails PROVE AfterTheEnd'
    <2>1. rcv' = RecvStep(rcv, 0) \/ rcv' = RecvStep(rcv, -1)
      BY <1>5 DEF RecvEof, RecvFails
    <2>2. rcv \in RecvCalls
      BY DEF IInv, TypeOK
    <2>3. rcv'.received = rcv.received /\ eof' = eof /\ rcvPc = "call"
      BY <1>5, <2>1, <2>2, RecvRepeated, RecvClosed, RecvFailed DEF RecvEof, RecvFails
    <2>. QED
      BY <2>3
  <1>6. ASSUME RecvReturn PROVE AfterTheEnd'
    BY <1>6 DEF RecvReturn
  <1>. QED
    BY <1>1, <1>2, <1>3, <1>4, <1>5, <1>6 DEF Next, Recv

(* A socket_recv that returns hands out the bytes after those of the calls    *)
(* before it, or tells the end.                                               *)
LEMMA ReturnIsARead ==
  ASSUME IInv, AfterTheEnd, RecvReturn
  PROVE  [Stream!Next]_(Stream!vars)
  <1>. DEFINE p == taken - Len(buffer)
              r == rcv.received
              s == SubSeq(buffer, 1, r)
  <1>1. /\ rcvPc = "call" /\ ~RecvLooping(rcv) /\ UNCHANGED <<kernel, sender>>
        /\ Accepted' = Accepted /\ fin' = fin
    BY DEF RecvReturn, Accepted, kernel, sender
  <1>2. /\ buffer \in Seq(Nat) /\ Len(buffer) \in Nat /\ taken \in Nat /\ r \in Nat /\ rcv.result \in BOOLEAN
        /\ delivered \in Seq(Nat) /\ Len(delivered) \in Nat /\ eof \in BOOLEAN
    BY RecvCallProperties, LenProperties DEF IInv, TypeOK
  <1>3. /\ p \in Nat /\ r \in 0 .. Len(buffer) /\ p + r <= taken
        /\ \A i \in 1 .. Len(buffer) : buffer[i] = p + i
    BY <1>1, <1>2 DEF IInv, BufferInv
  <1>4. s \in Seq(Nat) /\ Len(s) = r /\ \A i \in 1 .. r : s[i] = p + i
    <2>1. s \in Seq(Nat) /\ Len(s) = r /\ \A i \in 1 .. r : s[i] = buffer[i]
      BY <1>2, <1>3, CutProperties
    <2>2. \A i \in 1 .. r : i \in 1 .. Len(buffer)
      BY <1>2, <1>3
    <2>. HIDE DEF p, r, s
    <2>. QED
      BY <1>3, <2>1, <2>2, Zenon
  <1>5. p + r <= Accepted /\ Accepted \in Nat
    <2>1. taken + Len(wire) <= Accepted /\ Len(wire) \in Nat
      BY LenProperties DEF IInv, WireInv, TypeOK
    <2>2. Accepted \in Nat
      BY SendCallProperties DEF Accepted, IInv, TypeOK
    <2>. QED
      BY <1>2, <1>3, <2>1, <2>2
  <1>6. Stream!Latest \in Nat /\ Stream!Latest <= p
    <2>1. \A i \in 1 .. Len(delivered) : delivered[i] <= p /\ delivered[i] \in Nat
      BY <1>1, <1>2, ElementOfSeq DEF IInv, DeliveredInv, Before
    <2>2. delivered # << >> => Len(delivered) \in 1 .. Len(delivered)
      BY <1>2, EmptySeq
    <2>. QED
      BY <1>3, <2>1, <2>2 DEF Stream!Latest
  <1>. HIDE DEF p, r, s
  <1>7. CASE ~rcv.result
    <2>1. delivered' = delivered /\ eof' = eof
      BY <1>7 DEF RecvReturn, RecvResult, SOCKET_CONNECTION_ERROR
    <2>. QED
      BY <1>1, <2>1 DEF Stream!vars
  <1>8. CASE rcv.result /\ r = 0
    <2>0. RecvResult(rcv) = r /\ r # SOCKET_CONNECTION_ERROR
      BY <1>2, <1>8 DEF RecvResult, SOCKET_CONNECTION_ERROR, r
    <2>1. delivered' = delivered \o s /\ eof' = TRUE
      <3>1. /\ delivered' = delivered \o SubSeq(buffer, 1, RecvResult(rcv))
            /\ eof' = (eof \/ RecvResult(rcv) = 0)
        BY <2>0, Zenon DEF RecvReturn
      <3>. QED
        BY <1>8, <2>0, <3>1, Zenon DEF s, r
    <2>2. delivered' = delivered
      BY <1>2, <1>4, <1>8, <2>1, ConcatEmptySeq, EmptySeq
    <2>3. fin
      BY <1>1, <1>8 DEF IInv, EndInv, RecvResult, r
    <2>4. Stream!End
      BY <1>1, <2>1, <2>2, <2>3 DEF Stream!End
    <2>. QED
      BY <2>4 DEF Stream!Next
  <1>9. CASE rcv.result /\ r # 0
    <2>1. delivered' = delivered \o s /\ eof' = eof
      BY <1>2, <1>9 DEF RecvReturn, RecvResult, SOCKET_CONNECTION_ERROR, r, s
    <2>2. ~eof
      BY <1>1, <1>9 DEF AfterTheEnd, r
    <2>3. /\ p + 1 \in Stream!Latest + 1 .. Accepted /\ p + r \in p + 1 .. Accepted
          /\ (p + r) - (p + 1) + 1 = r
      BY <1>2, <1>3, <1>5, <1>6, <1>9
    <2>4. Stream!Run(p + 1, p + r) = s
      <3>1. Stream!Run(p + 1, p + r) = [i \in 1 .. r |-> (p + 1) + i - 1]
        BY <2>3 DEF Stream!Run
      <3>2. \A i \in 1 .. r : (p + 1) + i - 1 = s[i]
        BY <1>2, <1>3, <1>4
      <3>3. s = [i \in 1 .. r |-> s[i]]
        BY <1>4, LenProperties
      <3>4. [i \in 1 .. r |-> (p + 1) + i - 1] = [i \in 1 .. r |-> s[i]]
        BY <3>2
      <3>. QED
        BY <3>1, <3>3, <3>4
    <2>5. Stream!Read
      BY <1>1, <2>1, <2>2, <2>3, <2>4 DEF Stream!Read
    <2>. QED
      BY <2>5 DEF Stream!Next
  <1>. QED
    BY <1>2, <1>7, <1>8, <1>9

(* Each step is one of ByteStream, or none. *)
LEMMA StepsOfStream ==
  ASSUME IInv, AfterTheEnd, [Next]_vars
  PROVE  [Stream!Next]_(Stream!vars)
  <1>. USE DEF Stream!vars, kernel, sender, receiver
  <1>0. snd \in SendCalls /\ written \in Nat /\ sndPc \in CallStates
    BY DEF IInv, TypeOK
  <1>1. ASSUME NEW size \in Sizes, SendStart(size) PROVE UNCHANGED Stream!vars
    BY <1>0, <1>1 DEF SendStart, Accepted, SendCall
  <1>2. ASSUME NEW k \in 1 .. MaxBytes, SendAccept(k) PROVE Stream!Next
    <2>1. k \in Nat /\ k > 0 /\ sndPc = "call" /\ ~fin
      BY <1>2, TransportAssumption DEF SendAccept, IInv, SenderInv
    <2>2. snd' = SendStep(snd, k) /\ UNCHANGED <<written, sndPc, fin, delivered, eof>>
      BY <1>2 DEF SendAccept
    <2>3. snd.sent \in Nat /\ snd'.sent = snd.sent + k
      <3>1. snd \in SendCalls /\ k \in Int /\ k > 0
        BY <1>0, <2>1
      <3>2. SendStep(snd, k).sent = snd.sent + k
        BY ONLY <3>1, SendStepProperties
      <3>. QED
        BY <1>0, <2>2, <3>2, SendCallProperties
    <2>4. Accepted = written + snd.sent /\ Accepted' = written + snd.sent + k
      BY <1>0, <2>1, <2>2, <2>3 DEF Accepted
    <2>5. Accepted' \in Nat /\ Accepted' > Accepted
      BY <1>0, <2>1, <2>3, <2>4
    <2>6. Stream!Write
      BY <2>1, <2>2, <2>5 DEF Stream!Write
    <2>. QED
      BY <2>6 DEF Stream!Next
  <1>3. ASSUME SendFails PROVE UNCHANGED Stream!vars
    <2>1. snd' = SendStep(snd, -1)
      BY <1>3 DEF SendFails
    <2>2. snd'.sent = snd.sent
      BY <1>0, <2>1, SendStepProperties
    <2>. QED
      BY <1>3, <2>2 DEF SendFails, Accepted
  <1>4. ASSUME SendReturn PROVE UNCHANGED Stream!vars
    <2>1. Accepted' = Accepted
      <3>1. snd.sent \in Nat /\ snd.valid \in BOOLEAN
        BY <1>0, SendCallProperties
      <3>. QED
        BY <1>0, <1>4, <3>1 DEF SendReturn, Accepted, SendResult, SOCKET_CONNECTION_ERROR
    <2>. QED
      BY <1>4, <2>1 DEF SendReturn
  <1>5. ASSUME Shutdown PROVE Stream!Next
    <2>1. Accepted' = Accepted
      BY <1>5 DEF Shutdown, Accepted
    <2>2. Stream!Close
      BY <1>5, <2>1 DEF Shutdown, Stream!Close
    <2>. QED
      BY <2>2 DEF Stream!Next
  <1>6. ASSUME UNCHANGED <<fin, sender, delivered, eof>> PROVE UNCHANGED Stream!vars
    BY <1>6 DEF Accepted
  <1>7. ASSUME \/ \E want \in Wants : RecvStart(want)
               \/ \E n \in 1 .. MaxBytes : RecvTake(n)
               \/ RecvEof \/ RecvFails \/ Reset \/ UNCHANGED vars
        PROVE  UNCHANGED <<fin, sender, delivered, eof>>
    BY <1>7 DEF RecvStart, RecvTake, RecvEof, RecvFails, Reset, vars
  <1>8. ASSUME RecvReturn PROVE [Stream!Next]_(Stream!vars)
    BY <1>8, ReturnIsARead
  <1>. QED
    BY <1>1, <1>2, <1>3, <1>4, <1>5, <1>6, <1>7, <1>8 DEF Next, Send, Recv

(* The two loops implement the stream of module ByteStream: contiguous runs   *)
(* of the bytes written, in order, none twice, and no end before the writer's. *)
THEOREM TheLoopsAreAStream == Spec => ImplementsStream
  <1>1. Init => Stream!Init /\ AfterTheEnd
    BY DEF Init, Stream!Init, Accepted, AfterTheEnd
  <1>2. IInv /\ AfterTheEnd /\ [Next]_vars => AfterTheEnd'
    BY AfterTheEndKept
  <1>3. IInv /\ AfterTheEnd /\ [Next]_vars => [Stream!Next]_(Stream!vars)
    BY StepsOfStream
  <1>. QED
    BY <1>1, <1>2, <1>3, Inductive, PTL DEF Spec, ImplementsStream, Stream!Spec
=============================================================================
