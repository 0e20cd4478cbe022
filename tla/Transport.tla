------------------------------ MODULE Transport -----------------------------
(***************************************************************************)
(* One direction of the connection between the client and the server: a    *)
(* process that calls socket_send, the kernel's TCP stream, and a process  *)
(* that calls socket_recv (src/src/socket.c).                              *)
(*                                                                         *)
(* A byte is named by its position in what the sender's callers write, so  *)
(* the sequence 1, 2, 3, ... arriving means nothing was lost or repeated.  *)
(* TCP keeps bytes in order; send() and recv() move any number of bytes    *)
(* that fits, and a reset may destroy a tail of those in flight.           *)
(***************************************************************************)
EXTENDS SocketCalls, Sequences

CONSTANTS
  Sizes,     (* sizes the sender passes to socket_send                 *)
  Wants,     (* sizes the receiver passes to socket_recv               *)
  Capacity,  (* bytes the kernel holds before send() blocks            *)
  MaxBytes   (* bound: bytes the sender writes altogether              *)

ASSUME TransportAssumption ==
  /\ Sizes \subseteq Nat \ {0}
  /\ Wants \subseteq Nat \ {0}
  /\ Capacity \in Nat \ {0}
  /\ MaxBytes \in Nat

VARIABLES
  wire,       (* the bytes in flight: accepted by send(), not yet read *)
  taken,      (* number of bytes recv() has handed over                *)
  fin,        (* the sender shut the stream down for writing           *)
  broken,     (* the connection was reset                              *)
  sndPc, snd, (* the sender and its socket_send in progress            *)
  written,    (* bytes of the socket_send calls that succeeded         *)
  rcvPc, rcv, (* the receiver and its socket_recv in progress          *)
  buffer,     (* the bytes recv() has put in that call's buffer        *)
  delivered,  (* the bytes returned to the receiver, all calls         *)
  eof         (* some socket_recv has returned 0                       *)

kernel   == <<wire, taken, fin, broken>>
sender   == <<sndPc, snd, written>>
receiver == <<rcvPc, rcv, buffer, delivered, eof>>
vars     == <<kernel, sender, receiver>>

CallStates == {"idle", "call", "stopped"}

(* The n bytes that follow the first p bytes of the sender's data. *)
Bytes(p, n) == [i \in 1 .. n |-> p + i]

-----------------------------------------------------------------------------
Init ==
  /\ wire = << >> /\ taken = 0 /\ fin = FALSE /\ broken = FALSE
  /\ sndPc = "idle" /\ snd = SendCall(0) /\ written = 0
  /\ rcvPc = "idle" /\ rcv = RecvCall(0) /\ buffer = << >>
  /\ delivered = << >> /\ eof = FALSE

(***************************************************************************)
(* The sender.  Its callers stop at the first error.                       *)
(***************************************************************************)
SendStart(size) ==
  /\ sndPc = "idle"
  /\ ~fin
  /\ written + size <= MaxBytes
  /\ sndPc' = "call"
  /\ snd' = SendCall(size)
  /\ UNCHANGED <<kernel, written, receiver>>

(* Mutant: every send() starts from buffer, not from &buffer[sent]. *)
SendAcceptFromStart(k) ==
  /\ sndPc = "call"
  /\ SendLooping(snd)
  /\ ~broken
  /\ k <= snd.size - snd.sent
  /\ k <= Capacity - Len(wire)
  /\ snd' = SendStep(snd, k)
  /\ wire' = wire \o Bytes(written, k)
  /\ UNCHANGED <<taken, fin, broken, sndPc, written, receiver>>

(* send() takes k bytes from &buffer[sent] on; it blocks while no room is left. *)
SendAccept(k) ==
  /\ sndPc = "call"
  /\ SendLooping(snd)
  /\ ~broken
  /\ k <= snd.size - snd.sent
  /\ k <= Capacity - Len(wire)
  /\ snd' = SendStep(snd, k)
  /\ wire' = wire \o Bytes(written + snd.sent, k)
  /\ UNCHANGED <<taken, fin, broken, sndPc, written, receiver>>

SendFails ==
  /\ sndPc = "call"
  /\ SendLooping(snd)
  /\ broken
  /\ snd' = SendStep(snd, -1)
  /\ UNCHANGED <<kernel, sndPc, written, receiver>>

SendReturn ==
  /\ sndPc = "call"
  /\ ~SendLooping(snd)
  /\ IF SendResult(snd) = SOCKET_CONNECTION_ERROR
     THEN sndPc' = "stopped" /\ UNCHANGED written
     ELSE sndPc' = "idle" /\ written' = written + SendResult(snd)
  /\ UNCHANGED <<kernel, snd, receiver>>

(* Mutant: the stream is shut down while socket_send is still at work. *)
ShutdownEarly ==
  /\ ~fin
  /\ fin' = TRUE
  /\ UNCHANGED <<wire, taken, broken, sender, receiver>>

Shutdown ==
  /\ sndPc = "idle"
  /\ ~fin
  /\ fin' = TRUE
  /\ UNCHANGED <<wire, taken, broken, sender, receiver>>

-----------------------------------------------------------------------------
(***************************************************************************)
(* The receiver.  Its callers stop at the first error; after a 0 they may  *)
(* call again, as receive_and_process_byte_codes does when the quantity of *)
(* variables was cut short by the end of the stream.  They may also never  *)
(* call again: the server leaves its loop at a cut instruction             *)
(* (jvm_server.c:89), the client reads N ints and no more.                 *)
(***************************************************************************)
RecvStart(want) ==
  /\ rcvPc = "idle"
  /\ rcvPc' = "call"
  /\ rcv' = RecvCall(want)
  /\ buffer' = << >>
  /\ UNCHANGED <<kernel, sender, delivered, eof>>

(* recv() puts n of the bytes in flight at &buffer[received]; it blocks while *)
(* there are none.                                                            *)
RecvTake(n) ==
  /\ rcvPc = "call"
  /\ RecvLooping(rcv)
  /\ n <= Len(wire)
  /\ n <= rcv.chunk - rcv.received
  /\ rcv' = RecvStep(rcv, n)
  /\ taken' = taken + n
  /\ wire' = SubSeq(wire, n + 1, Len(wire))
  /\ buffer' = SubSeq(buffer, 1, rcv.received) \o SubSeq(wire, 1, n)
  /\ UNCHANGED <<fin, broken, sender, rcvPc, delivered, eof>>

RecvEof ==
  /\ rcvPc = "call"
  /\ RecvLooping(rcv)
  /\ wire = << >>
  /\ fin
  /\ ~broken
  /\ rcv' = RecvStep(rcv, 0)
  /\ UNCHANGED <<kernel, sender, rcvPc, buffer, delivered, eof>>

RecvFails ==
  /\ rcvPc = "call"
  /\ RecvLooping(rcv)
  /\ wire = << >>
  /\ broken
  /\ rcv' = RecvStep(rcv, -1)
  /\ UNCHANGED <<kernel, sender, rcvPc, buffer, delivered, eof>>

(* The caller uses the first RecvResult bytes of its buffer, or stops. *)
RecvReturn ==
  /\ rcvPc = "call"
  /\ ~RecvLooping(rcv)
  /\ IF RecvResult(rcv) = SOCKET_CONNECTION_ERROR
     THEN /\ rcvPc' = "stopped"
          /\ UNCHANGED <<delivered, eof>>
     ELSE /\ rcvPc' = "idle"
          /\ delivered' = delivered \o SubSeq(buffer, 1, RecvResult(rcv))
          /\ eof' = (eof \/ RecvResult(rcv) = 0)
  /\ UNCHANGED <<kernel, sender, rcv, buffer>>

-----------------------------------------------------------------------------
(* A reset: a tail of the bytes in flight is never read. *)
Reset ==
  /\ ~broken
  /\ broken' = TRUE
  /\ \E n \in 0 .. Len(wire) : wire' = SubSeq(wire, 1, n)
  /\ UNCHANGED <<taken, fin, sender, receiver>>

Send == \/ \E size \in Sizes : SendStart(size)
        \/ \E k \in 1 .. MaxBytes : SendAccept(k)
        \/ SendFails \/ SendReturn \/ Shutdown

Recv == \/ \E want \in Wants : RecvStart(want)
        \/ \E n \in 1 .. MaxBytes : RecvTake(n)
        \/ RecvEof \/ RecvFails \/ RecvReturn

Next == Send \/ Recv \/ Reset

Spec == Init /\ [][Next]_vars

(***************************************************************************)
(* A call in progress goes on when the kernel lets it: both processes are  *)
(* scheduled and the kernel moves bytes it can move.  Nothing obliges the  *)
(* sender to send, the receiver to call socket_recv again, the application *)
(* to shut down, or the connection to break.                               *)
(***************************************************************************)
Fairness ==
  /\ WF_vars(\E k \in 1 .. MaxBytes : SendAccept(k))
  /\ WF_vars(SendFails \/ SendReturn)
  /\ WF_vars(\E n \in 1 .. MaxBytes : RecvTake(n))
  /\ WF_vars(RecvEof \/ RecvFails \/ RecvReturn)

FairSpec == Spec /\ Fairness

-----------------------------------------------------------------------------
(* Bytes the kernel has accepted from send() so far. *)
Accepted == written + (IF sndPc = "idle" THEN 0 ELSE snd.sent)

(* Bytes counted for the receiver, those of the call in progress included. *)
Counted == Len(delivered) + (IF rcvPc = "call" THEN rcv.received ELSE 0)

(* Types, with the relations between counters that typing needs. *)
TypeOK ==
  /\ wire \in Seq(Nat) /\ taken \in Nat /\ fin \in BOOLEAN /\ broken \in BOOLEAN
  /\ sndPc \in CallStates /\ snd \in SendCalls /\ written \in Nat
  /\ rcvPc \in CallStates /\ rcv \in RecvCalls
  /\ buffer \in Seq(Nat) /\ delivered \in Seq(Nat) /\ eof \in BOOLEAN

(* What socket_recv hands out is in the sender's order, with no byte repeated *)
(* and none still in flight, however send() and recv() cut the stream up: the *)
(* offsets &buffer[sent] and &buffer[received] of the two loops agree.        *)
InOrder ==
  /\ \A i, j \in 1 .. Len(delivered) : i < j => delivered[i] < delivered[j]
  /\ \A i \in 1 .. Len(delivered) : delivered[i] <= taken

(* The "Didn't get new bytes" test of socket_recv throws away an answer of    *)
(* recv() equal to the one before.  It never throws away more than it keeps:  *)
(* on a connection that was not reset at least half of the bytes read count.  *)
AtMostHalfLost == ~broken => taken - Counted <= Counted

(* The server takes a 0 from socket_recv for the end of the program.  It is:  *)
(* the sender has shut the stream down and no byte is left to be read, so a   *)
(* quiet or slow client is never mistaken for one that has finished.          *)
EofIsTheEnd == eof => fin /\ wire = << >>

(* What a socket_send that succeeded was given is in the kernel or read, all  *)
(* of it and once: partial send()s are resumed where they stopped.            *)
SentOnce == ~broken => /\ taken + Len(wire) = Accepted
                       /\ \A i \in 1 .. Len(wire) : wire[i] = taken + i

(* socket.h:42: socket_recv returns "the quantity of bytes received". *)
ReturnsQuantityReceived ==
  rcvPc = "call" /\ ~RecvLooping(rcv) /\ rcv.result => RecvResult(rcv) = Len(buffer)

(* The two loops together promise what ByteStream says, and no more. *)
Stream == INSTANCE ByteStream WITH sent <- Accepted, closed <- fin, got <- delivered
ImplementsStream == Stream!Spec

(* A socket_send that never returns waits for one thing only: its peer has    *)
(* left its read loop for good, with the connection whole and full.  Neither  *)
(* a reader that goes on, nor a reset, nor a send() of a part leaves it       *)
(* turning or blocked.                                                        *)
SendWaitsForTheReaderOnly ==
  <>[](sndPc = "call") => <>[](rcvPc # "call" /\ ~broken /\ Len(wire) = Capacity)

(* Once the sender has shut down, a socket_recv in progress returns, and a    *)
(* reader that calls again and again gets to the end or to an error: a read   *)
(* loop neither blocks on bytes that will not come nor turns without an end.  *)
ReaderLearnsTheEnd ==
  /\ (fin /\ rcvPc = "call") ~> (rcvPc # "call")
  /\ <>fin /\ []<>(rcvPc = "call") => <>(eof \/ rcvPc = "stopped")
=============================================================================
