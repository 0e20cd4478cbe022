------------------------------- MODULE Session ------------------------------
(***************************************************************************)
(* One run of the program: a client (jvm_client_start) and a server        *)
(* (jvm_server_start) over one TCP connection.  The client sends the       *)
(* quantity of variables, then the byte codes in chunks, shuts the         *)
(* connection down for writing and reads the variables; the server reads   *)
(* the quantity, reads and runs chunks until socket_recv gives it nothing, *)
(* and sends its variables back.  Both close and exit.                     *)
(*                                                                         *)
(* Each direction is a count of bytes accepted by send() and a count of    *)
(* bytes handed over by recv(): byte number i of a direction is the i-th   *)
(* byte its writer sent.  The loops of socket_send and socket_recv are     *)
(* those of SocketCalls.  The interpreter is abstracted to what decides    *)
(* how the session goes on and what it leaves: whether a chunk ends inside *)
(* an instruction, whether running it can kill the process, and whether a  *)
(* stack_push may lose a node.                                             *)
(***************************************************************************)
EXTENDS SocketCalls, Sequences, FiniteSets

CONSTANTS
  IntBytes,   (* PROTOCOL_INT_BYTES                                          *)
  ChunkSize,  (* CHUNK_SIZE of the client and of the server                  *)
  VarSize,    (* the client's argument N                                     *)
  Inputs,     (* [len, code]: what ftell answers, the kinds of the bytes     *)
              (* that fread will find                                        *)
  Garbage,    (* values an int may have whose bytes were not all received    *)
  Capacity,   (* bytes the kernel holds in one direction                     *)
  Faults      (* of "memory", "calls", "network", "crash": those that happen *)

ByteKinds == {"plain",    (* no argument follows                            *)
              "argument", (* istore, iload, bipush: the next byte belongs to it *)
              "trap"}     (* idiv, irem: can stop the process by a signal   *)

ASSUME SessionAssumption ==
  /\ IntBytes \in Nat \ {0} /\ ChunkSize \in Nat \ {0} /\ Capacity \in Nat \ {0}
  /\ VarSize \in Int /\ Garbage \subseteq Int /\ Garbage # {}
  /\ \A f \in Inputs : f.len \in Int /\ f.code \in Seq(ByteKinds)
  /\ Faults \subseteq {"memory", "calls", "network", "crash"}

VARIABLES
  pc,        (* where each process is                                       *)
  exit,      (* its exit status                                             *)
  held,      (* what it has opened or allocated and must release            *)
  connected, (* the client's connect() has succeeded                        *)
  sent,      (* bytes send() has accepted from it                           *)
  taken,     (* of those, bytes the peer's recv() has handed over           *)
  ended,     (* its direction is shut down for writing                      *)
  closed,    (* its end of the connection is closed                         *)
  broken,    (* the connection was reset                                    *)
  call,      (* the socket_send or socket_recv it is in                     *)
  mark,      (* taken of its peer when that socket_recv began               *)
  input,     (* the client's source of byte codes                           *)
  offset,    (* i of send_byte_codes                                        *)
  printed,   (* the client's printed variables: their numbers, 0: none      *)
  size,      (* _size of the server's int_vector                            *)
  allocated, (* its _data is not NULL                                       *)
  ran,       (* numbers of the bytes given to process_byte_codes_chunk      *)
  truncated, (* process_byte_codes_chunk ran out of bytes in an instruction *)
  answered,  (* i of send_variables                                         *)
  short,     (* history: socket_recv_int succeeded without all the bytes    *)
  dropped    (* history: socket_recv read bytes of a chunk and dropped them *)

files   == <<held, exit>>
kernel  == <<connected, sent, taken, ended, closed, broken>>
mine    == <<input, offset, printed>>
theirs  == <<size, allocated, ran, truncated, answered>>
history == <<short, dropped>>
vars == <<pc, files, kernel, call, mark, mine, theirs, history>>

Procs == {"client", "server"}
Peer(p) == IF p = "client" THEN "server" ELSE "client"
Put(f, p, v) == [f EXCEPT ![p] = v]

Init ==
  /\ pc = [p \in Procs |-> "resolve"]
  /\ exit = [p \in Procs |-> "none"]
  /\ held = [client |-> {"src"}, server |-> {}]
  /\ connected = FALSE
  /\ sent = [p \in Procs |-> 0] /\ taken = [p \in Procs |-> 0]
  /\ ended = [p \in Procs |-> FALSE] /\ closed = [p \in Procs |-> FALSE]
  /\ broken = FALSE
  /\ call = [p \in Procs |-> SendCall(0)] /\ mark = [p \in Procs |-> 0]
  /\ input \in Inputs /\ offset = 0 /\ printed = << >>
  /\ size = 0 /\ allocated = FALSE /\ ran = << >> /\ truncated = FALSE /\ answered = 0
  /\ short = FALSE /\ dropped = FALSE

-----------------------------------------------------------------------------
(* The kernel and the loops of socket.c, the same for both processes. *)

Sending(p) == pc[p] \in {"send_quantity", "send_chunk", "send_variable"}
Receiving(p) == pc[p] \in {"receive_quantity", "receive_chunk", "receive_variable"}

InFlight(p) == sent[p] - taken[p]

SendAccept(p, k) ==
  /\ Sending(p)
  /\ SendLooping(call[p])
  /\ ~broken
  /\ k <= call[p].size - call[p].sent
  /\ k <= Capacity - InFlight(p)
  /\ call' = Put(call, p, SendStep(call[p], k))
  /\ sent' = Put(sent, p, sent[p] + k)
  /\ UNCHANGED <<pc, files, connected, taken, ended, closed, broken, mark, mine, theirs, history>>

SendFails(p) ==
  /\ Sending(p)
  /\ SendLooping(call[p])
  /\ broken
  /\ call' = Put(call, p, SendStep(call[p], -1))
  /\ UNCHANGED <<pc, files, kernel, mark, mine, theirs, history>>

(* What recv() may answer: bytes in flight, 0 or -1. *)
RecvAnswers(p) ==
  LET q == Peer(p) IN
  IF InFlight(q) > 0
  THEN {n \in 1 .. InFlight(q) : n <= call[p].chunk - call[p].received}
  ELSE IF broken THEN {-1} ELSE IF ended[q] THEN {0} ELSE {}

RecvTurn(p, n) ==
  /\ Receiving(p)
  /\ RecvLooping(call[p])
  /\ n \in RecvAnswers(p)
  /\ call' = Put(call, p, RecvStep(call[p], n))
  /\ IF n > 0 THEN taken' = Put(taken, Peer(p), taken[Peer(p)] + n) ELSE UNCHANGED taken
  /\ dropped' = (dropped \/ (n > 0 /\ n = call[p].s /\ pc[p] = "receive_chunk"))
  /\ UNCHANGED <<pc, files, connected, sent, ended, closed, broken, mark, mine, theirs, short>>

(* A reset: what was in flight may be lost, in part or whole. *)
Reset ==
  /\ connected
  /\ ~broken
  /\ broken' = TRUE
  /\ sent' \in {f \in [Procs -> 0 .. sent["client"] + sent["server"]] :
                  \A p \in Procs : taken[p] <= f[p] /\ f[p] <= sent[p]}
  /\ UNCHANGED <<pc, files, connected, taken, ended, closed, call, mark, mine, theirs, history>>

NetworkFails == "network" \in Faults /\ Reset

(* An end was closed with data unread, or data has come since. *)
ClosedEndResets ==
  /\ \E p \in Procs : closed[Peer(p)] /\ InFlight(p) > 0
  /\ Reset

Close(p) == closed' = Put(closed, p, TRUE) /\ ended' = Put(ended, p, TRUE)

(* The bytes put in the buffer of the socket_recv in progress. *)
Filled(p) == taken[Peer(p)] - mark[p]

StartSend(p, n) == call' = Put(call, p, SendCall(n)) /\ UNCHANGED mark
StartRecv(p, n) == /\ call' = Put(call, p, RecvCall(n))
                   /\ mark' = Put(mark, p, taken[Peer(p)])
NoCall == UNCHANGED <<call, mark>>

Sent(p)     == ~SendLooping(call[p]) /\ SendResult(call[p]) # SOCKET_CONNECTION_ERROR
SendError(p) == ~SendLooping(call[p]) /\ SendResult(call[p]) = SOCKET_CONNECTION_ERROR
Received(p)  == ~RecvLooping(call[p]) /\ RecvResult(call[p]) # SOCKET_CONNECTION_ERROR
RecvError(p) == ~RecvLooping(call[p]) /\ RecvResult(call[p]) = SOCKET_CONNECTION_ERROR

Goto(p, where) == pc' = Put(pc, p, where)
Acquire(p, things) == held' = Put(held, p, held[p] \cup things) /\ UNCHANGED exit
Release(p, things) == held' = Put(held, p, held[p] \ things) /\ UNCHANGED exit

(* The process returns from its main function, having released things. *)
Exit(p, things, status) ==
  /\ Goto(p, "done")
  /\ held' = Put(held, p, held[p] \ things)
  /\ exit' = Put(exit, p, status)
  /\ Close(p)
  /\ NoCall
  /\ UNCHANGED <<connected, sent, taken>>

-----------------------------------------------------------------------------
(* socket_connect and socket_bind_and_address, which begin alike: the list of *)
(* addresses of getaddrinfo and the descriptor of socket() are what a call    *)
(* that fails must give back.                                                 *)

Descriptor(p) == IF p = "client" THEN "socket" ELSE "listener"

(* One of the two functions fails; jvm_client_start, or jvm_server_start, and *)
(* main return, and main has the client's source of byte codes to close.      *)
SetUpFails(p, things) ==
  /\ Exit(p, things \cup {"src"}, "failure")
  /\ UNCHANGED <<broken, mine, theirs, history>>

Resolve(p) ==
  /\ pc[p] = "resolve"
  /\ Acquire(p, {"addresses"})
  /\ Goto(p, "socket")
  /\ NoCall
  /\ UNCHANGED <<kernel, mine, theirs, history>>

ResolveFails(p) ==
  /\ pc[p] = "resolve"
  /\ "calls" \in Faults
  /\ SetUpFails(p, {})

OpenSocket(p) ==
  /\ pc[p] = "socket"
  /\ Acquire(p, {Descriptor(p)})
  /\ Goto(p, "option")
  /\ NoCall
  /\ UNCHANGED <<kernel, mine, theirs, history>>

OpenSocketFails(p) ==
  /\ pc[p] = "socket"
  /\ "calls" \in Faults
  /\ SetUpFails(p, {"addresses"})

SetOption(p) ==
  /\ pc[p] = "option"
  /\ Goto(p, IF p = "client" THEN "connect" ELSE "bind")
  /\ NoCall
  /\ UNCHANGED <<files, kernel, mine, theirs, history>>

SetOptionFails(p) ==
  /\ pc[p] = "option"
  /\ "calls" \in Faults
  /\ SetUpFails(p, {"addresses", Descriptor(p)})

(* listen() has succeeded and the descriptor is still open. *)
Listening == pc["server"] \notin {"resolve", "socket", "option", "bind", "listen", "done", "killed"}

-----------------------------------------------------------------------------
(* The client: main, jvm_client_start, send_byte_codes, print_received_variables. *)

(* jvm_client_start returns and main closes the source of byte codes. *)
ClientExit(things, status) ==
  /\ Exit("client", things \cup {"src"}, status)
  /\ UNCHANGED <<broken, theirs, history>>

ClientConnect ==
  /\ pc["client"] = "connect"
  /\ Listening
  /\ connected' = TRUE
  /\ Release("client", {"addresses"})
  /\ StartSend("client", IntBytes)
  /\ Goto("client", "send_quantity")
  /\ UNCHANGED <<sent, taken, ended, closed, broken, mine, theirs, history>>

(* Mutant: the early return of connect() without freeaddrinfo. *)
ClientConnectFailsLeaking ==
  /\ pc["client"] = "connect"
  /\ ~Listening \/ "calls" \in Faults
  /\ SetUpFails("client", {"socket"})

(* Nobody listens, or the network refuses. *)
ClientConnectFails ==
  /\ pc["client"] = "connect"
  /\ ~Listening \/ "calls" \in Faults
  /\ SetUpFails("client", {"addresses", "socket"})

ClientQuantitySent ==
  /\ pc["client"] = "send_quantity"
  /\ Sent("client")
  /\ Goto("client", "malloc")
  /\ NoCall
  /\ UNCHANGED <<files, kernel, mine, theirs, history>>

(* socket_send of the quantity or of a chunk fails. *)
ClientSendFails ==
  /\ pc["client"] \in {"send_quantity", "send_chunk"}
  /\ SendError("client")
  /\ ClientExit({"socket"} \cup IF pc["client"] = "send_chunk" THEN {"buffer"} ELSE {}, "failure")
  /\ UNCHANGED mine

ClientMalloc ==
  /\ pc["client"] = "malloc"
  /\ Goto("client", "read")
  /\ Acquire("client", {"buffer"})
  /\ NoCall
  /\ UNCHANGED <<kernel, mine, theirs, history>>

ClientMallocFails ==
  /\ pc["client"] = "malloc"
  /\ "memory" \in Faults
  /\ ClientExit({"socket"}, "failure")
  /\ UNCHANGED mine

Lesser(a, b) == IF a < b THEN a ELSE b

(* fread fills the buffer, as far as the file goes. *)
BytesRead == IF offset < Len(input.code) THEN Lesser(ChunkSize, Len(input.code) - offset) ELSE 0

ClientRead ==
  /\ pc["client"] = "read"
  /\ offset < input.len
  /\ BytesRead > 0
  /\ Goto("client", "send_chunk")
  /\ StartSend("client", BytesRead)
  /\ offset' = offset + ChunkSize
  /\ UNCHANGED <<files, kernel, input, printed, theirs, history>>

ClientReadFails ==
  /\ pc["client"] = "read"
  /\ offset < input.len
  /\ BytesRead = 0
  /\ ClientExit({"socket", "buffer"}, "failure")
  /\ UNCHANGED mine

ClientChunkSent ==
  /\ pc["client"] = "send_chunk"
  /\ Sent("client")
  /\ Goto("client", "read")
  /\ NoCall
  /\ UNCHANGED <<files, kernel, mine, theirs, history>>

ClientCodeSent ==
  /\ pc["client"] = "read"
  /\ offset >= input.len
  /\ Goto("client", "shutdown")
  /\ Release("client", {"buffer"})
  /\ NoCall
  /\ UNCHANGED <<kernel, mine, theirs, history>>

ClientShutdown ==
  /\ pc["client"] = "shutdown"
  /\ ended' = Put(ended, "client", TRUE)
  /\ Goto("client", IF VarSize > 0 THEN "receive_variable" ELSE "close")
  /\ StartRecv("client", IntBytes)
  /\ UNCHANGED <<files, connected, sent, taken, closed, broken, mine, theirs, history>>

(* shutdown() fails on a connection that was reset. *)
ClientShutdownFails ==
  /\ pc["client"] = "shutdown"
  /\ broken \/ "calls" \in Faults
  /\ ClientExit({"socket"}, "failure")
  /\ UNCHANGED mine

(* The number of the variable in the int just received; 0 if it has bytes *)
(* that were not received, or that belong to two variables.               *)
Variable ==
  IF Filled("client") = IntBytes /\ mark["client"] % IntBytes = 0
  THEN mark["client"] \div IntBytes + 1 ELSE 0

ClientIntReceived ==
  /\ pc["client"] = "receive_variable"
  /\ Received("client")
  /\ printed' = Append(printed, Variable)
  /\ short' = (short \/ Filled("client") < IntBytes)
  /\ StartRecv("client", IntBytes)
  /\ Goto("client", IF Len(printed) + 1 < VarSize THEN "receive_variable" ELSE "close")
  /\ UNCHANGED <<files, kernel, input, offset, theirs, dropped>>

(* Mutant: the result of print_received_variables is not returned. *)
ClientIntFailsUnreported ==
  /\ pc["client"] = "receive_variable"
  /\ RecvError("client")
  /\ ClientExit({"socket"}, "success")
  /\ UNCHANGED mine

ClientIntFails ==
  /\ pc["client"] = "receive_variable"
  /\ RecvError("client")
  /\ ClientExit({"socket"}, "failure")
  /\ UNCHANGED mine

ClientClose ==
  /\ pc["client"] = "close"
  /\ ClientExit({"socket"}, "success")
  /\ UNCHANGED mine

-----------------------------------------------------------------------------
(* The server: jvm_server_start and the functions it calls. *)

ServerExit(things, status) ==
  /\ Exit("server", things, status)
  /\ UNCHANGED <<mine, history>>

ServerBind ==
  /\ pc["server"] = "bind"
  /\ Goto("server", "listen")
  /\ Release("server", {"addresses"})
  /\ NoCall
  /\ UNCHANGED <<kernel, mine, theirs, history>>

ServerBindFails ==
  /\ pc["server"] = "bind"
  /\ "calls" \in Faults
  /\ SetUpFails("server", {"addresses", "listener"})

ServerListen ==
  /\ pc["server"] = "listen"
  /\ Goto("server", "accept")
  /\ NoCall
  /\ UNCHANGED <<files, kernel, mine, theirs, history>>

ServerListenFails ==
  /\ pc["server"] = "listen"
  /\ "calls" \in Faults
  /\ SetUpFails("server", {"listener"})

ServerAccept ==
  /\ pc["server"] = "accept"
  /\ connected
  /\ Goto("server", "receive_quantity")
  /\ Acquire("server", {"connection"})
  /\ StartRecv("server", IntBytes)
  /\ UNCHANGED <<kernel, mine, theirs, history>>

(* The kernel resets a connection that was never accepted. *)
ServerAcceptFails ==
  /\ pc["server"] = "accept"
  /\ "calls" \in Faults
  /\ ServerExit({"listener"}, "failure")
  /\ broken' = connected
  /\ UNCHANGED theirs

(* receive_variables_quantity, then stack_create.  malloc fails for a       *)
(* negative quantity; the result of int_vector_create is not looked at.     *)
ServerQuantityReceived ==
  /\ pc["server"] = "receive_quantity"
  /\ Received("server")
  /\ size' \in IF Filled("server") = IntBytes THEN {VarSize} ELSE Garbage
  /\ allocated' \in {a \in BOOLEAN : IF size' < 0 THEN ~a ELSE a \/ "memory" \in Faults}
  /\ short' = (short \/ Filled("server") < IntBytes)
  /\ Acquire("server", {"stack"} \cup IF allocated' THEN {"vector"} ELSE {})
  /\ Goto("server", "malloc")
  /\ NoCall
  /\ UNCHANGED <<kernel, mine, ran, truncated, answered, dropped>>

ServerQuantityFails ==
  /\ pc["server"] = "receive_quantity"
  /\ RecvError("server")
  /\ ServerExit({"listener", "connection"}, "failure")
  /\ UNCHANGED <<broken, theirs>>

ServerMalloc ==
  /\ pc["server"] = "malloc"
  /\ Goto("server", "receive_chunk")
  /\ Acquire("server", {"buffer"})
  /\ StartRecv("server", ChunkSize)
  /\ UNCHANGED <<kernel, mine, theirs, history>>

ServerMallocFails ==
  /\ pc["server"] = "malloc"
  /\ "memory" \in Faults
  /\ ServerExit({"listener", "connection", "vector", "stack"}, "failure")
  /\ UNCHANGED <<broken, theirs>>

(* receive_and_process_byte_codes leaves its loop: socket_recv had nothing, *)
(* or the last chunk, which lost some nodes, could not be run to its end.   *)
(* stack_destroy frees the nodes that are in the list.                      *)
ServerStopsReading(lost) ==
  /\ held' = Put(held, "server", (held["server"] \ {"buffer", "stack"}) \cup lost)
  /\ UNCHANGED exit
  /\ Goto("server", "print")
  /\ NoCall

(* Mutant: a chunk that is not full is taken for the end of the program. *)
ServerNoChunkWhenNotFull ==
  /\ pc["server"] = "receive_chunk"
  /\ ~RecvLooping(call["server"])
  /\ RecvResult(call["server"]) < ChunkSize
  /\ ServerStopsReading({})
  /\ UNCHANGED <<kernel, mine, theirs, history>>

ServerNoChunk ==
  /\ pc["server"] = "receive_chunk"
  /\ ~RecvLooping(call["server"])
  /\ RecvResult(call["server"]) <= 0
  /\ ServerStopsReading({})
  /\ UNCHANGED <<kernel, mine, theirs, history>>

(* Mutant: the last byte of the chunk is left out. *)
ChunkButLast == [i \in 1 .. RecvResult(call["server"]) - 1 |-> mark["server"] + i]

(* The numbers of the bytes of the chunk: those counted, from the buffer's start. *)
Chunk == [i \in 1 .. RecvResult(call["server"]) |-> mark["server"] + i]

KindOf(n) == IF n <= IntBytes THEN "plain" ELSE input.code[n - IntBytes]

(* A chunk ends inside an instruction when an odd number of bytes that take *)
(* an argument stands at its end: each takes the next for its argument, and *)
(* the byte before them ends an instruction whatever it is.                 *)
EndsInside(bytes) ==
  \E n \in 1 .. Len(bytes) :
    /\ n % 2 = 1
    /\ \A i \in 1 .. n : KindOf(bytes[Len(bytes) + 1 - i]) = "argument"
    /\ n = Len(bytes) \/ KindOf(bytes[Len(bytes) - n]) # "argument"

(* What running the bytes may lose for good: each instruction may push, and a *)
(* stack_push whose second malloc fails returns without freeing its node      *)
(* (stack.c:19-22).  A cut instruction alone is not run.                      *)
Losses(bytes) ==
  {lost \in SUBSET {"node"} :
     lost # {} => "memory" \in Faults /\ ~(EndsInside(bytes) /\ Len(bytes) = 1)}

ServerRunChunk ==
  /\ pc["server"] = "receive_chunk"
  /\ ~RecvLooping(call["server"])
  /\ RecvResult(call["server"]) > 0
  /\ ran' = ran \o Chunk
  /\ truncated' = EndsInside(Chunk)
  /\ \E lost \in Losses(Chunk) :
       IF truncated'
       THEN ServerStopsReading(lost)
       ELSE Acquire("server", lost) /\ StartRecv("server", ChunkSize) /\ UNCHANGED pc
  /\ UNCHANGED <<kernel, mine, size, allocated, answered, history>>

(* idiv and irem may trap, iload may read outside the vector, and a vector for *)
(* which there was no memory has no element to store, load or print.           *)
CanKill ==
  IF pc["server"] = "receive_chunk"
  THEN \E i \in DOMAIN Chunk : KindOf(Chunk[i]) # "plain"
  ELSE pc["server"] = "print" /\ ~allocated /\ size > 0

Killed(p) ==
  /\ Goto(p, "killed")
  /\ exit' = Put(exit, p, "killed")
  /\ held' = Put(held, p, {})
  /\ Close(p)
  /\ NoCall
  /\ UNCHANGED <<connected, sent, taken, broken, mine, theirs, history>>

ServerKilled ==
  /\ \/ /\ pc["server"] = "receive_chunk"
        /\ ~RecvLooping(call["server"])
        /\ RecvResult(call["server"]) > 0
     \/ pc["server"] = "print"
  /\ CanKill
  /\ Killed("server")

(* int_vector_print_elements reads every element. *)
ServerPrint ==
  /\ pc["server"] = "print"
  /\ ~CanKill
  /\ Goto("server", IF size > 0 THEN "send_variable" ELSE "close")
  /\ StartSend("server", IntBytes)
  /\ UNCHANGED <<files, kernel, mine, theirs, history>>

(* Mutant: the loop of send_variables one turn too long. *)
ServerIntSentTooMany ==
  /\ pc["server"] = "send_variable"
  /\ Sent("server")
  /\ answered' = answered + 1
  /\ Goto("server", IF answered' <= size THEN "send_variable" ELSE "close")
  /\ StartSend("server", IntBytes)
  /\ UNCHANGED <<files, kernel, mine, size, allocated, ran, truncated, history>>

ServerIntSent ==
  /\ pc["server"] = "send_variable"
  /\ Sent("server")
  /\ answered' = answered + 1
  /\ Goto("server", IF answered' < size THEN "send_variable" ELSE "close")
  /\ StartSend("server", IntBytes)
  /\ UNCHANGED <<files, kernel, mine, size, allocated, ran, truncated, history>>

ServerIntFails ==
  /\ pc["server"] = "send_variable"
  /\ SendError("server")
  /\ ServerExit({"listener", "connection", "vector"}, "failure")
  /\ UNCHANGED <<broken, theirs>>

ServerClose ==
  /\ pc["server"] = "close"
  /\ ServerExit({"listener", "connection", "vector"}, "success")
  /\ UNCHANGED <<broken, theirs>>

-----------------------------------------------------------------------------
(* A process is killed from outside; the kernel closes what it had open. *)
Crash(p) ==
  /\ "crash" \in Faults
  /\ pc[p] \notin {"done", "killed"}
  /\ Killed(p)

Over(p) == pc[p] \in {"done", "killed"}

(* Nothing is left to do: a server no client has reached waits for one. *)
Finished ==
  /\ Over("client")
  /\ Over("server") \/ (pc["server"] = "accept" /\ ~connected)

ClientCode ==
  \/ ClientConnect \/ ClientConnectFails \/ ClientQuantitySent \/ ClientSendFails
  \/ ClientMalloc \/ ClientMallocFails \/ ClientRead \/ ClientReadFails
  \/ ClientChunkSent \/ ClientCodeSent \/ ClientShutdown \/ ClientShutdownFails
  \/ ClientIntReceived \/ ClientIntFails \/ ClientClose

ServerCode ==
  \/ ServerBind \/ ServerBindFails \/ ServerListen \/ ServerListenFails
  \/ ServerAccept \/ ServerAcceptFails
  \/ ServerQuantityReceived \/ ServerQuantityFails \/ ServerMalloc \/ ServerMallocFails
  \/ ServerNoChunk \/ ServerRunChunk \/ ServerKilled \/ ServerPrint
  \/ ServerIntSent \/ ServerIntFails \/ ServerClose

SetUpCode(p) ==
  \/ Resolve(p) \/ ResolveFails(p) \/ OpenSocket(p) \/ OpenSocketFails(p)
  \/ SetOption(p) \/ SetOptionFails(p)

SocketCode(p) ==
  \/ \E k \in 1 .. Capacity : SendAccept(p, k)
  \/ SendFails(p)
  \/ \E n \in -1 .. Capacity : RecvTurn(p, n)

Next ==
  \/ ClientCode \/ ServerCode
  \/ \E p \in Procs : SetUpCode(p) \/ SocketCode(p) \/ Crash(p)
  \/ NetworkFails \/ ClosedEndResets
  \/ Finished /\ UNCHANGED vars

Spec == Init /\ [][Next]_vars

(* Each process runs whenever it can, and data sent to a closed end is *)
(* answered by a reset in the end.                                     *)
Fairness ==
  /\ WF_vars(SetUpCode("client") \/ ClientCode \/ SocketCode("client"))
  /\ WF_vars(SetUpCode("server") \/ ServerCode \/ SocketCode("server"))
  /\ WF_vars(ClosedEndResets)

FairSpec == Spec /\ Fairness

-----------------------------------------------------------------------------
TypeOK ==
  /\ pc \in [Procs -> {"resolve", "socket", "option", "bind", "listen", "connect",
                       "send_quantity", "malloc", "read", "send_chunk", "shutdown",
                       "receive_variable", "close", "accept", "receive_quantity",
                       "receive_chunk", "print", "send_variable", "done", "killed"}]
  /\ exit \in [Procs -> {"none", "success", "failure", "killed"}]
  /\ held \in [Procs -> SUBSET {"src", "addresses", "socket", "buffer", "listener", "connection",
                                "vector", "stack", "node"}]
  /\ connected \in BOOLEAN /\ broken \in BOOLEAN
  /\ sent \in [Procs -> Nat] /\ taken \in [Procs -> Nat]
  /\ ended \in [Procs -> BOOLEAN] /\ closed \in [Procs -> BOOLEAN]
  /\ call \in [Procs -> SendCalls \cup RecvCalls] /\ mark \in [Procs -> Nat]
  /\ input \in Inputs /\ offset \in Nat /\ printed \in Seq(Nat)
  /\ size \in Garbage \cup {0, VarSize} /\ allocated \in BOOLEAN
  /\ ran \in Seq(Nat) /\ truncated \in BOOLEAN /\ answered \in Nat
  /\ short \in BOOLEAN /\ dropped \in BOOLEAN
  /\ \A p \in Procs : taken[p] <= sent[p] /\ InFlight(p) <= Capacity

(* All that a process that returns may leave behind: a server that ran byte    *)
(* codes where memory fails has lost nodes in stack_push.                      *)
LeftBehind(p) == IF p = "server" /\ "memory" \in Faults /\ ran # << >> THEN {"node"} ELSE {}

(* Whatever fails, and wherever, a process that returns has closed its sockets *)
(* and files and freed its buffers, its stack, its vector and its addresses:   *)
(* the clean-up of every early return of socket_connect,                       *)
(* socket_bind_and_address, jvm_client_start, send_byte_codes and              *)
(* jvm_server_start is complete but for the nodes of stack.c:19-22.            *)
Released == \A p \in Procs : pc[p] = "done" => held[p] \subseteq LeftBehind(p)

Answering == pc["server"] \in {"print", "send_variable", "close"}

(* The server answers when it has read all that the client sent, unless the    *)
(* program was cut inside an instruction or the connection broke: a pause of   *)
(* the client, or the sizes in which its bytes arrive, do not start the answer.*)
AnswersAfterTheEnd ==
  Answering => truncated \/ broken \/ (ended["client"] /\ InFlight("client") = 0)

(* Unless socket_recv dropped bytes, the server has then run every byte the    *)
(* client sent after the quantity, each once and in order, whatever chunks the *)
(* two ends cut the stream into.                                               *)
RunsWhatWasSent ==
  Answering /\ ~(truncated \/ broken \/ dropped \/ short) =>
    ran = [i \in 1 .. sent["client"] - IntBytes |-> IntBytes + i]

(* A client that reports success has printed the N variables in order, unless  *)
(* an int was cut short on the way (the server died, or a repeated answer of   *)
(* recv() ended socket_recv early).                                            *)
PrintsTheVariables ==
  exit["client"] = "success" /\ ~short =>
    Len(printed) = Cardinality(1 .. VarSize) /\ \A i \in 1 .. Len(printed) : printed[i] = i

(* The two ends agree on the number of variables: if both report success, the  *)
(* client has read all of the answer.                                          *)
NothingLeftUnread ==
  /\ \A p \in Procs : exit[p] = "success"
  /\ ~(short \/ broken)
  => sent["server"] = taken["server"]

(* The session ends: neither process waits for ever for the other.             *)
Terminates == <>Finished

-----------------------------------------------------------------------------
(* What the documents say and the code does not do; refuted by a run. *)

(* jvm_client.h:33: the client reads from the FILE and sends "until all the   *)
(* byte_codes are sent".                                                      *)
SendsEveryByteCode == exit["client"] = "success" => offset >= Len(input.code)
=============================================================================
