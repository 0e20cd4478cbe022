---------------------------- MODULE SessionProofs ---------------------------
(***************************************************************************)
(* Proofs about Session for all programs, sizes, capacities and faults.    *)
(***************************************************************************)
EXTENDS Session, SharedLemmas, SequenceTheorems

ClientPlaces ==
  {"resolve", "socket", "option", "connect", "send_quantity", "malloc", "read", "send_chunk",
   "shutdown", "receive_variable", "close", "done", "killed"}
ServerPlaces ==
  {"resolve", "socket", "option", "bind", "listen", "accept", "receive_quantity", "malloc",
   "receive_chunk", "print", "send_variable", "close", "done", "killed"}

Places(p) == IF p = "client" THEN ClientPlaces ELSE ServerPlaces

Sides == \A p \in Procs : pc[p] \in Places(p)

(* A socket_send in progress has sent no more than it was given, and fails *)
(* only on a connection that was reset.                                    *)
SendInv(p) ==
  Sending(p) =>
    /\ call[p] \in SendCalls
    /\ call[p].sent <= call[p].size
    /\ ~call[p].valid => broken
    /\ pc[p] # "send_chunk" => call[p].size = IntBytes

(* A socket_recv in progress has filled its buffer with at least the bytes it *)
(* counts, and with just these until the answer that ends its loop.           *)
RecvInv(p) ==
  Receiving(p) =>
    /\ call[p] \in RecvCalls
    /\ call[p].chunk = IF pc[p] = "receive_chunk" THEN ChunkSize ELSE IntBytes
    /\ call[p].s <= call[p].received
    /\ call[p].received <= Filled(p) /\ Filled(p) <= call[p].chunk
    /\ RecvLooping(call[p]) => Filled(p) = call[p].received
    /\ ~call[p].result => broken

Typed ==
  /\ TypeOK
  /\ Sides
  /\ broken => connected
  /\ SendInv("client") /\ SendInv("server")
  /\ RecvInv("client") /\ RecvInv("server")

(* What a process holds at each place of its code. *)
Holds(p) ==
  CASE pc[p] \in {"resolve", "done", "killed"} -> {}
    [] pc[p] = "socket" -> {"addresses"}
    [] pc[p] \in {"option", "connect", "bind"} -> {"addresses", Descriptor(p)}
    [] pc[p] \in {"listen", "accept"} -> {"listener"}
    [] p = "client" /\ pc[p] \in {"read", "send_chunk"} -> {"socket", "buffer"}
    [] p = "client" /\ pc[p] \in {"send_quantity", "malloc", "shutdown", "receive_variable", "close"} -> {"socket"}
    [] pc[p] = "receive_quantity" -> {"listener", "connection"}
    [] p = "server" /\ pc[p] = "malloc" -> {"listener", "connection", "stack", "vector"}
    [] pc[p] = "receive_chunk" -> {"listener", "connection", "stack", "vector", "buffer"}
    [] OTHER -> {"listener", "connection", "vector"}

HeldInv ==
  /\ held["client"] \subseteq Holds("client") \cup (IF Over("client") THEN {} ELSE {"src"})
  /\ held["server"] \subseteq Holds("server") \cup LeftBehind("server")

AnswerInv ==
  /\ ended["client"] => pc["client"] \in {"receive_variable", "close", "done", "killed"}
  /\ pc["server"] = "receive_chunk" /\ ~RecvLooping(call["server"]) /\ RecvResult(call["server"]) <= 0 =>
       broken \/ (ended["client"] /\ InFlight("client") = 0)
  /\ AnswersAfterTheEnd

(* The numbers of the bytes of the program among the first n of the client. *)
Program(n) == [i \in 1 .. n - IntBytes |-> IntBytes + i]

RanInv ==
  /\ pc["server"] \in {"resolve", "socket", "option", "bind", "listen", "accept"} => taken["client"] = 0
  /\ pc["server"] = "receive_quantity" => mark["server"] = 0
  /\ pc["server"] \in {"resolve", "socket", "option", "bind", "listen", "accept", "receive_quantity", "malloc"} =>
       ran = << >>
  /\ ~short /\ pc["server"] = "malloc" => taken["client"] = IntBytes
  /\ pc["server"] = "receive_chunk" =>
       /\ ~short => mark["server"] >= IntBytes
       /\ ~dropped => Filled("server") = call["server"].received
       /\ ~dropped /\ ~short => ran = Program(mark["server"])
  /\ Answering /\ ~(truncated \/ broken \/ dropped \/ short) => ran = Program(taken["client"])

InOrderSoFar == \A i \in 1 .. Len(printed) : printed[i] = i

PrintedAll ==
  ~short =>
    /\ Len(printed) = IF VarSize > 0 THEN VarSize ELSE 0
    /\ InOrderSoFar
    /\ taken["server"] = IntBytes * Len(printed)

PrintInv ==
  /\ pc["client"] \notin {"receive_variable", "close", "done", "killed"} => taken["server"] = 0 /\ printed = << >>
  /\ pc["client"] = "receive_variable" =>
       /\ Len(printed) < VarSize
       /\ ~short => mark["client"] = IntBytes * Len(printed) /\ InOrderSoFar
  /\ pc["client"] = "close" \/ exit["client"] = "success" => PrintedAll
  /\ exit["client"] = "success" => pc["client"] = "done"

AnsweredAll ==
  /\ answered = IF size > 0 THEN size ELSE 0
  /\ ~broken => sent["server"] = IntBytes * answered

AnsweredInv ==
  /\ pc["server"] \notin {"send_variable", "close", "done", "killed"} => sent["server"] = 0 /\ answered = 0
  /\ /\ ~short
     /\ \/ pc["server"] \in {"malloc", "receive_chunk", "print", "send_variable", "close"}
        \/ exit["server"] = "success"
     => size = VarSize
  /\ pc["server"] = "send_variable" =>
       /\ answered < size
       /\ ~broken => sent["server"] = IntBytes * answered + call["server"].sent
  /\ pc["server"] = "close" \/ exit["server"] = "success" => AnsweredAll
  /\ exit["server"] = "success" => pc["server"] = "done"
-----------------------------------------------------------------------------
(* Types, and the loops of socket.c inside the session. *)

(* Both processes begin at resolve, with nothing sent. *)
LEMMA InitTyped == Init => Typed
  <1> SUFFICES ASSUME Init PROVE Typed
    OBVIOUS
  <1>1. TypeOK
    <2>1. << >> \in Seq(Nat)
      BY EmptySeq
    <2>2. call \in [Procs -> SendCalls \cup RecvCalls]
      BY SendCallProperties DEF Init
    <2>3. \A p \in Procs : taken[p] <= sent[p] /\ InFlight(p) <= Capacity
      BY SessionAssumption DEF Init, InFlight
    <2>4. held \in [Procs -> SUBSET {"src", "addresses", "socket", "buffer", "listener", "connection",
                                     "vector", "stack"}]
      BY DEF Init, Procs
    <2>. QED BY <2>1, <2>2, <2>3, <2>4 DEF Init, TypeOK
  <1>2. Sides
    BY DEF Init, Sides, Places, ClientPlaces, ServerPlaces, Procs
  <1>3. SendInv("client") /\ SendInv("server") /\ RecvInv("client") /\ RecvInv("server")
    BY DEF Init, SendInv, RecvInv, Sending, Receiving, Procs
  <1>. QED BY <1>1, <1>2, <1>3 DEF Typed, Init

(* The arithmetic of the numbers of the variables. *)
LEMMA MultipleProperties ==
  ASSUME NEW b \in Nat \ {0}, NEW n \in Nat
  PROVE  /\ n \div b \in Nat /\ n % b \in Nat
         /\ (b * n) \div b = n /\ (b * n) % b = 0
  <1>1. n \div b \in Nat /\ n % b \in Nat
    OBVIOUS
  <1>2. (b * n) \div b = n /\ (b * n) % b = 0
    OBVIOUS
  <1>. QED BY <1>1, <1>2

(* A chunk is the bytes from the mark on, as many as socket_recv returned. *)
LEMMA ChunkProperties ==
  ASSUME TypeOK, RecvResult(call["server"]) > 0, call["server"] \in RecvCalls
  PROVE  /\ Chunk \in Seq(Nat)
         /\ Len(Chunk) = RecvResult(call["server"])
         /\ \A i \in 1 .. Len(Chunk) : Chunk[i] = mark["server"] + i
  <1>1. PICK n \in Nat : n = RecvResult(call["server"])
    BY RecvCallProperties DEF RecvResult, SOCKET_CONNECTION_ERROR
  <1>2. Chunk = [i \in 1 .. n |-> mark["server"] + i]
    BY <1>1 DEF Chunk
  <1>3. Chunk \in [1 .. n -> Nat]
    BY <1>2 DEF TypeOK, Procs
  <1>4. Chunk \in Seq(Nat)
    BY <1>1, <1>3, SeqDef
  <1>. QED BY <1>1, <1>2, <1>4

(* After a chunk the loop is left or goes on; nodes of the stack may be lost. *)
LEMMA ChunkIsRun ==
  ASSUME ServerRunChunk
  PROVE  \/ truncated' /\ \E lost \in SUBSET {"node"} : ServerStopsReading(lost)
         \/ /\ \E lost \in SUBSET {"node"} : Acquire("server", lost)
            /\ StartRecv("server", ChunkSize) /\ UNCHANGED pc
  <1>1. PICK lost \in Losses(Chunk) :
          IF truncated'
          THEN ServerStopsReading(lost)
          ELSE Acquire("server", lost) /\ StartRecv("server", ChunkSize) /\ UNCHANGED pc
    BY DEF ServerRunChunk
  <1>2. lost \in SUBSET {"node"}
    BY DEF Losses
  <1>. QED BY ONLY <1>1, <1>2

(* The system calls that set the connection up, and a kill. *)
LEMMA SetUpTypeOK ==
  ASSUME TypeOK, NEW p \in Procs, SetUpCode(p) \/ Crash(p) PROVE TypeOK'
  <1>. USE DEF TypeOK, InFlight, SetUpFails, Exit, Killed, Goto, Acquire, Release, Put, Close, NoCall,
               Descriptor, files, kernel, mine, theirs, history, Procs
  <1>1. CASE Resolve(p)
    BY <1>1 DEF Resolve
  <1>2. CASE ResolveFails(p)
    BY <1>2 DEF ResolveFails
  <1>3. CASE OpenSocket(p)
    BY <1>3 DEF OpenSocket
  <1>4. CASE OpenSocketFails(p)
    BY <1>4 DEF OpenSocketFails
  <1>5. CASE SetOption(p)
    BY <1>5 DEF SetOption
  <1>6. CASE SetOptionFails(p)
    BY <1>6 DEF SetOptionFails
  <1>7. CASE Crash(p)
    BY <1>7 DEF Crash
  <1>. QED BY <1>1, <1>2, <1>3, <1>4, <1>5, <1>6, <1>7 DEF SetUpCode

(* The code of the client. *)
LEMMA ClientTypeOK ==
  ASSUME TypeOK, ClientCode PROVE TypeOK'
  <1>. USE SessionAssumption, SendCallProperties, RecvCallProperties
       DEF TypeOK, InFlight, ClientExit, SetUpFails, Exit, Goto, Acquire, Release, Put, Close, NoCall,
           StartSend, StartRecv, Peer, files, kernel, mine, theirs, history, Procs
  <1>1. CASE ClientConnect
    BY <1>1 DEF ClientConnect
  <1>2. CASE ClientConnectFails
    BY <1>2 DEF ClientConnectFails
  <1>3. CASE ClientQuantitySent
    BY <1>3 DEF ClientQuantitySent
  <1>4. CASE ClientSendFails
    BY <1>4 DEF ClientSendFails
  <1>5. CASE ClientMalloc
    BY <1>5 DEF ClientMalloc
  <1>6. CASE ClientMallocFails
    BY <1>6 DEF ClientMallocFails
  <1>7. CASE ClientRead
    <2>1. BytesRead \in Nat
      BY <1>7 DEF ClientRead, BytesRead, Lesser
    <2>. QED BY <1>7, <2>1 DEF ClientRead
  <1>8. CASE ClientReadFails
    BY <1>8 DEF ClientReadFails
  <1>9. CASE ClientChunkSent
    BY <1>9 DEF ClientChunkSent
  <1>10. CASE ClientCodeSent
    BY <1>10 DEF ClientCodeSent
  <1>11. CASE ClientShutdown
    BY <1>11 DEF ClientShutdown
  <1>12. CASE ClientShutdownFails
    BY <1>12 DEF ClientShutdownFails
  <1>13. CASE ClientIntReceived
    <2>1. Variable \in Nat
      <3>1. mark["client"] \div IntBytes \in Nat
        BY MultipleProperties
      <3>. QED BY <3>1 DEF Variable
    <2>2. printed' \in Seq(Nat)
      BY <1>13, <2>1, AppendProperties DEF ClientIntReceived
    <2>. QED BY <1>13, <2>2 DEF ClientIntReceived
  <1>14. CASE ClientIntFails
    BY <1>14 DEF ClientIntFails
  <1>15. CASE ClientClose
    BY <1>15 DEF ClientClose
  <1>. QED BY <1>1, <1>2, <1>3, <1>4, <1>5, <1>6, <1>7, <1>8, <1>9, <1>10, <1>11, <1>12, <1>13, <1>14, <1>15 DEF ClientCode

(* The code of the server; a chunk is a sequence only if its loop counted right. *)
LEMMA ServerTypeOK ==
  ASSUME Typed, ServerCode PROVE TypeOK'
  <1>. USE SessionAssumption, SendCallProperties, RecvCallProperties
       DEF TypeOK, Typed, InFlight, ServerExit, SetUpFails, Exit, Killed, Goto, Acquire, Release, Put, Close, NoCall,
           StartSend, StartRecv, Peer, ServerStopsReading, files, kernel, mine, theirs, history, Procs
  <1>1. CASE ServerBind
    BY <1>1 DEF ServerBind
  <1>2. CASE ServerBindFails
    BY <1>2 DEF ServerBindFails
  <1>3. CASE ServerListen
    BY <1>3 DEF ServerListen
  <1>4. CASE ServerListenFails
    BY <1>4 DEF ServerListenFails
  <1>5. CASE ServerAccept
    BY <1>5 DEF ServerAccept
  <1>6. CASE ServerAcceptFails
    BY <1>6 DEF ServerAcceptFails
  <1>7. CASE ServerQuantityReceived
    BY <1>7 DEF ServerQuantityReceived
  <1>8. CASE ServerQuantityFails
    BY <1>8 DEF ServerQuantityFails
  <1>9. CASE ServerMalloc
    BY <1>9 DEF ServerMalloc
  <1>10. CASE ServerMallocFails
    BY <1>10 DEF ServerMallocFails
  <1>11. CASE ServerNoChunk
    BY <1>11 DEF ServerNoChunk
  <1>12. CASE ServerRunChunk
    <2>1. Chunk \in Seq(Nat)
      BY <1>12, ChunkProperties DEF ServerRunChunk, RecvInv, Receiving
    <2>2. ran \in Seq(Nat) /\ ran' = ran \o Chunk
      BY <1>12 DEF ServerRunChunk
    <2>3. ran \o Chunk \in Seq(Nat)
      BY ONLY <2>1, <2>2, ConcatProperties
    <2>4. truncated' \in BOOLEAN
      BY <1>12 DEF ServerRunChunk, EndsInside
    <2>5. UNCHANGED <<kernel, mine, size, allocated, answered, history>>
      BY <1>12 DEF ServerRunChunk
    <2>6. ASSUME NEW lost \in SUBSET {"node"}, ServerStopsReading(lost) PROVE TypeOK'
      BY <2>2, <2>3, <2>4, <2>5, <2>6
    <2>7. ASSUME NEW lost \in SUBSET {"node"}, Acquire("server", lost),
                 StartRecv("server", ChunkSize), UNCHANGED pc
          PROVE  TypeOK'
      BY <2>2, <2>3, <2>4, <2>5, <2>7
    <2>. QED BY <1>12, <2>6, <2>7, ChunkIsRun
  <1>13. CASE ServerKilled
    BY <1>13 DEF ServerKilled
  <1>14. CASE ServerPrint
    BY <1>14 DEF ServerPrint
  <1>15. CASE ServerIntSent
    BY <1>15 DEF ServerIntSent
  <1>16. CASE ServerIntFails
    BY <1>16 DEF ServerIntFails
  <1>17. CASE ServerClose
    BY <1>17 DEF ServerClose
  <1>. QED BY <1>1, <1>2, <1>3, <1>4, <1>5, <1>6, <1>7, <1>8, <1>9, <1>10, <1>11, <1>12, <1>13, <1>14, <1>15, <1>16, <1>17 DEF ServerCode

(* A call of socket_recv begins. *)
LEMMA RecvStarts ==
  ASSUME NEW p \in Procs, NEW n \in Nat, n = IF pc'[p] = "receive_chunk" THEN ChunkSize ELSE IntBytes,
         call'[p] = RecvCall(n), mark'[p] = taken'[Peer(p)], taken'[Peer(p)] \in Nat
  PROVE  RecvInv(p)'
  BY RecvCallProperties DEF RecvInv, Filled, Peer

(* No call is in progress while the connection is set up. *)
LEMMA SetUpTyped ==
  ASSUME Typed, TypeOK', NEW p \in Procs, SetUpCode(p) \/ Crash(p)
  PROVE  Typed'
  <1>. USE SessionAssumption, SendCallProperties, RecvCallProperties
       DEF Typed, TypeOK, Sides, Places, ClientPlaces, ServerPlaces, SendInv, RecvInv, Sending, Receiving,
           Filled, Peer, Exit, Killed, Descriptor, SetUpFails, Goto, Acquire, Release, Put, Close, NoCall, StartSend,
           StartRecv, files, kernel, mine, theirs, history, Procs
  <1>1. CASE Resolve(p)
    <2>1. Sides'
      BY <1>1 DEF Resolve
    <2>2. SendInv("client")'
      BY <1>1 DEF Resolve
    <2>3. SendInv("server")'
      BY <1>1 DEF Resolve
    <2>4. RecvInv("client")'
      BY <1>1 DEF Resolve
    <2>5. RecvInv("server")'
      BY <1>1 DEF Resolve
    <2>. QED BY <1>1, <2>1, <2>2, <2>3, <2>4, <2>5 DEF Resolve
  <1>2. CASE ResolveFails(p)
    BY <1>2, SMTT(20) DEF ResolveFails
  <1>3. CASE OpenSocket(p)
    BY <1>3 DEF OpenSocket
  <1>4. CASE OpenSocketFails(p)
    BY <1>4 DEF OpenSocketFails
  <1>5. CASE SetOption(p)
    BY <1>5, SMTT(20) DEF SetOption
  <1>6. CASE SetOptionFails(p)
    BY <1>6 DEF SetOptionFails
  <1>7. CASE Crash(p)
    <2>1. Sides'
      BY <1>7 DEF Crash
    <2>2. SendInv("client")'
      BY <1>7 DEF Crash
    <2>3. SendInv("server")'
      BY <1>7 DEF Crash
    <2>4. RecvInv("client")'
      BY <1>7 DEF Crash
    <2>5. RecvInv("server")'
      BY <1>7 DEF Crash
    <2>. QED BY <1>7, <2>1, <2>2, <2>3, <2>4, <2>5 DEF Crash
  <1>. QED BY <1>1, <1>2, <1>3, <1>4, <1>5, <1>6, <1>7 DEF SetUpCode

(* Each call of the client starts with nothing done. *)
LEMMA ClientTyped ==
  ASSUME Typed, TypeOK', ClientCode
  PROVE  Typed'
  <1>. USE SessionAssumption, SendCallProperties, RecvCallProperties
       DEF Typed, TypeOK, Sides, Places, ClientPlaces, ServerPlaces, SendInv, RecvInv, Sending, Receiving,
           Filled, Peer, Exit, ClientExit, SetUpFails, Goto, Acquire, Release, Put, Close, NoCall, StartSend,
           StartRecv, files, kernel, mine, theirs, history, Procs
  <1>1. CASE ClientConnect
    BY <1>1, SMTT(30) DEF ClientConnect
  <1>2. CASE ClientConnectFails
    BY <1>2 DEF ClientConnectFails
  <1>3. CASE ClientQuantitySent
    BY <1>3 DEF ClientQuantitySent
  <1>4. CASE ClientSendFails
    BY <1>4 DEF ClientSendFails
  <1>5. CASE ClientMalloc
    BY <1>5 DEF ClientMalloc
  <1>6. CASE ClientMallocFails
    BY <1>6 DEF ClientMallocFails
  <1>7. CASE ClientRead
    <2>1. Sides'
      BY <1>7 DEF ClientRead
    <2>2. SendInv("client")'
      <3>1. BytesRead \in Nat
        BY <1>7 DEF ClientRead, BytesRead, Lesser
      <3>. QED BY <1>7, <3>1, SMTT(30) DEF ClientRead
    <2>3. SendInv("server")'
      BY <1>7 DEF ClientRead
    <2>4. RecvInv("client")'
      BY <1>7 DEF ClientRead
    <2>5. RecvInv("server")'
      BY <1>7 DEF ClientRead
    <2>. QED BY <1>7, <2>1, <2>2, <2>3, <2>4, <2>5 DEF ClientRead
  <1>8. CASE ClientReadFails
    BY <1>8 DEF ClientReadFails
  <1>9. CASE ClientChunkSent
    BY <1>9 DEF ClientChunkSent
  <1>10. CASE ClientCodeSent
    BY <1>10 DEF ClientCodeSent
  <1>11. CASE ClientShutdown
    <2>1. Sides'
      BY <1>11 DEF ClientShutdown
    <2>2. SendInv("client")'
      BY <1>11 DEF ClientShutdown
    <2>3. SendInv("server")'
      BY <1>11 DEF ClientShutdown
    <2>4. RecvInv("client")'
      BY <1>11, SMTT(30) DEF ClientShutdown
    <2>5. RecvInv("server")'
      BY <1>11 DEF ClientShutdown
    <2>. QED BY <1>11, <2>1, <2>2, <2>3, <2>4, <2>5 DEF ClientShutdown
  <1>12. CASE ClientShutdownFails
    BY <1>12 DEF ClientShutdownFails
  <1>13. CASE ClientIntReceived
    <2>1. Sides'
      BY <1>13 DEF ClientIntReceived
    <2>2. SendInv("client")'
      BY <1>13 DEF ClientIntReceived
    <2>3. SendInv("server")'
      BY <1>13 DEF ClientIntReceived
    <2>4. RecvInv("client")'
      <3>1. /\ pc'["client"] \in {"receive_variable", "close"} /\ call'["client"] = RecvCall(IntBytes)
            /\ mark'["client"] = taken'["server"] /\ taken'["server"] \in Nat
        BY <1>13 DEF ClientIntReceived
      <3>. QED BY ONLY <3>1, RecvStarts, SessionAssumption DEF Peer, Procs
    <2>5. RecvInv("server")'
      BY <1>13 DEF ClientIntReceived
    <2>. QED BY <1>13, <2>1, <2>2, <2>3, <2>4, <2>5 DEF ClientIntReceived
  <1>14. CASE ClientIntFails
    BY <1>14 DEF ClientIntFails
  <1>15. CASE ClientClose
    BY <1>15 DEF ClientClose
  <1>. QED BY <1>1, <1>2, <1>3, <1>4, <1>5, <1>6, <1>7, <1>8, <1>9, <1>10, <1>11, <1>12, <1>13, <1>14, <1>15 DEF ClientCode

(* Each call of the server starts with nothing done. *)
LEMMA ServerTyped ==
  ASSUME Typed, TypeOK', ServerCode
  PROVE  Typed'
  <1>. USE SessionAssumption, SendCallProperties, RecvCallProperties
       DEF Typed, TypeOK, Sides, Places, ClientPlaces, ServerPlaces, SendInv, RecvInv, Sending, Receiving,
           Filled, Peer, Exit, ServerExit, ServerStopsReading, Killed, SetUpFails, Goto, Acquire, Release, Put, Close, NoCall, StartSend,
           StartRecv, files, kernel, mine, theirs, history, Procs
  <1>1. CASE ServerBind
    BY <1>1 DEF ServerBind
  <1>2. CASE ServerBindFails
    BY <1>2 DEF ServerBindFails
  <1>3. CASE ServerListen
    BY <1>3 DEF ServerListen
  <1>4. CASE ServerListenFails
    BY <1>4 DEF ServerListenFails
  <1>5. CASE ServerAccept
    <2>1. Sides'
      BY <1>5 DEF ServerAccept
    <2>2. SendInv("client")'
      BY <1>5 DEF ServerAccept
    <2>3. SendInv("server")'
      BY <1>5 DEF ServerAccept
    <2>4. RecvInv("client")'
      BY <1>5 DEF ServerAccept
    <2>5. RecvInv("server")'
      BY <1>5, SMTT(30) DEF ServerAccept
    <2>. QED BY <1>5, <2>1, <2>2, <2>3, <2>4, <2>5 DEF ServerAccept
  <1>6. CASE ServerAcceptFails
    <2>1. Sides'
      BY <1>6 DEF ServerAcceptFails
    <2>2. SendInv("client")'
      BY <1>6 DEF ServerAcceptFails
    <2>3. SendInv("server")'
      BY <1>6 DEF ServerAcceptFails
    <2>4. RecvInv("client")'
      BY <1>6 DEF ServerAcceptFails
    <2>5. RecvInv("server")'
      BY <1>6 DEF ServerAcceptFails
    <2>. QED BY <1>6, <2>1, <2>2, <2>3, <2>4, <2>5 DEF ServerAcceptFails
  <1>7. CASE ServerQuantityReceived
    BY <1>7 DEF ServerQuantityReceived
  <1>8. CASE ServerQuantityFails
    BY <1>8 DEF ServerQuantityFails
  <1>9. CASE ServerMalloc
    <2>1. Sides'
      BY <1>9 DEF ServerMalloc
    <2>2. SendInv("client")'
      BY <1>9 DEF ServerMalloc
    <2>3. SendInv("server")'
      BY <1>9 DEF ServerMalloc
    <2>4. RecvInv("client")'
      BY <1>9 DEF ServerMalloc
    <2>5. RecvInv("server")'
      BY <1>9, SMTT(30) DEF ServerMalloc
    <2>. QED BY <1>9, <2>1, <2>2, <2>3, <2>4, <2>5 DEF ServerMalloc
  <1>10. CASE ServerMallocFails
    BY <1>10 DEF ServerMallocFails
  <1>11. CASE ServerNoChunk
    BY <1>11 DEF ServerNoChunk
  <1>12. CASE ServerRunChunk
    <2>1. pc["server"] = "receive_chunk" /\ UNCHANGED <<kernel, mine>>
      BY <1>12 DEF ServerRunChunk
    <2>2. CASE \E lost \in SUBSET {"node"} : ServerStopsReading(lost)
      <3>1. UNCHANGED <<call, mark>> /\ pc' = [pc EXCEPT !["server"] = "print"]
        BY <2>1, <2>2
      <3>2. Sides' /\ (broken => connected)'
        BY <2>1, <3>1
      <3>3. SendInv("client")' /\ SendInv("server")'
        BY <2>1, <3>1
      <3>4. RecvInv("client")'
        BY <2>1, <3>1
      <3>5. RecvInv("server")'
        BY <2>1, <3>1
      <3>. QED BY <3>2, <3>3, <3>4, <3>5
    <2>3. CASE StartRecv("server", ChunkSize) /\ UNCHANGED pc
      <3>1. Sides' /\ (broken => connected)'
        BY <2>1, <2>3
      <3>2. SendInv("client")' /\ SendInv("server")'
        BY <2>1, <2>3
      <3>3. RecvInv("client")'
        BY <2>1, <2>3
      <3>4. RecvInv("server")'
        <4>1. /\ pc'["server"] = "receive_chunk" /\ call'["server"] = RecvCall(ChunkSize)
              /\ mark'["server"] = taken'["client"] /\ taken'["client"] \in Nat
          BY <2>1, <2>3
        <4>. QED BY ONLY <4>1, RecvStarts, SessionAssumption DEF Peer, Procs
      <3>. QED BY <3>1, <3>2, <3>3, <3>4
    <2>. QED BY <1>12, <2>2, <2>3, ChunkIsRun
  <1>13. CASE ServerKilled
    BY <1>13 DEF ServerKilled
  <1>14. CASE ServerPrint
    <2>1. Sides'
      BY <1>14 DEF ServerPrint
    <2>2. SendInv("client")'
      BY <1>14 DEF ServerPrint
    <2>3. SendInv("server")'
      BY <1>14 DEF ServerPrint
    <2>4. RecvInv("client")'
      BY <1>14 DEF ServerPrint
    <2>5. RecvInv("server")'
      BY <1>14 DEF ServerPrint
    <2>. QED BY <1>14, <2>1, <2>2, <2>3, <2>4, <2>5 DEF ServerPrint
  <1>15. CASE ServerIntSent
    <2>1. Sides'
      BY <1>15 DEF ServerIntSent
    <2>2. SendInv("client")'
      BY <1>15 DEF ServerIntSent
    <2>3. SendInv("server")'
      BY <1>15, SMTT(30) DEF ServerIntSent
    <2>4. RecvInv("client")'
      BY <1>15 DEF ServerIntSent
    <2>5. RecvInv("server")'
      BY <1>15 DEF ServerIntSent
    <2>. QED BY <1>15, <2>1, <2>2, <2>3, <2>4, <2>5 DEF ServerIntSent
  <1>16. CASE ServerIntFails
    BY <1>16 DEF ServerIntFails
  <1>17. CASE ServerClose
    BY <1>17 DEF ServerClose
  <1>. QED BY <1>1, <1>2, <1>3, <1>4, <1>5, <1>6, <1>7, <1>8, <1>9, <1>10, <1>11, <1>12, <1>13, <1>14, <1>15, <1>16, <1>17 DEF ServerCode

(* One turn of the loop of socket_send. *)
LEMMA SendTyped ==
  ASSUME Typed, NEW p \in Procs, SendFails(p) \/ \E k \in 1 .. Capacity : SendAccept(p, k)
  PROVE  Typed'
  <1>. USE DEF kernel, files, mine, theirs, history, Procs
  <1>1. call[p] \in SendCalls /\ call[p].sent < call[p].size /\ call[p].valid /\ ~Receiving(p)
    BY DEF Typed, SendInv, SendFails, SendAccept, SendLooping, Sending, Receiving
  <1>2. PICK s \in Int : /\ call' = [call EXCEPT ![p] = SendStep(call[p], s)]
                         /\ s > 0 => s <= call[p].size - call[p].sent /\ s <= Capacity - InFlight(p) /\ sent' = [sent EXCEPT ![p] = @ + s]
                         /\ s <= 0 => broken /\ UNCHANGED sent
                         /\ UNCHANGED <<pc, files, connected, taken, ended, closed, broken, mark, mine, theirs, history>>
    BY SessionAssumption DEF SendFails, SendAccept, Put
  <1>3. /\ call'[p] \in SendCalls /\ call'[p].size = call[p].size
        /\ call'[p].sent = IF s > 0 THEN call[p].sent + s ELSE call[p].sent
        /\ s > 0 => call'[p].valid
    <2>1. call'[p] = SendStep(call[p], s)
      BY <1>2 DEF Typed, TypeOK
    <2>. QED BY <1>1, <2>1, SendStepProperties
  <1>4. \A q \in Procs : q # p => call'[q] = call[q]
    BY <1>2 DEF Typed, TypeOK
  <1>5. TypeOK'
    <2>1. call' \in [Procs -> SendCalls \cup RecvCalls]
      BY <1>2, <1>3 DEF Typed, TypeOK
    <2>2. CASE s > 0
      <3>1. sent' = [sent EXCEPT ![p] = sent[p] + s] /\ s <= Capacity - (sent[p] - taken[p])
        BY <1>2, <2>2 DEF InFlight
      <3>2. /\ sent \in [Procs -> Nat] /\ taken \in [Procs -> Nat]
            /\ \A q \in Procs : taken[q] <= sent[q] /\ sent[q] - taken[q] <= Capacity
        BY DEF Typed, TypeOK, InFlight
      <3>3. sent' \in [Procs -> Nat] /\ \A q \in Procs : taken[q] <= sent'[q] /\ sent'[q] - taken[q] <= Capacity
        BY <2>2, <3>1, <3>2, SessionAssumption
      <3>. QED BY <1>2, <2>1, <3>3 DEF Typed, TypeOK, InFlight
    <2>3. CASE ~(s > 0)
      BY <1>2, <2>1, <2>3 DEF Typed, TypeOK, InFlight
    <2>. QED BY <2>2, <2>3
  <1>6. SendInv(p)'
    <2>1. Sending(p) /\ pc' = pc /\ broken' = broken
      BY <1>2 DEF SendFails, SendAccept
    <2>2. call'[p].sent <= call'[p].size
      BY <1>1, <1>2, <1>3, SendCallProperties
    <2>. QED BY <1>2, <1>3, <2>1, <2>2 DEF Typed, SendInv, Sending
  <1>7. RecvInv(p)'
    BY <1>1, <1>2 DEF RecvInv, Receiving
  <1>8. \A q \in Procs : q # p => SendInv(q)' /\ RecvInv(q)'
    BY <1>2, <1>4 DEF Typed, SendInv, RecvInv, Sending, Receiving, Filled, Peer
  <1>9. Sides' /\ (broken => connected)'
    BY <1>2 DEF Typed, Sides, Places
  <1>. QED BY <1>5, <1>6, <1>7, <1>8, <1>9 DEF Typed

(* One turn of the loop of socket_recv: bytes are counted, or dropped because *)
(* the answer is that of the turn before, or there are none.                  *)
LEMMA RecvTurnEffect ==
  ASSUME Typed, NEW p \in Procs, NEW n \in Int, RecvTurn(p, n),
         NEW c, c = call[p], NEW d, d = RecvStep(c, n), NEW q, q = Peer(p)
  PROVE  /\ Receiving(p) /\ q \in Procs /\ q # p /\ Peer(q) = p
         /\ c \in RecvCalls /\ RecvLooping(c) /\ c.s \in Nat /\ c.received \in Nat /\ c.chunk \in Nat
         /\ taken[q] - mark[p] = c.received /\ c.s <= c.received /\ c.received <= c.chunk
         /\ ~c.result => broken
         /\ call' = [call EXCEPT ![p] = d]
         /\ dropped' = (dropped \/ (n > 0 /\ n = c.s /\ pc[p] = "receive_chunk"))
         /\ UNCHANGED <<pc, files, connected, sent, ended, closed, broken, mark, mine, theirs, short>>
         /\ \/ /\ n \in Nat \ {0} /\ n <= sent[q] - taken[q] /\ n <= c.chunk - c.received
               /\ taken' = [taken EXCEPT ![q] = taken[q] + n]
            \/ n = 0 /\ taken' = taken /\ ended[q] /\ InFlight(q) = 0
            \/ n = -1 /\ taken' = taken /\ broken
  <1>1. q \in Procs /\ q # p /\ Peer(q) = p /\ Receiving(p)
    BY DEF Peer, Procs, RecvTurn
  <1>2. /\ c \in RecvCalls /\ RecvLooping(c) /\ taken[q] - mark[p] = c.received /\ c.s <= c.received
        /\ taken[q] - mark[p] <= c.chunk /\ (~c.result => broken)
    BY DEF Typed, RecvInv, RecvTurn, Filled, Procs
  <1>3. c.s \in Nat /\ c.received \in Nat /\ c.chunk \in Nat
    BY <1>2, RecvCallProperties
  <1>4. taken[q] \in Nat /\ sent[q] \in Nat /\ taken[q] <= sent[q]
    BY <1>1 DEF Typed, TypeOK
  <1>5. \/ /\ n \in Nat \ {0} /\ n <= sent[q] - taken[q] /\ n <= c.chunk - c.received
           /\ taken' = [taken EXCEPT ![q] = taken[q] + n]
        \/ n = 0 /\ taken' = taken /\ ended[q] /\ InFlight(q) = 0
        \/ n = -1 /\ taken' = taken /\ broken
    BY <1>4 DEF RecvTurn, RecvAnswers, Put, InFlight
  <1>. QED BY <1>1, <1>2, <1>3, <1>5 DEF RecvTurn, Put

(* One turn of a receiving loop. *)
LEMMA RecvTyped ==
  ASSUME Typed, NEW p \in Procs, NEW n \in Int, RecvTurn(p, n)
  PROVE  Typed'
  <1>. DEFINE c == call[p]
              q == Peer(p)
              d == RecvStep(c, n)
  <1>. USE DEF kernel, files, mine, theirs, history, Procs
  <1>0. q \in Procs /\ q # p /\ Peer(q) = p
    BY DEF Peer
  <1>1. /\ c \in RecvCalls /\ RecvLooping(c) /\ taken[q] - mark[p] = c.received /\ c.s <= c.received
        /\ c.received <= c.chunk /\ (~c.result => broken) /\ Receiving(p) /\ ~Sending(p)
        /\ taken \in [Procs -> Nat] /\ sent \in [Procs -> Nat] /\ mark \in [Procs -> Nat]
    BY RecvTurnEffect, SMTT(30) DEF Typed, TypeOK, Sending, Receiving
  <1>2. /\ call' = [call EXCEPT ![p] = d]
        /\ UNCHANGED <<pc, files, connected, sent, ended, closed, broken, mark, mine, theirs, short>>
        /\ dropped' \in BOOLEAN
    BY DEF RecvTurn, Put, Typed, TypeOK
  <1>3. \/ /\ n \in Nat \ {0} /\ n <= sent[q] - taken[q] /\ n <= c.chunk - c.received
           /\ taken' = [taken EXCEPT ![q] = taken[q] + n]
        \/ n = 0 /\ taken' = taken
        \/ n = -1 /\ taken' = taken /\ broken
    BY RecvTurnEffect
  <1>4. /\ d \in RecvCalls /\ d.chunk = c.chunk /\ d.s <= d.received
        /\ d.received <= taken'[q] - mark[p] /\ taken'[q] - mark[p] <= d.chunk
        /\ RecvLooping(d) => taken'[q] - mark[p] = d.received
        /\ ~d.result => broken
    <2>0. taken[q] - mark[p] = c.received /\ c.received \in Nat /\ c.s \in Nat /\ c.chunk \in Nat
      BY <1>1, RecvCallProperties
    <2>1. CASE n = c.s
      BY <1>0, <1>1, <1>3, <2>0, <2>1, RecvRepeated
    <2>2. CASE n # c.s /\ n = 0
      BY <1>0, <1>1, <1>3, <2>0, <2>2, RecvClosed
    <2>3. CASE n # c.s /\ n = -1
      BY <1>0, <1>1, <1>3, <2>0, <2>3, RecvFailed
    <2>4. CASE n # c.s /\ n \in Nat \ {0}
      BY <1>0, <1>1, <1>3, <2>0, <2>4, RecvCounted
    <2>. QED BY <1>3, <2>1, <2>2, <2>3, <2>4
  <1>5. TypeOK'
    <2>1. call' \in [Procs -> SendCalls \cup RecvCalls]
      BY <1>2, <1>4 DEF Typed, TypeOK
    <2>2. taken' \in [Procs -> Nat] /\ \A r \in Procs : taken'[r] <= sent[r] /\ sent[r] - taken'[r] <= Capacity
      <3>1. \A r \in Procs : taken[r] <= sent[r] /\ sent[r] - taken[r] <= Capacity
        BY DEF Typed, TypeOK, InFlight
      <3>2. CASE taken' = taken
        BY <1>1, <3>1, <3>2
      <3>3. CASE /\ n \in Nat \ {0} /\ n <= sent[q] - taken[q]
                 /\ taken' = [taken EXCEPT ![q] = taken[q] + n]
        <4>1. /\ taken'[q] = taken[q] + n /\ \A r \in Procs \ {q} : taken'[r] = taken[r]
              /\ \A r \in Procs : taken[r] \in Nat /\ sent[r] \in Nat
              /\ DOMAIN taken = Procs
          BY <1>0, <1>1, <3>3
        <4>2. taken[q] + n \in Nat /\ taken[q] + n <= sent[q] /\ sent[q] - (taken[q] + n) <= Capacity
          BY ONLY <1>0, <3>1, <3>3, <4>1, SessionAssumption
        <4>3. taken' \in [Procs -> Nat]
          BY <1>1, <3>3, <4>2
        <4>4. ASSUME NEW r \in Procs PROVE taken'[r] <= sent[r] /\ sent[r] - taken'[r] <= Capacity
          BY <3>1, <4>1, <4>2
        <4>. QED BY <4>3, <4>4
      <3>. QED BY <1>3, <3>2, <3>3
    <2>. QED BY <1>2, <2>1, <2>2 DEF Typed, TypeOK, InFlight
  <1>6. RecvInv(p)'
    BY <1>1, <1>2, <1>4 DEF Typed, TypeOK, RecvInv, Receiving, Filled
  <1>7. SendInv(p)'
    BY <1>1, <1>2 DEF SendInv, Sending
  <1>8. SendInv(q)' /\ RecvInv(q)'
    <2>1. call'[q] = call[q] /\ taken'[p] = taken[p]
      BY <1>0, <1>1, <1>2, <1>3 DEF Typed, TypeOK
    <2>2. SendInv(q)'
      BY <1>0, <1>2, <2>1 DEF Typed, SendInv, Sending, Peer
    <2>3. Filled(q)' = Filled(q)
      BY <1>0, <1>2, <2>1 DEF Filled, Peer
    <2>4. RecvInv(q)'
      BY <1>0, <1>2, <2>1, <2>3 DEF Typed, RecvInv, Receiving, Peer
    <2>. QED BY <2>2, <2>4
  <1>9. Sides' /\ (broken => connected)'
    BY <1>2 DEF Typed, Sides, Places
  <1>. QED BY <1>0, <1>5, <1>6, <1>7, <1>8, <1>9 DEF Typed

(* A reset. *)
LEMMA ResetTyped ==
  ASSUME Typed, Reset PROVE Typed'
  <1>. USE DEF files, mine, theirs, history, Procs
  <1>1. TypeOK'
    <2>1. sent' \in [Procs -> Nat] /\ \A p \in Procs : taken[p] <= sent'[p] /\ sent'[p] <= sent[p]
      BY DEF Typed, TypeOK, Reset
    <2>2. \A p \in Procs : sent'[p] - taken[p] <= Capacity
      BY <2>1, SessionAssumption DEF Typed, TypeOK, InFlight
    <2>. QED BY <2>1, <2>2 DEF Typed, TypeOK, Reset, InFlight
  <1>2. \A p \in Procs : SendInv(p)' /\ RecvInv(p)'
    BY DEF Typed, Reset, SendInv, RecvInv, Sending, Receiving, Filled, Peer
  <1>3. Sides' /\ (broken => connected)'
    BY DEF Typed, Reset, Sides, Places
  <1>. QED BY <1>1, <1>2, <1>3 DEF Typed

(* Every step keeps the types and the state of the calls. *)
LEMMA NextTyped ==
  ASSUME Typed, [Next]_vars PROVE Typed'
  <1>1. CASE ClientCode
    BY <1>1, ClientTypeOK, ClientTyped DEF Typed
  <1>2. CASE ServerCode
    BY <1>2, ServerTypeOK, ServerTyped DEF Typed
  <1>3. ASSUME NEW p \in Procs, SetUpCode(p) \/ Crash(p) PROVE Typed'
    BY <1>3, SetUpTypeOK, SetUpTyped DEF Typed
  <1>4. ASSUME NEW p \in Procs, SocketCode(p) PROVE Typed'
    BY <1>4, SendTyped, RecvTyped DEF SocketCode
  <1>5. CASE NetworkFails \/ ClosedEndResets
    BY <1>5, ResetTyped DEF NetworkFails, ClosedEndResets
  <1>6. CASE UNCHANGED vars
    BY <1>6 DEF vars, Typed, TypeOK, InFlight, Sides, Places, SendInv, RecvInv, Sending, Receiving, Filled, Peer,
                files, kernel, mine, theirs, history
  <1>. QED BY <1>1, <1>2, <1>3, <1>4, <1>5, <1>6 DEF Next

(* They hold in every state of a session. *)
LEMMA AlwaysTyped == Spec => []Typed
  BY InitTyped, NextTyped, PTL DEF Spec

(* The state of a session has the types of its declaration: no more is taken *)
(* from a direction than was sent, and no more is in flight than the kernel  *)
(* holds.                                                                    *)
THEOREM TypeInvariant == Spec => []TypeOK
  <1>1. Typed => TypeOK
    BY DEF Typed
  <1>. QED BY <1>1, AlwaysTyped, PTL

-----------------------------------------------------------------------------
(* What a process holds, at each place of its code. *)

(* Every way through the client releases what it leaves the reach of. *)
LEMMA ClientHeldKept ==
  ASSUME Typed, HeldInv, ClientCode
  PROVE  HeldInv'
  <1>. USE DEF HeldInv, Holds, LeftBehind, Over, Typed, TypeOK, Sides, Places, ClientPlaces, ServerPlaces,
           Exit, ClientExit, ServerExit, ServerStopsReading, Killed, SetUpFails, Descriptor, Goto, Acquire,
           Release, Put, Close, NoCall, StartSend, StartRecv, Peer, files, kernel, mine, theirs, history, Procs
  <1>1. CASE ClientConnect
    BY <1>1 DEF ClientConnect
  <1>2. CASE ClientConnectFails
    BY <1>2 DEF ClientConnectFails
  <1>3. CASE ClientQuantitySent
    BY <1>3 DEF ClientQuantitySent
  <1>4. CASE ClientSendFails
    BY <1>4 DEF ClientSendFails
  <1>5. CASE ClientMalloc
    BY <1>5 DEF ClientMalloc
  <1>6. CASE ClientMallocFails
    BY <1>6 DEF ClientMallocFails
  <1>7. CASE ClientRead
    BY <1>7 DEF ClientRead
  <1>8. CASE ClientReadFails
    BY <1>8 DEF ClientReadFails
  <1>9. CASE ClientChunkSent
    BY <1>9 DEF ClientChunkSent
  <1>10. CASE ClientCodeSent
    BY <1>10 DEF ClientCodeSent
  <1>11. CASE ClientShutdown
    BY <1>11 DEF ClientShutdown
  <1>12. CASE ClientShutdownFails
    BY <1>12 DEF ClientShutdownFails
  <1>13. CASE ClientIntReceived
    BY <1>13 DEF ClientIntReceived
  <1>14. CASE ClientIntFails
    BY <1>14 DEF ClientIntFails
  <1>15. CASE ClientClose
    BY <1>15 DEF ClientClose
  <1>. QED BY <1>1, <1>2, <1>3, <1>4, <1>5, <1>6, <1>7, <1>8, <1>9, <1>10, <1>11, <1>12, <1>13, <1>14, <1>15 DEF ClientCode

(* Every way through the server does. *)
LEMMA ServerHeldKept ==
  ASSUME Typed, HeldInv, ServerCode
  PROVE  HeldInv'
  <1>. USE DEF HeldInv, Holds, LeftBehind, Over, Typed, TypeOK, Sides, Places, ClientPlaces, ServerPlaces,
           Exit, ClientExit, ServerExit, ServerStopsReading, Killed, SetUpFails, Descriptor, Goto, Acquire,
           Release, Put, Close, NoCall, StartSend, StartRecv, Peer, files, kernel, mine, theirs, history, Procs
  <1>1. CASE ServerBind
    BY <1>1 DEF ServerBind
  <1>2. CASE ServerBindFails
    BY <1>2 DEF ServerBindFails
  <1>3. CASE ServerListen
    BY <1>3 DEF ServerListen
  <1>4. CASE ServerListenFails
    BY <1>4 DEF ServerListenFails
  <1>5. CASE ServerAccept
    BY <1>5 DEF ServerAccept
  <1>6. CASE ServerAcceptFails
    BY <1>6 DEF ServerAcceptFails
  <1>7. CASE ServerQuantityReceived
    BY <1>7 DEF ServerQuantityReceived
  <1>8. CASE ServerQuantityFails
    BY <1>8 DEF ServerQuantityFails
  <1>9. CASE ServerMalloc
    BY <1>9 DEF ServerMalloc
  <1>10. CASE ServerMallocFails
    BY <1>10 DEF ServerMallocFails
  <1>11. CASE ServerNoChunk
    BY <1>11 DEF ServerNoChunk
  <1>12. CASE ServerRunChunk
    <2>1. /\ ran \in Seq(Nat) /\ Chunk \in Seq(Nat) /\ Len(Chunk) > 0 /\ ran' = ran \o Chunk
          /\ pc["server"] = "receive_chunk" /\ UNCHANGED mine
      BY <1>12, ChunkProperties DEF ServerRunChunk, RecvInv, Receiving
    <2>2. ran' # << >>
      BY ONLY <2>1
    <2>3. PICK lost \in Losses(Chunk) :
            IF truncated'
            THEN ServerStopsReading(lost)
            ELSE Acquire("server", lost) /\ StartRecv("server", ChunkSize) /\ UNCHANGED pc
      BY <1>12 DEF ServerRunChunk
    <2>4. lost \subseteq {"node"} /\ (lost # {} => "memory" \in Faults)
      BY DEF Losses
    <2>5. lost \subseteq LeftBehind("server")'
      BY <2>2, <2>4
    <2>6. LeftBehind("server") \subseteq LeftBehind("server")'
      BY <2>2
    <2>7. CASE ServerStopsReading(lost)
      BY <2>1, <2>5, <2>6, <2>7
    <2>8. CASE Acquire("server", lost) /\ UNCHANGED pc
      BY <2>1, <2>5, <2>6, <2>8
    <2>. QED BY <2>3, <2>7, <2>8
  <1>13. CASE ServerKilled
    BY <1>13 DEF ServerKilled
  <1>14. CASE ServerPrint
    BY <1>14 DEF ServerPrint
  <1>15. CASE ServerIntSent
    BY <1>15 DEF ServerIntSent
  <1>16. CASE ServerIntFails
    BY <1>16 DEF ServerIntFails
  <1>17. CASE ServerClose
    BY <1>17 DEF ServerClose
  <1>. QED BY <1>1, <1>2, <1>3, <1>4, <1>5, <1>6, <1>7, <1>8, <1>9, <1>10, <1>11, <1>12, <1>13, <1>14, <1>15, <1>16, <1>17 DEF ServerCode

(* A system call that fails releases what the ladder above it opened. *)
LEMMA SetUpHeldKept ==
  ASSUME Typed, HeldInv, NEW p \in Procs, SetUpCode(p) \/ Crash(p)
  PROVE  HeldInv'
  <1>. USE DEF HeldInv, Holds, LeftBehind, Over, Typed, TypeOK, Sides, Places, ClientPlaces, ServerPlaces,
           Exit, ClientExit, ServerExit, ServerStopsReading, Killed, SetUpFails, Descriptor, Goto, Acquire,
           Release, Put, Close, NoCall, StartSend, StartRecv, Peer, files, kernel, mine, theirs, history, Procs
  <1>1. CASE Resolve(p)
    BY <1>1 DEF Resolve
  <1>2. CASE ResolveFails(p)
    BY <1>2 DEF ResolveFails
  <1>3. CASE OpenSocket(p)
    BY <1>3 DEF OpenSocket
  <1>4. CASE OpenSocketFails(p)
    BY <1>4 DEF OpenSocketFails
  <1>5. CASE SetOption(p)
    BY <1>5 DEF SetOption
  <1>6. CASE SetOptionFails(p)
    BY <1>6 DEF SetOptionFails
  <1>7. CASE Crash(p)
    BY <1>7 DEF Crash
  <1>. QED BY <1>1, <1>2, <1>3, <1>4, <1>5, <1>6, <1>7 DEF SetUpCode

(* The kernel releases nothing. *)
LEMMA KernelHeldKept ==
  ASSUME Typed, HeldInv, NetworkFails \/ ClosedEndResets \/ (\E p \in Procs : SocketCode(p)) \/ UNCHANGED vars
  PROVE  HeldInv'
  <1>1. CASE NetworkFails \/ ClosedEndResets
    BY <1>1 DEF NetworkFails, ClosedEndResets, Reset, Typed, TypeOK, HeldInv, Holds, LeftBehind, Over, files, mine, theirs, history, Procs
  <1>2. ASSUME NEW p \in Procs, SendFails(p) \/ \E k \in 1 .. Capacity : SendAccept(p, k)
        PROVE  HeldInv'
    BY <1>2 DEF SendAccept, SendFails, Sending, Typed, TypeOK, HeldInv, Holds, LeftBehind, Over, files, kernel, mine, theirs, history, Put, Procs
  <1>3. ASSUME NEW p \in Procs, NEW n \in Int, RecvTurn(p, n)
        PROVE  HeldInv'
    BY <1>3 DEF RecvTurn, Receiving, Typed, TypeOK, HeldInv, Holds, LeftBehind, Over, files, kernel, mine, theirs, history, Put, Procs
  <1>4. CASE UNCHANGED vars
    BY <1>4 DEF vars, HeldInv, Holds, LeftBehind, Over, files, kernel, mine, theirs, history
  <1>. QED BY <1>1, <1>2, <1>3, <1>4 DEF SocketCode

(* A process that returns has closed its sockets and files and freed its      *)
(* buffers, its stack, its vector and its addresses, by every early return of *)
(* its functions; only a server that ran byte codes where memory fails leaves *)
(* nodes, those that stack_push lost.                                         *)
THEOREM OnlyLostNodesRemain == Spec => []Released
  <1>1. Init => HeldInv
    BY SessionAssumption DEF Init, HeldInv, Holds, LeftBehind, Over, Procs
  <1>2. Typed /\ HeldInv /\ [Next]_vars => HeldInv'
    BY ClientHeldKept, ServerHeldKept, SetUpHeldKept, KernelHeldKept DEF Next
  <1>3. Typed /\ HeldInv => Released
    BY SessionAssumption DEF HeldInv, Released, Holds, LeftBehind, Over, Procs
  <1>. QED BY <1>1, <1>2, <1>3, AlwaysTyped, PTL DEF Spec

-----------------------------------------------------------------------------
(* When the server answers. *)

(* The shutdown comes after the last byte of the program. *)
LEMMA ClientAnswerKept ==
  ASSUME Typed, AnswerInv, ClientCode
  PROVE  AnswerInv'
  <1>. USE RecvCallProperties, SessionAssumption
       DEF AnswerInv, AnswersAfterTheEnd, Answering, InFlight, Typed, TypeOK, Sides, Places, ClientPlaces, ServerPlaces,
           Exit, ClientExit, ServerExit, ServerStopsReading, Killed, SetUpFails, Descriptor, Goto, Acquire,
           Release, Put, Close, NoCall, StartSend, StartRecv, Peer, files, kernel, mine, theirs, history, Procs
  <1>1. CASE ClientConnect
    BY <1>1 DEF ClientConnect
  <1>2. CASE ClientConnectFails
    BY <1>2 DEF ClientConnectFails
  <1>3. CASE ClientQuantitySent
    BY <1>3 DEF ClientQuantitySent
  <1>4. CASE ClientSendFails
    BY <1>4 DEF ClientSendFails
  <1>5. CASE ClientMalloc
    BY <1>5 DEF ClientMalloc
  <1>6. CASE ClientMallocFails
    BY <1>6 DEF ClientMallocFails
  <1>7. CASE ClientRead
    BY <1>7 DEF ClientRead
  <1>8. CASE ClientReadFails
    BY <1>8 DEF ClientReadFails
  <1>9. CASE ClientChunkSent
    BY <1>9 DEF ClientChunkSent
  <1>10. CASE ClientCodeSent
    BY <1>10 DEF ClientCodeSent
  <1>11. CASE ClientShutdown
    BY <1>11 DEF ClientShutdown
  <1>12. CASE ClientShutdownFails
    BY <1>12 DEF ClientShutdownFails
  <1>13. CASE ClientIntReceived
    BY <1>13 DEF ClientIntReceived
  <1>14. CASE ClientIntFails
    BY <1>14 DEF ClientIntFails
  <1>15. CASE ClientClose
    BY <1>15 DEF ClientClose
  <1>. QED BY <1>1, <1>2, <1>3, <1>4, <1>5, <1>6, <1>7, <1>8, <1>9, <1>10, <1>11, <1>12, <1>13, <1>14, <1>15 DEF ClientCode

(* The answer begins only where socket_recv returned 0 or failed. *)
LEMMA ServerAnswerKept ==
  ASSUME Typed, AnswerInv, ServerCode
  PROVE  AnswerInv'
  <1>. USE RecvCallProperties, SessionAssumption
       DEF AnswerInv, AnswersAfterTheEnd, Answering, InFlight, Typed, TypeOK, Sides, Places, ClientPlaces, ServerPlaces,
           Exit, ClientExit, ServerExit, ServerStopsReading, Killed, SetUpFails, Descriptor, Goto, Acquire,
           Release, Put, Close, NoCall, StartSend, StartRecv, Peer, files, kernel, mine, theirs, history, Procs
  <1>1. CASE ServerBind
    BY <1>1 DEF ServerBind
  <1>2. CASE ServerBindFails
    BY <1>2 DEF ServerBindFails
  <1>3. CASE ServerListen
    BY <1>3 DEF ServerListen
  <1>4. CASE ServerListenFails
    BY <1>4 DEF ServerListenFails
  <1>5. CASE ServerAccept
    BY <1>5 DEF ServerAccept
  <1>6. CASE ServerAcceptFails
    BY <1>6 DEF ServerAcceptFails
  <1>7. CASE ServerQuantityReceived
    BY <1>7 DEF ServerQuantityReceived
  <1>8. CASE ServerQuantityFails
    BY <1>8 DEF ServerQuantityFails
  <1>9. CASE ServerMalloc
    BY <1>9 DEF ServerMalloc
  <1>10. CASE ServerMallocFails
    BY <1>10 DEF ServerMallocFails
  <1>11. CASE ServerNoChunk
    BY <1>11 DEF ServerNoChunk
  <1>12. CASE ServerRunChunk
    BY <1>12 DEF ServerRunChunk
  <1>13. CASE ServerKilled
    BY <1>13 DEF ServerKilled
  <1>14. CASE ServerPrint
    BY <1>14 DEF ServerPrint
  <1>15. CASE ServerIntSent
    BY <1>15 DEF ServerIntSent
  <1>16. CASE ServerIntFails
    BY <1>16 DEF ServerIntFails
  <1>17. CASE ServerClose
    BY <1>17 DEF ServerClose
  <1>. QED BY <1>1, <1>2, <1>3, <1>4, <1>5, <1>6, <1>7, <1>8, <1>9, <1>10, <1>11, <1>12, <1>13, <1>14, <1>15, <1>16, <1>17 DEF ServerCode

(* Nothing is answered while the connection is set up. *)
LEMMA SetUpAnswerKept ==
  ASSUME Typed, AnswerInv, NEW p \in Procs, SetUpCode(p) \/ Crash(p)
  PROVE  AnswerInv'
  <1>. USE RecvCallProperties, SessionAssumption
       DEF AnswerInv, AnswersAfterTheEnd, Answering, InFlight, Typed, TypeOK, Sides, Places, ClientPlaces, ServerPlaces,
           Exit, ClientExit, ServerExit, ServerStopsReading, Killed, SetUpFails, Descriptor, Goto, Acquire,
           Release, Put, Close, NoCall, StartSend, StartRecv, Peer, files, kernel, mine, theirs, history, Procs
  <1>1. CASE Resolve(p)
    BY <1>1 DEF Resolve
  <1>2. CASE ResolveFails(p)
    BY <1>2 DEF ResolveFails
  <1>3. CASE OpenSocket(p)
    BY <1>3 DEF OpenSocket
  <1>4. CASE OpenSocketFails(p)
    BY <1>4 DEF OpenSocketFails
  <1>5. CASE SetOption(p)
    BY <1>5 DEF SetOption
  <1>6. CASE SetOptionFails(p)
    BY <1>6 DEF SetOptionFails
  <1>7. CASE Crash(p)
    BY <1>7 DEF Crash
  <1>. QED BY <1>1, <1>2, <1>3, <1>4, <1>5, <1>6, <1>7 DEF SetUpCode

(* An answer 0 of recv() is the end of a stream that was shut down and is empty. *)
LEMMA KernelAnswerKept ==
  ASSUME Typed, AnswerInv, NetworkFails \/ ClosedEndResets \/ (\E p \in Procs : SocketCode(p)) \/ UNCHANGED vars
  PROVE  AnswerInv'
  <1>1. CASE NetworkFails \/ ClosedEndResets
    BY <1>1 DEF NetworkFails, ClosedEndResets, Reset, Typed, TypeOK, AnswerInv, AnswersAfterTheEnd, Answering, InFlight, files, mine, theirs, history, Procs
  <1>2. ASSUME NEW p \in Procs, SendFails(p) \/ \E k \in 1 .. Capacity : SendAccept(p, k)
        PROVE  AnswerInv'
    BY <1>2 DEF SendAccept, SendFails, Sending, Typed, TypeOK, AnswerInv, AnswersAfterTheEnd, Answering, InFlight, files, kernel, mine, theirs, history, Put, Procs
  <1>3. ASSUME NEW p \in Procs, NEW n \in Int, RecvTurn(p, n)
        PROVE  AnswerInv'
    <2>. DEFINE c == call[p]
                d == RecvStep(c, n)
    <2>1. /\ d \in RecvCalls
          /\ ~RecvLooping(d) /\ RecvResult(d) <= 0 => broken \/ (ended[Peer(p)] /\ InFlight(Peer(p)) = 0)
      <3>1. CASE n = 0 \/ n = -1
        BY <1>3, <3>1, RecvTurnEffect, RecvRepeated, RecvClosed, RecvFailed
      <3>2. CASE n > 0 /\ n = c.s
        BY <1>3, <3>2, RecvTurnEffect, RecvRepeated DEF RecvResult
      <3>3. CASE n > 0 /\ n # c.s
        BY <1>3, <3>3, RecvTurnEffect, RecvCounted DEF RecvResult
      <3>. QED BY <1>3, <3>1, <3>2, <3>3, RecvTurnEffect
    <2>2. /\ call' = [call EXCEPT ![p] = d] /\ Receiving(p) /\ UNCHANGED <<pc, sent, ended, broken, truncated>>
          /\ taken' = taken \/ (InFlight(Peer(p)) > 0 /\ taken' = [taken EXCEPT ![Peer(p)] = taken[Peer(p)] + n])
      BY <1>3, RecvTurnEffect, SMTT(30) DEF theirs, InFlight, Typed, TypeOK
    <2>3. CASE p = "client"
      BY <2>2, <2>3 DEF Typed, TypeOK, Procs, Peer, AnswerInv, AnswersAfterTheEnd, Answering, InFlight
    <2>4. CASE p = "server"
      BY <2>1, <2>2, <2>4 DEF Typed, TypeOK, Procs, Peer, Receiving, AnswerInv, AnswersAfterTheEnd, Answering, InFlight
    <2>. QED BY <2>3, <2>4 DEF Procs
  <1>4. CASE UNCHANGED vars
    BY <1>4 DEF vars, AnswerInv, AnswersAfterTheEnd, Answering, InFlight, files, kernel, mine, theirs, history
  <1>. QED BY <1>1, <1>2, <1>3, <1>4 DEF SocketCode

(* AnswerInv holds in every state of a session. *)
LEMMA AlwaysAnswer == Spec => []AnswerInv
  <1>1. Init => AnswerInv
    BY SessionAssumption DEF Init, AnswerInv, AnswersAfterTheEnd, Answering, InFlight, Procs
  <1>2. Typed /\ AnswerInv /\ [Next]_vars => AnswerInv'
    BY ClientAnswerKept, ServerAnswerKept, SetUpAnswerKept, KernelAnswerKept DEF Next
  <1>. QED BY <1>1, <1>2, AlwaysTyped, PTL DEF Spec

(* The server answers when it has read all that the client sent, unless the   *)
(* program was cut inside an instruction or the connection broke.            *)
THEOREM TheAnswerComesAfterTheEnd == Spec => []AnswersAfterTheEnd
  <1>1. AnswerInv => AnswersAfterTheEnd
    BY DEF AnswerInv
  <1>. QED BY <1>1, AlwaysAnswer, PTL

-----------------------------------------------------------------------------
(* What the server runs. *)

(* After the quantity no byte of the program has been read. *)
LEMMA ProgramStarts == Program(IntBytes) = << >>
  BY SessionAssumption DEF Program

(* A chunk continues the program where the chunks before it stopped. *)
LEMMA ProgramGrows ==
  ASSUME NEW m \in Nat, m >= IntBytes, NEW n \in Nat
  PROVE  Program(m) \o [i \in 1 .. n |-> m + i] = Program(m + n)
  <1>. DEFINE s == Program(m)
              t == [i \in 1 .. n |-> m + i]
              u == Program(m + n)
  <1>1. ASSUME NEW k \in Nat, k >= IntBytes
        PROVE  /\ Program(k) \in Seq(Nat) /\ Len(Program(k)) = k - IntBytes
               /\ \A i \in 1 .. k - IntBytes : Program(k)[i] = IntBytes + i
    BY <1>1, SessionAssumption, SeqDef DEF Program
  <1>2. s \in Seq(Nat) /\ Len(s) = m - IntBytes /\ \A i \in 1 .. m - IntBytes : s[i] = IntBytes + i
    BY <1>1
  <1>3. u \in Seq(Nat) /\ Len(u) = m + n - IntBytes /\ \A i \in 1 .. m + n - IntBytes : u[i] = IntBytes + i
    BY <1>1, SessionAssumption
  <1>4. t \in Seq(Nat) /\ Len(t) = n /\ \A i \in 1 .. n : t[i] = m + i
    BY SeqDef
  <1>. HIDE DEF s, t, u
  <1>5. s \o t \in Seq(Nat) /\ Len(s \o t) = m - IntBytes + n
    <2>1. s \o t \in Seq(Nat) /\ Len(s \o t) = Len(s) + Len(t)
      BY <1>2, <1>4, ConcatProperties
    <2>. QED BY <1>2, <1>4, <2>1
  <1>6. ASSUME NEW i \in 1 .. m - IntBytes + n PROVE (s \o t)[i] = IntBytes + i
    <2>1. (s \o t)[i] = IF i <= Len(s) THEN s[i] ELSE t[i - Len(s)]
      BY <1>2, <1>4, <1>6, ConcatProperties, SMTT(30)
    <2>. QED BY <1>2, <1>4, <1>6, <2>1, SessionAssumption
  <1>7. m - IntBytes + n = m + n - IntBytes
    BY SessionAssumption
  <1>8. s \o t = u
    BY <1>3, <1>5, <1>6, <1>7, SeqEqual, SMTT(30)
  <1>. QED BY <1>8 DEF s, t, u

(* The client runs nothing. *)
LEMMA ClientRanKept ==
  ASSUME Typed, AnswerInv, RanInv, ClientCode
  PROVE  RanInv'
  <1>. USE SendCallProperties, RecvCallProperties, SessionAssumption
       DEF RanInv, AnswerInv, AnswersAfterTheEnd, Answering, Filled, Receiving, RecvInv, Typed, TypeOK, Sides, Places, ClientPlaces, ServerPlaces,
           Exit, ClientExit, ServerExit, ServerStopsReading, Killed, SetUpFails, Descriptor, Goto, Acquire,
           Release, Put, Close, NoCall, StartSend, StartRecv, Peer, files, kernel, mine, theirs, history, Procs
  <1>1. CASE ClientConnect
    BY <1>1 DEF ClientConnect
  <1>2. CASE ClientConnectFails
    BY <1>2 DEF ClientConnectFails
  <1>3. CASE ClientQuantitySent
    BY <1>3 DEF ClientQuantitySent
  <1>4. CASE ClientSendFails
    BY <1>4 DEF ClientSendFails
  <1>5. CASE ClientMalloc
    BY <1>5 DEF ClientMalloc
  <1>6. CASE ClientMallocFails
    BY <1>6 DEF ClientMallocFails
  <1>7. CASE ClientRead
    BY <1>7 DEF ClientRead
  <1>8. CASE ClientReadFails
    BY <1>8 DEF ClientReadFails
  <1>9. CASE ClientChunkSent
    BY <1>9 DEF ClientChunkSent
  <1>10. CASE ClientCodeSent
    BY <1>10 DEF ClientCodeSent
  <1>11. CASE ClientShutdown
    BY <1>11 DEF ClientShutdown
  <1>12. CASE ClientShutdownFails
    BY <1>12 DEF ClientShutdownFails
  <1>13. CASE ClientIntReceived
    BY <1>13 DEF ClientIntReceived
  <1>14. CASE ClientIntFails
    BY <1>14 DEF ClientIntFails
  <1>15. CASE ClientClose
    BY <1>15 DEF ClientClose
  <1>. QED BY <1>1, <1>2, <1>3, <1>4, <1>5, <1>6, <1>7, <1>8, <1>9, <1>10, <1>11, <1>12, <1>13, <1>14, <1>15 DEF ClientCode

(* The quantity of variables is whole unless it was cut short. *)
LEMMA QuantityFilled ==
  ASSUME Typed, pc["server"] = "receive_quantity", NEW b, b = (short \/ Filled("server") < IntBytes)
  PROVE  /\ ~b => Filled("server") = IntBytes
         /\ Filled("server") = taken["client"] - mark["server"]
         /\ taken["client"] \in Nat /\ mark["server"] \in Nat
  <1>1. /\ taken["client"] \in Nat /\ mark["server"] \in Nat
        /\ Filled("server") = taken["client"] - mark["server"]
    BY DEF Typed, TypeOK, Filled, Peer, Procs
  <1>2. Filled("server") <= IntBytes
    BY DEF Typed, RecvInv, Receiving
  <1>3. ~b => ~(Filled("server") < IntBytes)
    BY Zenon
  <1>4. ~(Filled("server") < IntBytes) => Filled("server") = IntBytes
    BY ONLY <1>1, <1>2, SessionAssumption
  <1>. QED
    BY <1>1, <1>3, <1>4, Zenon

(* Each chunk is run after those before it, and the mark moves to its end. *)
LEMMA ServerRanKept ==
  ASSUME Typed, AnswerInv, RanInv, ServerCode
  PROVE  RanInv'
  <1>. USE SendCallProperties, RecvCallProperties, SessionAssumption
       DEF RanInv, AnswerInv, AnswersAfterTheEnd, Answering, Filled, Receiving, RecvInv, Typed, TypeOK, Sides, Places, ClientPlaces, ServerPlaces,
           Exit, ClientExit, ServerExit, ServerStopsReading, Killed, SetUpFails, Descriptor, Goto, Acquire,
           Release, Put, Close, NoCall, StartSend, StartRecv, Peer, files, kernel, mine, theirs, history, Procs
  <1>1. CASE ServerBind
    BY <1>1 DEF ServerBind
  <1>2. CASE ServerBindFails
    BY <1>2 DEF ServerBindFails
  <1>3. CASE ServerListen
    BY <1>3 DEF ServerListen
  <1>4. CASE ServerListenFails
    BY <1>4 DEF ServerListenFails
  <1>5. CASE ServerAccept
    BY <1>5 DEF ServerAccept
  <1>6. CASE ServerAcceptFails
    BY <1>6 DEF ServerAcceptFails
  <1>7. CASE ServerQuantityReceived
    <2>1. /\ pc["server"] = "receive_quantity" /\ pc'["server"] = "malloc"
          /\ UNCHANGED <<sent, taken, mark, ran, dropped, broken, truncated>>
          /\ short' = (short \/ Filled("server") < IntBytes)
      BY <1>7 DEF ServerQuantityReceived
    <2>2. ~short' => taken'["client"] = IntBytes
      <3>1. Typed /\ mark["server"] = 0 /\ taken' = taken
        BY <2>1
      <3>2. /\ ~short' => Filled("server") = IntBytes
            /\ Filled("server") = taken["client"] - mark["server"]
            /\ taken["client"] \in Nat /\ mark["server"] \in Nat
        BY ONLY <2>1, <3>1, QuantityFilled
      <3>. QED BY ONLY <3>1, <3>2
    <2>. QED BY <2>1, <2>2
  <1>8. CASE ServerQuantityFails
    BY <1>8 DEF ServerQuantityFails
  <1>9. CASE ServerMalloc
    <2>1. /\ pc["server"] = "malloc" /\ pc'["server"] = "receive_chunk"
          /\ UNCHANGED <<sent, taken, ran, dropped, short>>
          /\ mark'["server"] = taken["client"] /\ call'["server"].received = 0
      BY <1>9 DEF ServerMalloc
    <2>2. taken["client"] = IntBytes => Program(taken["client"]) = << >>
      BY ProgramStarts
    <2>. QED BY <2>1, <2>2
  <1>10. CASE ServerMallocFails
    BY <1>10 DEF ServerMallocFails
  <1>11. CASE ServerNoChunk
    <2>1. /\ pc["server"] = "receive_chunk" /\ pc'["server"] = "print"
          /\ UNCHANGED <<sent, taken, ran, truncated, dropped, short, broken>>
          /\ ~RecvLooping(call["server"]) /\ RecvResult(call["server"]) <= 0
      BY <1>11 DEF ServerNoChunk
    <2>2. ~broken => call["server"].received = 0
      BY <2>1 DEF RecvResult
    <2>3. ~broken /\ ~dropped => mark["server"] = taken["client"]
      BY <2>1, <2>2
    <2>. QED BY <2>1, <2>3
  <1>12. CASE ServerRunChunk
    <2>1. /\ pc["server"] = "receive_chunk" /\ ran' = ran \o Chunk
          /\ UNCHANGED <<sent, taken, dropped, short, broken>>
          /\ RecvResult(call["server"]) > 0
      BY <1>12 DEF ServerRunChunk
    <2>2. RecvResult(call["server"]) = call["server"].received /\ call["server"].received \in Nat
      BY <2>1 DEF RecvResult, SOCKET_CONNECTION_ERROR
    <2>3. ~dropped /\ ~short => ran' = Program(taken["client"])
      <3>1. SUFFICES ASSUME ~dropped, ~short PROVE ran' = Program(taken["client"])
        OBVIOUS
      <3>2. /\ ran = Program(mark["server"]) /\ mark["server"] >= IntBytes /\ mark["server"] \in Nat
            /\ taken["client"] = mark["server"] + call["server"].received
        BY <2>1, <2>2, <3>1
      <3>3. Chunk = [i \in 1 .. call["server"].received |-> mark["server"] + i]
        BY <2>2 DEF Chunk
      <3>. QED BY ONLY <2>1, <2>2, <3>2, <3>3, ProgramGrows
    <2>4. CASE truncated' /\ \E lost \in SUBSET {"node"} : ServerStopsReading(lost)
      <3>1. pc'["server"] = "print"
        BY <2>4
      <3>. QED BY <2>1, <2>4, <3>1
    <2>5. CASE StartRecv("server", ChunkSize) /\ UNCHANGED pc
      <3>1. pc' = pc /\ mark'["server"] = taken["client"] /\ call'["server"].received = 0
        BY <2>5
      <3>2. taken["client"] >= mark["server"] /\ mark["server"] \in Nat /\ taken["client"] \in Nat
        BY <2>1
      <3>3. ~short => mark'["server"] >= IntBytes
        BY <2>1, <3>1, <3>2
      <3>4. Filled("server")' = 0
        BY <2>1, <3>1, <3>2
      <3>. QED BY <2>1, <2>3, <3>1, <3>3, <3>4
    <2>. QED BY <1>12, <2>4, <2>5, ChunkIsRun
  <1>13. CASE ServerKilled
    BY <1>13 DEF ServerKilled
  <1>14. CASE ServerPrint
    BY <1>14 DEF ServerPrint
  <1>15. CASE ServerIntSent
    BY <1>15 DEF ServerIntSent
  <1>16. CASE ServerIntFails
    BY <1>16 DEF ServerIntFails
  <1>17. CASE ServerClose
    BY <1>17 DEF ServerClose
  <1>. QED BY <1>1, <1>2, <1>3, <1>4, <1>5, <1>6, <1>7, <1>8, <1>9, <1>10, <1>11, <1>12, <1>13, <1>14, <1>15, <1>16, <1>17 DEF ServerCode

(* Nothing is read while the connection is set up. *)
LEMMA SetUpRanKept ==
  ASSUME Typed, AnswerInv, RanInv, NEW p \in Procs, SetUpCode(p) \/ Crash(p)
  PROVE  RanInv'
  <1>. USE SendCallProperties, RecvCallProperties, SessionAssumption
       DEF RanInv, AnswerInv, AnswersAfterTheEnd, Answering, Filled, Receiving, RecvInv, Typed, TypeOK, Sides, Places, ClientPlaces, ServerPlaces,
           Exit, ClientExit, ServerExit, ServerStopsReading, Killed, SetUpFails, Descriptor, Goto, Acquire,
           Release, Put, Close, NoCall, StartSend, StartRecv, Peer, files, kernel, mine, theirs, history, Procs
  <1>1. CASE Resolve(p)
    BY <1>1 DEF Resolve
  <1>2. CASE ResolveFails(p)
    BY <1>2 DEF ResolveFails
  <1>3. CASE OpenSocket(p)
    BY <1>3 DEF OpenSocket
  <1>4. CASE OpenSocketFails(p)
    BY <1>4 DEF OpenSocketFails
  <1>5. CASE SetOption(p)
    BY <1>5 DEF SetOption
  <1>6. CASE SetOptionFails(p)
    BY <1>6 DEF SetOptionFails
  <1>7. CASE Crash(p)
    BY <1>7 DEF Crash
  <1>. QED BY <1>1, <1>2, <1>3, <1>4, <1>5, <1>6, <1>7 DEF SetUpCode

(* A turn of a loop that drops no byte counts the bytes that it takes. *)
LEMMA KernelRanKept ==
  ASSUME Typed, AnswerInv, RanInv, NetworkFails \/ ClosedEndResets \/ (\E p \in Procs : SocketCode(p)) \/ UNCHANGED vars
  PROVE  RanInv'
  <1>1. CASE NetworkFails \/ ClosedEndResets
    BY <1>1 DEF NetworkFails, ClosedEndResets, Reset, Typed, TypeOK, RanInv, AnswerInv, AnswersAfterTheEnd, Answering, Filled, Receiving, RecvInv, files, mine, theirs, history, Procs
  <1>2. ASSUME NEW p \in Procs, SendFails(p) \/ \E k \in 1 .. Capacity : SendAccept(p, k)
        PROVE  RanInv'
    <2>1. /\ UNCHANGED <<pc, taken, mark, ran, broken, short, truncated, dropped>>
          /\ Sending(p) /\ \E d : call' = [call EXCEPT ![p] = d]
      BY <1>2 DEF SendAccept, SendFails, Put, Typed, TypeOK, files, kernel, mine, theirs, history
    <2>2. Receiving("server") => call'["server"] = call["server"]
      BY <2>1 DEF Sending, Receiving, Typed, TypeOK
    <2>3. UNCHANGED <<Answering, Filled("server"), Receiving("server")>>
      BY <2>1 DEF Answering, Filled, Receiving
    <2>. QED BY <2>1, <2>2, <2>3 DEF RanInv, Receiving
  <1>3. ASSUME NEW p \in Procs, NEW n \in Int, RecvTurn(p, n)
        PROVE  RanInv'
    <2>. DEFINE c == call[p]
                d == RecvStep(c, n)
    <2>1. d.received = IF n > 0 /\ n # c.s THEN c.received + n ELSE c.received
      <3>1. CASE n = c.s
        BY <1>3, <3>1, RecvTurnEffect, RecvRepeated
      <3>2. CASE n # c.s /\ n = 0
        BY <1>3, <3>2, RecvTurnEffect, RecvClosed
      <3>3. CASE n # c.s /\ n = -1
        BY <1>3, <3>3, RecvTurnEffect, RecvFailed
      <3>4. CASE n # c.s /\ n > 0
        BY <1>3, <3>4, RecvTurnEffect, RecvCounted
      <3>. QED BY <1>3, <3>1, <3>2, <3>3, <3>4, RecvTurnEffect
    <2>2. /\ UNCHANGED <<pc, mark, ran, sent, broken, short, truncated>> /\ Receiving(p)
          /\ call' = [call EXCEPT ![p] = d] /\ dropped' = (dropped \/ (n > 0 /\ n = c.s /\ pc[p] = "receive_chunk"))
          /\ taken' = [taken EXCEPT ![Peer(p)] = IF n > 0 THEN taken[Peer(p)] + n ELSE taken[Peer(p)]]
          /\ taken[Peer(p)] - mark[p] = c.received
      <3>1. /\ UNCHANGED <<pc, mark, sent, broken, short>> /\ Receiving(p)
            /\ call' = [call EXCEPT ![p] = d] /\ dropped' = (dropped \/ (n > 0 /\ n = c.s /\ pc[p] = "receive_chunk"))
            /\ taken[Peer(p)] - mark[p] = c.received
        BY <1>3, RecvTurnEffect
      <3>2. UNCHANGED <<ran, truncated>>
        BY <1>3 DEF RecvTurn, theirs
      <3>3. taken' = [taken EXCEPT ![Peer(p)] = IF n > 0 THEN taken[Peer(p)] + n ELSE taken[Peer(p)]]
        <4>1. \/ n \in Nat \ {0} /\ taken' = [taken EXCEPT ![Peer(p)] = taken[Peer(p)] + n]
              \/ n \in {0, -1} /\ taken' = taken
          BY <1>3, RecvTurnEffect
        <4>2. taken = [taken EXCEPT ![Peer(p)] = taken[Peer(p)]]
          BY DEF Typed, TypeOK, Peer, Procs
        <4>3. CASE n \in Nat \ {0} /\ taken' = [taken EXCEPT ![Peer(p)] = taken[Peer(p)] + n]
          <5>1. n > 0
            BY <4>3
          <5>. QED BY <4>3, <5>1, Zenon
        <4>4. CASE n \in {0, -1} /\ taken' = taken
          <5>1. ~(n > 0)
            BY <4>4
          <5>. QED BY <4>2, <4>4, <5>1, Zenon
        <4>. QED BY <4>1, <4>3, <4>4
      <3>. QED BY <3>1, <3>2, <3>3
    <2>3. CASE p = "client"
      <3>1. taken'["client"] = taken["client"] /\ call'["server"] = call["server"]
        BY <2>2, <2>3 DEF Typed, TypeOK, Peer, Procs
      <3>. QED BY <2>2, <2>3, <3>1 DEF RanInv, Answering, Filled, Peer, Receiving
    <2>4. CASE p = "server"
      <3>1. /\ taken'["client"] = IF n > 0 THEN taken["client"] + n ELSE taken["client"]
            /\ call'["server"] = d /\ ~Answering
        BY <2>2, <2>4 DEF Typed, TypeOK, Peer, Procs, Receiving, Answering
      <3>2. taken["client"] \in Nat /\ mark["server"] \in Nat
        BY DEF Typed, TypeOK, Procs
      <3>3. pc["server"] = "receive_chunk" => (~dropped' => Filled("server")' = call'["server"].received)
        <4>1. /\ c.received \in Nat /\ taken["client"] - mark["server"] = c.received
              /\ mark'["server"] = mark["server"]
              /\ pc["server"] = "receive_chunk" /\ ~dropped' => ~(n > 0 /\ n = c.s)
          BY <1>3, <2>2, <2>4, RecvTurnEffect DEF Peer
        <4>. QED BY <1>3, <2>1, <2>4, <3>1, <3>2, <4>1 DEF Filled, Peer
      <3>. QED BY <2>2, <2>4, <3>1, <3>3 DEF RanInv, Answering, Receiving
    <2>. QED BY <2>3, <2>4 DEF Procs
  <1>4. CASE UNCHANGED vars
    BY <1>4 DEF vars, RanInv, AnswerInv, AnswersAfterTheEnd, Answering, Filled, Receiving, RecvInv, files, kernel, mine, theirs, history
  <1>. QED BY <1>1, <1>2, <1>3, <1>4 DEF SocketCode

(* Unless socket_recv dropped bytes, the server has run every byte the client *)
(* sent after the quantity, each once and in order, whatever the chunk sizes,  *)
(* and however the stream was cut.                                             *)
THEOREM TheProgramRunsWhole == Spec => []RunsWhatWasSent
  <1>1. Init => RanInv
    BY SessionAssumption DEF Init, RanInv, AnswerInv, AnswersAfterTheEnd, Answering, Filled, Receiving, RecvInv, Procs
  <1>2. Typed /\ AnswerInv /\ RanInv /\ [Next]_vars => RanInv'
    BY ClientRanKept, ServerRanKept, SetUpRanKept, KernelRanKept DEF Next
  <1>3. Typed /\ AnswerInv /\ RanInv => RunsWhatWasSent
    <2>1. ASSUME Typed, AnswerInv, RanInv, Answering, ~(truncated \/ broken \/ dropped \/ short)
          PROVE  ran = Program(sent["client"])
      <3>1. sent["client"] = taken["client"]
        BY <2>1 DEF AnswerInv, AnswersAfterTheEnd, InFlight, Typed, TypeOK, Procs
      <3>. QED BY <2>1, <3>1 DEF RanInv
    <2>. QED BY <2>1 DEF RunsWhatWasSent, Program
  <1>. QED BY <1>1, <1>2, <1>3, AlwaysTyped, AlwaysAnswer, PTL DEF Spec

-----------------------------------------------------------------------------
(* What the client prints. *)

(* Each int is printed once it was received, and the next call starts at its end. *)
LEMMA ClientPrintKept ==
  ASSUME Typed, PrintInv, ClientCode
  PROVE  PrintInv'
  <1>. USE RecvCallProperties, SessionAssumption
       DEF PrintInv, PrintedAll, InOrderSoFar, Filled, Receiving, RecvInv, Typed, TypeOK, Sides, Places, ClientPlaces, ServerPlaces,
           Exit, ClientExit, ServerExit, ServerStopsReading, Killed, SetUpFails, Descriptor, Goto, Acquire,
           Release, Put, Close, NoCall, StartSend, StartRecv, Peer, files, kernel, mine, theirs, history, Procs
  <1>1. CASE ClientConnect
    BY <1>1 DEF ClientConnect
  <1>2. CASE ClientConnectFails
    BY <1>2 DEF ClientConnectFails
  <1>3. CASE ClientQuantitySent
    BY <1>3 DEF ClientQuantitySent
  <1>4. CASE ClientSendFails
    BY <1>4 DEF ClientSendFails
  <1>5. CASE ClientMalloc
    BY <1>5 DEF ClientMalloc
  <1>6. CASE ClientMallocFails
    BY <1>6 DEF ClientMallocFails
  <1>7. CASE ClientRead
    BY <1>7 DEF ClientRead
  <1>8. CASE ClientReadFails
    BY <1>8 DEF ClientReadFails
  <1>9. CASE ClientChunkSent
    BY <1>9 DEF ClientChunkSent
  <1>10. CASE ClientCodeSent
    BY <1>10 DEF ClientCodeSent
  <1>11. CASE ClientShutdown
    BY <1>11 DEF ClientShutdown
  <1>12. CASE ClientShutdownFails
    BY <1>12 DEF ClientShutdownFails
  <1>13. CASE ClientIntReceived
    <2>1. /\ pc["client"] = "receive_variable" /\ printed' = Append(printed, Variable)
          /\ pc'["client"] = IF Len(printed) + 1 < VarSize THEN "receive_variable" ELSE "close"
          /\ ~short' => ~short /\ ~(Filled("client") < IntBytes)
          /\ mark'["client"] = taken["server"] /\ UNCHANGED <<taken, exit>>
      BY <1>13 DEF ClientIntReceived
    <2>2. /\ printed \in Seq(Nat) /\ Len(printed) \in Nat /\ Len(printed) < VarSize /\ exit["client"] # "success"
          /\ Variable \in Nat
      <3>1. printed \in Seq(Nat) /\ Len(printed) < VarSize /\ exit["client"] # "success" /\ mark["client"] \in Nat
        BY <2>1
      <3>2. mark["client"] \div IntBytes \in Nat
        BY ONLY <3>1, MultipleProperties, SessionAssumption
      <3>3. Variable \in Nat
        BY ONLY <3>1, <3>2 DEF Variable
      <3>. QED BY ONLY <3>1, <3>3, LenProperties
    <2>3. /\ Len(printed') = Len(printed) + 1
          /\ \A i \in 1 .. Len(printed) : printed'[i] = printed[i]
          /\ printed'[Len(printed) + 1] = Variable
      BY ONLY <2>1, <2>2, AppendProperties
    <2>4. ASSUME ~short' PROVE taken["server"] = IntBytes * Len(printed') /\ InOrderSoFar'
      <3>0. /\ Filled("client") <= IntBytes /\ mark["client"] \in Nat /\ taken["server"] \in Nat
            /\ mark["client"] = IntBytes * Len(printed)
        BY <2>1, <2>4
      <3>1. Filled("client") = IntBytes
        BY ONLY <2>1, <2>4, <3>0, SessionAssumption DEF Filled, Peer
      <3>2. taken["server"] = mark["client"] + IntBytes
        BY ONLY <3>0, <3>1, SessionAssumption DEF Filled, Peer
      <3>3. Variable = Len(printed) + 1
        BY ONLY <2>2, <3>0, <3>1, MultipleProperties, SessionAssumption DEF Variable
      <3>4. taken["server"] = IntBytes * (Len(printed) + 1)
        BY ONLY <2>2, <3>0, <3>2, SessionAssumption
      <3>5. InOrderSoFar
        BY <2>1, <2>4
      <3>. QED BY ONLY <2>2, <2>3, <3>3, <3>4, <3>5 DEF InOrderSoFar
    <2>5. VarSize \in Int /\ (Len(printed) + 1 < VarSize \/ Len(printed') = VarSize)
      BY ONLY <2>2, <2>3, SessionAssumption
    <2>. QED BY ONLY <2>1, <2>2, <2>3, <2>4, <2>5 DEF PrintInv, PrintedAll, InOrderSoFar
  <1>14. CASE ClientIntFails
    BY <1>14 DEF ClientIntFails
  <1>15. CASE ClientClose
    BY <1>15 DEF ClientClose
  <1>. QED BY <1>1, <1>2, <1>3, <1>4, <1>5, <1>6, <1>7, <1>8, <1>9, <1>10, <1>11, <1>12, <1>13, <1>14, <1>15 DEF ClientCode

(* The server prints none of the variables of the client. *)
LEMMA ServerPrintKept ==
  ASSUME Typed, PrintInv, ServerCode
  PROVE  PrintInv'
  <1>. USE RecvCallProperties, SessionAssumption
       DEF PrintInv, PrintedAll, InOrderSoFar, Filled, Receiving, RecvInv, Typed, TypeOK, Sides, Places, ClientPlaces, ServerPlaces,
           Exit, ClientExit, ServerExit, ServerStopsReading, Killed, SetUpFails, Descriptor, Goto, Acquire,
           Release, Put, Close, NoCall, StartSend, StartRecv, Peer, files, kernel, mine, theirs, history, Procs
  <1>1. CASE ServerBind
    BY <1>1 DEF ServerBind
  <1>2. CASE ServerBindFails
    BY <1>2 DEF ServerBindFails
  <1>3. CASE ServerListen
    BY <1>3 DEF ServerListen
  <1>4. CASE ServerListenFails
    BY <1>4 DEF ServerListenFails
  <1>5. CASE ServerAccept
    BY <1>5 DEF ServerAccept
  <1>6. CASE ServerAcceptFails
    BY <1>6 DEF ServerAcceptFails
  <1>7. CASE ServerQuantityReceived
    BY <1>7 DEF ServerQuantityReceived
  <1>8. CASE ServerQuantityFails
    BY <1>8 DEF ServerQuantityFails
  <1>9. CASE ServerMalloc
    BY <1>9 DEF ServerMalloc
  <1>10. CASE ServerMallocFails
    BY <1>10 DEF ServerMallocFails
  <1>11. CASE ServerNoChunk
    BY <1>11 DEF ServerNoChunk
  <1>12. CASE ServerRunChunk
    BY <1>12, SMTT(30) DEF ServerRunChunk
  <1>13. CASE ServerKilled
    BY <1>13 DEF ServerKilled
  <1>14. CASE ServerPrint
    BY <1>14 DEF ServerPrint
  <1>15. CASE ServerIntSent
    BY <1>15 DEF ServerIntSent
  <1>16. CASE ServerIntFails
    BY <1>16 DEF ServerIntFails
  <1>17. CASE ServerClose
    BY <1>17 DEF ServerClose
  <1>. QED BY <1>1, <1>2, <1>3, <1>4, <1>5, <1>6, <1>7, <1>8, <1>9, <1>10, <1>11, <1>12, <1>13, <1>14, <1>15, <1>16, <1>17 DEF ServerCode

(* Nothing is printed while the connection is set up. *)
LEMMA SetUpPrintKept ==
  ASSUME Typed, PrintInv, NEW p \in Procs, SetUpCode(p) \/ Crash(p)
  PROVE  PrintInv'
  <1>. USE RecvCallProperties, SessionAssumption
       DEF PrintInv, PrintedAll, InOrderSoFar, Filled, Receiving, RecvInv, Typed, TypeOK, Sides, Places, ClientPlaces, ServerPlaces,
           Exit, ClientExit, ServerExit, ServerStopsReading, Killed, SetUpFails, Descriptor, Goto, Acquire,
           Release, Put, Close, NoCall, StartSend, StartRecv, Peer, files, kernel, mine, theirs, history, Procs
  <1>1. CASE Resolve(p)
    BY <1>1 DEF Resolve
  <1>2. CASE ResolveFails(p)
    BY <1>2 DEF ResolveFails
  <1>3. CASE OpenSocket(p)
    BY <1>3 DEF OpenSocket
  <1>4. CASE OpenSocketFails(p)
    BY <1>4 DEF OpenSocketFails
  <1>5. CASE SetOption(p)
    BY <1>5 DEF SetOption
  <1>6. CASE SetOptionFails(p)
    BY <1>6 DEF SetOptionFails
  <1>7. CASE Crash(p)
    BY <1>7 DEF Crash
  <1>. QED BY <1>1, <1>2, <1>3, <1>4, <1>5, <1>6, <1>7 DEF SetUpCode

(* A turn of a loop that is not cut short takes the bytes of one int. *)
LEMMA KernelPrintKept ==
  ASSUME Typed, PrintInv, NetworkFails \/ ClosedEndResets \/ (\E p \in Procs : SocketCode(p)) \/ UNCHANGED vars
  PROVE  PrintInv'
  <1>1. CASE NetworkFails \/ ClosedEndResets
    BY <1>1 DEF NetworkFails, ClosedEndResets, Reset, Typed, TypeOK, PrintInv, PrintedAll, InOrderSoFar, Filled, Receiving, RecvInv, files, mine, theirs, history, Procs
  <1>2. ASSUME NEW p \in Procs, SendFails(p) \/ \E k \in 1 .. Capacity : SendAccept(p, k)
        PROVE  PrintInv'
    BY <1>2 DEF SendAccept, SendFails, Sending, Typed, TypeOK, PrintInv, PrintedAll, InOrderSoFar, Filled, Receiving, RecvInv, files, kernel, mine, theirs, history, Put, Procs
  <1>3. ASSUME NEW p \in Procs, NEW n \in Int, RecvTurn(p, n)
        PROVE  PrintInv'
    <2>1. /\ UNCHANGED <<pc, exit, mark, printed, short>>
          /\ taken'["server"] = taken["server"] \/ pc["client"] = "receive_variable"
      BY <1>3, RecvTurnEffect, SMTT(30) DEF Typed, TypeOK, Sides, Places, ClientPlaces, Receiving, Peer, Procs, files, mine
    <2>. QED BY <2>1 DEF PrintInv, PrintedAll, InOrderSoFar
  <1>4. CASE UNCHANGED vars
    BY <1>4 DEF vars, PrintInv, PrintedAll, InOrderSoFar, Filled, Receiving, RecvInv, files, kernel, mine, theirs, history
  <1>. QED BY <1>1, <1>2, <1>3, <1>4 DEF SocketCode

(* PrintInv holds in every state of a session. *)
LEMMA AlwaysPrint == Spec => []PrintInv
  <1>1. Init => PrintInv
    BY SessionAssumption DEF Init, PrintInv, PrintedAll, InOrderSoFar, Filled, Receiving, RecvInv, Procs
  <1>2. Typed /\ PrintInv /\ [Next]_vars => PrintInv'
    BY ClientPrintKept, ServerPrintKept, SetUpPrintKept, KernelPrintKept DEF Next
  <1>. QED BY <1>1, <1>2, AlwaysTyped, PTL DEF Spec

(* A client that reports success has printed the N variables in order, unless *)
(* an int was cut short on the way.                                           *)
THEOREM TheVariablesArePrinted == Spec => []PrintsTheVariables
  <1>1. PrintInv => PrintsTheVariables
    <2>1. Cardinality(1 .. VarSize) = IF VarSize > 0 THEN VarSize ELSE 0
      BY SessionAssumption, FS_Interval
    <2>. QED BY <2>1 DEF PrintInv, PrintsTheVariables, PrintedAll, InOrderSoFar
  <1>. QED BY <1>1, AlwaysPrint, PTL

-----------------------------------------------------------------------------
(* What the server sends back. *)

(* The client sends no variable. *)
LEMMA ClientAnsweredKept ==
  ASSUME Typed, AnsweredInv, ClientCode
  PROVE  AnsweredInv'
  <1>. USE SendCallProperties, RecvCallProperties, SessionAssumption
       DEF AnsweredInv, AnsweredAll, Filled, Receiving, RecvInv, Typed, TypeOK, Sides, Places, ClientPlaces, ServerPlaces,
           Exit, ClientExit, ServerExit, ServerStopsReading, Killed, SetUpFails, Descriptor, Goto, Acquire,
           Release, Put, Close, NoCall, StartSend, StartRecv, Peer, files, kernel, mine, theirs, history, Procs
  <1>1. CASE ClientConnect
    BY <1>1 DEF ClientConnect
  <1>2. CASE ClientConnectFails
    BY <1>2 DEF ClientConnectFails
  <1>3. CASE ClientQuantitySent
    BY <1>3 DEF ClientQuantitySent
  <1>4. CASE ClientSendFails
    BY <1>4 DEF ClientSendFails
  <1>5. CASE ClientMalloc
    BY <1>5 DEF ClientMalloc
  <1>6. CASE ClientMallocFails
    BY <1>6 DEF ClientMallocFails
  <1>7. CASE ClientRead
    BY <1>7 DEF ClientRead
  <1>8. CASE ClientReadFails
    BY <1>8 DEF ClientReadFails
  <1>9. CASE ClientChunkSent
    BY <1>9 DEF ClientChunkSent
  <1>10. CASE ClientCodeSent
    BY <1>10 DEF ClientCodeSent
  <1>11. CASE ClientShutdown
    BY <1>11 DEF ClientShutdown
  <1>12. CASE ClientShutdownFails
    BY <1>12 DEF ClientShutdownFails
  <1>13. CASE ClientIntReceived
    BY <1>13 DEF ClientIntReceived
  <1>14. CASE ClientIntFails
    BY <1>14 DEF ClientIntFails
  <1>15. CASE ClientClose
    BY <1>15 DEF ClientClose
  <1>. QED BY <1>1, <1>2, <1>3, <1>4, <1>5, <1>6, <1>7, <1>8, <1>9, <1>10, <1>11, <1>12, <1>13, <1>14, <1>15 DEF ClientCode

(* Each variable is sent whole before the next, and as many as there are. *)
LEMMA ServerAnsweredKept ==
  ASSUME Typed, AnsweredInv, ServerCode
  PROVE  AnsweredInv'
  <1>. USE SendCallProperties, RecvCallProperties, SessionAssumption
       DEF AnsweredInv, AnsweredAll, Filled, Receiving, RecvInv, Typed, TypeOK, Sides, Places, ClientPlaces, ServerPlaces,
           Exit, ClientExit, ServerExit, ServerStopsReading, Killed, SetUpFails, Descriptor, Goto, Acquire,
           Release, Put, Close, NoCall, StartSend, StartRecv, Peer, files, kernel, mine, theirs, history, Procs
  <1>1. CASE ServerBind
    BY <1>1 DEF ServerBind
  <1>2. CASE ServerBindFails
    BY <1>2 DEF ServerBindFails
  <1>3. CASE ServerListen
    BY <1>3 DEF ServerListen
  <1>4. CASE ServerListenFails
    BY <1>4 DEF ServerListenFails
  <1>5. CASE ServerAccept
    BY <1>5 DEF ServerAccept
  <1>6. CASE ServerAcceptFails
    BY <1>6 DEF ServerAcceptFails
  <1>7. CASE ServerQuantityReceived
    <2>1. /\ pc["server"] = "receive_quantity" /\ pc'["server"] = "malloc"
          /\ UNCHANGED <<sent, answered, broken, exit>>
          /\ short' = (short \/ Filled("server") < IntBytes)
          /\ size' \in IF Filled("server") = IntBytes THEN {VarSize} ELSE Garbage
      BY <1>7 DEF ServerQuantityReceived
    <2>2. ~short' => size' = VarSize
      <3>1. ~short' => Filled("server") = IntBytes
        BY ONLY Typed, <2>1, QuantityFilled
      <3>. QED BY ONLY <2>1, <3>1
    <2>. QED BY <2>1, <2>2
  <1>8. CASE ServerQuantityFails
    BY <1>8 DEF ServerQuantityFails
  <1>9. CASE ServerMalloc
    BY <1>9 DEF ServerMalloc
  <1>10. CASE ServerMallocFails
    BY <1>10 DEF ServerMallocFails
  <1>11. CASE ServerNoChunk
    BY <1>11 DEF ServerNoChunk
  <1>12. CASE ServerRunChunk
    BY <1>12 DEF ServerRunChunk
  <1>13. CASE ServerKilled
    BY <1>13 DEF ServerKilled
  <1>14. CASE ServerPrint
    BY <1>14 DEF ServerPrint
  <1>15. CASE ServerIntSent
    <2>1. /\ pc["server"] = "send_variable" /\ answered' = answered + 1
          /\ pc'["server"] = IF answered + 1 < size THEN "send_variable" ELSE "close"
          /\ call'["server"].sent = 0 /\ UNCHANGED <<sent, broken, size, short, exit>>
          /\ ~SendLooping(call["server"]) /\ SendResult(call["server"]) # SOCKET_CONNECTION_ERROR
      BY <1>15 DEF ServerIntSent, Sent
    <2>2. call["server"].sent = IntBytes
      BY <2>1 DEF SendInv, Sending, SendLooping, SendResult
    <2>3. answered \in Nat /\ size \in Int /\ answered < size /\ sent["server"] \in Nat /\ exit["server"] # "success"
      BY <2>1
    <2>4. ~broken => sent["server"] = IntBytes * (answered + 1)
      <3>1. ~broken => sent["server"] = IntBytes * answered + IntBytes
        BY <2>1, <2>2
      <3>. QED BY ONLY <2>3, <3>1, SessionAssumption
    <2>5. ~short => size = VarSize
      BY <2>1
    <2>. QED BY ONLY <2>1, <2>3, <2>4, <2>5, SessionAssumption DEF AnsweredInv, AnsweredAll
  <1>16. CASE ServerIntFails
    BY <1>16 DEF ServerIntFails
  <1>17. CASE ServerClose
    BY <1>17 DEF ServerClose
  <1>. QED BY <1>1, <1>2, <1>3, <1>4, <1>5, <1>6, <1>7, <1>8, <1>9, <1>10, <1>11, <1>12, <1>13, <1>14, <1>15, <1>16, <1>17 DEF ServerCode

(* Nothing is sent while the connection is set up. *)
LEMMA SetUpAnsweredKept ==
  ASSUME Typed, AnsweredInv, NEW p \in Procs, SetUpCode(p) \/ Crash(p)
  PROVE  AnsweredInv'
  <1>. USE SendCallProperties, RecvCallProperties, SessionAssumption
       DEF AnsweredInv, AnsweredAll, Filled, Receiving, RecvInv, Typed, TypeOK, Sides, Places, ClientPlaces, ServerPlaces,
           Exit, ClientExit, ServerExit, ServerStopsReading, Killed, SetUpFails, Descriptor, Goto, Acquire,
           Release, Put, Close, NoCall, StartSend, StartRecv, Peer, files, kernel, mine, theirs, history, Procs
  <1>1. CASE Resolve(p)
    BY <1>1 DEF Resolve
  <1>2. CASE ResolveFails(p)
    BY <1>2 DEF ResolveFails
  <1>3. CASE OpenSocket(p)
    BY <1>3 DEF OpenSocket
  <1>4. CASE OpenSocketFails(p)
    BY <1>4 DEF OpenSocketFails
  <1>5. CASE SetOption(p)
    BY <1>5 DEF SetOption
  <1>6. CASE SetOptionFails(p)
    BY <1>6 DEF SetOptionFails
  <1>7. CASE Crash(p)
    BY <1>7 DEF Crash
  <1>. QED BY <1>1, <1>2, <1>3, <1>4, <1>5, <1>6, <1>7 DEF SetUpCode

(* What send() accepts of a variable is counted once. *)
LEMMA KernelAnsweredKept ==
  ASSUME Typed, AnsweredInv, NetworkFails \/ ClosedEndResets \/ (\E p \in Procs : SocketCode(p)) \/ UNCHANGED vars
  PROVE  AnsweredInv'
  <1>1. CASE NetworkFails \/ ClosedEndResets
    BY <1>1 DEF NetworkFails, ClosedEndResets, Reset, Typed, TypeOK, AnsweredInv, AnsweredAll, Filled, Receiving, RecvInv, files, mine, theirs, history, Procs
  <1>2. ASSUME NEW p \in Procs, SendFails(p) \/ \E k \in 1 .. Capacity : SendAccept(p, k)
        PROVE  AnsweredInv'
    <2>1. CASE SendFails(p)
      <3>1. broken /\ UNCHANGED <<pc, files, kernel, mine, theirs, history>>
        BY <2>1 DEF SendFails
      <3>. QED BY <3>1 DEF AnsweredInv, AnsweredAll, files, kernel, theirs, history
    <2>2. ASSUME NEW k \in 1 .. Capacity, SendAccept(p, k) PROVE AnsweredInv'
      <3>1. /\ UNCHANGED <<pc, exit, broken, size, answered, short>> /\ sent' = [sent EXCEPT ![p] = sent[p] + k]
            /\ call' = [call EXCEPT ![p] = SendStep(call[p], k)]
            /\ Sending(p) /\ call[p] \in SendCalls
        BY <2>2 DEF SendAccept, Typed, SendInv, files, theirs, history, Put, Procs
      <3>2. k \in Nat /\ k > 0 /\ sent["server"] \in Nat /\ answered \in Nat
        BY SessionAssumption DEF Typed, TypeOK, Procs
      <3>3. CASE p = "client"
        BY <3>1, <3>3 DEF AnsweredInv, AnsweredAll, Typed, TypeOK, Procs
      <3>4. CASE p = "server"
        <4>1. SendStep(call["server"], k).sent = call["server"].sent + k /\ call["server"].sent \in Nat
          <5>1. call["server"] \in SendCalls /\ k \in Int
            BY <3>1, <3>2, <3>4
          <5>. QED BY <3>2, <5>1, SendStepProperties, SendCallProperties
        <4>2. /\ sent'["server"] = sent["server"] + k /\ call'["server"].sent = call["server"].sent + k
              /\ pc["server"] = "send_variable"
          BY <3>1, <3>4, <4>1 DEF Typed, TypeOK, Sides, Places, ServerPlaces, Sending, Procs
        <4>3. ~broken => sent'["server"] = IntBytes * answered + call'["server"].sent
          <5>1. IntBytes * answered \in Int
            BY <3>2, SessionAssumption
          <5>. QED BY <3>2, <4>1, <4>2, <5>1 DEF AnsweredInv
        <4>. QED BY <3>1, <4>2, <4>3 DEF AnsweredInv, AnsweredAll
      <3>. QED BY <3>3, <3>4 DEF Procs
    <2>. QED BY <1>2, <2>1, <2>2
  <1>3. ASSUME NEW p \in Procs, NEW n \in Int, RecvTurn(p, n)
        PROVE  AnsweredInv'
    BY <1>3 DEF RecvTurn, Receiving, Typed, TypeOK, AnsweredInv, AnsweredAll, Filled, Receiving, RecvInv, files, kernel, mine, theirs, history, Put, Procs
  <1>4. CASE UNCHANGED vars
    BY <1>4 DEF vars, AnsweredInv, AnsweredAll, Filled, Receiving, RecvInv, files, kernel, mine, theirs, history
  <1>. QED BY <1>1, <1>2, <1>3, <1>4 DEF SocketCode

(* If both ends report success, on a connection that never broke, the client  *)
(* has read all of the answer.                                                *)
THEOREM TheAnswerIsReadWhole == Spec => []NothingLeftUnread
  <1>1. Init => AnsweredInv
    BY SessionAssumption DEF Init, AnsweredInv, AnsweredAll, Filled, Receiving, RecvInv, Procs
  <1>2. Typed /\ AnsweredInv /\ [Next]_vars => AnsweredInv'
    BY ClientAnsweredKept, ServerAnsweredKept, SetUpAnsweredKept, KernelAnsweredKept DEF Next
  <1>3. PrintInv /\ AnsweredInv => NothingLeftUnread
    BY DEF PrintInv, PrintedAll, AnsweredInv, AnsweredAll, NothingLeftUnread, Procs
  <1>. QED BY <1>1, <1>2, <1>3, AlwaysTyped, AlwaysPrint, PTL DEF Spec
=============================================================================
