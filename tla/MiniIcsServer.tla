--------------------------- MODULE MiniIcsServer ---------------------------
(***************************************************************************)
(* The Mini-ICS server (mini-ics/src/server.cpp with transaction.hpp and   *)
(* socket.cpp) as an open system.  Its IO thread accepts one client at a   *)
(* time and routes what the client sends.  One endpoint thread polls the   *)
(* inbound queue and calls SendResponse and SendRequestToHost; "call" is   *)
(* the call it is in.  Clients connect, send, read and close as they like. *)
(*                                                                         *)
(* A connection is a session; session numbers are the order of connect().  *)
(* A message is sent and received whole: SendAll and RecvAll loop until    *)
(* the last byte, and a connection that breaks within a message is one     *)
(* that broke before it.                                                   *)
(***************************************************************************)
EXTENDS MicsWire, FiniteSets

CONSTANT NSessions   \* bound: connections that clients make

ASSUME ServerAssumption == NSessions \in Nat \ {0} /\ Args # {} /\ Values # {}

Sessions == 1..NSessions

VARIABLES
  running,    \* running_ and not stop_requested_
  io,         \* the IO thread: "accept", "hello", "mark", "run" or "exit"
  sock,       \* client_socket_: the session it holds, 0 after Close()
  hasClient,  \* has_client_
  inbound,    \* inbound_queue_
  ptab,       \* pending_: transaction ID -> response, NoMsg until it arrives
  txnGen,     \* txn_gen_
  call,       \* the endpoint thread's call: [st, msg, res]
  in,         \* per session, client to server
  out,        \* per session, server to client
  cst,        \* client's end of each session: "off", "open" or "closed"
  sst         \* server's end of each session: "pend", "open" or "closed"

ioVars == <<running, io, sock, hasClient>>
tableVars == <<inbound, ptab, txnGen, call>>
sessionVars == <<in, out, cst, sst>>
serverVars == <<ioVars, tableVars, sessionVars>>

NoMsg == [type |-> "NONE"]

\* The reply to m.
Reply(m, type, data, plen, status) ==
  [type |-> type, txn |-> m.txn, arg |-> m.arg, data |-> data,
   len |-> 0, plen |-> plen, status |-> status]

NoData == CHOOSE d \in Values : TRUE
NoArg == CHOOSE a \in Args : TRUE

ServerInit ==
  /\ running = TRUE /\ io = "accept" /\ sock = 0 /\ hasClient = FALSE
  /\ inbound = <<>> /\ ptab = <<>> /\ txnGen = 1
  /\ call = [st |-> "idle", msg |-> NoMsg, res |-> NoMsg]
  /\ in = [s \in Sessions |-> <<>>] /\ out = [s \in Sessions |-> <<>>]
  /\ cst = [s \in Sessions |-> "off"] /\ sst = [s \in Sessions |-> "pend"]

-----------------------------------------------------------------------------
(* The IO thread, IoThreadMain.                                            *)

\* client_socket_.Close() and has_client_ = false.  The two stores are one
\* step: a send between them finds fd -1 and fails as it would after both.
DropClient ==
  /\ sst' = [sst EXCEPT ![sock] = "closed"]
  /\ sock' = 0
  /\ hasClient' = FALSE
  /\ io' = IF running THEN "accept" ELSE "exit"

\* listener_.Accept: connections are taken in the order they were made.  The
\* loop condition was tested before the wait: a Stop() during it does not keep
\* the thread from accepting once more.
IoAccept(s) ==
  /\ io = "accept"
  /\ cst[s] # "off" /\ sst[s] = "pend"
  /\ \A r \in Sessions : r < s => sst[r] # "pend"
  /\ sock' = s
  /\ sst' = [sst EXCEPT ![s] = "open"]
  /\ io' = "hello"
  /\ UNCHANGED <<running, hasClient, tableVars, in, out, cst>>

\* The first message must be HELLO; HandleHello acknowledges it.
IoHello ==
  /\ io = "hello" /\ in[sock] # <<>>
  /\ in' = [in EXCEPT ![sock] = Tail(@)]
  /\ LET m == Head(in[sock]) IN
       IF m.type = "HELLO" /\ cst[sock] = "open"
       THEN /\ out' = [out EXCEPT ![sock] = Append(@, Reply(m, "HELLO_ACK", NoData, 0, "SUCCESS"))]
            /\ io' = "mark"
            /\ UNCHANGED <<sock, hasClient, sst>>
       ELSE DropClient /\ UNCHANGED out
  /\ UNCHANGED <<running, tableVars, cst>>

\* No HELLO within io_timeout_ms, or the client closed before one.
IoHelloFails ==
  /\ io = "hello" /\ in[sock] = <<>>
  /\ DropClient
  /\ UNCHANGED <<running, tableVars, in, out, cst>>

\* Mutant: has_client_ is never set.
IoMark_Forgotten ==
  /\ io = "mark"
  /\ io' = "run"
  /\ UNCHANGED <<running, sock, hasClient, tableVars, sessionVars>>

\* has_client_ is published only after the acknowledgement is on the wire.
IoMark ==
  /\ io = "mark"
  /\ hasClient' = TRUE
  /\ io' = "run"
  /\ UNCHANGED <<running, sock, tableVars, sessionVars>>

\* Mutant: answers to DMA writes are not looked up.
Complete_ReadsOnly(m) ==
  ptab' = IF m.txn \in DOMAIN ptab /\ m.type = "DMA_READ_RSP" THEN [ptab EXCEPT ![m.txn] = m] ELSE ptab

\* PendingRequestTable::Complete.
Complete(m) ==
  ptab' = IF m.txn \in DOMAIN ptab THEN [ptab EXCEPT ![m.txn] = m] ELSE ptab

\* Mutant: push_front.
Push_Front(m) == inbound' = <<m>> \o inbound

\* BlockingQueue::Push.
Push(m) == inbound' = Append(inbound, m)

\* One message of the connected client: DispatchIncoming, SHUTDOWN, or a
\* header that does not decode.
IoRecv ==
  /\ io = "run" /\ in[sock] # <<>>
  /\ in' = [in EXCEPT ![sock] = Tail(@)]
  /\ LET m == Head(in[sock]) IN
       \/ /\ m.type \in {"DMA_READ_RSP", "DMA_WRITE_RSP"}
          /\ Complete(m)
          /\ UNCHANGED <<io, sock, hasClient, sst, inbound>>
       \/ /\ m.type \notin {"DMA_READ_RSP", "DMA_WRITE_RSP", "SHUTDOWN", BadHeader}
          /\ Push(m)
          /\ UNCHANGED <<io, sock, hasClient, sst, ptab>>
       \/ /\ m.type = "SHUTDOWN"
          /\ Push(m)
          /\ DropClient
          /\ UNCHANGED ptab
       \/ /\ m.type = BadHeader
          /\ DropClient
          /\ UNCHANGED <<inbound, ptab>>
  /\ UNCHANGED <<running, txnGen, call, out, cst>>

\* The client hung up; PollFor reports it only once its data is drained.
\* Neither inbound_queue_ nor pending_ is cleared.
IoDisconnect ==
  /\ io = "run" /\ in[sock] = <<>> /\ cst[sock] = "closed"
  /\ DropClient
  /\ UNCHANGED <<running, tableVars, in, out, cst>>

\* Mutant: the IO thread looks at running_ only between clients.
IoExit_OnlyAccept ==
  /\ ~running /\ io = "accept"
  /\ io' = "exit"
  /\ UNCHANGED <<running, sock, hasClient, tableVars, sessionVars>>

\* The loop condition fails after Stop().
IoExit ==
  /\ ~running /\ io \in {"accept", "run"}
  /\ io' = "exit"
  /\ UNCHANGED <<running, sock, hasClient, tableVars, sessionVars>>

IoThread ==
  \/ \E s \in Sessions : IoAccept(s)
  \/ IoHello \/ IoHelloFails \/ IoMark \/ IoRecv \/ IoDisconnect \/ IoExit

-----------------------------------------------------------------------------
(* The calls of the endpoint thread.                                       *)

ExpectsResponse(m) == m.type \in {"DMA_READ_REQ", "DMA_WRITE_REQ"}

Unregister(t) == [u \in DOMAIN ptab \ {t} |-> ptab[u]]

\* PollInbound: take the head of the inbound queue.
Poll == /\ call.st = "idle" /\ inbound # <<>>
        /\ inbound' = Tail(inbound)

\* SendResponse(m) up to its has_client_ check.
ResponseBegin(m) ==
  /\ call.st = "idle"
  /\ call' = [st |-> IF hasClient THEN "send" ELSE "idle", msg |-> m, res |-> NoMsg]
  /\ UNCHANGED <<ptab, txnGen>>

\* Mutant: the generator hands out the same ID again.
RequestBegin_SameId(m) ==
  /\ call.st = "idle"
  /\ call' = [st |-> IF hasClient THEN "send" ELSE "idle",
              msg |-> [m EXCEPT !.txn = txnGen], res |-> NoMsg]
  /\ ptab' = IF hasClient /\ ExpectsResponse(m)
             THEN [u \in DOMAIN ptab \cup {txnGen} |-> IF u = txnGen THEN NoMsg ELSE ptab[u]]
             ELSE ptab
  /\ UNCHANGED txnGen

\* Mutant: the generator counts down.
RequestBegin_Down(m) ==
  /\ call.st = "idle"
  /\ call' = [st |-> IF hasClient THEN "send" ELSE "idle",
              msg |-> [m EXCEPT !.txn = txnGen], res |-> NoMsg]
  /\ txnGen' = txnGen - 1
  /\ ptab' = IF hasClient /\ ExpectsResponse(m)
             THEN [u \in DOMAIN ptab \cup {txnGen} |-> IF u = txnGen THEN NoMsg ELSE ptab[u]]
             ELSE ptab

\* SendRequestToHost(m) up to RegisterPending: without a client it returns
\* at once; otherwise it draws an ID and registers it before it sends.
RequestBegin(m) ==
  /\ call.st = "idle"
  /\ IF hasClient
     THEN /\ call' = [st |-> "send", msg |-> [m EXCEPT !.txn = txnGen], res |-> NoMsg]
          /\ txnGen' = txnGen + 1
          /\ ptab' = IF ExpectsResponse(m)
                     THEN [u \in DOMAIN ptab \cup {txnGen} |->
                             IF u = txnGen THEN NoMsg ELSE ptab[u]]
                     ELSE ptab
     ELSE /\ call' = [st |-> "idle", msg |-> m, res |-> NoMsg]
          /\ UNCHANGED <<txnGen, ptab>>

\* SendAll under send_mutex_, on whatever client_socket_ holds by now.
CallSend ==
  /\ call.st = "send"
  /\ IF sock # 0 /\ cst[sock] = "open"
     THEN /\ out' = [out EXCEPT ![sock] = Append(@, call.msg)]
          /\ call' = [call EXCEPT !.st = IF ExpectsResponse(call.msg) THEN "wait" ELSE "idle"]
          /\ UNCHANGED ptab
     ELSE /\ call' = [call EXCEPT !.st = "idle"]
          /\ ptab' = Unregister(call.msg.txn)
          /\ UNCHANGED out
  /\ UNCHANGED <<ioVars, inbound, txnGen, in, cst, sst>>

\* Mutant: a timed-out entry stays in the table.
WaitEnds_Keep ==
  /\ call.st = "wait"
  /\ call' = [call EXCEPT !.st = "idle", !.res = ptab[call.msg.txn]]
  /\ ptab' = IF ptab[call.msg.txn] = NoMsg THEN ptab ELSE Unregister(call.msg.txn)
  /\ UNCHANGED <<ioVars, inbound, txnGen, sessionVars>>

\* WaitFor returns the response, or nothing after request_timeout_ms; either
\* way it erases the entry.
WaitEnds ==
  /\ call.st = "wait"
  /\ call' = [call EXCEPT !.st = "idle", !.res = ptab[call.msg.txn]]
  /\ ptab' = Unregister(call.msg.txn)
  /\ UNCHANGED <<ioVars, inbound, txnGen, sessionVars>>

WaitAnswered == WaitEnds /\ ptab[call.msg.txn] # NoMsg

\* Mutant: wait instead of wait_for.
WaitTimeout_Never == FALSE /\ WaitEnds

WaitTimeout == WaitEnds /\ ptab[call.msg.txn] = NoMsg

\* Stop(), called by the endpoint thread itself: CancelAll, then join the IO
\* thread and close the sockets.
StopBegin ==
  /\ call.st = "idle"
  /\ running' = FALSE
  /\ ptab' = <<>>
  /\ UNCHANGED <<io, sock, hasClient, inbound, txnGen, call, sessionVars>>

StopJoined ==
  /\ ~running /\ io = "exit"
  /\ sock' = 0
  /\ sst' = [s \in Sessions |-> "closed"]
  /\ UNCHANGED <<running, io, hasClient, tableVars, in, out, cst>>

-----------------------------------------------------------------------------
(* The clients.                                                            *)

ClientConnect(s) ==
  /\ cst[s] = "off" /\ sst[s] = "pend"
  /\ \A r \in Sessions : r < s => cst[r] # "off"
  /\ cst' = [cst EXCEPT ![s] = "open"]
  /\ UNCHANGED <<ioVars, tableVars, in, out, sst>>

ClientSend(s, m) ==
  /\ cst[s] = "open" /\ sst[s] # "closed"
  /\ in' = [in EXCEPT ![s] = Append(@, m)]
  /\ UNCHANGED <<ioVars, tableVars, out, cst, sst>>

ClientRecv(s) ==
  /\ cst[s] = "open" /\ out[s] # <<>>
  /\ out' = [out EXCEPT ![s] = Tail(@)]
  /\ UNCHANGED <<ioVars, tableVars, in, cst, sst>>

ClientClose(s) ==
  /\ cst[s] = "open"
  /\ cst' = [cst EXCEPT ![s] = "closed"]
  /\ UNCHANGED <<ioVars, tableVars, in, out, sst>>
=============================================================================
