-------------------------- MODULE ServerStepProofs --------------------------
(***************************************************************************)
(* What a step of the Mini-ICS server, of its endpoint or of a client does *)
(* to the call, the pending table and the wires, that it keeps the types,  *)
(* and that it keeps the invariants of the server with each endpoint.      *)
(* ServerSessionsProofs draws the conclusions.                             *)
(***************************************************************************)
EXTENDS ServerSessions, TLAPS

MaybeMessage == Message \cup {NoMsg}

CallRecord == [st : {"idle", "send", "wait"}, msg : MaybeMessage, res : MaybeMessage]
RegRecord == [cc : Values, csts : Values, asq : Values, acq : Values, aqa : Values]
PortRecord == [req : MaybeMessage, rsp : MaybeMessage, pulse : BOOLEAN]
Counts == [Sessions -> Nat]
HistRecord == [wr : Counts, cpl : Counts, msix : Counts]
Stages == {"poll", "answer", "doorbell", "read", "write", "stop", "join", "end", "access"}

\* The IO thread, the connections and the clients.
WireType ==
  /\ running \in BOOLEAN /\ hasClient \in BOOLEAN
  /\ io \in {"accept", "hello", "mark", "run", "exit"}
  /\ sock \in Sessions \cup {0}
  /\ io \in {"hello", "mark", "run"} => sock \in Sessions
  /\ in \in [Sessions -> Seq(Message)] /\ out \in [Sessions -> Seq(Message)]
  /\ asked \in [Sessions -> Seq(Message)]
  /\ hist \in HistRecord
  /\ kind \in Kinds

\* The tables of the server and the call of the endpoint thread.  The table
\* holds the call in progress and nothing else.
TableType ==
  /\ inbound \in Seq(Message) /\ txnGen \in Nat
  /\ \A t \in DOMAIN ptab : t \in Nat /\ ptab[t] \in MaybeMessage
  /\ call \in CallRecord
  /\ call.st # "idle" => call.msg \in Message
  /\ call.st = "wait" => ExpectsResponse(call.msg)
  /\ OnlyOwnPending

\* The endpoint.  It is in no call while it polls or accesses a register.
EndType ==
  /\ regs \in RegRecord /\ stage \in Stages /\ rm \in PortRecord
  /\ simPass \in BOOLEAN /\ seen \in BOOLEAN
  /\ stage \in {"poll", "access"} => call.st = "idle"
  /\ stage = "access" => /\ rm.req \in Message
                         /\ rm.req.type \in {"MMIO_READ_REQ", "MMIO_WRITE_REQ"}
  /\ rm.rsp # NoMsg => rm.rsp.type \in {"MMIO_READ_RSP", "MMIO_WRITE_RSP"}

Types == WireType /\ TableType /\ EndType

\* The number of MSI-X messages in a queue.
MsixOn(q) == {i \in DOMAIN q : q[i].type = "MSIX"}
Msixes(q) == Cardinality(MsixOn(q))

\* The requests made so far and the MSI-X on each wire are finitely many.
Counted ==
  /\ Cardinality(Made) \in Nat
  /\ \A s \in Sessions : Msixes(out[s]) \in Nat /\ (out[s] = <<>> => Msixes(out[s]) = 0)

TypeInv == WireType /\ TableType /\ EndType /\ Counted

-----------------------------------------------------------------------------
(* What a step can do to the call, the table and the wires.                *)

DmaResponses == {"DMA_READ_RSP", "DMA_WRITE_RSP"}
DmaRequests == {"DMA_READ_REQ", "DMA_WRITE_REQ"}

\* A message begins on its way, as an answer or as a request of the server.
BeginsAnswer ==
  \E m \in Message : /\ m.type \in {"RESET_RSP", "MMIO_READ_RSP", "MMIO_WRITE_RSP"}
                     /\ ResponseBegin(m)
BeginsRequest ==
  \E m \in Message : m.type \in DmaRequests \cup {"MSIX"} /\ RequestBegin(m)

\* The IO thread takes a message of the client.
Receives ==
  /\ sock \in Sessions /\ in[sock] # <<>>
  /\ in' = [in EXCEPT ![sock] = Tail(@)]
  /\ UNCHANGED <<call, txnGen>>
  /\ \/ UNCHANGED <<out, ptab>>
     \/ /\ out' = [out EXCEPT ![sock] =
                     Append(@, Reply(Head(in[sock]), "HELLO_ACK", NoData, 0, "SUCCESS"))]
        /\ UNCHANGED ptab
     \/ /\ Head(in[sock]).type \in DmaResponses /\ Complete(Head(in[sock]))
        /\ UNCHANGED out

\* A client asks for something, or reads a message and answers it if it is a
\* DMA request.
Asks ==
  \E s \in Sessions, m \in Message :
    /\ m.type \in RequestTypes \cup {BadHeader}
    /\ in' = [in EXCEPT ![s] = Append(@, m)]
Reads ==
  \E s \in Sessions :
    /\ out[s] # <<>>
    /\ out' = [out EXCEPT ![s] = Tail(@)]
    /\ \/ UNCHANGED in
       \/ \E st \in Statuses :
            /\ ExpectsResponse(Head(out[s]))
            /\ in' = [in EXCEPT ![s] = Append(@, Reply(Head(out[s]), Expected(Head(out[s]).type), NoData, 0, st))]

callVars == <<call, ptab, txnGen>>

Move ==
  \/ UNCHANGED <<callVars, in, out>>
  \/ (BeginsAnswer \/ BeginsRequest) /\ UNCHANGED <<in, out>>
  \/ CallSend
  \/ WaitEnds
  \/ call.st = "idle" /\ ptab' = <<>> /\ UNCHANGED <<call, txnGen, in, out>>
  \/ Receives
  \/ Asks /\ UNCHANGED <<callVars, out>>
  \/ Reads /\ UNCHANGED callVars

-----------------------------------------------------------------------------
(* Messages and registers.                                                 *)

\* The placeholders of fields no handler reads are in range.
LEMMA Placeholders == NoArg \in Args /\ NoData \in Values
BY ServerAssumption, Zenon DEF NoArg, NoData

\* A reply is a message that carries the ID of its request.
LEMMA ReplyType ==
  ASSUME NEW m \in Message, NEW type \in ResponseTypes, NEW data \in Values, NEW plen \in Nat,
         NEW status \in Statuses
  PROVE  /\ Reply(m, type, data, plen, status) \in Message
         /\ Reply(m, type, data, plen, status).type = type
         /\ Reply(m, type, data, plen, status).txn = m.txn
         /\ Reply(m, type, data, plen, status).arg = m.arg
         /\ Reply(m, type, data, plen, status).data = data
         /\ Reply(m, type, data, plen, status).plen = plen
         /\ Reply(m, type, data, plen, status).status = status
BY Zenon DEF Reply, Message

\* So is what the DMA sequence asks the host for.
LEMMA DmaRequestType ==
  ASSUME NEW type \in RequestTypes, NEW addr \in Args, NEW data \in Values, NEW len \in Nat,
         NEW plen \in Nat
  PROVE  /\ DmaRequest(type, addr, data, len, plen) \in Message
         /\ DmaRequest(type, addr, data, len, plen).type = type
BY Zenon DEF DmaRequest, Message, Statuses

\* Which response belongs to which request.
LEMMA ExpectedTypes ==
  /\ Expected("DMA_READ_REQ") = "DMA_READ_RSP" /\ Expected("DMA_WRITE_REQ") = "DMA_WRITE_RSP"
  /\ Expected("MMIO_READ_REQ") = "MMIO_READ_RSP" /\ Expected("MMIO_WRITE_REQ") = "MMIO_WRITE_RSP"
  /\ Expected("RESET_REQ") = "RESET_RSP"
BY Zenon DEF Expected

\* A placeholder is no message.
LEMMA NoMsgType == NoMsg.type = "NONE" /\ NoMsg \notin Message
<1>1. NoMsg.type = "NONE"
  BY Zenon DEF NoMsg
<1>2. \A m \in Message : m.type # "NONE"
  BY Zenon DEF Message, ResponseTypes, RequestTypes, BadHeader
<1> QED
  BY <1>1, <1>2, Zenon

\* Words and their truncations.
LEMMA WordType ==
  /\ 0 \in Values /\ 1 \in Values /\ Completion \in Values
  /\ Values \subseteq Nat /\ Values \subseteq Args
  /\ \A v \in Values : \A w \in 0..v : w \in Values
BY SessionAssumption, Zenon

\* A remainder is at most what it is taken of.
LEMMA ModSmall ==
  ASSUME NEW v \in Nat, NEW k \in Nat \ {0} PROVE v % k \in Nat /\ v % k <= v /\ v % k < k
OBVIOUS

\* A shorter read of a word is a word.
LEMMA TruncateType ==
  ASSUME NEW v \in Values, NEW len \in Nat PROVE Truncate(v, len) \in Values
<1>1. CASE len >= 4
  BY <1>1, Zenon DEF Truncate
<1>2. CASE ~(len >= 4)
  <2>1. len + 1 \in 1..4
    BY <1>2
  <2>2. ByteSpan[len + 1] \in Nat \ {0}
    BY <2>1 DEF ByteSpan
  <2>3. v % ByteSpan[len + 1] \in 0..v
    BY <2>2, ModSmall, WordType
  <2> QED
    BY <1>2, <2>3, WordType, Zenon DEF Truncate
<1> QED
  BY <1>1, <1>2, Zenon

\* The register file stays one of words, whichever endpoint writes it.
LEMMA WriteRegsType ==
  ASSUME regs \in RegRecord, NEW m, m.data \in Values PROVE WriteRegs(m) \in RegRecord
<1>1. m.data % 2 \in Values
  <2>1. m.data \in Nat
    BY WordType, Zenon
  <2>2. m.data % 2 \in 0..1
    BY <2>1
  <2> QED
    BY <2>2, WordType, Zenon
<1>2. [regs EXCEPT !.cc = m.data, !.csts = m.data % 2] \in RegRecord
  BY <1>1, Zenon DEF RegRecord
<1>3. /\ [regs EXCEPT !.asq = m.data] \in RegRecord
      /\ [regs EXCEPT !.acq = m.data] \in RegRecord
      /\ [regs EXCEPT !.aqa = m.data] \in RegRecord
  BY Zenon DEF RegRecord
<1> QED
  BY <1>2, <1>3, Zenon DEF WriteRegs

\* The register model keeps its registers words.
LEMMA SvRegsType ==
  ASSUME regs \in RegRecord, NEW m \in Message PROVE SvRegs(m) \in RegRecord
<1> DEFINE n == [m EXCEPT !.plen = IF m.arg \in {AsqReg, AcqReg} THEN 8 ELSE 4]
<1>1. n.data \in Values
  BY Zenon DEF Message
<1> HIDE DEF n
<1>2. WriteRegs(n) \in RegRecord
  BY <1>1, WriteRegsType, Zenon
<1> QED
  BY <1>2, Zenon DEF SvRegs, n

\* So does the harness its shadow registers.
LEMMA ShadowType ==
  ASSUME regs \in RegRecord, NEW m \in Message PROVE Shadow(m) \in RegRecord
<1>1. m.data \in Values
  BY Zenon DEF Message
<1>2. [regs EXCEPT !.asq = m.data] \in RegRecord /\ [regs EXCEPT !.acq = m.data] \in RegRecord
  BY <1>1, Zenon DEF RegRecord
<1> QED
  BY <1>2, Zenon DEF Shadow

\* What a register read returns is a word.
LEMMA ValueType ==
  ASSUME regs \in RegRecord, NEW addr PROVE RegValue(addr) \in Values /\ SvValue(addr) \in Values
<1>1. /\ regs.cc \in Values /\ regs.csts \in Values /\ regs.aqa \in Values
      /\ regs.asq \in Values /\ regs.acq \in Values /\ Capabilities \in Values
  BY WordType, Zenon DEF RegRecord, Capabilities
<1>2. RegValue(addr) \in Values
  BY <1>1, Zenon DEF RegValue
<1>3. SvValue(addr) \in Values
  BY <1>1, <1>2, Zenon DEF SvValue
<1> QED
  BY <1>2, <1>3, Zenon

\* The statuses of the software endpoint's answers.
LEMMA StatusType ==
  ASSUME NEW m PROVE WriteStatus(m) \in Statuses /\ ReadStatus(m) \in Statuses
<1>1. /\ "SUCCESS" \in Statuses /\ "INVALID_ADDRESS" \in Statuses /\ "BAD_LENGTH" \in Statuses
  BY Zenon DEF Statuses
<1>2. WriteStatus(m) \in Statuses
  BY <1>1, Zenon DEF WriteStatus
<1>3. ReadStatus(m) \in Statuses
  BY <1>1, Zenon DEF ReadStatus
<1> QED
  BY <1>2, <1>3, Zenon

\* HandleMmioRead answers with a message.
LEMMA ReadReplyType ==
  ASSUME regs \in RegRecord, NEW m \in Message
  PROVE  ReadReply(m) \in Message /\ ReadReply(m).type = "MMIO_READ_RSP"
<1>1. m.len \in Nat /\ "MMIO_READ_RSP" \in ResponseTypes /\ "SUCCESS" \in Statuses
  BY Zenon DEF Message, ResponseTypes, Statuses
<1>2. Truncate(RegValue(m.arg), m.len) \in Values
  BY <1>1, ValueType, TruncateType, Zenon
<1>3. CASE ReadStatus(m) = "SUCCESS"
  BY <1>1, <1>2, <1>3, ReplyType DEF ReadReply
<1>4. CASE ReadStatus(m) # "SUCCESS"
  BY <1>1, <1>4, ReplyType, StatusType, Placeholders DEF ReadReply
<1> QED
  BY <1>3, <1>4, Zenon

-----------------------------------------------------------------------------
(* Every step is one of these moves.                                       *)

\* A step that touches neither the call nor the wires.
LEMMA QuietMove == ASSUME UNCHANGED <<call, ptab, txnGen, in, out>> PROVE Move
BY Zenon DEF Move, callVars

\* A handler of a polled request begins to answer it, or makes no call.
Handled ==
  /\ UNCHANGED <<in, out>>
  /\ BeginsAnswer \/ UNCHANGED callVars

\* What a handler does is one of the moves.
LEMMA HandledMove == ASSUME Handled PROVE Move
BY Zenon DEF Handled, Move, callVars

\* A handler that answers.
LEMMA AnswerHandled ==
  ASSUME NEW m \in Message, m.type \in {"RESET_RSP", "MMIO_READ_RSP", "MMIO_WRITE_RSP"},
         ResponseBegin(m), UNCHANGED <<in, out>>
  PROVE  Handled
BY Zenon DEF Handled, BeginsAnswer

\* A handler that does not answer.
LEMMA QuietHandled == ASSUME UNCHANGED <<call, ptab, txnGen, in, out>> PROVE Handled
BY Zenon DEF Handled, callVars

\* A DMA request or MSI-X that begins.
LEMMA RequestMove ==
  ASSUME NEW m \in Message, m.type \in DmaRequests \cup {"MSIX"}, RequestBegin(m),
         UNCHANGED <<in, out>>
  PROVE  Move
BY Zenon DEF Move, BeginsRequest

\* What the endpoint polls is a message.
LEMMA PollHead ==
  ASSUME TypeInv, Poll PROVE Head(inbound) \in Message /\ inbound # <<>> /\ inbound' = Tail(inbound)
BY DEF TypeInv, TableType, Poll

\* The software endpoint.
LEMMA EpHandleHandled == ASSUME TypeInv, EpHandle PROVE Handled
<1> DEFINE m == Head(inbound)
<1>1. m \in Message /\ UNCHANGED <<in, out>> /\ regs \in RegRecord
  BY PollHead, Zenon DEF EpHandle, sessionVars, TypeInv, EndType
<1> HIDE DEF m
<1>2. /\ "RESET_RSP" \in ResponseTypes /\ "MMIO_WRITE_RSP" \in ResponseTypes
      /\ "SUCCESS" \in Statuses /\ 0 \in Nat
  BY Zenon DEF ResponseTypes, Statuses
<1>3. CASE ResponseBegin(Reply(m, "RESET_RSP", NoData, 0, "SUCCESS"))
  BY <1>1, <1>2, <1>3, ReplyType, Placeholders, AnswerHandled
<1>4. CASE ResponseBegin(Reply(m, "MMIO_WRITE_RSP", NoData, 0, WriteStatus(m)))
  BY <1>1, <1>2, <1>4, ReplyType, StatusType, Placeholders, AnswerHandled
<1>5. CASE ResponseBegin(ReadReply(m))
  BY <1>1, <1>5, ReadReplyType, AnswerHandled, Zenon
<1>6. CASE UNCHANGED <<call, ptab, txnGen>>
  BY <1>1, <1>6, QuietHandled, Zenon
<1> QED
  BY <1>3, <1>4, <1>5, <1>6, Zenon DEF EpHandle, m

\* What the three endpoints ask of the host.
LEMMA DmaAskType ==
  ASSUME regs \in RegRecord
  PROVE  /\ DmaRequest("DMA_READ_REQ", regs.asq, NoData, 64, 0) \in Message
         /\ DmaRequest("DMA_READ_REQ", regs.asq, NoData, 64, 0).type = "DMA_READ_REQ"
         /\ DmaRequest("DMA_WRITE_REQ", regs.acq, Completion, 16, 16) \in Message
         /\ DmaRequest("DMA_WRITE_REQ", regs.acq, Completion, 16, 16).type = "DMA_WRITE_REQ"
         /\ DmaRequest("MSIX", 0, NoData, 0, 0) \in Message
         /\ DmaRequest("MSIX", 0, NoData, 0, 0).type = "MSIX"
<1>1. regs.asq \in Args /\ regs.acq \in Args /\ 0 \in Args /\ Completion \in Values /\ NoData \in Values
  BY WordType, Placeholders, Zenon DEF RegRecord
<1>2. "DMA_READ_REQ" \in RequestTypes /\ "DMA_WRITE_REQ" \in RequestTypes /\ "MSIX" \in RequestTypes
  BY Zenon DEF RequestTypes
<1>3. 64 \in Nat /\ 16 \in Nat /\ 0 \in Nat
  BY Zenon
<1> QED
  BY <1>1, <1>2, <1>3, DmaRequestType

\* The three requests of the DMA sequence.
LEMMA DmaBeginMove ==
  ASSUME TypeInv, UNCHANGED <<in, out>>,
         \/ RequestBegin(DmaRequest("DMA_READ_REQ", regs.asq, NoData, 64, 0))
         \/ RequestBegin(DmaRequest("DMA_WRITE_REQ", regs.acq, Completion, 16, 16))
         \/ RequestBegin(DmaRequest("MSIX", 0, NoData, 0, 0))
  PROVE  Move
<1>1. regs \in RegRecord
  BY Zenon DEF TypeInv, EndType
<1> QED
  BY <1>1, DmaAskType, RequestMove, Zenon DEF DmaRequests

\* EpAnswered: the answer is out.
LEMMA EpAnsweredMove == ASSUME TypeInv, EpAnswered PROVE Move
<1>1. UNCHANGED <<in, out>>
  BY Zenon DEF EpAnswered, sessionVars
<1>2. \/ UNCHANGED <<call, ptab, txnGen>>
      \/ RequestBegin(DmaRequest("DMA_READ_REQ", regs.asq, NoData, 64, 0))
  BY Zenon DEF EpAnswered
<1> QED
  BY <1>1, <1>2, QuietMove, DmaBeginMove, Zenon

\* EpDmaNext: the next step of RunDmaSequence.
LEMMA EpDmaNextMove == ASSUME TypeInv, EpDmaNext PROVE Move
<1>1. UNCHANGED <<in, out>>
  BY Zenon DEF EpDmaNext, sessionVars
<1>2. \/ UNCHANGED <<call, ptab, txnGen>>
      \/ RequestBegin(DmaRequest("DMA_WRITE_REQ", regs.acq, Completion, 16, 16))
      \/ RequestBegin(DmaRequest("MSIX", 0, NoData, 0, 0))
  BY Zenon DEF EpDmaNext
<1> QED
  BY <1>1, <1>2, QuietMove, DmaBeginMove, Zenon

\* The end of Run: Stop() clears the table.
LEMMA EpEndMove == ASSUME TypeInv, EpGivesUp \/ EpStop \/ EpJoin PROVE Move
<1>1. CASE EpGivesUp
  BY <1>1, QuietMove, Zenon DEF EpGivesUp, serverVars, tableVars, sessionVars
<1>2. CASE EpStop
  BY <1>2, Zenon DEF EpStop, StopBegin, sessionVars, Move
<1>3. CASE EpJoin
  BY <1>3, QuietMove, Zenon DEF EpJoin, StopJoined, tableVars
<1> QED
  BY <1>1, <1>2, <1>3, Zenon

\* The simulated endpoint.
LEMMA DpiPollHandled == ASSUME TypeInv, DpiPoll PROVE Handled
<1> DEFINE m == Head(inbound)
<1>1. m \in Message /\ UNCHANGED <<in, out>>
  BY PollHead, Zenon DEF DpiPoll, ShimPoll, sessionVars
<1> HIDE DEF m
<1>2. "RESET_RSP" \in ResponseTypes /\ "SUCCESS" \in Statuses /\ 0 \in Nat
  BY Zenon DEF ResponseTypes, Statuses
<1>3. CASE ResponseBegin(Reply(m, "RESET_RSP", NoData, 0, "SUCCESS"))
  BY <1>1, <1>2, <1>3, ReplyType, Placeholders, AnswerHandled
<1>4. CASE UNCHANGED <<call, ptab, txnGen>>
  BY <1>1, <1>4, QuietHandled, Zenon
<1> QED
  BY <1>3, <1>4, Zenon DEF DpiPoll, ShimRespond, m

\* The harness.
LEMMA MainHandleHandled == ASSUME TypeInv, MainHandle PROVE Handled
<1> DEFINE m == Head(inbound)
<1>1. m \in Message /\ m.len \in Nat /\ UNCHANGED <<in, out>>
  BY PollHead, Zenon DEF MainHandle, sessionVars, Message
<1> HIDE DEF m
<1>2. /\ "RESET_RSP" \in ResponseTypes /\ "MMIO_WRITE_RSP" \in ResponseTypes
      /\ "MMIO_READ_RSP" \in ResponseTypes
      /\ "SUCCESS" \in Statuses /\ "GENERIC" \in Statuses /\ 0 \in Nat
  BY Zenon DEF ResponseTypes, Statuses
<1>3. CASE ResponseBegin(Reply(m, "RESET_RSP", NoData, 0, "SUCCESS"))
  BY <1>1, <1>2, <1>3, ReplyType, Placeholders, AnswerHandled
<1>4. ASSUME NEW ok \in BOOLEAN,
             ResponseBegin(Reply(m, "MMIO_WRITE_RSP", NoData, 0, IF ok THEN "SUCCESS" ELSE "GENERIC"))
      PROVE  Handled
  <2>1. (IF ok THEN "SUCCESS" ELSE "GENERIC") \in Statuses
    BY <1>2, Zenon
  <2> QED
    BY <1>1, <1>2, <1>4, <2>1, ReplyType, Placeholders, AnswerHandled
<1>5. ASSUME NEW ok \in BOOLEAN,
             ResponseBegin(Reply(m, "MMIO_READ_RSP", NoData, IF ok THEN m.len ELSE 0,
                                 IF ok THEN "SUCCESS" ELSE "GENERIC"))
      PROVE  Handled
  <2>1. (IF ok THEN "SUCCESS" ELSE "GENERIC") \in Statuses /\ (IF ok THEN m.len ELSE 0) \in Nat
    BY <1>1, <1>2, Zenon
  <2> QED
    BY <1>1, <1>2, <1>5, <2>1, ReplyType, Placeholders, AnswerHandled
<1>6. CASE UNCHANGED <<call, ptab, txnGen>>
  BY <1>1, <1>6, QuietHandled, Zenon
<1> QED
  BY <1>3, <1>4, <1>5, <1>6, Zenon DEF MainHandle, m

\* The DMA sequence of the harness.
LEMMA MainDmaNextMove == ASSUME TypeInv, MainDmaNext PROVE Move
<1>1. UNCHANGED <<in, out>>
  BY Zenon DEF MainDmaNext, sessionVars
<1>2. \/ UNCHANGED <<call, ptab, txnGen>>
      \/ RequestBegin(DmaRequest("DMA_WRITE_REQ", regs.acq, Completion, 16, 16))
      \/ RequestBegin(DmaRequest("MSIX", 0, NoData, 0, 0))
  BY Zenon DEF MainDmaNext
<1> QED
  BY <1>1, <1>2, QuietMove, DmaBeginMove, Zenon

\* handle_mmio_write and handle_mmio_read send the answer in the port.
LEMMA DpiTakeHandled == ASSUME TypeInv, DpiTake PROVE Handled
<1>1. rm.rsp \in Message /\ rm.rsp.type \in {"MMIO_READ_RSP", "MMIO_WRITE_RSP"}
  BY Zenon DEF DpiTake, TypeInv, EndType, PortRecord, MaybeMessage
<1>2. ResponseBegin(rm.rsp) /\ UNCHANGED <<in, out>>
  BY Zenon DEF DpiTake, ShimRespond, sessionVars
<1> QED
  BY <1>1, <1>2, AnswerHandled, Zenon

\* A clock edge of the register model sends nothing.
LEMMA RegClockHandled == ASSUME RegClock PROVE Handled
BY QuietHandled, Zenon DEF RegClock, serverVars, tableVars, sessionVars

\* The simulated endpoint.
LEMMA DpiMove == ASSUME TypeInv, Dpi PROVE Move
<1>1. CASE DpiPoll \/ RegClock \/ DpiTake
  BY <1>1, DpiPollHandled, RegClockHandled, DpiTakeHandled, HandledMove, Zenon
<1>2. CASE DpiDmaNext
  BY <1>2, EpDmaNextMove, Zenon DEF DpiDmaNext
<1>3. CASE EpAnswered \/ ShimShutdown
  BY <1>3, EpAnsweredMove, EpEndMove, Zenon DEF ShimShutdown
<1> QED
  BY <1>1, <1>2, <1>3, Zenon DEF Dpi

\* The endpoint thread.
LEMMA ThreadMove == ASSUME TypeInv, Thread PROVE Move
<1>1. CASE Endpoint
  BY <1>1, EpHandleHandled, HandledMove, EpAnsweredMove, EpDmaNextMove, EpEndMove, Zenon DEF Endpoint
<1>2. CASE Dpi
  BY <1>2, DpiMove, Zenon
<1>3. CASE MainLoop
  BY <1>3, MainHandleHandled, HandledMove, EpAnsweredMove, MainDmaNextMove, EpEndMove, Zenon DEF MainLoop, MainAnswered
<1>4. CASE CallSend
  BY <1>4, Zenon DEF Move
<1>5. CASE WaitAnswered \/ WaitTimeout
  BY <1>5, Zenon DEF Move, WaitAnswered, WaitTimeout
<1> QED
  BY <1>1, <1>2, <1>3, <1>4, <1>5, Zenon DEF Thread

\* The IO thread.
LEMMA IoMove == ASSUME TypeInv, IoStep PROVE Move
<1>1. CASE IoHello
  BY <1>1, Zenon DEF IoHello, TypeInv, WireType, tableVars, Move, Receives
<1>2. CASE IoRecv
  BY <1>2, Zenon DEF IoRecv, TypeInv, WireType, Move, Receives, DmaResponses
<1>3. CASE \/ \E s \in Sessions : IoAccept(s)
           \/ IoHelloFails \/ IoMark \/ IoDisconnect \/ IoExit
  BY <1>3, QuietMove
    , Zenon DEF IoAccept, IoHelloFails, IoMark, IoDisconnect, IoExit, tableVars, sessionVars
<1> QED
  BY <1>1, <1>2, <1>3, Zenon DEF IoStep, IoThread

-----------------------------------------------------------------------------
(* The clients.                                                            *)

\* What a client sends is a request.
LEMMA RequestType ==
  ASSUME NEW r, NEW txn \in Nat, r.type \in RequestTypes \cup {BadHeader}, r.arg \in Args,
         r.data \in Values, r.len \in Nat, r.plen \in Nat
  PROVE  Request(r, txn) \in Message /\ Request(r, txn).type = r.type
BY Zenon DEF Request, Message, Statuses

\* What a client asks is a request.
LEMMA AskedType ==
  ASSUME TypeInv, NEW s \in Sessions, Ask(s)
  PROVE  \E m \in Message : /\ m.type \in RequestTypes \cup {BadHeader}
                            /\ ClientSend(s, m) /\ Asking(s, m)
<1>1. kind \in Kinds /\ asked[s] \in Seq(Message)
  BY Zenon DEF TypeInv, WireType
<1> DEFINE n == Cardinality(Made)
<1>2. n \in Nat /\ n < Len(Requests[kind])
  BY Zenon DEF TypeInv, Counted, Ask
<1>3. PICK r \in Requests[kind][n + 1] :
        ClientSend(s, Request(r, Len(asked[s]) + 1)) /\ Asking(s, Request(r, Len(asked[s]) + 1))
  BY Zenon DEF Ask
<1> HIDE DEF n
<1>4. Requests[kind] \in Seq(SUBSET [type : RequestTypes \cup {BadHeader}, arg : Args,
                                     data : Values, len : Nat, plen : Nat])
  BY <1>1, SessionAssumption, Zenon
<1>5. n + 1 \in 1..Len(Requests[kind])
  BY <1>2, <1>4
<1>6. Requests[kind][n + 1] \in SUBSET [type : RequestTypes \cup {BadHeader}, arg : Args,
                                        data : Values, len : Nat, plen : Nat]
  BY <1>4, <1>5
<1>7. r \in [type : RequestTypes \cup {BadHeader}, arg : Args, data : Values, len : Nat, plen : Nat]
  BY <1>6, Zenon
<1>8. Len(asked[s]) + 1 \in Nat
  BY <1>1
<1> QED
  BY <1>3, <1>7, <1>8, RequestType, Zenon

\* HELLO is one too.
LEMMA HelloType ==
  ASSUME NEW s \in Sessions, Hello(s)
  PROVE  \E m \in Message : /\ m.type \in RequestTypes \cup {BadHeader}
                            /\ ClientSend(s, m) /\ Asking(s, m)
<1> DEFINE r == [type |-> "HELLO", arg |-> NoArg, data |-> NoData, len |-> 0, plen |-> 0]
<1>1. Request(r, 1) \in Message /\ Request(r, 1).type = "HELLO"
  BY RequestType, Placeholders, Zenon DEF RequestTypes
<1>2. ClientSend(s, Request(r, 1)) /\ Asking(s, Request(r, 1))
  BY Zenon DEF Hello
<1> QED
  BY <1>1, <1>2, Zenon DEF RequestTypes

\* The clients.
LEMMA ClientMove ==
  ASSUME TypeInv, NEW s \in Sessions, Client(s) PROVE Move
<1>1. CASE Connect(s) \/ HangUp(s)
  BY <1>1, QuietMove, Zenon DEF Connect, HangUp, ClientConnect, ClientClose, tableVars
<1>2. CASE Hello(s) \/ Ask(s)
  BY <1>2, HelloType, AskedType, Zenon DEF ClientSend, tableVars, Move, Asks, callVars
<1>3. CASE TakeResponse(s)
  BY <1>3, Zenon DEF TakeResponse, ClientRecv, tableVars, Move, Reads, callVars
<1>4. CASE Serve(s)
  <2>1. "SUCCESS" \in Statuses /\ "OUT_OF_BOUNDS" \in Statuses
    BY Zenon DEF Statuses
  <2>2. \/ UNCHANGED in
        \/ /\ ExpectsResponse(Head(out[s]))
           /\ \E st \in Statuses :
                in' = [in EXCEPT ![s] = Append(@, Reply(Head(out[s]), Expected(Head(out[s]).type), NoData, 0, st))]
    BY <1>4, <2>1, Zenon DEF Serve
  <2> QED
    BY <1>4, <2>2, Zenon DEF Serve, tableVars, Move, Reads, callVars
<1> QED
  BY <1>1, <1>2, <1>3, <1>4, Zenon DEF Client

\* Every step of the system is a move.
LEMMA NextMove == ASSUME TypeInv, [Next]_vars PROVE Move
<1>1. CASE UNCHANGED vars
  BY <1>1, QuietMove, Zenon DEF vars, serverVars, tableVars, sessionVars
<1> QED
  BY <1>1, ThreadMove, IoMove, ClientMove, Zenon DEF Next

-----------------------------------------------------------------------------
(* Types are preserved.                                                    *)

\* Taking the head of a queue.
LEMMA TailType ==
  ASSUME NEW S, NEW q \in Seq(S), q # <<>> PROVE Head(q) \in S /\ Tail(q) \in Seq(S)
OBVIOUS

\* What a client answers a DMA request with.
LEMMA AnswerType ==
  ASSUME NEW m \in Message, ExpectsResponse(m), NEW st \in Statuses
  PROVE  /\ Reply(m, Expected(m.type), NoData, 0, st) \in Message
         /\ Reply(m, Expected(m.type), NoData, 0, st).type = Expected(m.type)
         /\ Reply(m, Expected(m.type), NoData, 0, st).txn = m.txn
         /\ Reply(m, Expected(m.type), NoData, 0, st).status = st
         /\ Expected(m.type) \in DmaResponses
<1>1. Expected(m.type) \in DmaResponses
  BY ExpectedTypes, Zenon DEF ExpectsResponse, DmaResponses
<1>2. Expected(m.type) \in ResponseTypes
  BY <1>1, Zenon DEF DmaResponses, ResponseTypes
<1> QED
  BY <1>1, <1>2, ReplyType, Placeholders

\* HandleHello acknowledges with a message.
LEMMA HelloAckType ==
  ASSUME NEW m \in Message
  PROVE  /\ Reply(m, "HELLO_ACK", NoData, 0, "SUCCESS") \in Message
         /\ Reply(m, "HELLO_ACK", NoData, 0, "SUCCESS").type = "HELLO_ACK"
<1>1. "HELLO_ACK" \in ResponseTypes /\ "SUCCESS" \in Statuses
  BY Zenon DEF ResponseTypes, Statuses
<1> QED
  BY <1>1, ReplyType, Placeholders

\* The message a request of the server becomes.
LEMMA SentType ==
  ASSUME NEW m \in Message, NEW t \in Nat
  PROVE  /\ [m EXCEPT !.txn = t] \in Message
         /\ [m EXCEPT !.txn = t].type = m.type /\ [m EXCEPT !.txn = t].txn = t
BY Zenon DEF Message

\* A wire with a message appended, and one with its head taken off.
LEMMA WireAppend ==
  ASSUME NEW q \in [Sessions -> Seq(Message)], NEW s \in Sessions, NEW m \in Message
  PROVE  /\ [q EXCEPT ![s] = Append(@, m)] \in [Sessions -> Seq(Message)]
         /\ \A r \in Sessions : \A i \in DOMAIN [q EXCEPT ![s] = Append(@, m)][r] :
              \/ /\ i \in DOMAIN q[r]
                 /\ [q EXCEPT ![s] = Append(@, m)][r][i] = q[r][i]
              \/ /\ r = s /\ i = Len(q[s]) + 1
                 /\ [q EXCEPT ![s] = Append(@, m)][r][i] = m
<1>1. q[s] \in Seq(Message)
  BY Zenon
<1>2. /\ Append(q[s], m) \in Seq(Message) /\ Len(q[s]) \in Nat
      /\ DOMAIN Append(q[s], m) = 1..(Len(q[s]) + 1) /\ DOMAIN q[s] = 1..Len(q[s])
      /\ \A i \in 1..Len(q[s]) : Append(q[s], m)[i] = q[s][i]
      /\ Append(q[s], m)[Len(q[s]) + 1] = m
  BY <1>1
<1> DEFINE w == [q EXCEPT ![s] = Append(@, m)]
           a == Append(q[s], m)
<1>3. w[s] = a /\ \A r \in Sessions : r # s => w[r] = q[r]
  BY Zenon
<1>4. w \in [Sessions -> Seq(Message)]
  BY <1>2, Zenon
<1>5. \A i \in DOMAIN a : \/ i \in DOMAIN q[s] /\ a[i] = q[s][i]
                          \/ i = Len(q[s]) + 1 /\ a[i] = m
  BY <1>2
<1> HIDE DEF w, a
<1>6. \A r \in Sessions : \A i \in DOMAIN w[r] : \/ i \in DOMAIN q[r] /\ w[r][i] = q[r][i]
                                                 \/ r = s /\ i = Len(q[s]) + 1 /\ w[r][i] = m
  BY <1>3, <1>5, Zenon
<1> QED
  BY <1>4, <1>6, Zenon DEF w

\* What a queue holds after an append.
LEMMA Appended ==
  ASSUME NEW q \in [Sessions -> Seq(Message)], NEW s \in Sessions, NEW m \in Message,
         NEW w, w = [q EXCEPT ![s] = Append(@, m)]
  PROVE  /\ w \in [Sessions -> Seq(Message)]
         /\ \A r \in Sessions : \A i \in DOMAIN w[r] :
              \/ i \in DOMAIN q[r] /\ w[r][i] = q[r][i]
              \/ r = s /\ i = Len(q[s]) + 1 /\ w[r][i] = m
BY WireAppend

\* A wire after its head is taken.
LEMMA WireTail ==
  ASSUME NEW q \in [Sessions -> Seq(Message)], NEW s \in Sessions, q[s] # <<>>
  PROVE  /\ [q EXCEPT ![s] = Tail(@)] \in [Sessions -> Seq(Message)]
         /\ Head(q[s]) \in Message /\ 1 \in DOMAIN q[s] /\ q[s][1] = Head(q[s])
         /\ \A r \in Sessions : \A i \in DOMAIN [q EXCEPT ![s] = Tail(@)][r] :
              LET j == IF r = s THEN i + 1 ELSE i IN
              /\ j \in DOMAIN q[r]
              /\ [q EXCEPT ![s] = Tail(@)][r][i] = q[r][j]
<1>1. q[s] \in Seq(Message)
  BY Zenon
<1>2. /\ Tail(q[s]) \in Seq(Message) /\ Len(q[s]) \in Nat /\ Len(q[s]) # 0
      /\ DOMAIN Tail(q[s]) = 1..(Len(q[s]) - 1) /\ DOMAIN q[s] = 1..Len(q[s])
      /\ \A i \in 1..(Len(q[s]) - 1) : Tail(q[s])[i] = q[s][i + 1]
      /\ Head(q[s]) \in Message /\ q[s][1] = Head(q[s])
  BY <1>1
<1> DEFINE w == [q EXCEPT ![s] = Tail(@)]
           a == Tail(q[s])
<1>3. w[s] = a /\ \A r \in Sessions : r # s => w[r] = q[r]
  BY Zenon
<1>4. w \in [Sessions -> Seq(Message)]
  BY <1>2, Zenon
<1>5. \A i \in DOMAIN a : i + 1 \in DOMAIN q[s] /\ a[i] = q[s][i + 1]
  BY <1>2
<1>6. 1 \in DOMAIN q[s]
  BY <1>2
<1> HIDE DEF w, a
<1>7. \A r \in Sessions : \A i \in DOMAIN w[r] :
        LET j == IF r = s THEN i + 1 ELSE i IN j \in DOMAIN q[r] /\ w[r][i] = q[r][j]
  BY <1>3, <1>5, Zenon
<1> QED
  BY <1>2, <1>4, <1>6, <1>7, Zenon DEF w

Wires == in \in [Sessions -> Seq(Message)] /\ out \in [Sessions -> Seq(Message)]

\* Every move leaves messages on the wires.
LEMMA WiresTyped == ASSUME TypeInv, Move PROVE Wires'
<1>1. Wires
  BY Zenon DEF TypeInv, WireType, Wires
<1>2. CASE UNCHANGED <<in, out>>
  BY <1>1, <1>2, Zenon DEF Wires
<1>3. CASE CallSend
  <2>1. call.msg \in Message /\ (sock # 0 => sock \in Sessions) /\ in' = in
    BY <1>3, Zenon DEF CallSend, TypeInv, TableType, WireType
  <2>2. CASE sock # 0 /\ cst[sock] = "open"
    <3>1. out' = [out EXCEPT ![sock] = Append(@, call.msg)]
      BY <1>3, <2>2, Zenon DEF CallSend
    <3>2. out \in [Sessions -> Seq(Message)] /\ sock \in Sessions
      BY <1>1, <2>1, <2>2, Zenon DEF Wires
    <3>3. [out EXCEPT ![sock] = Append(@, call.msg)] \in [Sessions -> Seq(Message)]
      BY <2>1, <3>2, WireAppend, Zenon
    <3> QED
      BY <1>1, <2>1, <3>1, <3>3, Zenon DEF Wires
  <2>3. CASE ~(sock # 0 /\ cst[sock] = "open")
    BY <1>1, <1>3, <2>1, <2>3, Zenon DEF CallSend, Wires
  <2> QED
    BY <2>2, <2>3, Zenon
<1>4. CASE WaitEnds
  BY <1>1, <1>4, Zenon DEF WaitEnds, sessionVars, Wires
<1>5. CASE Receives
  <2>1. sock \in Sessions /\ in[sock] # <<>> /\ in' = [in EXCEPT ![sock] = Tail(@)]
    BY <1>5, Zenon DEF Receives
  <2>2. Head(in[sock]) \in Message /\ in' \in [Sessions -> Seq(Message)]
    BY <1>1, <2>1, WireTail, Zenon DEF Wires
  <2>3. CASE UNCHANGED out
    BY <1>1, <2>2, <2>3, Zenon DEF Wires
  <2>4. CASE out' = [out EXCEPT ![sock] = Append(@, Reply(Head(in[sock]), "HELLO_ACK", NoData, 0, "SUCCESS"))]
    <3>1. out \in [Sessions -> Seq(Message)]
      BY <1>1, Zenon DEF Wires
    <3>2. Reply(Head(in[sock]), "HELLO_ACK", NoData, 0, "SUCCESS") \in Message
      BY <2>2, HelloAckType, Zenon
    <3>3. [out EXCEPT ![sock] = Append(@, Reply(Head(in[sock]), "HELLO_ACK", NoData, 0, "SUCCESS"))]
            \in [Sessions -> Seq(Message)]
      BY <2>1, <3>1, <3>2, WireAppend
    <3> QED
      BY <2>2, <2>4, <3>3, Zenon DEF Wires
  <2> QED
    BY <1>5, <2>3, <2>4, Zenon DEF Receives
<1>6. CASE Asks /\ UNCHANGED <<callVars, out>>
  <2>1. PICK s \in Sessions, m \in Message : in' = [in EXCEPT ![s] = Append(@, m)]
    BY <1>6, Zenon DEF Asks
  <2> QED
    BY <1>1, <1>6, <2>1, WireAppend, Zenon DEF Wires
<1>7. CASE Reads
  <2>1. PICK s \in Sessions :
          /\ out[s] # <<>>
          /\ out' = [out EXCEPT ![s] = Tail(@)]
          /\ \/ UNCHANGED in
             \/ \E st \in Statuses :
                  /\ ExpectsResponse(Head(out[s]))
                  /\ in' = [in EXCEPT ![s] = Append(@, Reply(Head(out[s]), Expected(Head(out[s]).type), NoData, 0, st))]
    BY <1>7, Zenon DEF Reads
  <2>2. Head(out[s]) \in Message /\ out' \in [Sessions -> Seq(Message)]
    BY <1>1, <2>1, WireTail, Zenon DEF Wires
  <2>3. CASE UNCHANGED in
    BY <1>1, <2>2, <2>3, Zenon DEF Wires
  <2>4. ASSUME NEW st \in Statuses, ExpectsResponse(Head(out[s])),
               in' = [in EXCEPT ![s] = Append(@, Reply(Head(out[s]), Expected(Head(out[s]).type), NoData, 0, st))]
        PROVE  Wires'
    <3>1. Reply(Head(out[s]), Expected(Head(out[s]).type), NoData, 0, st) \in Message
      BY <2>2, <2>4, AnswerType, Zenon
    <3>2. in \in [Sessions -> Seq(Message)]
      BY <1>1, Zenon DEF Wires
    <3>3. [in EXCEPT ![s] = Append(@, Reply(Head(out[s]), Expected(Head(out[s]).type), NoData, 0, st))]
            \in [Sessions -> Seq(Message)]
      BY <3>1, <3>2, WireAppend
    <3> QED
      BY <2>2, <2>4, <3>3, Zenon DEF Wires
  <2> QED
    BY <2>1, <2>3, <2>4, Zenon
<1> QED
  BY <1>2, <1>3, <1>4, <1>5, <1>6, <1>7, Zenon DEF Move

\* Every move keeps the table and the call as TableType has them.
LEMMA TableTyped == ASSUME TypeInv, Move, inbound' \in Seq(Message) PROVE TableType'
<1>1. TableType
  BY Zenon DEF TypeInv
<1>2. CASE UNCHANGED <<call, ptab, txnGen>>
  BY <1>1, <1>2, Zenon DEF TableType, OnlyOwnPending
<1>3. CASE BeginsAnswer
  <2>1. PICK m \in Message : /\ m.type \in {"RESET_RSP", "MMIO_READ_RSP", "MMIO_WRITE_RSP"}
                             /\ ResponseBegin(m)
    BY <1>3, Zenon DEF BeginsAnswer
  <2>2. call' \in CallRecord /\ call'.st \in {"idle", "send"} /\ call'.msg = m
    BY <2>1, Zenon DEF ResponseBegin, CallRecord, MaybeMessage
  <2>3. ~ExpectsResponse(m)
    BY <2>1, Zenon DEF ExpectsResponse
  <2> QED
    BY <1>1, <2>1, <2>2, <2>3, Zenon DEF TableType, OnlyOwnPending, ResponseBegin
<1>4. CASE BeginsRequest
  <2>1. PICK m \in Message : m.type \in DmaRequests \cup {"MSIX"} /\ RequestBegin(m)
    BY <1>4, Zenon DEF BeginsRequest
  <2>2. DOMAIN ptab = {}
    BY <1>1, <2>1, Zenon DEF TableType, OnlyOwnPending, RequestBegin
  <2>3. CASE hasClient
    <3> DEFINE n == [m EXCEPT !.txn = txnGen]
    <3>1. n \in Message /\ n.type = m.type /\ n.txn = txnGen
      BY <1>1, SentType, Zenon DEF TableType
    <3> HIDE DEF n
    <3>2. call' = [st |-> "send", msg |-> n, res |-> NoMsg] /\ txnGen' = txnGen + 1
      BY <2>1, <2>3, Zenon DEF RequestBegin, n
    <3>3. call' \in CallRecord /\ call'.st = "send" /\ call'.msg = n /\ txnGen' \in Nat
      BY <1>1, <3>1, <3>2 DEF CallRecord, MaybeMessage, TableType
    <3>4. CASE ExpectsResponse(m)
      <4>1. ptab' = [u \in {txnGen} |-> NoMsg]
        BY <2>1, <2>2, <2>3, <3>4, Zenon DEF RequestBegin
      <4>2. ExpectsResponse(n)
        BY <3>1, <3>4, Zenon DEF ExpectsResponse
      <4> QED
        BY <1>1, <3>1, <3>3, <4>1, <4>2, Zenon DEF TableType, OnlyOwnPending, MaybeMessage
    <3>5. CASE ~ExpectsResponse(m)
      <4>1. ptab' = ptab
        BY <2>1, <2>3, <3>5, Zenon DEF RequestBegin
      <4>2. ~ExpectsResponse(n)
        BY <3>1, <3>5, Zenon DEF ExpectsResponse
      <4> QED
        BY <1>1, <2>2, <3>1, <3>3, <4>1, <4>2, Zenon DEF TableType, OnlyOwnPending
    <3> QED
      BY <3>4, <3>5, Zenon
  <2>4. CASE ~hasClient
    <3>1. /\ call' = [st |-> "idle", msg |-> m, res |-> NoMsg]
          /\ UNCHANGED <<txnGen, ptab>>
      BY <2>1, <2>4, Zenon DEF RequestBegin
    <3>2. call' \in CallRecord /\ call'.st = "idle"
      BY <3>1, Zenon DEF CallRecord, MaybeMessage
    <3> QED
      BY <1>1, <2>2, <3>1, <3>2, Zenon DEF TableType, OnlyOwnPending
  <2> QED
    BY <2>3, <2>4, Zenon
<1>5. CASE CallSend
  <2>1. /\ call \in CallRecord /\ call.st = "send" /\ call.msg \in Message
        /\ txnGen' = txnGen
    BY <1>1, <1>5, Zenon DEF CallSend, TableType
  <2>2. CASE sock # 0 /\ cst[sock] = "open"
    <3>1. /\ call' = [call EXCEPT !.st = IF ExpectsResponse(call.msg) THEN "wait" ELSE "idle"]
          /\ ptab' = ptab
      BY <1>5, <2>2, Zenon DEF CallSend
    <3>2. /\ call' \in CallRecord /\ call'.msg = call.msg
          /\ call'.st = IF ExpectsResponse(call.msg) THEN "wait" ELSE "idle"
      BY <2>1, <3>1, Zenon DEF CallRecord
    <3> QED
      BY <1>1, <2>1, <3>1, <3>2 DEF TableType, OnlyOwnPending
  <2>3. CASE ~(sock # 0 /\ cst[sock] = "open")
    <3>1. call' = [call EXCEPT !.st = "idle"] /\ ptab' = Unregister(call.msg.txn)
      BY <1>5, <2>3, Zenon DEF CallSend
    <3>2. call' \in CallRecord /\ call'.st = "idle"
      BY <2>1, <3>1, Zenon DEF CallRecord
    <3>3. DOMAIN ptab' = {}
      BY <1>1, <2>1, <3>1, Zenon DEF TableType, OnlyOwnPending, Unregister
    <3> QED
      BY <1>1, <2>1, <3>2, <3>3, Zenon DEF TableType, OnlyOwnPending
  <2> QED
    BY <2>2, <2>3, Zenon
<1>6. CASE WaitEnds
  <2>1. /\ call \in CallRecord /\ call.st = "wait" /\ txnGen' = txnGen
        /\ DOMAIN ptab = {call.msg.txn} /\ ptab[call.msg.txn] \in MaybeMessage
    BY <1>1, <1>6, Zenon DEF WaitEnds, TableType, OnlyOwnPending
  <2>2. /\ call' = [call EXCEPT !.st = "idle", !.res = ptab[call.msg.txn]]
        /\ ptab' = Unregister(call.msg.txn)
    BY <1>6, Zenon DEF WaitEnds
  <2>3. call' \in CallRecord /\ call'.st = "idle"
    BY <2>1, <2>2, Zenon DEF CallRecord
  <2>4. DOMAIN ptab' = {}
    BY <2>1, <2>2, Zenon DEF Unregister
  <2> QED
    BY <1>1, <2>1, <2>3, <2>4, Zenon DEF TableType, OnlyOwnPending
<1>7. CASE call.st = "idle" /\ ptab' = <<>> /\ UNCHANGED <<call, txnGen, in, out>>
  <2>1. DOMAIN ptab' = {}
    BY <1>7
  <2> QED
    BY <1>1, <1>7, <2>1, Zenon DEF TableType, OnlyOwnPending
<1>8. CASE Receives
  <2>1. Head(in[sock]) \in Message
    BY <1>8, TailType, Zenon DEF Receives, TypeInv, WireType
  <2>2. CASE UNCHANGED ptab
    BY <1>1, <1>8, <2>2, Zenon DEF Receives, TableType, OnlyOwnPending
  <2>3. CASE Complete(Head(in[sock]))
    <3>1. DOMAIN ptab' = DOMAIN ptab /\ \A t \in DOMAIN ptab : ptab'[t] \in {ptab[t], Head(in[sock])}
      BY <2>3, Zenon DEF Complete
    <3> QED
      BY <1>1, <1>8, <2>1, <3>1, Zenon DEF Receives, TableType, OnlyOwnPending, MaybeMessage
  <2> QED
    BY <1>8, <2>2, <2>3, Zenon DEF Receives
<1> QED
  BY <1>2, <1>3, <1>4, <1>5, <1>6, <1>7, <1>8, Zenon DEF Move, callVars

\* What the endpoint thread may do to the IO thread's variables and the queue.
ThreadFrame ==
  /\ running' \in BOOLEAN /\ UNCHANGED <<io, hasClient>>
  /\ sock' = sock \/ (sock' = 0 /\ io = "exit")
  /\ inbound' \in Seq(Message)

\* PollInbound takes from the inbound queue.
LEMMA PollFrame == ASSUME TypeInv, Poll, UNCHANGED ioVars PROVE ThreadFrame
<1>1. inbound \in Seq(Message) /\ running \in BOOLEAN
  BY Zenon DEF TypeInv, TableType, WireType
<1>2. inbound' \in Seq(Message)
  BY <1>1, TailType, Zenon DEF Poll
<1> QED
  BY <1>1, <1>2, Zenon DEF ThreadFrame, ioVars

\* A step that leaves the IO thread and the queue alone.
LEMMA IdleFrame == ASSUME TypeInv, UNCHANGED <<ioVars, inbound>> PROVE ThreadFrame
BY Zenon DEF TypeInv, TableType, WireType, ThreadFrame, ioVars

\* Stop() lets the IO thread exit and closes its socket.
LEMMA EndFrame == ASSUME TypeInv, EpStop \/ EpJoin PROVE ThreadFrame
BY Zenon DEF TypeInv, TableType, WireType, ThreadFrame, EpStop, EpJoin, StopBegin, StopJoined, tableVars

\* So every step of the endpoint thread.
LEMMA ThreadFrames == ASSUME TypeInv, Thread PROVE ThreadFrame
<1>1. CASE Endpoint
  <2>1. CASE EpHandle
    BY <2>1, PollFrame, Zenon DEF EpHandle
  <2>2. CASE EpAnswered \/ EpDmaNext
    BY <2>2, IdleFrame, Zenon DEF EpAnswered, EpDmaNext
  <2>3. CASE EpGivesUp
    BY <2>3, IdleFrame, Zenon DEF EpGivesUp, serverVars, tableVars
  <2> QED
    BY <1>1, <2>1, <2>2, <2>3, EndFrame, Zenon DEF Endpoint
<1>2. CASE Dpi
  <2>1. CASE DpiPoll
    BY <2>1, PollFrame, Zenon DEF DpiPoll, ShimPoll
  <2>2. CASE RegClock
    BY <2>2, IdleFrame, Zenon DEF RegClock, serverVars, tableVars
  <2>3. CASE DpiTake \/ EpAnswered \/ DpiDmaNext
    BY <2>3, IdleFrame, Zenon DEF DpiTake, EpAnswered, DpiDmaNext, EpDmaNext
  <2> QED
    BY <1>2, <2>1, <2>2, <2>3, EndFrame, Zenon DEF Dpi, ShimShutdown
<1>3. CASE MainLoop
  <2>1. CASE MainHandle
    BY <2>1, PollFrame, Zenon DEF MainHandle
  <2>2. CASE MainAnswered \/ MainDmaNext
    BY <2>2, IdleFrame, Zenon DEF MainAnswered, EpAnswered, MainDmaNext
  <2> QED
    BY <1>3, <2>1, <2>2, EndFrame, Zenon DEF MainLoop
<1>4. CASE CallSend \/ WaitAnswered \/ WaitTimeout
  BY <1>4, IdleFrame, Zenon DEF CallSend, WaitAnswered, WaitTimeout, WaitEnds
<1> QED
  BY <1>1, <1>2, <1>3, <1>4, Zenon DEF Thread

\* What the IO thread does to them.
IoFrame ==
  /\ running' = running /\ hasClient' \in BOOLEAN
  /\ io' \in {"accept", "hello", "mark", "run", "exit"} /\ sock' \in Sessions \cup {0}
  /\ io' \in {"hello", "mark", "run"} => sock' \in Sessions
  /\ inbound' \in Seq(Message)

\* The IO thread's own state after each of its steps.
LEMMA IoFrames == ASSUME TypeInv, IoStep PROVE IoFrame
<1>1. /\ inbound \in Seq(Message) /\ hasClient \in BOOLEAN /\ sock \in Sessions \cup {0}
      /\ io \in {"hello", "mark", "run"} => sock \in Sessions
  BY Zenon DEF TypeInv, TableType, WireType
<1>2. CASE DropClient /\ inbound' = inbound /\ running' = running
  BY <1>1, <1>2, Zenon DEF DropClient, IoFrame
<1>3. CASE \E s \in Sessions : IoAccept(s)
  BY <1>1, <1>3, Zenon DEF IoAccept, tableVars, IoFrame
<1>4. CASE IoHello
  <2>1. CASE DropClient
    BY <1>2, <1>4, <2>1, Zenon DEF IoHello, tableVars
  <2>2. CASE io' = "mark" /\ UNCHANGED <<sock, hasClient, sst>>
    BY <1>1, <1>4, <2>2, Zenon DEF IoHello, tableVars, IoFrame
  <2> QED
    BY <1>4, <2>1, <2>2, Zenon DEF IoHello
<1>5. CASE IoHelloFails \/ IoDisconnect
  BY <1>2, <1>5, Zenon DEF IoHelloFails, IoDisconnect, tableVars
<1>6. CASE IoMark \/ IoExit
  BY <1>1, <1>6, Zenon DEF IoMark, IoExit, tableVars, IoFrame
<1>7. CASE IoRecv
  <2>1. Head(in[sock]) \in Message
    BY <1>1, <1>7, TailType, Zenon DEF IoRecv, TypeInv, WireType
  <2>2. inbound' \in Seq(Message) /\ running' = running
    <3>1. inbound' = inbound \/ inbound' = Append(inbound, Head(in[sock]))
      BY <1>7, Zenon DEF IoRecv, Push
    <3> QED
      BY <1>1, <1>7, <2>1, <3>1 DEF IoRecv
  <2>3. CASE DropClient
    BY <1>1, <2>2, <2>3, Zenon DEF DropClient, IoFrame
  <2>4. CASE UNCHANGED <<io, sock, hasClient, sst>>
    BY <1>1, <1>7, <2>2, <2>4, Zenon DEF IoRecv, IoFrame
  <2> QED
    BY <1>7, <2>3, <2>4, Zenon DEF IoRecv
<1> QED
  BY <1>3, <1>4, <1>5, <1>6, <1>7, Zenon DEF IoStep, IoThread

\* One more in one place.
LEMMA CountsOneMore ==
  ASSUME NEW f \in Counts, NEW s \in Sessions, NEW g, g = [f EXCEPT ![s] = @ + 1]
  PROVE  g \in Counts /\ g[s] = f[s] + 1 /\ \A t \in Sessions : t # s => g[t] = f[t]
<1>1. f[s] \in Nat
  BY Zenon DEF Counts
<1>2. f[s] + 1 \in Nat
  BY <1>1
<1> QED
  BY <1>2, Zenon DEF Counts

\* What a client that reads a message does to the counts.
LEMMA ServeHist ==
  ASSUME NEW s \in Sessions, Serve(s), hist \in HistRecord
  PROVE  /\ hist' \in HistRecord
         /\ \/ hist'.msix = hist.msix /\ hist'.cpl = hist.cpl
            \/ hist'.msix = [hist.msix EXCEPT ![s] = @ + 1] /\ hist'.cpl = hist.cpl
            \/ hist'.msix = hist.msix /\ hist'.cpl = [hist.cpl EXCEPT ![s] = @ + 1]
<1>1. hist.wr \in Counts /\ hist.cpl \in Counts /\ hist.msix \in Counts
  BY Zenon DEF HistRecord
<1>2. /\ [hist.wr EXCEPT ![s] = @ + 1] \in Counts /\ [hist.cpl EXCEPT ![s] = @ + 1] \in Counts
      /\ [hist.msix EXCEPT ![s] = @ + 1] \in Counts
  BY <1>1, CountsOneMore, Zenon
<1>3. CASE hist' = hist
  BY <1>3, Zenon
<1>4. CASE hist' = [hist EXCEPT !.msix[s] = @ + 1]
  BY <1>1, <1>2, <1>4, Zenon DEF HistRecord
<1>5. ASSUME NEW ok \in BOOLEAN,
             hist' = [hist EXCEPT !.wr[s] = @ + 1, !.cpl[s] = IF ok THEN @ + 1 ELSE @]
      PROVE  /\ hist' \in HistRecord /\ hist'.msix = hist.msix
             /\ hist'.cpl = hist.cpl \/ hist'.cpl = [hist.cpl EXCEPT ![s] = @ + 1]
  <2>1. CASE ok
    <3>1. hist' = [hist EXCEPT !.wr[s] = @ + 1, !.cpl[s] = @ + 1]
      BY <1>5, <2>1, Zenon
    <3> QED
      BY <1>1, <1>2, <3>1, Zenon DEF HistRecord
  <2>2. CASE ~ok
    <3>1. hist' = [hist EXCEPT !.wr[s] = @ + 1, !.cpl[s] = @]
      BY <1>5, <2>2, Zenon
    <3>2. [hist.cpl EXCEPT ![s] = @] = hist.cpl
      BY <1>1, Zenon DEF Counts
    <3> QED
      BY <1>1, <1>2, <3>1, <3>2, Zenon DEF HistRecord
  <2> QED
    BY <2>1, <2>2, Zenon
<1>6. \/ hist' = hist \/ hist' = [hist EXCEPT !.msix[s] = @ + 1]
      \/ \E ok \in BOOLEAN : hist' = [hist EXCEPT !.wr[s] = @ + 1, !.cpl[s] = IF ok THEN @ + 1 ELSE @]
  BY Zenon DEF Serve
<1> QED
  BY <1>3, <1>4, <1>5, <1>6, Zenon

\* What the clients do to the record of what they asked for and received.
LEMMA ClientFrames ==
  ASSUME TypeInv, NEW s \in Sessions, Client(s)
  PROVE  /\ UNCHANGED <<ioVars, inbound, endVars, kind>>
         /\ asked' \in [Sessions -> Seq(Message)] /\ hist' \in HistRecord
<1>1. asked \in [Sessions -> Seq(Message)] /\ hist \in HistRecord
  BY Zenon DEF TypeInv, WireType
<1>2. CASE Connect(s) \/ HangUp(s)
  BY <1>1, <1>2, Zenon DEF Connect, HangUp, ClientConnect, ClientClose, tableVars, modes
<1>3. CASE Hello(s) \/ Ask(s)
  <2>1. PICK m \in Message : ClientSend(s, m) /\ Asking(s, m)
    BY <1>3, HelloType, AskedType, Zenon
  <2>2. asked' = [asked EXCEPT ![s] = Append(@, m)]
    BY <2>1, Zenon DEF Asking
  <2>3. asked' \in [Sessions -> Seq(Message)]
    BY <1>1, <2>2, WireAppend, Zenon
  <2>4. UNCHANGED <<ioVars, inbound>>
    BY <2>1, Zenon DEF ClientSend, tableVars
  <2>5. UNCHANGED <<endVars, kind, hist>>
    BY <1>3, Zenon DEF Hello, Ask, modes
  <2> QED
    BY <1>1, <2>3, <2>4, <2>5, Zenon
<1>4. CASE TakeResponse(s)
  BY <1>1, <1>4, Zenon DEF TakeResponse, ClientRecv, tableVars, modes
<1>5. CASE Serve(s)
  <2>1. UNCHANGED <<ioVars, inbound, endVars, kind, asked>>
    BY <1>5, Zenon DEF Serve, tableVars, modes
  <2>2. hist' \in HistRecord
    BY <1>1, <1>5, ServeHist, Zenon
  <2> QED
    BY <1>1, <2>1, <2>2, Zenon
<1> QED
  BY <1>2, <1>3, <1>4, <1>5, Zenon DEF Client

\* The endpoint's own variables.  Where a step begins a call, it leaves the
\* stages in which there is none.
EndFacts ==
  /\ regs \in RegRecord /\ stage \in Stages /\ rm \in PortRecord
  /\ simPass \in BOOLEAN /\ seen \in BOOLEAN /\ call \in CallRecord
  /\ stage \in {"poll", "access"} => call.st = "idle"
  /\ stage = "access" => /\ rm.req \in Message
                         /\ rm.req.type \in {"MMIO_READ_REQ", "MMIO_WRITE_REQ"}
  /\ rm.rsp # NoMsg => rm.rsp.type \in {"MMIO_READ_RSP", "MMIO_WRITE_RSP"}

\* What TypeInv says of the endpoint.
LEMMA EndFactsHold == ASSUME TypeInv PROVE EndFacts
BY Zenon DEF TypeInv, EndType, TableType, EndFacts

\* RESET leaves words in the registers.
LEMMA ZeroType == ZeroRegs \in RegRecord
BY WordType, Zenon DEF ZeroRegs, RegRecord

\* EndType after each step of the software endpoint.
LEMMA EpHandleEnd == ASSUME TypeInv, EpHandle, UNCHANGED <<dpiVars, seen>> PROVE EndType'
<1>1. EndFacts /\ Head(inbound) \in Message
  BY EndFactsHold, PollHead, Zenon DEF EpHandle
<1>2. Head(inbound).data \in Values
  BY <1>1, Zenon DEF Message
<1>3. regs' \in RegRecord
  BY <1>1, <1>2, ZeroType, WriteRegsType, Zenon DEF EpHandle, epVars, EndFacts
<1>4. stage' \in {"answer", "doorbell", "stop"} \/ (stage' = "poll" /\ call' = call)
  BY Zenon DEF EpHandle, epVars
<1> QED
  BY <1>1, <1>3, <1>4, Zenon DEF EpHandle, EndType, EndFacts, dpiVars, Stages

\* EpAnswered starts no register access.
LEMMA EpAnsweredEnd == ASSUME TypeInv, EpAnswered, UNCHANGED dpiVars, seen' \in BOOLEAN PROVE EndType'
<1>1. EndFacts
  BY EndFactsHold, Zenon
<1>2. \/ stage' = "read"
      \/ stage' = "poll" /\ call' = call
  BY Zenon DEF EpAnswered
<1> QED
  BY <1>1, <1>2, Zenon DEF EpAnswered, EndType, EndFacts, dpiVars, Stages

\* Neither does a step of a DMA sequence.
LEMMA DmaNextEnd ==
  ASSUME TypeInv, EpDmaNext \/ MainDmaNext, UNCHANGED <<rm, seen>>, simPass' \in BOOLEAN
  PROVE  EndType'
<1>1. EndFacts
  BY EndFactsHold, Zenon
<1>2. \/ stage' \in {"write", "answer"}
      \/ stage' = "poll" /\ call' = call
  BY Zenon DEF EpDmaNext, MainDmaNext
<1>3. regs' = regs /\ call.st = "idle"
  BY Zenon DEF EpDmaNext, MainDmaNext
<1> QED
  BY <1>1, <1>2, <1>3, Zenon DEF EndType, EndFacts, Stages

\* Nor the end of the run.
LEMMA StopEnd ==
  ASSUME TypeInv, EpGivesUp \/ EpStop \/ EpJoin, UNCHANGED <<dpiVars, seen>> PROVE EndType'
<1>1. EndFacts
  BY EndFactsHold, Zenon
<1>2. stage' \in {"stop", "join", "end"} /\ regs' = regs
  BY Zenon DEF EpGivesUp, EpStop, EpJoin
<1> QED
  BY <1>1, <1>2, Zenon DEF EndType, EndFacts, dpiVars, Stages

\* poll_and_dispatch puts a register request on an empty port.
LEMMA DpiPollEnd == ASSUME TypeInv, DpiPoll, UNCHANGED seen PROVE EndType'
<1>1. EndFacts /\ Head(inbound) \in Message
  BY EndFactsHold, PollHead, Zenon DEF DpiPoll, ShimPoll
<1>2. CASE stage' \in {"answer", "stop"} /\ rm' = rm
  BY <1>1, <1>2, Zenon DEF DpiPoll, EndType, EndFacts, Stages
<1>3. CASE stage' = "poll" /\ rm' = rm /\ call' = call
  BY <1>1, <1>3, Zenon DEF DpiPoll, EndType, EndFacts, Stages
<1>4. CASE /\ stage' = "access" /\ rm' = Port(Head(inbound)) /\ call' = call
           /\ Head(inbound).type \in {"MMIO_WRITE_REQ", "MMIO_READ_REQ"}
  <2>1. rm' \in PortRecord /\ rm'.req = Head(inbound) /\ rm'.rsp = NoMsg
    BY <1>1, <1>4, Zenon DEF Port, PortIdle, PortRecord, MaybeMessage
  <2> QED
    BY <1>1, <1>4, <2>1, Zenon DEF DpiPoll, EndType, EndFacts, Stages
<1> QED
  BY <1>2, <1>3, <1>4, Zenon DEF DpiPoll

\* The register model answers with a register response.
LEMMA RegClockEnd == ASSUME TypeInv, RegClock, UNCHANGED seen PROVE EndType'
<1> DEFINE m == rm.req
<1>1. EndFacts /\ m \in Message /\ m.type \in {"MMIO_READ_REQ", "MMIO_WRITE_REQ"} /\ m.len \in Nat
  BY EndFactsHold, Zenon DEF RegClock, EndFacts, Message
<1>2. /\ "MMIO_WRITE_RSP" \in ResponseTypes /\ "MMIO_READ_RSP" \in ResponseTypes
      /\ "SUCCESS" \in Statuses /\ "INVALID_ADDRESS" \in Statuses /\ 0 \in Nat
  BY Zenon DEF ResponseTypes, Statuses
<1>3. Truncate(SvValue(m.arg), m.len) \in Values
  BY <1>1, ValueType, TruncateType, Zenon DEF EndFacts
<1>4. /\ Reply(m, "MMIO_WRITE_RSP", NoData, 0, "SUCCESS") \in Message
      /\ Reply(m, "MMIO_WRITE_RSP", NoData, 0, "SUCCESS").type = "MMIO_WRITE_RSP"
      /\ Reply(m, "MMIO_READ_RSP", Truncate(SvValue(m.arg), m.len), m.len, "SUCCESS") \in Message
      /\ Reply(m, "MMIO_READ_RSP", Truncate(SvValue(m.arg), m.len), m.len, "SUCCESS").type = "MMIO_READ_RSP"
  <2> DEFINE v == Truncate(SvValue(m.arg), m.len)
  <2>1. v \in Values
    BY <1>3, Zenon
  <2> HIDE DEF m, v
  <2>2. /\ Reply(m, "MMIO_WRITE_RSP", NoData, 0, "SUCCESS") \in Message
        /\ Reply(m, "MMIO_WRITE_RSP", NoData, 0, "SUCCESS").type = "MMIO_WRITE_RSP"
    BY <1>1, <1>2, ReplyType, Placeholders
  <2>3. /\ Reply(m, "MMIO_READ_RSP", v, m.len, "SUCCESS") \in Message
        /\ Reply(m, "MMIO_READ_RSP", v, m.len, "SUCCESS").type = "MMIO_READ_RSP"
    BY <1>1, <1>2, <2>1, ReplyType
  <2> QED
    BY <2>2, <2>3, Zenon DEF v
<1>5. /\ Expected(m.type) \in {"MMIO_WRITE_RSP", "MMIO_READ_RSP"}
      /\ Reply(m, Expected(m.type), NoData, 0, "INVALID_ADDRESS") \in Message
      /\ Reply(m, Expected(m.type), NoData, 0, "INVALID_ADDRESS").type = Expected(m.type)
  <2>1. Expected(m.type) \in {"MMIO_WRITE_RSP", "MMIO_READ_RSP"}
    BY <1>1, ExpectedTypes, Zenon
  <2> QED
    BY <1>1, <1>2, <2>1, ReplyType, Placeholders
<1>6. PICK p \in Message, b \in BOOLEAN :
        /\ p.type \in {"MMIO_WRITE_RSP", "MMIO_READ_RSP"}
        /\ rm' = [rm EXCEPT !.rsp = p, !.pulse = b]
  <2>1. CASE rm' = [rm EXCEPT !.rsp = Reply(m, "MMIO_WRITE_RSP", NoData, 0, "SUCCESS"),
                              !.pulse = (m.arg = Sq0Doorbell)]
    BY <1>4, <2>1, Zenon
  <2>2. ASSUME NEW p, rm' = [rm EXCEPT !.rsp = p] PROVE rm' = [rm EXCEPT !.rsp = p, !.pulse = rm.pulse]
    BY <1>1, <2>2, Zenon DEF EndFacts, PortRecord
  <2>3. rm.pulse \in BOOLEAN
    BY <1>1, Zenon DEF EndFacts, PortRecord
  <2>4. CASE rm' = [rm EXCEPT !.rsp = Reply(m, "MMIO_READ_RSP", Truncate(SvValue(m.arg), m.len), m.len, "SUCCESS")]
    BY <1>4, <2>2, <2>3, <2>4, Zenon
  <2>5. CASE rm' = [rm EXCEPT !.rsp = Reply(m, Expected(m.type), NoData, 0, "INVALID_ADDRESS")]
    BY <1>5, <2>2, <2>3, <2>5, Zenon
  <2> QED
    BY <2>1, <2>4, <2>5, Zenon DEF RegClock
<1>7. rm' \in PortRecord /\ rm'.req = rm.req /\ rm'.rsp = p
  BY <1>1, <1>6, Zenon DEF EndFacts, PortRecord, MaybeMessage
<1>8. regs' \in RegRecord
  BY <1>1, SvRegsType, Zenon DEF RegClock, EndFacts
<1>9. UNCHANGED <<stage, simPass, call>>
  BY Zenon DEF RegClock, serverVars, tableVars
<1> QED
  BY <1>1, <1>6, <1>7, <1>8, <1>9, Zenon DEF EndType, EndFacts

\* The answer taken from the port ends the access.
LEMMA DpiTakeEnd == ASSUME TypeInv, DpiTake, UNCHANGED seen PROVE EndType'
<1>1. EndFacts
  BY EndFactsHold, Zenon
<1>2. stage' \in {"doorbell", "answer"} /\ UNCHANGED <<regs, rm, simPass>>
  BY Zenon DEF DpiTake, dpiVars
<1> QED
  BY <1>1, <1>2, Zenon DEF EndType, EndFacts, Stages

\* The main loop of the harness handles a request.
LEMMA MainHandleEnd == ASSUME TypeInv, MainHandle, UNCHANGED dpiVars PROVE EndType'
<1>1. EndFacts /\ Head(inbound) \in Message
  BY EndFactsHold, PollHead, Zenon DEF MainHandle
<1>2. regs' \in RegRecord
  BY <1>1, ShadowType, Zenon DEF MainHandle, EndFacts
<1>3. stage' \in {"answer", "doorbell", "stop"} \/ (stage' = "poll" /\ call' = call)
  BY Zenon DEF MainHandle
<1>4. seen' \in BOOLEAN
  BY <1>1, Zenon DEF MainHandle, EndFacts
<1> QED
  BY <1>1, <1>2, <1>3, <1>4, Zenon DEF MainHandle, EndType, EndFacts, dpiVars, Stages

\* EndType after every step of the endpoint thread.
LEMMA ThreadEnd == ASSUME TypeInv, Thread PROVE EndType'
<1>1. CASE Endpoint /\ UNCHANGED <<dpiVars, seen>>
  <2>1. CASE EpHandle
    BY <1>1, <2>1, EpHandleEnd, Zenon
  <2>2. CASE EpAnswered
    BY <1>1, <2>2, EpAnsweredEnd, EndFactsHold, Zenon DEF EndFacts
  <2>3. CASE EpDmaNext
    BY <1>1, <2>3, DmaNextEnd, EndFactsHold, Zenon DEF EndFacts, dpiVars
  <2> QED
    BY <1>1, <2>1, <2>2, <2>3, StopEnd, Zenon DEF Endpoint
<1>2. CASE Dpi /\ UNCHANGED seen
  <2>1. CASE DpiPoll \/ RegClock \/ DpiTake
    BY <1>2, <2>1, DpiPollEnd, RegClockEnd, DpiTakeEnd, Zenon
  <2>2. CASE DpiDmaNext
    <3>1. simPass' \in BOOLEAN
      BY <2>2, EndFactsHold, Zenon DEF DpiDmaNext, EndFacts
    <3> QED
      BY <1>2, <2>2, <3>1, DmaNextEnd, Zenon DEF DpiDmaNext
  <2>3. CASE EpAnswered /\ UNCHANGED dpiVars
    BY <1>2, <2>3, EpAnsweredEnd, EndFactsHold, Zenon DEF EndFacts
  <2>4. CASE ShimShutdown /\ UNCHANGED dpiVars
    BY <1>2, <2>4, StopEnd, Zenon DEF ShimShutdown
  <2> QED
    BY <1>2, <2>1, <2>2, <2>3, <2>4, Zenon DEF Dpi
<1>3. CASE MainLoop /\ UNCHANGED dpiVars
  <2>1. CASE MainHandle
    BY <1>3, <2>1, MainHandleEnd, Zenon
  <2>2. CASE MainAnswered
    <3>1. seen' \in BOOLEAN
      BY <2>2, EndFactsHold, Zenon DEF MainAnswered, EndFacts
    <3> QED
      BY <1>3, <2>2, <3>1, EpAnsweredEnd, Zenon DEF MainAnswered
  <2>3. CASE MainDmaNext
    <3>1. UNCHANGED <<rm, seen>> /\ simPass' \in BOOLEAN
      BY <1>3, <2>3, EndFactsHold, Zenon DEF MainDmaNext, dpiVars, EndFacts
    <3> QED
      BY <2>3, <3>1, DmaNextEnd, Zenon
  <2>4. CASE (EpStop \/ EpJoin) /\ UNCHANGED seen
    BY <1>3, <2>4, StopEnd, Zenon
  <2> QED
    BY <1>3, <2>1, <2>2, <2>3, <2>4, Zenon DEF MainLoop
<1>4. CASE (CallSend \/ WaitAnswered \/ WaitTimeout) /\ UNCHANGED endVars
  <2>1. call.st # "idle" /\ UNCHANGED <<regs, stage, rm, simPass, seen>>
    BY <1>4, Zenon DEF CallSend, WaitAnswered, WaitTimeout, WaitEnds, endVars, epVars, dpiVars
  <2> QED
    BY <2>1, EndFactsHold, Zenon DEF EndType, EndFacts
<1> QED
  BY <1>1, <1>2, <1>3, <1>4, Zenon DEF Thread

\* The call is the endpoint thread's alone.
LEMMA OthersKeepCall ==
  /\ IoStep => UNCHANGED <<call, endVars>>
  /\ \A s \in Sessions : Client(s) => UNCHANGED <<call, endVars>>
<1>1. IoStep => UNCHANGED <<call, endVars>>
  BY Zenon DEF IoStep, IoThread, IoAccept, IoHello, IoHelloFails, IoMark, IoRecv, IoDisconnect, IoExit, tableVars
<1>2. ASSUME NEW s \in Sessions, Client(s) PROVE UNCHANGED <<call, endVars>>
  <2>1. CASE Connect(s) \/ HangUp(s)
    BY <2>1, Zenon DEF Connect, HangUp, ClientConnect, ClientClose, tableVars
  <2>2. CASE Hello(s)
    BY <2>2, Zenon DEF Hello, ClientSend, tableVars
  <2>3. CASE Ask(s)
    BY <2>3, Zenon DEF Ask, ClientSend, tableVars
  <2>4. CASE TakeResponse(s) \/ Serve(s)
    BY <2>4, Zenon DEF TakeResponse, ClientRecv, Serve, tableVars
  <2> QED
    BY <1>2, <2>1, <2>2, <2>3, <2>4, Zenon DEF Client
<1> QED
  BY <1>1, <1>2, Zenon

\* The types hold initially.
LEMMA TypeInit == Init => Types
<1> SUFFICES ASSUME Init PROVE Types
  BY Zenon
<1>1. WireType
  <2>1. <<>> \in Seq(Message) /\ 0 \in Nat
    OBVIOUS
  <2>2. Wires
    BY <2>1, Zenon DEF Init, ServerInit, Wires
  <2>3. asked \in [Sessions -> Seq(Message)] /\ hist \in HistRecord /\ kind \in Kinds
    BY <2>1, Zenon DEF Init, HistRecord, Counts
  <2> QED
    BY <2>2, <2>3, Zenon DEF Init, ServerInit, WireType, Wires
<1>2. TableType
  <2>1. /\ call = [st |-> "idle", msg |-> NoMsg, res |-> NoMsg] /\ DOMAIN ptab = {}
        /\ inbound = <<>> /\ txnGen = 1
    BY DEF Init, ServerInit
  <2> QED
    BY <2>1 DEF TableType, CallRecord, MaybeMessage, OnlyOwnPending
<1>3. EndType
  <2>1. call.st = "idle"
    BY Zenon DEF Init, ServerInit
  <2> QED
    BY <2>1, ZeroType
      , Zenon DEF Init, EpInit, DpiInit, HarnessInit, EndType, Stages, PortIdle, PortRecord, MaybeMessage
<1> QED
  BY <1>1, <1>2, <1>3, Zenon DEF Types

\* Each step of a thread or a client keeps them.
LEMMA TypeStep == TypeInv /\ [Next]_vars => Types'
<1> SUFFICES ASSUME TypeInv, [Next]_vars PROVE Types'
  BY Zenon
<1>1. Move /\ Wires'
  BY NextMove, WiresTyped, Zenon
<1>2. CASE UNCHANGED vars
  <2>1. WireType'
    BY <1>2, Zenon DEF TypeInv, WireType, vars, serverVars, ioVars, sessionVars, clientVars, modes
  <2>2. inbound' \in Seq(Message)
    BY <1>2, Zenon DEF TypeInv, TableType, vars, serverVars, tableVars
  <2>3. EndType'
    BY <1>2, Zenon DEF TypeInv, EndType, vars, serverVars, tableVars, endVars, epVars, dpiVars
  <2> QED
    BY <1>1, <2>1, <2>2, <2>3, TableTyped, Zenon DEF Types, TypeInv
<1>3. CASE Thread /\ UNCHANGED clientVars
  <2>1. ThreadFrame /\ EndType'
    BY <1>3, ThreadFrames, ThreadEnd, Zenon
  <2>2. WireType'
    BY <1>1, <1>3, <2>1, Zenon DEF TypeInv, WireType, Wires, ThreadFrame, clientVars, modes
  <2> QED
    BY <1>1, <2>1, <2>2, TableTyped, Zenon DEF Types, TypeInv, ThreadFrame
<1>4. CASE IoStep /\ UNCHANGED clientVars
  <2>1. IoFrame /\ UNCHANGED <<call, endVars>>
    BY <1>4, IoFrames, OthersKeepCall, Zenon
  <2>2. WireType'
    BY <1>1, <1>4, <2>1, Zenon DEF TypeInv, WireType, Wires, IoFrame, clientVars, modes
  <2>3. EndType'
    BY <2>1, Zenon DEF TypeInv, EndType, endVars, epVars, dpiVars
  <2> QED
    BY <1>1, <2>1, <2>2, <2>3, TableTyped, Zenon DEF Types, TypeInv, IoFrame
<1>5. ASSUME NEW s \in Sessions, Client(s) PROVE Types'
  <2>1. /\ UNCHANGED <<ioVars, inbound, endVars, kind, call>>
        /\ asked' \in [Sessions -> Seq(Message)] /\ hist' \in HistRecord
    BY <1>5, ClientFrames, OthersKeepCall, Zenon
  <2>2. WireType'
    BY <1>1, <2>1, Zenon DEF TypeInv, WireType, Wires, ioVars
  <2>3. EndType'
    BY <2>1, Zenon DEF TypeInv, EndType, endVars, epVars, dpiVars
  <2>4. inbound' \in Seq(Message)
    BY <2>1, Zenon DEF TypeInv, TableType
  <2> QED
    BY <1>1, <2>2, <2>3, <2>4, TableTyped, Zenon DEF Types, TypeInv
<1> QED
  BY <1>2, <1>3, <1>4, <1>5, Zenon DEF Next

-----------------------------------------------------------------------------
(* Invariants.                                                             *)

\* DMA requests and their answers carry IDs that have been handed out.
IdsUsed ==
  /\ call.st # "idle" /\ ExpectsResponse(call.msg) => call.msg.txn < txnGen
  /\ \A s \in Sessions :
       /\ \A i \in DOMAIN out[s] : out[s][i].type \in DmaRequests => out[s][i].txn < txnGen
       /\ \A i \in DOMAIN in[s] : in[s][i].type \in DmaResponses => in[s][i].txn < txnGen

\* Whatever carries the ID of the call in progress belongs to it.
IdsOwn ==
  call.st # "idle" /\ ExpectsResponse(call.msg) =>
    /\ \A s \in Sessions :
         /\ \A i \in DOMAIN out[s] :
              out[s][i].type \in DmaRequests /\ out[s][i].txn = call.msg.txn =>
                out[s][i].type = call.msg.type
         /\ \A i \in DOMAIN in[s] :
              in[s][i].type \in DmaResponses /\ in[s][i].txn = call.msg.txn =>
                in[s][i].type = Expected(call.msg.type)
    /\ \A t \in DOMAIN ptab : ptab[t] # NoMsg =>
         ptab[t].txn = t /\ ptab[t].type = Expected(call.msg.type)

\* A completion that was acknowledged has been stored.
IsStored(m) == m # NoMsg /\ m.type = "DMA_WRITE_RSP" /\ m.status = "SUCCESS"
Stored == \E s \in Sessions : hist.cpl[s] > 0
StoredCounted ==
  /\ (\E s \in Sessions : \E i \in DOMAIN in[s] : IsStored(in[s][i])) => Stored
  /\ (\E t \in DOMAIN ptab : IsStored(ptab[t])) => Stored
  /\ IsStored(call.res) => Stored

\* A call has no result before it ends.
NoResultYet == call.st # "idle" => call.res = NoMsg

\* The call of stage "write" is the completion write.
WriteStage == stage = "write" => call.msg.type = "DMA_WRITE_REQ"

\* An answer to a register read holds the register's value until it is sent.
ReadExact(m) ==
  m # NoMsg /\ m.type = "MMIO_READ_RSP" /\ m.status = "SUCCESS" =>
    m.data = Truncate(SvValue(m.arg), m.plen)
PortExact ==
  kind = "dpi" => /\ stage = "access" => ReadExact(rm.rsp)
                  /\ call.st = "send" => ReadExact(call.msg)

-----------------------------------------------------------------------------
(* MSI-X and completions.                                                  *)

MsixBegun == IF call.st = "send" /\ call.msg.type = "MSIX" THEN 1 ELSE 0

\* An acknowledgement of the completion write in progress, on its way to it.
Acknowledged ==
  /\ stage = "write"
  /\ \/ call.st = "idle" /\ IsStored(call.res)
     \/ call.st # "idle" /\ \E t \in DOMAIN ptab : IsStored(ptab[t])
     \/ call.st # "idle" /\ \E s \in Sessions : \E i \in DOMAIN in[s] :
          IsStored(in[s][i]) /\ in[s][i].txn = call.msg.txn

Owed == IF Acknowledged THEN 1 ELSE 0

\* The sessions: the server's end is open exactly for the one it holds, those
\* before it are over, and nothing happened yet in those after it.
Ends ==
  /\ sst \in [Sessions -> {"pend", "open", "closed"}]
  /\ io = "accept" => sock = 0
  /\ \A s \in Sessions : sst[s] = "open" <=> sock = s
  /\ \A s \in Sessions : sst[s] = "pend" => out[s] = <<>> /\ hist.msix[s] = 0
  /\ \A s, t \in Sessions : t < s /\ sst[t] # "closed" => sst[s] = "pend"

\* What session s has received, and in the session the server holds also what
\* is on its way and still to come.
Due == MsixBegun + Owed
Load(s) == hist.msix[s] + (IF sock = s THEN Msixes(out[s]) + Due ELSE 0)
Bonus(s) == IF CompletionBefore(s) THEN 1 ELSE 0

\* A session that is over stored a completion and did not get its MSI-X.
Credit == \E t \in Sessions : sst[t] = "closed" /\ hist.cpl[t] > hist.msix[t]

\* Each MSI-X received, on its way or still to come in a session has a
\* completion of its own, but for one that an earlier session stored; what is
\* due between two sessions was stored by one that is over.
MsixCounted ==
  kind # "harness" =>
    /\ \A s \in Sessions : Load(s) <= hist.cpl[s] + Bonus(s)
    /\ sock = 0 /\ Due # 0 => Credit

-----------------------------------------------------------------------------
(* Where the messages on the wires come from.                              *)

OutFrom ==
  \A s \in Sessions : \A i \in DOMAIN out'[s] :
    \/ \E j \in DOMAIN out[s] : out'[s][i] = out[s][j]
    \/ CallSend /\ out'[s][i] = call.msg
    \/ out'[s][i].type = "HELLO_ACK"

InFrom ==
  \A s \in Sessions : \A i \in DOMAIN in'[s] :
    \/ \E j \in DOMAIN in[s] : in'[s][i] = in[s][j]
    \/ in'[s][i].type \notin DmaResponses
    \/ /\ UNCHANGED callVars
       /\ \E j \in DOMAIN out[s] :
            /\ ExpectsResponse(out[s][j])
            /\ in'[s][i].type = Expected(out[s][j].type) /\ in'[s][i].txn = out[s][j].txn

\* A message on a wire was there before, or the step put it there.
LEMMA WiresFrom == ASSUME TypeInv, Move PROVE OutFrom /\ InFrom
<1>1. in \in [Sessions -> Seq(Message)] /\ out \in [Sessions -> Seq(Message)]
  BY Zenon DEF TypeInv, WireType
<1>2. CASE UNCHANGED <<in, out>>
  BY <1>2, Zenon DEF OutFrom, InFrom
<1>3. CASE CallSend
  <2>1. call.msg \in Message /\ (sock # 0 => sock \in Sessions) /\ in' = in
    BY <1>3, Zenon DEF CallSend, TypeInv, TableType, WireType
  <2>2. CASE sock # 0 /\ cst[sock] = "open"
    <3>1. out' = [out EXCEPT ![sock] = Append(@, call.msg)]
      BY <1>3, <2>2, Zenon DEF CallSend
    <3>2. \A r \in Sessions : \A i \in DOMAIN [out EXCEPT ![sock] = Append(@, call.msg)][r] :
            \/ i \in DOMAIN out[r] /\ [out EXCEPT ![sock] = Append(@, call.msg)][r][i] = out[r][i]
            \/ [out EXCEPT ![sock] = Append(@, call.msg)][r][i] = call.msg
      BY <1>1, <2>1, <2>2, WireAppend
    <3>3. \A r \in Sessions : \A i \in DOMAIN out'[r] :
            (i \in DOMAIN out[r] /\ out'[r][i] = out[r][i]) \/ out'[r][i] = call.msg
      BY <3>1, <3>2, Zenon
    <3> QED
      BY <1>3, <2>1, <3>3, Zenon DEF OutFrom, InFrom
  <2>3. CASE ~(sock # 0 /\ cst[sock] = "open")
    BY <1>3, <2>1, <2>3, Zenon DEF CallSend, OutFrom, InFrom
  <2> QED
    BY <2>2, <2>3, Zenon
<1>4. CASE WaitEnds
  BY <1>4, Zenon DEF WaitEnds, sessionVars, OutFrom, InFrom
<1>5. CASE Receives
  <2>1. sock \in Sessions /\ in[sock] # <<>> /\ in' = [in EXCEPT ![sock] = Tail(@)]
    BY <1>5, Zenon DEF Receives
  <2>2. Head(in[sock]) \in Message
    BY <1>1, <2>1, WireTail, Zenon
  <2>3. InFrom
    <3>1. \A r \in Sessions : \A i \in DOMAIN in'[r] :
            LET j == IF r = sock THEN i + 1 ELSE i IN j \in DOMAIN in[r] /\ in'[r][i] = in[r][j]
      BY <1>1, <2>1, WireTail
    <3> QED
      BY <3>1, Zenon DEF InFrom
  <2>4. CASE UNCHANGED out
    BY <2>3, <2>4, Zenon DEF OutFrom
  <2>5. CASE out' = [out EXCEPT ![sock] = Append(@, Reply(Head(in[sock]), "HELLO_ACK", NoData, 0, "SUCCESS"))]
    <3> DEFINE a == Reply(Head(in[sock]), "HELLO_ACK", NoData, 0, "SUCCESS")
    <3>1. a \in Message /\ a.type = "HELLO_ACK"
      BY <2>2, HelloAckType, Zenon
    <3>2. out' = [out EXCEPT ![sock] = Append(@, a)]
      BY <2>5, Zenon
    <3> HIDE DEF a
    <3>3. \A r \in Sessions : \A i \in DOMAIN [out EXCEPT ![sock] = Append(@, a)][r] :
            \/ i \in DOMAIN out[r] /\ [out EXCEPT ![sock] = Append(@, a)][r][i] = out[r][i]
            \/ [out EXCEPT ![sock] = Append(@, a)][r][i] = a
      BY <1>1, <2>1, <3>1, WireAppend
    <3>4. \A r \in Sessions : \A i \in DOMAIN out'[r] :
            (i \in DOMAIN out[r] /\ out'[r][i] = out[r][i]) \/ out'[r][i] = a
      BY <3>2, <3>3, Zenon
    <3> QED
      BY <2>3, <3>1, <3>4, Zenon DEF OutFrom
  <2> QED
    BY <1>5, <2>4, <2>5, Zenon DEF Receives
<1>6. CASE Asks /\ UNCHANGED <<callVars, out>>
  <2>1. PICK s \in Sessions, m \in Message :
          m.type \in RequestTypes \cup {BadHeader} /\ in' = [in EXCEPT ![s] = Append(@, m)]
    BY <1>6, Zenon DEF Asks
  <2>2. m.type \notin DmaResponses
    BY <2>1, Zenon DEF RequestTypes, BadHeader, DmaResponses
  <2>3. \A r \in Sessions : \A i \in DOMAIN in'[r] :
          (i \in DOMAIN in[r] /\ in'[r][i] = in[r][i]) \/ in'[r][i] = m
    <3>1. \A r \in Sessions : \A i \in DOMAIN [in EXCEPT ![s] = Append(@, m)][r] :
            \/ i \in DOMAIN in[r] /\ [in EXCEPT ![s] = Append(@, m)][r][i] = in[r][i]
            \/ [in EXCEPT ![s] = Append(@, m)][r][i] = m
      BY <1>1, WireAppend
    <3> QED
      BY <2>1, <3>1, Zenon
  <2> QED
    BY <1>6, <2>2, <2>3, Zenon DEF OutFrom, InFrom
<1>7. CASE Reads /\ UNCHANGED callVars
  <2>1. PICK s \in Sessions :
          /\ out[s] # <<>>
          /\ out' = [out EXCEPT ![s] = Tail(@)]
          /\ \/ UNCHANGED in
             \/ \E st \in Statuses :
                  /\ ExpectsResponse(Head(out[s]))
                  /\ in' = [in EXCEPT ![s] = Append(@, Reply(Head(out[s]), Expected(Head(out[s]).type), NoData, 0, st))]
    BY <1>7, Zenon DEF Reads
  <2>2. Head(out[s]) \in Message /\ 1 \in DOMAIN out[s] /\ out[s][1] = Head(out[s])
    BY <1>1, <2>1, WireTail, Zenon
  <2>3. OutFrom
    <3>1. \A r \in Sessions : \A i \in DOMAIN out'[r] :
            LET j == IF r = s THEN i + 1 ELSE i IN j \in DOMAIN out[r] /\ out'[r][i] = out[r][j]
      BY <1>1, <2>1, WireTail
    <3> QED
      BY <3>1, Zenon DEF OutFrom
  <2>4. CASE UNCHANGED in
    BY <2>3, <2>4, Zenon DEF InFrom
  <2>5. ASSUME NEW st \in Statuses, ExpectsResponse(Head(out[s])),
               in' = [in EXCEPT ![s] = Append(@, Reply(Head(out[s]), Expected(Head(out[s]).type), NoData, 0, st))]
        PROVE  InFrom
    <3> DEFINE a == Reply(Head(out[s]), Expected(Head(out[s]).type), NoData, 0, st)
    <3>1. a \in Message /\ a.type = Expected(Head(out[s]).type) /\ a.txn = Head(out[s]).txn
      BY <2>2, <2>5, AnswerType, Zenon
    <3>2. in' = [in EXCEPT ![s] = Append(@, a)]
      BY <2>5, Zenon
    <3> HIDE DEF a
    <3>3. \A r \in Sessions : \A i \in DOMAIN in'[r] :
            (i \in DOMAIN in[r] /\ in'[r][i] = in[r][i]) \/ (r = s /\ in'[r][i] = a)
      BY <1>1, <3>1, <3>2, Appended
    <3> QED
      BY <1>7, <2>2, <2>5, <3>1, <3>3 DEF InFrom
  <2> QED
    BY <2>1, <2>3, <2>4, <2>5, Zenon
<1> QED
  BY <1>2, <1>3, <1>4, <1>5, <1>6, <1>7, Zenon DEF Move

-----------------------------------------------------------------------------
(* Transaction IDs.                                                        *)

\* An ID is never handed out again.
LEMMA TxnGenGrows == ASSUME TypeInv, Move PROVE txnGen' \in Nat /\ txnGen <= txnGen'
<1>1. txnGen \in Nat
  BY Zenon DEF TypeInv, TableType
<1>2. txnGen' = txnGen \/ txnGen' = txnGen + 1
  BY Zenon DEF Move, callVars, BeginsAnswer, BeginsRequest, ResponseBegin, RequestBegin, CallSend,
         WaitEnds, Receives
<1> QED
  BY <1>1, <1>2

\* What a call has become: it is the same call, or over, or it has just begun
\* with a fresh ID, or with none.
CallKept ==
  /\ call.st # "idle" /\ call'.st # "idle" /\ call'.msg = call.msg
  /\ call'.res = call.res
CallOver == call'.st = "idle" /\ call'.msg = call.msg /\ call'.res = call.res
CallAnswered ==
  /\ call.st = "wait" /\ call'.st = "idle" /\ call'.msg = call.msg
  /\ call'.res = ptab[call.msg.txn]
CallFresh ==
  /\ call.st = "idle" /\ call'.res = NoMsg /\ UNCHANGED <<in, out>>
  /\ call'.st # "idle" /\ ExpectsResponse(call'.msg) =>
       /\ call'.msg.txn = txnGen /\ txnGen' = txnGen + 1
       /\ ptab' = [u \in {txnGen} |-> NoMsg]

\* SendResponse begins a call that registers nothing.
LEMMA AnswerFresh ==
  ASSUME NEW m \in Message, m.type \in {"RESET_RSP", "MMIO_READ_RSP", "MMIO_WRITE_RSP"},
         ResponseBegin(m), UNCHANGED <<in, out>>
  PROVE  CallFresh /\ call'.msg.type = m.type
<1>1. call.st = "idle" /\ call'.msg = m /\ call'.res = NoMsg
  BY Zenon DEF ResponseBegin
<1>2. ~ExpectsResponse(m)
  BY Zenon DEF ExpectsResponse
<1> QED
  BY <1>1, <1>2, Zenon DEF CallFresh

\* SendRequestToHost begins a call with an ID of its own.
LEMMA RequestFresh ==
  ASSUME TypeInv, NEW m \in Message, m.type \in DmaRequests \cup {"MSIX"}, RequestBegin(m),
         UNCHANGED <<in, out>>
  PROVE  CallFresh /\ call'.msg.type = m.type
<1>1. DOMAIN ptab = {} /\ call.st = "idle" /\ txnGen \in Nat
  BY Zenon DEF TypeInv, TableType, OnlyOwnPending, RequestBegin
<1>2. CASE hasClient
  <2> DEFINE n == [m EXCEPT !.txn = txnGen]
  <2>1. n.type = m.type /\ n.txn = txnGen
    BY <1>1, SentType, Zenon
  <2> HIDE DEF n
  <2>2. call' = [st |-> "send", msg |-> n, res |-> NoMsg] /\ txnGen' = txnGen + 1
    BY <1>2, Zenon DEF RequestBegin, n
  <2>3. ExpectsResponse(m) <=> ExpectsResponse(n)
    BY <2>1, Zenon DEF ExpectsResponse
  <2>4. ExpectsResponse(m) => ptab' = [u \in {txnGen} |-> NoMsg]
    BY <1>1, <1>2, Zenon DEF RequestBegin
  <2> QED
    BY <1>1, <2>1, <2>2, <2>3, <2>4, Zenon DEF CallFresh
<1>3. CASE ~hasClient
  BY <1>3 DEF RequestBegin, CallFresh
<1> QED
  BY <1>2, <1>3, Zenon

\* What can become of the call in a step.
LEMMA CallSteps ==
  ASSUME TypeInv, Move PROVE CallKept \/ CallOver \/ CallAnswered \/ CallFresh
<1>1. call \in CallRecord
  BY Zenon DEF TypeInv, TableType
<1>2. CASE UNCHANGED call
  BY <1>1, <1>2, Zenon DEF CallKept, CallOver, CallRecord
<1>3. CASE BeginsAnswer /\ UNCHANGED <<in, out>>
  BY <1>3, AnswerFresh, Zenon DEF BeginsAnswer
<1>4. CASE BeginsRequest /\ UNCHANGED <<in, out>>
  BY <1>4, RequestFresh, Zenon DEF BeginsRequest
<1>5. CASE CallSend
  <2>1. call.st = "send"
    BY <1>5, Zenon DEF CallSend
  <2>2. \/ call' = [call EXCEPT !.st = IF ExpectsResponse(call.msg) THEN "wait" ELSE "idle"]
        \/ call' = [call EXCEPT !.st = "idle"]
    BY <1>5, Zenon DEF CallSend
  <2>3. call'.st \in {"wait", "idle"} /\ call'.msg = call.msg /\ call'.res = call.res
    BY <1>1, <2>2, Zenon DEF CallRecord
  <2> QED
    BY <2>1, <2>3, Zenon DEF CallKept, CallOver
<1>6. CASE WaitEnds
  <2>1. call.st = "wait" /\ call' = [call EXCEPT !.st = "idle", !.res = ptab[call.msg.txn]]
    BY <1>6, Zenon DEF WaitEnds
  <2>2. call'.st = "idle" /\ call'.msg = call.msg /\ call'.res = ptab[call.msg.txn]
    BY <1>1, <2>1, Zenon DEF CallRecord
  <2> QED
    BY <2>1, <2>2, Zenon DEF CallAnswered
<1>7. Receives => UNCHANGED call
  BY Zenon DEF Receives
<1> QED
  BY <1>2, <1>3, <1>4, <1>5, <1>6, <1>7, Zenon DEF Move, callVars

\* What the table holds of a call that goes on.
LEMMA TableSteps ==
  ASSUME TypeInv, Move, CallKept, NEW t \in DOMAIN ptab'
  PROVE  /\ t \in DOMAIN ptab
         /\ \/ ptab'[t] = ptab[t]
            \/ /\ sock \in Sessions /\ in[sock] # <<>> /\ t = Head(in[sock]).txn
               /\ Head(in[sock]).type \in DmaResponses /\ ptab'[t] = Head(in[sock])
<1>1. CASE UNCHANGED ptab
  BY <1>1, Zenon
<1>2. CASE /\ sock \in Sessions /\ in[sock] # <<>> /\ Head(in[sock]).type \in DmaResponses
           /\ Complete(Head(in[sock]))
  BY <1>2, Zenon DEF Complete
<1>3. CASE CallSend
  <2>1. CASE sock # 0 /\ cst[sock] = "open"
    BY <1>1, <1>3, <2>1, Zenon DEF CallSend
  <2>2. CASE ~(sock # 0 /\ cst[sock] = "open")
    <3>1. call' = [call EXCEPT !.st = "idle"] /\ call \in CallRecord
      BY <1>3, <2>2, Zenon DEF CallSend, TypeInv, TableType
    <3> QED
      BY <3>1, Zenon DEF CallKept, CallRecord
  <2> QED
    BY <2>1, <2>2, Zenon
<1>4. CASE WaitEnds
  <2>1. call' = [call EXCEPT !.st = "idle", !.res = ptab[call.msg.txn]] /\ call \in CallRecord
    BY <1>4, Zenon DEF WaitEnds, TypeInv, TableType
  <2> QED
    BY <2>1, Zenon DEF CallKept, CallRecord
<1>5. call.st # "idle"
  BY Zenon DEF CallKept
<1>6. CASE Receives
  BY <1>1, <1>2, <1>6, Zenon DEF Receives
<1> QED
  BY <1>1, <1>3, <1>4, <1>5, <1>6
    , Zenon DEF Move, callVars, BeginsAnswer, BeginsRequest, ResponseBegin, RequestBegin

\* IDs in use stay below txn_gen_.
LEMMA IdsUsedStep == ASSUME TypeInv, IdsUsed, Move PROVE IdsUsed'
<1>1. txnGen \in Nat /\ txnGen' \in Nat /\ txnGen <= txnGen' /\ OutFrom /\ InFrom /\ Wires'
  BY TxnGenGrows, WiresFrom, WiresTyped, Zenon DEF TypeInv, TableType
<1>2. \A m \in Message : m.txn \in Nat
  BY Zenon DEF Message
<1>3. in \in [Sessions -> Seq(Message)] /\ out \in [Sessions -> Seq(Message)]
  BY Zenon DEF TypeInv, WireType
<1>4. ASSUME call'.st # "idle", ExpectsResponse(call'.msg) PROVE call'.msg.txn < txnGen'
  <2>1. CASE CallKept
    <3>1. call.msg \in Message /\ call.msg.txn < txnGen
      BY <1>4, <2>1, Zenon DEF CallKept, IdsUsed, TypeInv, TableType
    <3> QED
      BY <1>1, <1>2, <2>1, <3>1 DEF CallKept
  <2>2. CASE CallFresh
    BY <1>1, <1>4, <2>2 DEF CallFresh
  <2> QED
    BY <1>4, <2>1, <2>2, CallSteps, Zenon DEF CallOver, CallAnswered
<1>5. ASSUME NEW s \in Sessions, NEW i \in DOMAIN out'[s], out'[s][i].type \in DmaRequests
      PROVE  out'[s][i].txn < txnGen'
  <2>1. ASSUME NEW j \in DOMAIN out[s], out'[s][i] = out[s][j] PROVE out'[s][i].txn < txnGen'
    <3>1. out[s][j] \in Message /\ out[s][j].txn < txnGen
      BY <1>3, <1>5, <2>1 DEF IdsUsed
    <3> QED
      BY <1>1, <1>2, <2>1, <3>1
  <2>2. CASE CallSend /\ out'[s][i] = call.msg
    <3>1. call.st = "send" /\ txnGen' = txnGen
      BY <2>2, Zenon DEF CallSend
    <3> QED
      BY <1>5, <2>2, <3>1, Zenon DEF IdsUsed, ExpectsResponse, DmaRequests
  <2> QED
    BY <1>1, <1>5, <2>1, <2>2, Zenon DEF OutFrom, DmaRequests
<1>6. ASSUME NEW s \in Sessions, NEW i \in DOMAIN in'[s], in'[s][i].type \in DmaResponses
      PROVE  in'[s][i].txn < txnGen'
  <2>1. ASSUME NEW j \in DOMAIN in[s], in'[s][i] = in[s][j] PROVE in'[s][i].txn < txnGen'
    <3>1. in[s][j] \in Message /\ in[s][j].txn < txnGen
      BY <1>3, <1>6, <2>1 DEF IdsUsed
    <3> QED
      BY <1>1, <1>2, <2>1, <3>1
  <2>2. ASSUME NEW j \in DOMAIN out[s], ExpectsResponse(out[s][j]), in'[s][i].txn = out[s][j].txn
        PROVE  in'[s][i].txn < txnGen'
    <3>1. out[s][j] \in Message /\ out[s][j].txn < txnGen
      BY <1>3, <2>2 DEF IdsUsed, ExpectsResponse, DmaRequests
    <3> QED
      BY <1>1, <1>2, <2>2, <3>1
  <2> QED
    BY <1>1, <1>6, <2>1, <2>2, Zenon DEF InFrom
<1> QED
  BY <1>4, <1>5, <1>6, Zenon DEF IdsUsed

\* What carries the ID of the call keeps belonging to it.
LEMMA IdsOwnStep == ASSUME TypeInv, IdsUsed, IdsOwn, Move PROVE IdsOwn'
<1> SUFFICES ASSUME call'.st # "idle", ExpectsResponse(call'.msg) PROVE IdsOwn'
  BY Zenon DEF IdsOwn
<1>1. in \in [Sessions -> Seq(Message)] /\ out \in [Sessions -> Seq(Message)] /\ txnGen \in Nat
  BY Zenon DEF TypeInv, WireType, TableType
<1>2. CASE CallFresh
  <2>1. /\ call'.msg.txn = txnGen /\ UNCHANGED <<in, out>>
        /\ ptab' = [u \in {txnGen} |-> NoMsg]
    BY <1>2, Zenon DEF CallFresh
  <2>2. \A s \in Sessions : \A i \in DOMAIN out[s] :
          out[s][i].type \in DmaRequests => out[s][i].txn # txnGen
    BY <1>1 DEF IdsUsed
  <2>3. \A s \in Sessions : \A i \in DOMAIN in[s] :
          in[s][i].type \in DmaResponses => in[s][i].txn # txnGen
    BY <1>1 DEF IdsUsed
  <2>4. \A t \in DOMAIN ptab' : ptab'[t] = NoMsg
    BY <2>1, Zenon
  <2> QED
    BY <2>1, <2>2, <2>3, <2>4, Zenon DEF IdsOwn
<1>3. CASE CallKept
  <2>1. /\ call.st # "idle" /\ ExpectsResponse(call.msg) /\ call'.msg = call.msg
    BY <1>3, Zenon DEF CallKept
  <2>2. OutFrom /\ InFrom
    BY WiresFrom, Zenon
  <2>3. ASSUME NEW s \in Sessions, NEW i \in DOMAIN out'[s], out'[s][i].type \in DmaRequests,
               out'[s][i].txn = call.msg.txn
        PROVE  out'[s][i].type = call.msg.type
    BY <2>1, <2>2, <2>3 DEF OutFrom, IdsOwn, DmaRequests
  <2>4. ASSUME NEW s \in Sessions, NEW i \in DOMAIN in'[s], in'[s][i].type \in DmaResponses,
               in'[s][i].txn = call.msg.txn
        PROVE  in'[s][i].type = Expected(call.msg.type)
    <3>1. ASSUME NEW j \in DOMAIN out[s], ExpectsResponse(out[s][j]),
                 in'[s][i].type = Expected(out[s][j].type), in'[s][i].txn = out[s][j].txn
          PROVE  in'[s][i].type = Expected(call.msg.type)
      <4>1. out[s][j].type = call.msg.type
        BY <2>1, <2>4, <3>1, Zenon DEF IdsOwn, ExpectsResponse, DmaRequests
      <4> QED
        BY <3>1, <4>1, Zenon
    <3> QED
      BY <2>1, <2>2, <2>4, <3>1 DEF InFrom, IdsOwn
  <2>5. ASSUME NEW t \in DOMAIN ptab', ptab'[t] # NoMsg
        PROVE  ptab'[t].txn = t /\ ptab'[t].type = Expected(call.msg.type)
    <3>1. t \in DOMAIN ptab /\ DOMAIN ptab = {call.msg.txn}
      BY <1>3, <2>1, TableSteps, Zenon DEF TypeInv, TableType, OnlyOwnPending
    <3>2. CASE ptab'[t] = ptab[t]
      BY <2>1, <2>5, <3>1, <3>2, Zenon DEF IdsOwn
    <3>3. CASE /\ sock \in Sessions /\ in[sock] # <<>> /\ t = Head(in[sock]).txn
               /\ Head(in[sock]).type \in DmaResponses /\ ptab'[t] = Head(in[sock])
      <4>1. 1 \in DOMAIN in[sock] /\ in[sock][1] = Head(in[sock])
        BY <1>1, <3>3, WireTail, Zenon
      <4> QED
        BY <2>1, <3>1, <3>3, <4>1 DEF IdsOwn
    <3> QED
      BY <1>3, <3>2, <3>3, TableSteps, Zenon
  <2> QED
    BY <2>1, <2>3, <2>4, <2>5 DEF IdsOwn
<1> QED
  BY <1>2, <1>3, CallSteps, Zenon DEF CallOver, CallAnswered

\* WaitFor returns the entry of its own ID.
LEMMA DmaAnswerOwnStep == ASSUME TypeInv, IdsOwn, DmaAnswerOwn, Move PROVE DmaAnswerOwn'
<1>1. CASE CallKept \/ CallOver
  BY <1>1, Zenon DEF CallKept, CallOver, DmaAnswerOwn
<1>2. CASE CallFresh
  BY <1>2, Zenon DEF CallFresh, DmaAnswerOwn
<1>3. CASE CallAnswered
  <2>1. call.st # "idle" /\ ExpectsResponse(call.msg) /\ DOMAIN ptab = {call.msg.txn}
    BY <1>3, Zenon DEF CallAnswered, TypeInv, TableType, OnlyOwnPending
  <2> QED
    BY <1>3, <2>1 DEF CallAnswered, IdsOwn, DmaAnswerOwn
<1> QED
  BY <1>1, <1>2, <1>3, CallSteps, Zenon

IdInv == TypeInv /\ IdsUsed /\ IdsOwn /\ DmaAnswerOwn

-----------------------------------------------------------------------------
(* The doorbell sequence.                                                  *)

\* How the stage of the endpoint and its call go together.
StageStep ==
  \/ stage' = stage /\ (CallSend \/ WaitEnds \/ UNCHANGED call)
  \/ stage' # "write" /\ UNCHANGED call
  \/ stage' # "write" /\ CallFresh /\ call'.msg.type # "MSIX"
  \/ stage' = "write" /\ CallFresh /\ call'.msg.type = "DMA_WRITE_REQ"
  \/ /\ stage = "write" /\ stage' # "write" /\ CallFresh /\ call'.msg.type = "MSIX"
     /\ kind = "harness" \/ Succeeded

\* A handler begins no completion write.
LEMMA HandledStage == ASSUME Handled, stage' # "write" PROVE StageStep
<1>1. CASE BeginsAnswer
  <2>1. PICK m \in Message : /\ m.type \in {"RESET_RSP", "MMIO_READ_RSP", "MMIO_WRITE_RSP"}
                             /\ ResponseBegin(m)
    BY <1>1, Zenon DEF BeginsAnswer
  <2>2. CallFresh /\ call'.msg.type # "MSIX"
    BY <2>1, AnswerFresh, Zenon DEF Handled
  <2> QED
    BY <2>2, Zenon DEF StageStep
<1>2. CASE UNCHANGED callVars
  BY <1>2, Zenon DEF StageStep, callVars
<1> QED
  BY <1>1, <1>2, Zenon DEF Handled

\* What begins a DMA call or MSI-X.
LEMMA DmaBeginFresh ==
  ASSUME TypeInv, UNCHANGED <<in, out>>
  PROVE  /\ RequestBegin(DmaRequest("DMA_READ_REQ", regs.asq, NoData, 64, 0)) =>
              CallFresh /\ call'.msg.type = "DMA_READ_REQ"
         /\ RequestBegin(DmaRequest("DMA_WRITE_REQ", regs.acq, Completion, 16, 16)) =>
              CallFresh /\ call'.msg.type = "DMA_WRITE_REQ"
         /\ RequestBegin(DmaRequest("MSIX", 0, NoData, 0, 0)) =>
              CallFresh /\ call'.msg.type = "MSIX"
<1>1. regs \in RegRecord
  BY Zenon DEF TypeInv, EndType
<1> QED
  BY <1>1, DmaAskType, RequestFresh, Zenon DEF DmaRequests

\* A doorbell goes on to the DMA read.
LEMMA EpAnsweredStage == ASSUME TypeInv, EpAnswered PROVE StageStep
<1>1. UNCHANGED <<in, out>>
  BY Zenon DEF EpAnswered, sessionVars
<1>2. \/ stage' = "poll" /\ UNCHANGED call
      \/ stage' = "read" /\ RequestBegin(DmaRequest("DMA_READ_REQ", regs.asq, NoData, 64, 0))
  BY Zenon DEF EpAnswered
<1> QED
  BY <1>1, <1>2, DmaBeginFresh, Zenon DEF StageStep

\* MSI-X follows only a completion write that succeeded, the harness apart.
LEMMA DmaNextStage ==
  ASSUME TypeInv, EpDmaNext \/ (MainDmaNext /\ kind = "harness") PROVE StageStep
<1>1. UNCHANGED <<in, out>>
  BY Zenon DEF EpDmaNext, MainDmaNext, sessionVars
<1>2. \/ stage' = "poll" /\ UNCHANGED call
      \/ stage' = "write" /\ RequestBegin(DmaRequest("DMA_WRITE_REQ", regs.acq, Completion, 16, 16))
      \/ /\ stage = "write" /\ stage' = "answer" /\ RequestBegin(DmaRequest("MSIX", 0, NoData, 0, 0))
         /\ kind = "harness" \/ Succeeded
  BY Zenon DEF EpDmaNext, MainDmaNext
<1> QED
  BY <1>1, <1>2, DmaBeginFresh, Zenon DEF StageStep

\* The end of the run leaves the call alone.
LEMMA StopStage == ASSUME EpGivesUp \/ EpStop \/ EpJoin PROVE StageStep
BY Zenon DEF EpGivesUp, EpStop, EpJoin, StopBegin, StopJoined, serverVars, tableVars, StageStep

\* The handlers of the three endpoints.
LEMMA HandlersStage ==
  ASSUME TypeInv, EpHandle \/ DpiPoll \/ RegClock \/ DpiTake \/ MainHandle PROVE StageStep
<1>1. Handled
  BY EpHandleHandled, DpiPollHandled, RegClockHandled, DpiTakeHandled, MainHandleHandled, Zenon
<1>2. stage' # "write"
  BY Zenon DEF EpHandle, epVars, DpiPoll, RegClock, DpiTake, MainHandle
<1> QED
  BY <1>1, <1>2, HandledStage, Zenon

\* The endpoint thread and what it decides from.
LEMMA ThreadStage ==
  ASSUME TypeInv, Thread
  PROVE  StageStep /\ (simPass' => simPass \/ (stage = "write" /\ Succeeded))
<1>1. CASE kind = "software" /\ Endpoint /\ UNCHANGED <<dpiVars, seen>>
  BY <1>1, HandlersStage, EpAnsweredStage, DmaNextStage, StopStage, Zenon DEF Endpoint, dpiVars
<1>2. CASE kind = "dpi" /\ Dpi /\ UNCHANGED seen
  <2>1. CASE DpiPoll \/ RegClock \/ DpiTake
    BY <2>1, HandlersStage DEF DpiPoll, RegClock, DpiTake, dpiVars
  <2>2. CASE DpiDmaNext
    BY <2>2, DmaNextStage, Zenon DEF DpiDmaNext, ShimOk
  <2>3. CASE (EpAnswered \/ ShimShutdown) /\ UNCHANGED dpiVars
    BY <2>3, EpAnsweredStage, StopStage, Zenon DEF ShimShutdown, dpiVars
  <2> QED
    BY <1>2, <2>1, <2>2, <2>3, Zenon DEF Dpi
<1>3. CASE kind = "harness" /\ MainLoop /\ UNCHANGED dpiVars
  BY <1>3, HandlersStage, EpAnsweredStage, DmaNextStage, StopStage, Zenon DEF MainLoop, MainAnswered, dpiVars
<1>4. CASE (CallSend \/ WaitAnswered \/ WaitTimeout) /\ UNCHANGED endVars
  BY <1>4, Zenon DEF StageStep, WaitAnswered, WaitTimeout, endVars, epVars, dpiVars
<1> QED
  BY <1>1, <1>2, <1>3, <1>4, Zenon DEF Thread

\* The other threads leave the stage alone.
LEMMA NextStage ==
  ASSUME TypeInv, [Next]_vars
  PROVE  StageStep /\ (simPass' => simPass \/ (stage = "write" /\ Succeeded))
<1>1. CASE UNCHANGED vars
  BY <1>1, Zenon DEF vars, serverVars, tableVars, endVars, epVars, dpiVars, StageStep
<1>2. CASE IoStep \/ \E s \in Sessions : Client(s)
  BY <1>2, OthersKeepCall DEF endVars, epVars, dpiVars, StageStep
<1> QED
  BY <1>1, <1>2, ThreadStage, Zenon DEF Next

\* The call of stage "write" stays the completion write.
LEMMA WriteStageStep ==
  ASSUME TypeInv, NoResultYet, WriteStage, Move, StageStep PROVE NoResultYet' /\ WriteStage'
<1>1. NoResultYet'
  <2>1. CASE CallKept
    BY <2>1, Zenon DEF CallKept, NoResultYet
  <2>2. CASE CallOver \/ CallAnswered \/ CallFresh
    BY <2>2, Zenon DEF CallOver, CallAnswered, CallFresh, NoResultYet
  <2> QED
    BY <2>1, <2>2, CallSteps, Zenon
<1>2. WriteStage'
  <2>1. CASE stage' = stage /\ (CallSend \/ WaitEnds \/ UNCHANGED call)
    <3>1. call'.msg = call.msg
      <4>1. CallSend \/ WaitEnds => call.st # "idle"
        BY Zenon DEF CallSend, WaitEnds
      <4> QED
        BY <2>1, <4>1, CallSteps, Zenon DEF CallKept, CallOver, CallAnswered, CallFresh
    <3> QED
      BY <2>1, <3>1, Zenon DEF WriteStage
  <2> QED
    BY <2>1, Zenon DEF StageStep, WriteStage
<1> QED
  BY <1>1, <1>2, Zenon

\* The endpoint thread writes to a client only by a send, and reads nothing.
LEMMA ThreadWires == ASSUME TypeInv, Thread PROVE in' = in /\ (out' = out \/ CallSend)
<1>1. CASE Endpoint
  BY <1>1, Zenon DEF Endpoint, EpHandle, EpAnswered, EpDmaNext, EpGivesUp, EpStop, EpJoin, StopBegin,
              StopJoined, serverVars, sessionVars
<1>2. CASE Dpi
  BY <1>2, Zenon DEF Dpi, DpiPoll, RegClock, DpiTake, DpiDmaNext, EpAnswered, EpDmaNext, ShimShutdown, EpStop,
              EpJoin, StopBegin, StopJoined, serverVars, sessionVars
<1>3. CASE MainLoop
  BY <1>3, Zenon DEF MainLoop, MainHandle, MainAnswered, EpAnswered, MainDmaNext, EpStop, EpJoin, StopBegin,
              StopJoined, sessionVars
<1>4. CASE CallSend
  BY <1>4, Zenon DEF CallSend
<1>5. CASE WaitAnswered \/ WaitTimeout
  BY <1>5, Zenon DEF WaitAnswered, WaitTimeout, WaitEnds, sessionVars
<1> QED
  BY <1>1, <1>2, <1>3, <1>4, <1>5, Zenon DEF Thread

\* No acknowledgement of a completion comes to be except with its completion.
InOld ==
  \A s \in Sessions : \A i \in DOMAIN in'[s] :
    IsStored(in'[s][i]) => \E j \in DOMAIN in[s] : in'[s][i] = in[s][j]

OutGrows(s, n) == Msixes(out'[s]) + n <= Msixes(out[s])

\* Nothing is written to a session the server does not hold.
OutHeld == \A s \in Sessions : s # sock /\ out[s] = <<>> => out'[s] = <<>>

\* A step that neither stores a completion nor receives an MSI-X.
PlainStep ==
  /\ hist'.msix = hist.msix /\ hist'.cpl = hist.cpl /\ InOld /\ OutHeld
  /\ sock # 0 => OutGrows(sock, 0) \/ (CallSend /\ OutGrows(sock, -MsixBegun))

\* The client of the session the server holds receives an MSI-X, or stores a
\* completion.
MsixStep ==
  /\ sock # 0 /\ UNCHANGED <<callVars, stage, sock, sst, io>>
  /\ hist'.msix = [hist.msix EXCEPT ![sock] = @ + 1] /\ hist'.cpl = hist.cpl
  /\ InOld /\ OutHeld /\ OutGrows(sock, 1)
StoreStep ==
  /\ sock # 0 /\ UNCHANGED <<callVars, stage, sock, sst, io>>
  /\ hist'.cpl = [hist.cpl EXCEPT ![sock] = @ + 1] /\ hist'.msix = hist.msix
  /\ OutHeld /\ OutGrows(sock, 0)

\* The IO thread takes the next connection, or a connection ends.
Accepts ==
  /\ sock = 0 /\ sock' \in Sessions /\ io' # "accept" /\ out' = out
  /\ sst[sock'] = "pend" /\ \A t \in Sessions : t < sock' => sst[t] # "pend"
  /\ sst' = [sst EXCEPT ![sock'] = "open"]
Drops ==
  /\ sock' = 0
  /\ \/ sock # 0 /\ sst' = [sst EXCEPT ![sock] = "closed"]
     \/ sst' = [s \in Sessions |-> "closed"]
SessionStep == (UNCHANGED <<sock, sst>> /\ (io' = "accept" => io = "accept")) \/ Accepts \/ Drops

OutTakes(s) == out[s] # <<>> /\ out' = [out EXCEPT ![s] = Tail(@)]
OutGets(s, m) == out' = [out EXCEPT ![s] = Append(@, m)]

\* The endpoint thread leaves the sessions alone until it has joined the IO
\* thread.
LEMMA ThreadSessions == ASSUME Thread PROVE UNCHANGED <<io, sock, sst>> \/ StopJoined
<1>1. CASE Endpoint
  BY <1>1, Zenon DEF Endpoint, EpHandle, EpAnswered, EpDmaNext, EpGivesUp, EpStop, EpJoin, StopBegin,
              serverVars, ioVars, sessionVars
<1>2. CASE Dpi
  BY <1>2, Zenon DEF Dpi, DpiPoll, RegClock, DpiTake, DpiDmaNext, EpAnswered, EpDmaNext, ShimShutdown, EpStop,
              EpJoin, StopBegin, serverVars, ioVars, sessionVars
<1>3. CASE MainLoop
  BY <1>3, Zenon DEF MainLoop, MainHandle, MainAnswered, EpAnswered, MainDmaNext, EpStop, EpJoin, StopBegin,
              ioVars, sessionVars
<1>4. CASE CallSend \/ WaitAnswered \/ WaitTimeout
  BY <1>4, Zenon DEF CallSend, WaitAnswered, WaitTimeout, WaitEnds, ioVars, sessionVars
<1> QED
  BY <1>1, <1>2, <1>3, <1>4, Zenon DEF Thread

\* A step keeps the session the server holds, takes the next, or ends it.
LEMMA SessionSteps == ASSUME TypeInv, Ends, [Next]_vars PROVE SessionStep
<1>1. CASE UNCHANGED vars
  BY <1>1, Zenon DEF vars, serverVars, ioVars, sessionVars, SessionStep
<1>2. CASE Thread
  BY <1>2, ThreadSessions, Zenon DEF StopJoined, SessionStep, Drops
<1>3. CASE IoStep
  <2>1. \A s \in Sessions : s # 0
    BY ServerAssumption DEF Sessions
  <2>2. io \in {"hello", "run"} => sock # 0
    BY <2>1, Zenon DEF TypeInv, WireType
  <2>3. CASE \E s \in Sessions : IoAccept(s)
    BY <2>3 DEF IoAccept, Ends, SessionStep, Accepts
  <2>4. CASE DropClient /\ io \in {"hello", "run"}
    BY <2>2, <2>4, Zenon DEF DropClient, SessionStep, Drops
  <2>5. CASE UNCHANGED <<sock, sst>> /\ io' # "accept"
    BY <2>5, Zenon DEF SessionStep
  <2>6. CASE IoHello \/ IoHelloFails \/ IoDisconnect
    BY <2>4, <2>5, <2>6, Zenon DEF IoHello, IoHelloFails, IoDisconnect
  <2>7. CASE IoMark \/ IoExit
    BY <2>5, <2>7, Zenon DEF IoMark, IoExit, sessionVars
  <2>8. CASE IoRecv
    BY <2>4, <2>5, <2>8, Zenon DEF IoRecv
  <2> QED
    BY <1>3, <2>3, <2>6, <2>7, <2>8, Zenon DEF IoStep, IoThread
<1>4. ASSUME NEW s \in Sessions, Client(s) PROVE SessionStep
  <2>1. UNCHANGED <<io, sock, sst>>
    BY <1>4, Zenon DEF Client, Connect, Hello, Ask, TakeResponse, Serve, HangUp, ClientConnect, ClientSend,
              ClientRecv, ClientClose, ioVars
  <2> QED
    BY <2>1, Zenon DEF SessionStep
<1> QED
  BY <1>1, <1>2, <1>3, <1>4, Zenon DEF Next

\* Sessions begin and end in order, and nothing is counted ahead of its session.
LEMMA EndsStep ==
  ASSUME TypeInv, Ends, SessionStep, PlainStep \/ MsixStep \/ StoreStep PROVE Ends'
<1>1. \A s \in Sessions : s # 0 /\ s \in Nat
  BY ServerAssumption DEF Sessions
<1>2. ASSUME NEW s \in Sessions, sst[s] = "pend", sst'[s] = "pend" PROVE out'[s] = <<>> /\ hist'.msix[s] = 0
  <2>1. s # sock /\ out[s] = <<>> /\ hist.msix[s] = 0
    BY <1>2, Zenon DEF Ends
  <2>2. OutHeld
    BY Zenon DEF PlainStep, MsixStep, StoreStep
  <2>3. hist'.msix[s] = hist.msix[s]
    <3>1. CASE MsixStep
      <4>1. sock \in Sessions /\ hist.msix \in Counts
        BY <3>1, Zenon DEF MsixStep, TypeInv, WireType, HistRecord
      <4> QED
        BY <2>1, <3>1, <4>1, Zenon DEF MsixStep, Counts
    <3> QED
      BY <3>1, Zenon DEF PlainStep, StoreStep
  <2> QED
    BY <2>1, <2>2, <2>3, Zenon DEF OutHeld
<1>3. CASE UNCHANGED <<sock, sst>> /\ (io' = "accept" => io = "accept")
  BY <1>2, <1>3, Zenon DEF Ends
<1>4. CASE Accepts
  <2>1. /\ sock = 0 /\ sock' \in Sessions /\ io' # "accept" /\ sst[sock'] = "pend"
        /\ \A t \in Sessions : t < sock' => sst[t] # "pend"
        /\ sst' = [sst EXCEPT ![sock'] = "open"] /\ sst \in [Sessions -> {"pend", "open", "closed"}]
    BY <1>4, Zenon DEF Accepts, Ends
  <2>2. /\ sst' \in [Sessions -> {"pend", "open", "closed"}] /\ sst'[sock'] = "open"
        /\ \A s \in Sessions : s # sock' => sst'[s] = sst[s]
    BY <2>1, Zenon
  <2>3. \A s \in Sessions : sst[s] # "open"
    BY <1>1, <2>1, Zenon DEF Ends
  <2>4. \A s \in Sessions : sst'[s] = "open" <=> sock' = s
    BY <2>2, <2>3, Zenon
  <2>5. \A s \in Sessions : sst'[s] = "pend" => sst[s] = "pend"
    BY <2>2, Zenon
  <2>6. ASSUME NEW s \in Sessions, NEW t \in Sessions, t < s, sst'[t] # "closed" PROVE sst'[s] = "pend"
    <3>1. sst[t] # "closed"
      BY <2>1, <2>2, <2>6, Zenon
    <3>2. sst[s] = "pend" /\ t # s
      BY <1>1, <2>6, <3>1 DEF Ends
    <3>3. s # sock'
      <4>1. sst[t] \in {"pend", "open", "closed"}
        BY <2>1, Zenon
      <4> QED
        BY <2>1, <2>3, <2>6, <3>1, <4>1, Zenon
    <3> QED
      BY <2>2, <3>2, <3>3, Zenon
  <2> QED
    BY <1>2, <2>1, <2>2, <2>4, <2>5, <2>6, Zenon DEF Ends
<1>5. CASE Drops
  <2>1. sock' = 0 /\ sst \in [Sessions -> {"pend", "open", "closed"}]
    BY <1>5, Zenon DEF Drops, Ends
  <2>2. /\ sst' \in [Sessions -> {"pend", "open", "closed"}]
        /\ \A s \in Sessions : sst'[s] = "closed" \/ (sst'[s] = sst[s] /\ s # sock)
    <3>1. CASE sock # 0 /\ sst' = [sst EXCEPT ![sock] = "closed"]
      BY <2>1, <3>1, Zenon DEF TypeInv, WireType
    <3>2. CASE sst' = [s \in Sessions |-> "closed"]
      BY <3>2, Zenon
    <3> QED
      BY <1>5, <3>1, <3>2, Zenon DEF Drops
  <2>3. \A s \in Sessions : sst'[s] # "open"
    BY <2>2, Zenon DEF Ends
  <2>4. ASSUME NEW s \in Sessions, NEW t \in Sessions, t < s, sst'[t] # "closed" PROVE sst'[s] = "pend"
    <3>1. sst' # [r \in Sessions |-> "closed"]
      BY <2>4, Zenon
    <3>2. sock # 0 /\ sst' = [sst EXCEPT ![sock] = "closed"]
      BY <1>5, <3>1, Zenon DEF Drops
    <3>3. sst[t] # "closed"
      BY <2>2, <2>4, Zenon
    <3>4. sst[s] = "pend"
      BY <2>4, <3>3, Zenon DEF Ends
    <3>5. s # sock
      BY <3>4, Zenon DEF Ends
    <3> QED
      BY <2>1, <3>2, <3>4, <3>5, Zenon
  <2> QED
    BY <1>1, <1>2, <2>1, <2>2, <2>3, <2>4, Zenon DEF Ends
<1> QED
  BY <1>3, <1>4, <1>5, Zenon DEF SessionStep

\* An acknowledgement only appears with its completion.
LEMMA StoredCountedStep ==
  ASSUME TypeInv, TypeInv', StoredCounted, Move, PlainStep \/ MsixStep \/ StoreStep
  PROVE  StoredCounted'
<1>2. CASE StoreStep
  <2>1. sock \in Sessions /\ hist.cpl \in Counts
    BY <1>2, Zenon DEF StoreStep, TypeInv, WireType, HistRecord
  <2>2. hist'.cpl[sock] = hist.cpl[sock] + 1 /\ hist.cpl[sock] \in Nat
    BY <1>2, <2>1, CountsOneMore, Zenon DEF StoreStep, Counts
  <2>3. hist'.cpl[sock] > 0
    BY <2>2
  <2> QED
    BY <2>1, <2>3, Zenon DEF StoredCounted, Stored
<1>3. CASE PlainStep \/ MsixStep
  <2>1. hist'.cpl = hist.cpl /\ InOld
    BY <1>3, Zenon DEF PlainStep, MsixStep
  <2>2. (\E s \in Sessions : \E i \in DOMAIN in'[s] : IsStored(in'[s][i])) => Stored
    BY <2>1, Zenon DEF InOld, StoredCounted
  <2>3. ASSUME NEW t \in DOMAIN ptab', IsStored(ptab'[t]) PROVE Stored
    <3>1. call'.st # "idle" /\ ExpectsResponse(call'.msg)
      BY <2>3, Zenon DEF TypeInv, TableType, OnlyOwnPending
    <3>2. CASE CallFresh
      BY <2>3, <3>1, <3>2, Zenon DEF CallFresh, IsStored
    <3>3. CASE CallKept
      <4>1. CASE ptab'[t] = ptab[t] /\ t \in DOMAIN ptab
        BY <2>3, <4>1, Zenon DEF StoredCounted
      <4>2. CASE sock \in Sessions /\ in[sock] # <<>> /\ ptab'[t] = Head(in[sock])
        <5>1. 1 \in DOMAIN in[sock] /\ in[sock][1] = Head(in[sock])
          BY <4>2, WireTail, Zenon DEF TypeInv, WireType
        <5> QED
          BY <2>3, <4>2, <5>1, Zenon DEF StoredCounted
      <4> QED
        BY <3>3, <4>1, <4>2, TableSteps, Zenon
    <3> QED
      BY <3>1, <3>2, <3>3, CallSteps, Zenon DEF CallOver, CallAnswered
  <2>4. ASSUME IsStored(call'.res) PROVE Stored
    <3>1. CASE CallKept \/ CallOver
      BY <2>4, <3>1, Zenon DEF CallKept, CallOver, StoredCounted
    <3>2. CASE CallFresh
      BY <2>4, <3>2, Zenon DEF CallFresh, IsStored
    <3>3. CASE CallAnswered
      <4>1. DOMAIN ptab = {call.msg.txn} /\ call'.res = ptab[call.msg.txn]
        BY <3>3, Zenon DEF CallAnswered, TypeInv, TableType, OnlyOwnPending
      <4> QED
        BY <2>4, <4>1, Zenon DEF StoredCounted
    <3> QED
      BY <3>1, <3>2, <3>3, CallSteps, Zenon
  <2> QED
    BY <2>1, <2>2, <2>3, <2>4, Zenon DEF StoredCounted, Stored
<1> QED
  BY <1>2, <1>3, Zenon

\* The result of the completion write, when it succeeded, acknowledges it.
LEMMA SucceededStored ==
  ASSUME DmaAnswerOwn, WriteStage, stage = "write", Succeeded PROVE IsStored(call.res)
<1>1. call.res # NoMsg /\ call.res.status = "SUCCESS" /\ call.msg.type = "DMA_WRITE_REQ"
  BY Zenon DEF Succeeded, WriteStage
<1> QED
  BY <1>1, ExpectedTypes, Zenon DEF DmaAnswerOwn, IsStored

SeqInv == IdInv /\ Ends /\ NoResultYet /\ WriteStage /\ StoredCounted /\ SimPassEarned

-----------------------------------------------------------------------------
(* MSI-X after completion.                                                 *)

\* The receiving side makes no acknowledgement of its own.
LEMMA AcknowledgedBefore ==
  ASSUME SeqInv, TypeInv', Move, InOld, stage' = stage, CallSend \/ WaitEnds \/ UNCHANGED call,
         Acknowledged'
  PROVE  Acknowledged
<1>1. TypeInv /\ NoResultYet
  BY Zenon DEF SeqInv, IdInv
<1>2. stage = "write"
  BY Zenon DEF Acknowledged
<1>3. (CallSend \/ WaitEnds) => call.st # "idle"
  BY Zenon DEF CallSend, WaitEnds
<1>4. CASE call'.st = "idle" /\ IsStored(call'.res)
  <2>1. CASE UNCHANGED call
    BY <1>2, <1>4, <2>1, Zenon DEF Acknowledged
  <2>2. CASE CallOver /\ call.st # "idle"
    BY <1>1, <1>4, <2>2, Zenon DEF CallOver, NoResultYet, IsStored
  <2>3. CASE CallAnswered
    <3>1. DOMAIN ptab = {call.msg.txn} /\ call'.res = ptab[call.msg.txn] /\ call.st # "idle"
      BY <1>1, <2>3, Zenon DEF CallAnswered, TypeInv, TableType, OnlyOwnPending
    <3> QED
      BY <1>2, <1>4, <3>1, Zenon DEF Acknowledged
  <2> QED
    BY <1>1, <1>3, <1>4, <2>1, <2>2, <2>3, CallSteps, Zenon DEF CallKept, CallFresh
<1>5. ASSUME call'.st # "idle" PROVE CallKept
  BY <1>1, <1>3, <1>5, CallSteps, Zenon DEF CallKept, CallOver, CallAnswered, CallFresh
<1>6. ASSUME call'.st # "idle", NEW t \in DOMAIN ptab', IsStored(ptab'[t]) PROVE Acknowledged
  <2>1. CallKept /\ call.st # "idle"
    BY <1>5, <1>6, Zenon DEF CallKept
  <2>2. CASE ptab'[t] = ptab[t] /\ t \in DOMAIN ptab
    BY <1>2, <1>6, <2>1, <2>2, Zenon DEF Acknowledged
  <2>3. CASE /\ sock \in Sessions /\ in[sock] # <<>> /\ t = Head(in[sock]).txn /\ t \in DOMAIN ptab
             /\ ptab'[t] = Head(in[sock])
    <3>1. 1 \in DOMAIN in[sock] /\ in[sock][1] = Head(in[sock])
      BY <1>1, <2>3, WireTail, Zenon DEF TypeInv, WireType
    <3>2. t = call.msg.txn
      BY <1>1, <2>3, Zenon DEF TypeInv, TableType, OnlyOwnPending
    <3> QED
      BY <1>2, <1>6, <2>1, <2>3, <3>1, <3>2, Zenon DEF Acknowledged
  <2> QED
    BY <1>1, <1>6, <2>1, <2>2, <2>3, TableSteps, Zenon
<1>7. ASSUME call'.st # "idle", NEW s \in Sessions, NEW i \in DOMAIN in'[s],
             IsStored(in'[s][i]), in'[s][i].txn = call'.msg.txn
      PROVE  Acknowledged
  <2>1. call.st # "idle" /\ call'.msg = call.msg
    BY <1>5, <1>7, Zenon DEF CallKept
  <2>2. PICK j \in DOMAIN in[s] : in'[s][i] = in[s][j]
    BY <1>7, Zenon DEF InOld
  <2> QED
    BY <1>2, <1>7, <2>1, <2>2, Zenon DEF Acknowledged
<1> QED
  BY <1>4, <1>6, <1>7, Zenon DEF Acknowledged

\* A call that has just begun is owed nothing.
LEMMA FreshUnacknowledged ==
  ASSUME SeqInv, TypeInv', CallFresh, call'.msg.type = "DMA_WRITE_REQ" PROVE ~Acknowledged'
<1>1. CASE call'.st = "idle"
  BY <1>1, Zenon DEF CallFresh, Acknowledged, IsStored
<1>2. CASE call'.st # "idle"
  <2>1. /\ call'.msg.txn = txnGen /\ ptab' = [u \in {txnGen} |-> NoMsg] /\ in' = in
    BY <1>2, Zenon DEF CallFresh, ExpectsResponse
  <2>2. \A t \in DOMAIN ptab' : ~IsStored(ptab'[t])
    BY <2>1, Zenon DEF IsStored
  <2>3. txnGen \in Nat
    BY Zenon DEF SeqInv, IdInv, TypeInv, TableType
  <2>4. \A s \in Sessions : \A i \in DOMAIN in[s] : IsStored(in[s][i]) => in[s][i].txn # txnGen
    BY <2>3 DEF SeqInv, IdInv, IdsUsed, IsStored, DmaResponses
  <2> QED
    BY <1>2, <2>1, <2>2, <2>4, Zenon DEF Acknowledged
<1> QED
  BY <1>1, <1>2, Zenon

\* What is sent is paid for by what was due.
LEMMA SumsPaid ==
  ASSUME NEW h \in Nat, NEW p \in Nat, NEW x \in Nat, NEW y \in Nat, NEW a \in Nat, NEW b \in Nat, NEW m \in Nat,
         h + (x + a) <= p, (y <= x /\ b <= a) \/ (y <= x + m /\ b + m <= a)
  PROVE  h + (y + b) <= p
OBVIOUS

\* Sums of two bits.
LEMMA SumsOrdered ==
  ASSUME NEW a \in 0..1, NEW b \in 0..1, NEW x \in 0..1, NEW y \in 0..1
  PROVE  /\ a <= x /\ b <= y => a + b <= x + y
         /\ x = 0 /\ y = 1 /\ b = 0 => a + b <= x + y
         /\ a = 0 /\ b <= y => a + b + x <= x + y
         /\ a = x => a + b <= x + y + 1
OBVIOUS

\* What is begun and what is owed are bits.
LEMMA DueType ==
  MsixBegun \in 0..1 /\ MsixBegun' \in 0..1 /\ Owed \in 0..1 /\ Owed' \in 0..1 /\ Due \in Nat /\ Due' \in Nat
BY DEF MsixBegun, Owed, Due

\* What is begun or owed only shrinks, and a send pays for what it sends.
LEMMA OwedStep ==
  ASSUME SeqInv, TypeInv', kind # "harness", Move, StageStep, InOld
  PROVE  Due' <= Due /\ (CallSend => Due' + MsixBegun <= Due)
<1> SUFFICES /\ MsixBegun' + Owed' <= MsixBegun + Owed
             /\ CallSend => MsixBegun' = 0 /\ Owed' <= Owed
  <2>1. MsixBegun \in 0..1 /\ MsixBegun' \in 0..1 /\ Owed \in 0..1 /\ Owed' \in 0..1
    BY DueType, Zenon
  <2>2. MsixBegun' = 0 /\ Owed' <= Owed => MsixBegun' + Owed' + MsixBegun <= MsixBegun + Owed
    BY <2>1, SumsOrdered, Zenon
  <2> QED
    BY <2>2, Zenon DEF Due
<1>1. MsixBegun \in 0..1 /\ MsixBegun' \in 0..1 /\ Owed \in 0..1 /\ Owed' \in 0..1
  BY DEF MsixBegun, Owed
<1>2. call \in CallRecord
  BY Zenon DEF SeqInv, IdInv, TypeInv, TableType
<1>3. /\ CallSend => call.st = "send"
      /\ CallSend \/ WaitEnds => call'.st # "send"
  BY <1>2, Zenon DEF CallSend, WaitEnds, CallRecord
<1>4. CASE stage' = stage /\ (CallSend \/ WaitEnds \/ UNCHANGED call)
  <2>1. Owed' <= Owed
    BY <1>1, <1>4, AcknowledgedBefore DEF Owed
  <2>2. MsixBegun' <= MsixBegun /\ (CallSend => MsixBegun' = 0)
    BY <1>1, <1>3, <1>4 DEF MsixBegun
  <2>3. MsixBegun' + Owed' <= MsixBegun + Owed
    BY <1>1, <2>1, <2>2, SumsOrdered, Zenon
  <2> QED
    BY <2>1, <2>2, <2>3, Zenon
<1>5. CASE stage' # "write" /\ UNCHANGED call
  <2>1. Owed' = 0 /\ MsixBegun' = MsixBegun
    BY <1>5, Zenon DEF Owed, Acknowledged, MsixBegun
  <2>2. ~CallSend
    BY <1>3, <1>5, Zenon
  <2> QED
    BY <1>1, <2>1, <2>2
<1>6. CASE CallFresh
  <2>1. MsixBegun = 0 /\ ~CallSend
    BY <1>3, <1>6, Zenon DEF CallFresh, MsixBegun
  <2>2. CASE stage' # "write" /\ call'.msg.type # "MSIX"
    <3>1. Owed' = 0 /\ MsixBegun' = 0
      BY <2>2, Zenon DEF Owed, Acknowledged, MsixBegun
    <3> QED
      BY <1>1, <2>1, <3>1
  <2>3. CASE call'.msg.type = "DMA_WRITE_REQ"
    <3>1. Owed' = 0 /\ MsixBegun' = 0
      BY <1>6, <2>3, FreshUnacknowledged, Zenon DEF Owed, MsixBegun
    <3> QED
      BY <1>1, <2>1, <3>1
  <2>4. CASE stage = "write" /\ stage' # "write" /\ Succeeded
    <3>1. Acknowledged
      BY <1>6, <2>4, SucceededStored, Zenon DEF CallFresh, Acknowledged, SeqInv, IdInv
    <3>2. Owed = 1
      BY <3>1, Zenon DEF Owed
    <3>3. Owed' = 0
      BY <2>4, Zenon DEF Owed, Acknowledged
    <3> QED
      BY <1>1, <2>1, <3>2, <3>3, SumsOrdered, Zenon
  <2> QED
    BY <1>6, <2>2, <2>3, <2>4, <1>4, <1>5, Zenon DEF StageStep
<1> QED
  BY <1>4, <1>5, <1>6, Zenon DEF StageStep

\* A process stays the kind it is.
LEMMA KindKept == ASSUME TypeInv, [Next]_vars PROVE kind' = kind
<1>1. \A s \in Sessions : Client(s) => kind' = kind
  BY ClientFrames, Zenon
<1> QED
  BY <1>1, Zenon DEF Next, vars, clientVars, modes

\* MSI-X is begun only once the completion write is over.
LEMMA DueBit == ASSUME WriteStage PROVE Due \in 0..1
<1>1. MsixBegun = 1 => Owed = 0
  BY Zenon DEF MsixBegun, Owed, Acknowledged, WriteStage
<1> QED
  BY <1>1, DueType DEF Due

\* Where the sessions before s stay as they are, so does what they leave to s.
LEMMA BonusKept ==
  ASSUME NEW s \in Sessions,
         \A t \in Sessions : t < s => hist'.cpl[t] = hist.cpl[t] /\ hist'.msix[t] = hist.msix[t]
  PROVE  Bonus(s)' = Bonus(s)
BY Zenon DEF Bonus, CompletionBefore

\* What the counts are.
LEMMA CountFacts ==
  ASSUME TypeInv, NEW s \in Sessions
  PROVE  /\ hist.cpl[s] \in Nat /\ hist.msix[s] \in Nat /\ Msixes(out[s]) \in Nat
         /\ out[s] = <<>> => Msixes(out[s]) = 0
         /\ s \in Nat
<1>1. hist.cpl \in Counts /\ hist.msix \in Counts
  BY Zenon DEF TypeInv, WireType, HistRecord
<1>2. hist.cpl[s] \in Nat /\ hist.msix[s] \in Nat
  BY <1>1, Zenon DEF Counts
<1>3. s \in Nat
  BY ServerAssumption DEF Sessions
<1> QED
  BY <1>2, <1>3, Zenon DEF TypeInv, Counted

\* A session that inherits a completion has it from one that is over.
LEMMA BonusCredit ==
  ASSUME Ends, NEW s \in Sessions, sock = s, CompletionBefore(s) PROVE Credit
<1>1. PICK t \in Sessions : t < s /\ hist.cpl[t] > hist.msix[t]
  BY Zenon DEF CompletionBefore
<1>2. sst[s] = "open"
  BY Zenon DEF Ends
<1>3. sst[t] = "closed"
  BY <1>1, <1>2, Zenon DEF Ends
<1> QED
  BY <1>1, <1>3, Zenon DEF Credit

\* And the next session inherits it.
LEMMA CreditBonus ==
  ASSUME Ends, NEW s \in Sessions, sst[s] = "pend", Credit PROVE CompletionBefore(s)
<1>1. PICK t \in Sessions : sst[t] = "closed" /\ hist.cpl[t] > hist.msix[t]
  BY Zenon DEF Credit
<1>2. t # s
  BY <1>1, Zenon
<1>3. ~(s < t)
  BY <1>1, Zenon DEF Ends
<1>4. s \in Nat /\ t \in Nat
  BY ServerAssumption DEF Sessions
<1>5. t < s
  BY <1>2, <1>3, <1>4
<1> QED
  BY <1>1, <1>5, Zenon DEF CompletionBefore

\* A completion that is stored, or an interrupt that is received, in the
\* session the server holds changes nothing for the others.
LEMMA OthersLoad ==
  ASSUME TypeInv, TypeInv', Ends, Ends', sock \in Sessions, sock' = sock, sst' = sst, NEW s \in Sessions, s # sock,
         \A t \in Sessions : t # sock => hist'.cpl[t] = hist.cpl[t] /\ hist'.msix[t] = hist.msix[t],
         Load(s) <= hist.cpl[s] + Bonus(s)
  PROVE  Load(s)' <= hist'.cpl[s] + Bonus(s)'
<1>1. /\ hist.msix[s] \in Nat /\ hist.cpl[s] \in Nat /\ s \in Nat /\ sock \in Nat
      /\ hist'.msix[s] \in Nat /\ hist'.cpl[s] \in Nat
  BY CountFacts
<1>2. Load(s) = hist.msix[s] /\ Load(s)' = hist'.msix[s]
  BY <1>1 DEF Load
<1>3. hist'.cpl[s] = hist.cpl[s] /\ hist'.msix[s] = hist.msix[s]
  BY Zenon
<1>4. CASE s < sock
  <2>1. \A t \in Sessions : t < s => t # sock
    BY <1>1, <1>4 DEF Sessions
  <2>2. Bonus(s)' = Bonus(s)
    BY <2>1, BonusKept, Zenon
  <2> QED
    BY <1>2, <1>3, <2>2, Zenon
<1>5. CASE sock < s
  <2>1. sst[s] = "pend"
    BY <1>5, Zenon DEF Ends
  <2>2. hist.msix[s] = 0
    BY <2>1, Zenon DEF Ends
  <2>3. Bonus(s)' \in Nat
    BY DEF Bonus
  <2> QED
    BY <1>1, <1>2, <1>3, <2>2, <2>3
<1> QED
  BY <1>1, <1>4, <1>5

\* A step that changes no count keeps the balance in the session that stays.
LEMMA PlainKept ==
  ASSUME SeqInv, SeqInv', MsixCounted, kind' = kind, Move, StageStep, PlainStep,
         sock' = sock, sst' = sst
  PROVE  MsixCounted'
<1> SUFFICES ASSUME kind # "harness"
             PROVE  /\ \A s \in Sessions : Load(s)' <= hist'.cpl[s] + Bonus(s)'
                    /\ sock' = 0 /\ Due' # 0 => Credit'
  BY Zenon DEF MsixCounted
<1>1. TypeInv /\ TypeInv' /\ InOld /\ hist'.msix = hist.msix /\ hist'.cpl = hist.cpl
  BY Zenon DEF SeqInv, IdInv, PlainStep
<1>2. Due \in Nat /\ Due' \in Nat /\ MsixBegun \in Nat
  BY DueType
<1>3. Due' <= Due /\ (CallSend => Due' + MsixBegun <= Due)
  BY <1>1, OwedStep, Zenon
<1>4. ASSUME NEW s \in Sessions PROVE Load(s)' <= hist'.cpl[s] + Bonus(s)'
  <2>1. Bonus(s)' = Bonus(s) /\ Bonus(s) \in 0..1
    BY <1>1, BonusKept DEF Bonus
  <2>2. Load(s) <= hist.cpl[s] + Bonus(s)
    BY Zenon DEF MsixCounted
  <2>3. hist.cpl[s] \in Nat /\ hist.msix[s] \in Nat /\ Msixes(out[s]) \in Nat /\ Msixes(out'[s]) \in Nat
    BY <1>1, CountFacts, Zenon DEF TypeInv, Counted
  <2>4. CASE sock # s
    BY <1>1, <2>1, <2>2, <2>4, Zenon DEF Load
  <2>5. CASE sock = s
    <3> DEFINE c == Msixes(out[s])
               d == Msixes(out'[s])
               p == hist.cpl[s] + Bonus(s)
               m == MsixBegun
    <3>1. Load(s) = hist.msix[s] + (c + Due) /\ Load(s)' = hist.msix[s] + (d + Due')
      BY <1>1, <2>5, Zenon DEF Load
    <3>2. s # 0
      BY ServerAssumption DEF Sessions
    <3>3. (d + 0 <= c) \/ (CallSend /\ d + (-m) <= c)
      BY <2>5, <3>2, Zenon DEF PlainStep, OutGrows
    <3>4. p \in Nat /\ c \in Nat /\ d \in Nat
      BY <2>1, <2>3
    <3>5. (d <= c /\ Due' <= Due) \/ (d <= c + m /\ Due' + m <= Due)
      <4> HIDE DEF c, d, m
      <4>1. CASE d + 0 <= c
        BY <1>3, <3>4, <4>1
      <4>2. CASE CallSend /\ d + (-m) <= c
        <5>1. Due' + m <= Due /\ m \in Nat
          BY <1>2, <1>3, <4>2, Zenon DEF m
        <5> QED
          BY <3>4, <4>2, <5>1
      <4> QED
        BY <3>3, <4>1, <4>2, Zenon
    <3> HIDE DEF c, d, p, m
    <3>6. hist.msix[s] + (c + Due) <= p
      BY <2>2, <3>1, Zenon DEF p
    <3>7. m \in Nat
      BY <1>2, Zenon DEF m
    <3>8. hist.msix[s] + (d + Due') <= p
      BY <1>2, <2>3, <3>4, <3>5, <3>6, <3>7, SumsPaid, Zenon
    <3> QED
      BY <1>1, <2>1, <3>1, <3>8, Zenon DEF p
  <2> QED
    BY <2>4, <2>5, Zenon
<1>5. ASSUME sock' = 0, Due' # 0 PROVE Credit'
  <2>1. Due # 0
    BY <1>2, <1>3, <1>5
  <2>2. Credit
    BY <1>5, <2>1, Zenon DEF MsixCounted
  <2> QED
    BY <1>1, <2>2, Zenon DEF Credit
<1> QED
  BY <1>4, <1>5, Zenon

\* A new session starts with nothing but what an earlier one left to it.
LEMMA AcceptKept ==
  ASSUME SeqInv, SeqInv', MsixCounted, kind' = kind, Move, StageStep, PlainStep, Accepts
  PROVE  MsixCounted'
<1> SUFFICES ASSUME kind # "harness"
             PROVE  /\ \A s \in Sessions : Load(s)' <= hist'.cpl[s] + Bonus(s)'
                    /\ sock' = 0 /\ Due' # 0 => Credit'
  BY Zenon DEF MsixCounted
<1>1. /\ TypeInv /\ TypeInv' /\ InOld /\ hist'.msix = hist.msix /\ hist'.cpl = hist.cpl /\ Ends
      /\ sock = 0 /\ sock' \in Sessions /\ sst[sock'] = "pend" /\ out' = out
  BY Zenon DEF SeqInv, IdInv, PlainStep, Accepts
<1>2. Due \in 0..1 /\ Due' \in Nat
  BY DueBit, DueType, Zenon DEF SeqInv
<1>3. Due' <= Due
  BY <1>1, OwedStep, Zenon
<1>4. sock' # 0
  BY <1>1, ServerAssumption DEF Sessions
<1>5. ASSUME NEW s \in Sessions PROVE Load(s)' <= hist'.cpl[s] + Bonus(s)'
  <2>1. Bonus(s)' = Bonus(s) /\ Bonus(s) \in 0..1
    BY <1>1, BonusKept DEF Bonus
  <2>2. hist.cpl[s] \in Nat /\ hist.msix[s] \in Nat /\ (out[s] = <<>> => Msixes(out[s]) = 0) /\ s \in Nat
    BY <1>1, CountFacts, Zenon
  <2>3. CASE sock' # s
    <3>1. Load(s) <= hist.cpl[s] + Bonus(s)
      BY Zenon DEF MsixCounted
    <3>2. sock # s
      BY <1>1, ServerAssumption DEF Sessions
    <3> QED
      BY <1>1, <2>1, <2>3, <3>1, <3>2, Zenon DEF Load
  <2>4. CASE sock' = s
    <3>1. out'[s] = <<>> /\ hist'.msix[s] = 0
      BY <1>1, <2>4, Zenon DEF Ends
    <3>2. Load(s)' = 0 + (0 + Due')
      BY <1>1, <2>2, <2>4, <3>1, Zenon DEF Load
    <3>3. Due # 0 => Bonus(s) = 1
      BY <1>1, <2>4, CreditBonus, Zenon DEF MsixCounted, Bonus
    <3> QED
      BY <1>1, <1>2, <1>3, <2>1, <2>2, <3>2, <3>3
  <2> QED
    BY <2>3, <2>4, Zenon
<1> QED
  BY <1>4, <1>5, Zenon

\* A session that ends leaves what is still due as its own completion, or the
\* one it inherited.
LEMMA DropKept ==
  ASSUME SeqInv, SeqInv', MsixCounted, kind' = kind, Move, StageStep, PlainStep, Drops
  PROVE  MsixCounted'
<1> SUFFICES ASSUME kind # "harness"
             PROVE  /\ \A s \in Sessions : Load(s)' <= hist'.cpl[s] + Bonus(s)'
                    /\ sock' = 0 /\ Due' # 0 => Credit'
  BY Zenon DEF MsixCounted
<1>1. /\ TypeInv /\ TypeInv' /\ InOld /\ hist'.msix = hist.msix /\ hist'.cpl = hist.cpl /\ Ends
      /\ sock' = 0
  BY Zenon DEF SeqInv, IdInv, PlainStep, Drops
<1>2. Due \in Nat /\ Due' \in Nat /\ Due' <= Due
  BY <1>1, DueType, OwedStep, Zenon
<1>3. ASSUME NEW s \in Sessions PROVE Load(s)' <= hist'.cpl[s] + Bonus(s)'
  <2>1. Bonus(s)' = Bonus(s) /\ Bonus(s) \in 0..1
    BY <1>1, BonusKept DEF Bonus
  <2>2. hist.cpl[s] \in Nat /\ hist.msix[s] \in Nat /\ Msixes(out[s]) \in Nat
    BY <1>1, CountFacts, Zenon
  <2>3. Load(s) <= hist.cpl[s] + Bonus(s)
    BY Zenon DEF MsixCounted
  <2>4. hist.msix[s] <= Load(s) /\ Load(s) \in Nat
    BY <1>2, <2>2 DEF Load
  <2>5. Load(s)' = hist.msix[s] + 0
    BY <1>1, ServerAssumption DEF Load, Sessions
  <2> QED
    BY <1>1, <2>1, <2>2, <2>3, <2>4, <2>5
<1>4. ASSUME Due' # 0 PROVE Credit'
  <2>1. Due # 0
    BY <1>2, <1>4
  <2>2. CASE sock = 0
    <3>1. Credit
      BY <2>1, <2>2, Zenon DEF MsixCounted
    <3>2. sst' = [s \in Sessions |-> "closed"]
      BY <2>2, Zenon DEF Drops
    <3> QED
      BY <1>1, <3>1, <3>2, Zenon DEF Credit
  <2>3. CASE sock \in Sessions
    <3>1. \A t \in Sessions : t = sock \/ sst[t] = "closed" => sst'[t] = "closed"
      BY <1>1, Zenon DEF Drops, Ends
    <3>2. CASE CompletionBefore(sock)
      <4>1. Credit
        BY <1>1, <2>3, <3>2, BonusCredit, Zenon
      <4> QED
        BY <1>1, <3>1, <4>1, Zenon DEF Credit
    <3>3. CASE ~CompletionBefore(sock)
      <4>1. Load(sock) <= hist.cpl[sock] + 0
        BY <2>3, <3>3, Zenon DEF MsixCounted, Bonus
      <4>2. Load(sock) = hist.msix[sock] + (Msixes(out[sock]) + Due)
        BY Zenon DEF Load
      <4>3. hist.cpl[sock] \in Nat /\ hist.msix[sock] \in Nat /\ Msixes(out[sock]) \in Nat
        BY <1>1, <2>3, CountFacts, Zenon
      <4>4. hist.cpl[sock] > hist.msix[sock]
        BY <1>2, <2>1, <4>1, <4>2, <4>3
      <4> QED
        BY <1>1, <2>3, <3>1, <4>4, Zenon DEF Credit
    <3> QED
      BY <3>2, <3>3, Zenon
  <2> QED
    BY <1>1, <2>2, <2>3, Zenon DEF TypeInv, WireType
<1> QED
  BY <1>3, <1>4, Zenon

\* An MSI-X that is received was on its way, and a completion that is stored
\* makes at most one more due.
LEMMA ServedKept ==
  ASSUME SeqInv, SeqInv', MsixCounted, kind' = kind, Move, StageStep, MsixStep \/ StoreStep
  PROVE  MsixCounted'
<1> SUFFICES ASSUME kind # "harness"
             PROVE  /\ \A s \in Sessions : Load(s)' <= hist'.cpl[s] + Bonus(s)'
                    /\ sock' = 0 /\ Due' # 0 => Credit'
  BY Zenon DEF MsixCounted
<1>1. /\ TypeInv /\ TypeInv' /\ Ends /\ Ends' /\ sock # 0 /\ sock' = sock /\ sst' = sst /\ call' = call
  BY Zenon DEF SeqInv, IdInv, MsixStep, StoreStep, callVars
<1>2. sock \in Sessions /\ hist.cpl \in Counts /\ hist.msix \in Counts
  BY <1>1, Zenon DEF TypeInv, WireType, HistRecord
<1>3. Due \in Nat /\ Due' \in Nat
  BY DueType, Zenon
<1>4. \A t \in Sessions : t # sock => hist'.cpl[t] = hist.cpl[t] /\ hist'.msix[t] = hist.msix[t]
  <2>1. CASE MsixStep
    <3>1. hist'.msix = [hist.msix EXCEPT ![sock] = @ + 1] /\ hist'.cpl = hist.cpl
      BY <2>1, Zenon DEF MsixStep
    <3> QED
      BY <1>2, <3>1, CountsOneMore
  <2>2. CASE StoreStep
    <3>1. hist'.cpl = [hist.cpl EXCEPT ![sock] = @ + 1] /\ hist'.msix = hist.msix
      BY <2>2, Zenon DEF StoreStep
    <3> QED
      BY <1>2, <3>1, CountsOneMore
  <2> QED
    BY <2>1, <2>2, Zenon
<1>5. ASSUME NEW s \in Sessions, s # sock PROVE Load(s)' <= hist'.cpl[s] + Bonus(s)'
  <2>1. Load(s) <= hist.cpl[s] + Bonus(s)
    BY Zenon DEF MsixCounted
  <2> QED
    BY <1>1, <1>2, <1>4, <1>5, <2>1, OthersLoad, Zenon
<1>6. Load(sock)' <= hist'.cpl[sock] + Bonus(sock)'
  <2>1. Bonus(sock)' = Bonus(sock) /\ Bonus(sock) \in 0..1
    <3>1. \A t \in Sessions : t < sock => t # sock
      BY <1>2, ServerAssumption DEF Sessions
    <3>2. \A t \in Sessions : t < sock => hist'.cpl[t] = hist.cpl[t] /\ hist'.msix[t] = hist.msix[t]
      BY <1>4, <3>1, Zenon
    <3>3. CompletionBefore(sock)' <=> CompletionBefore(sock)
      BY <1>1, <3>2, Zenon DEF CompletionBefore
    <3> QED
      BY <1>1, <3>3 DEF Bonus
  <2>2. /\ hist.cpl[sock] \in Nat /\ hist.msix[sock] \in Nat
        /\ Msixes(out[sock]) \in Nat /\ Msixes(out'[sock]) \in Nat
    BY <1>1, <1>2, CountFacts, Zenon DEF TypeInv, Counted
  <2>3. /\ hist.msix[sock] + (Msixes(out[sock]) + Due) <= hist.cpl[sock] + Bonus(sock)
        /\ Load(sock)' = hist'.msix[sock] + (Msixes(out'[sock]) + Due')
    BY <1>1, <1>2, Zenon DEF MsixCounted, Load
  <2>4. CASE MsixStep
    <3>1. /\ hist'.msix[sock] = hist.msix[sock] + 1 /\ hist'.cpl[sock] = hist.cpl[sock]
          /\ Msixes(out'[sock]) + 1 <= Msixes(out[sock])
      <4>1. hist'.msix = [hist.msix EXCEPT ![sock] = @ + 1] /\ hist'.cpl = hist.cpl /\ OutGrows(sock, 1)
        BY <2>4, Zenon DEF MsixStep
      <4>2. hist'.msix[sock] = hist.msix[sock] + 1
        BY <1>2, <4>1, Zenon DEF Counts
      <4> QED
        BY <4>1, <4>2, Zenon DEF OutGrows
    <3>2. Due' <= Due
      BY <1>1, <2>4, OwedStep, Zenon DEF MsixStep
    <3> QED
      BY <1>3, <2>1, <2>2, <2>3, <3>1, <3>2
  <2>5. CASE StoreStep
    <3>1. /\ hist'.cpl[sock] = hist.cpl[sock] + 1 /\ hist'.msix[sock] = hist.msix[sock]
          /\ Msixes(out'[sock]) + 0 <= Msixes(out[sock])
      <4>1. hist'.cpl = [hist.cpl EXCEPT ![sock] = @ + 1] /\ hist'.msix = hist.msix /\ OutGrows(sock, 0)
        BY <2>5, Zenon DEF StoreStep
      <4>2. hist'.cpl[sock] = hist.cpl[sock] + 1
        BY <1>2, <4>1, Zenon DEF Counts
      <4> QED
        BY <4>1, <4>2, Zenon DEF OutGrows
    <3>2. Due' <= Due + 1
      <4>1. MsixBegun' = MsixBegun
        BY <1>1, Zenon DEF MsixBegun
      <4>2. MsixBegun' + Owed' <= MsixBegun + Owed + 1
        BY <4>1, DueType, SumsOrdered, Zenon
      <4> QED
        BY <4>2, Zenon DEF Due
    <3> QED
      BY <1>3, <2>1, <2>2, <2>3, <3>1, <3>2
  <2> QED
    BY <2>4, <2>5, Zenon
<1> QED
  BY <1>1, <1>5, <1>6, Zenon

\* So in every step each interrupt received, on its way or due keeps a
\* completion of its own.
LEMMA MsixCountedStep ==
  ASSUME SeqInv, SeqInv', MsixCounted, kind' = kind, Move, StageStep, SessionStep,
         PlainStep \/ MsixStep \/ StoreStep
  PROVE  MsixCounted'
BY PlainKept, AcceptKept, DropKept, ServedKept, Zenon DEF SessionStep

-----------------------------------------------------------------------------
(* Register reads of the simulated endpoint.                               *)

\* What a step other than the register model's own can do to the port and to
\* the message being sent: the registers stay, the port is left alone or
\* emptied, and a read answer comes from the port.
PortStep ==
  /\ regs' = regs
  /\ stage' = "access" => \/ stage = "access" /\ rm' = rm
                          \/ rm'.rsp = NoMsg
  /\ call'.st = "send" => \/ call.st = "send" /\ call'.msg = call.msg
                          \/ call'.msg.type # "MMIO_READ_RSP"
                          \/ stage = "access" /\ call'.msg = rm.rsp

\* poll_and_dispatch empties the port before a register access.
LEMMA DpiPollPort == ASSUME TypeInv, DpiPoll PROVE PortStep
<1> DEFINE m == Head(inbound)
<1>1. m \in Message
  BY PollHead, Zenon DEF DpiPoll, ShimPoll
<1>2. CASE ResponseBegin(Reply(m, "RESET_RSP", NoData, 0, "SUCCESS")) /\ stage' = "answer"
  <2>1. "RESET_RSP" \in ResponseTypes /\ "SUCCESS" \in Statuses /\ 0 \in Nat
    BY Zenon DEF ResponseTypes, Statuses
  <2> HIDE DEF m
  <2>2. Reply(m, "RESET_RSP", NoData, 0, "SUCCESS").type = "RESET_RSP"
    BY <1>1, <2>1, ReplyType, Placeholders
  <2>3. call'.msg = Reply(m, "RESET_RSP", NoData, 0, "SUCCESS")
    BY <1>2, Zenon DEF ResponseBegin
  <2>4. regs' = regs
    BY Zenon DEF DpiPoll
  <2> QED
    BY <1>2, <2>2, <2>3, <2>4, Zenon DEF PortStep
<1>3. CASE rm' = Port(m) /\ UNCHANGED call
  <2>1. rm'.rsp = NoMsg
    BY <1>3, Zenon DEF Port, PortIdle
  <2> QED
    BY <1>3, <2>1, Zenon DEF DpiPoll, PortStep
<1>4. CASE stage' \in {"stop", "poll"} /\ UNCHANGED call
  BY <1>4, Zenon DEF DpiPoll, PortStep
<1> QED
  BY <1>2, <1>3, <1>4, Zenon DEF DpiPoll, ShimRespond

\* handle_mmio_write and handle_mmio_read send what the port holds.
LEMMA DpiTakePort == ASSUME DpiTake PROVE PortStep
BY Zenon DEF DpiTake, ShimRespond, ResponseBegin, PortStep

\* The DMA sequence sends no read answer.
LEMMA DpiDmaPort == ASSUME TypeInv, EpAnswered \/ EpDmaNext PROVE PortStep
<1>1. UNCHANGED <<in, out, regs>> /\ stage' # "access"
  BY Zenon DEF EpAnswered, EpDmaNext, sessionVars
<1>2. \/ UNCHANGED call
      \/ RequestBegin(DmaRequest("DMA_READ_REQ", regs.asq, NoData, 64, 0))
      \/ RequestBegin(DmaRequest("DMA_WRITE_REQ", regs.acq, Completion, 16, 16))
      \/ RequestBegin(DmaRequest("MSIX", 0, NoData, 0, 0))
  BY Zenon DEF EpAnswered, EpDmaNext
<1>3. UNCHANGED call \/ call'.msg.type # "MMIO_READ_RSP"
  BY <1>1, <1>2, DmaBeginFresh, Zenon
<1> QED
  BY <1>1, <1>3, Zenon DEF PortStep

\* A call that ends leaves the port alone.
LEMMA CallEndsPort == ASSUME TypeInv, CallSend \/ WaitEnds, UNCHANGED endVars PROVE PortStep
<1>1. call \in CallRecord
  BY Zenon DEF TypeInv, TableType
<1>2. call'.st # "send"
  BY <1>1, Zenon DEF CallSend, WaitEnds, CallRecord
<1> QED
  BY <1>2, Zenon DEF PortStep, endVars, epVars, dpiVars

\* Every step of the simulated endpoint's process is one or the other.
LEMMA PortSteps == ASSUME TypeInv, [Next]_vars, kind = "dpi" PROVE RegClock \/ PortStep
<1>1. CASE Dpi
  BY <1>1, DpiPollPort, DpiTakePort, DpiDmaPort
 , Zenon DEF Dpi, DpiDmaNext, ShimShutdown, EpStop, EpJoin, StopBegin, StopJoined, tableVars, PortStep
<1>2. CASE (CallSend \/ WaitAnswered \/ WaitTimeout) /\ UNCHANGED endVars
  BY <1>2, CallEndsPort, Zenon DEF WaitAnswered, WaitTimeout
<1>3. CASE UNCHANGED <<call, endVars>>
  BY <1>3, Zenon DEF PortStep, endVars, epVars, dpiVars
<1>4. CASE UNCHANGED vars
  BY <1>3, <1>4, Zenon DEF vars, serverVars, tableVars
<1> QED
  BY <1>1, <1>2, <1>3, <1>4, OthersKeepCall, Zenon DEF Next, Thread

\* While the registers stay, an exact answer stays exact, wherever it is kept.
LEMMA ExactKept ==
  ASSUME regs' = regs
  PROVE  /\ ReadExact(rm.rsp) /\ rm' = rm => ReadExact(rm.rsp)'
         /\ ReadExact(rm.rsp) /\ call'.msg = rm.rsp => ReadExact(call.msg)'
         /\ ReadExact(call.msg) /\ call'.msg = call.msg => ReadExact(call.msg)'
BY Zenon DEF ReadExact, SvValue, RegValue, Truncate

\* An answer made of the register's value is exact.
LEMMA ExactMade ==
  ASSUME regs' = regs, rm'.rsp.arg = rm.req.arg, rm'.rsp.plen = rm.req.len,
         rm'.rsp.data = Truncate(SvValue(rm.req.arg), rm.req.len)
  PROVE  ReadExact(rm.rsp)'
BY Zenon DEF ReadExact, SvValue, RegValue, Truncate

\* The fields of an answer.
LEMMA ReplyFields ==
  ASSUME NEW m, NEW t, NEW d, NEW n, NEW s
  PROVE  /\ Reply(m, t, d, n, s).type = t
         /\ Reply(m, t, d, n, s).arg = m.arg
         /\ Reply(m, t, d, n, s).data = d
         /\ Reply(m, t, d, n, s).plen = n
         /\ Reply(m, t, d, n, s).status = s
  BY Zenon DEF Reply

\* The register model answers a read with the value of the register.
LEMMA RegClockExact == ASSUME TypeInv, RegClock PROVE ReadExact(rm.rsp)'
<1> DEFINE m == rm.req
           v == Truncate(SvValue(m.arg), m.len)
<1>1. m \in Message /\ m.len \in Nat /\ m.type \in {"MMIO_READ_REQ", "MMIO_WRITE_REQ"} /\ rm \in PortRecord
  BY Zenon DEF TypeInv, EndType, RegClock, Message
<1>2. CASE rm' = [rm EXCEPT !.rsp = Reply(m, "MMIO_WRITE_RSP", NoData, 0, "SUCCESS"),
                            !.pulse = (m.arg = Sq0Doorbell)]
  <2>1. rm'.rsp = Reply(m, "MMIO_WRITE_RSP", NoData, 0, "SUCCESS")
    BY <1>1, <1>2, Zenon DEF PortRecord
  <2>2. rm'.rsp.type = "MMIO_WRITE_RSP"
    BY <2>1, ReplyFields, SMTT(30)
  <2> QED
    BY <2>2, Zenon DEF ReadExact
<1>3. CASE rm' = [rm EXCEPT !.rsp = Reply(m, "MMIO_READ_RSP", v, m.len, "SUCCESS")] /\ regs' = regs
  <2>1. rm'.rsp = Reply(m, "MMIO_READ_RSP", v, m.len, "SUCCESS")
    BY <1>1, <1>3, Zenon DEF PortRecord
  <2>2. rm'.rsp.data = v /\ rm'.rsp.arg = m.arg /\ rm'.rsp.plen = m.len
    BY <2>1, ReplyFields, SMTT(30)
  <2> QED
    BY <1>3, <2>2, ExactMade, Zenon
<1>4. CASE rm' = [rm EXCEPT !.rsp = Reply(m, Expected(m.type), NoData, 0, "INVALID_ADDRESS")]
  <2>1. rm'.rsp = Reply(m, Expected(m.type), NoData, 0, "INVALID_ADDRESS")
    BY <1>1, <1>4, Zenon DEF PortRecord
  <2>2. rm'.rsp.status = "INVALID_ADDRESS"
    BY <2>1, ReplyFields, SMTT(30)
  <2> QED
    BY <2>2, Zenon DEF ReadExact
<1> QED
  BY <1>2, <1>3, <1>4, Zenon DEF RegClock

\* Exactness is kept from the port to the wire.
LEMMA PortExactStep ==
  ASSUME TypeInv, PortExact, kind' = kind, kind = "dpi" => RegClock \/ PortStep PROVE PortExact'
<1> SUFFICES ASSUME kind = "dpi"
             PROVE  /\ stage' = "access" => ReadExact(rm.rsp)'
                    /\ call'.st = "send" => ReadExact(call.msg)'
  BY Zenon DEF PortExact
<1>1. CASE RegClock
  <2>1. call'.st = "idle"
    BY <1>1, Zenon DEF RegClock, serverVars, tableVars, TypeInv, EndType
  <2> QED
    BY <1>1, <2>1, RegClockExact, Zenon
<1>2. CASE PortStep
  <2>1. /\ stage = "access" => ReadExact(rm.rsp)
        /\ call.st = "send" => ReadExact(call.msg)
        /\ regs' = regs
    BY <1>2, Zenon DEF PortExact, PortStep
  <2>2. ASSUME stage' = "access" PROVE ReadExact(rm.rsp)'
    <3>1. CASE stage = "access" /\ rm' = rm
      BY <2>1, <3>1, ExactKept, Zenon
    <3>2. CASE rm'.rsp = NoMsg
      BY <3>2, Zenon DEF ReadExact
    <3> QED
      BY <1>2, <2>2, <3>1, <3>2, Zenon DEF PortStep
  <2>3. ASSUME call'.st = "send" PROVE ReadExact(call.msg)'
    <3>1. CASE call'.msg.type # "MMIO_READ_RSP"
      BY <3>1, Zenon DEF ReadExact
    <3> QED
      BY <1>2, <2>1, <2>3, <3>1, ExactKept, Zenon DEF PortStep
  <2> QED
    BY <2>2, <2>3, Zenon
<1> QED
  BY <1>1, <1>2, Zenon
=============================================================================
