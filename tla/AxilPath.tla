------------------------------ MODULE AxilPath ------------------------------
(***************************************************************************)
(* The register path of the Verilator build, cycle by cycle: Harness::Mmio *)
(* (verilator_qemu_main.cpp) counts ticks, alex_qemu_verilator_top turns   *)
(* an access into one or two dword TLPs, the third-party                   *)
(* pcie_axil_master_minimal puts them on AXI-Lite, and                     *)
(* axi_lite_slave_model answers.                                           *)
(*                                                                         *)
(* Everything but the master is clocked code of the repository and steps   *)
(* together in Clock.  The master is external: it takes one TLP at a time  *)
(* and may idle up to MaxStall cycles before each of its moves.            *)
(***************************************************************************)
EXTENDS Integers, Sequences

CONSTANTS
  Ops,         \* the accesses a guest makes: [wr, addr, len, data]
  MaxCalls,    \* bound: calls of Mmio
  MaxStall,    \* bound: cycles the AXI-Lite master idles before a move
  ReadyTicks,  \* ticks Mmio waits for mmio_req_ready (100)
  RspTicks,    \* ticks Mmio waits for mmio_rsp_valid (200)
  Timeout      \* cycles the FSM waits for the AXI-Lite answer (100)

Byte == {0, 1}                           \* two values per byte lane
Dword == [1..4 -> Byte]
Zero == <<0, 0, 0, 0>>

ASSUME AxilAssumption ==
  /\ {MaxCalls, MaxStall, ReadyTicks, RspTicks, Timeout} \subseteq Nat
  /\ \A o \in Ops : /\ o.wr \in BOOLEAN /\ o.addr \in Nat /\ o.len \in 0..8
                    /\ o.data \in Dword \X Dword

VARIABLES
  har,    \* harness: [pc, n, ticks, op, seen]; seen is doorbell_seen_
  fsm,    \* registers of alex_qemu_verilator_top
  mst,    \* the AXI-Lite master: [st, tlp, sent, cpl]
  slv,    \* registers of axi_lite_slave_model
  stall,  \* cycles the master has idled
  last    \* what the latest call of Mmio returned and main did after it

vars == <<har, fsm, mst, slv, stall, last>>

-----------------------------------------------------------------------------
(* axi_lite_slave_model.                                                   *)

Decode(addr) == addr % 8192              \* address[12:0]

ReadWrite == {\h14, \h24, \h28, \h2c, \h30, \h34, \h1040, \h1044, \h1048,
              \h104c, \h1050, \h1054, \h1058, \h105c}
Doorbell == \h1000                       \* SQ0TDBL
ValidWrite == ReadWrite \cup {Doorbell}   \* is_valid_write
ValidRead == ReadWrite \cup {\h0, \h1c}  \* is_valid_read

ReadValue(regs, addr) ==
  CASE addr = 0 -> <<1, 0, 0, 0>>
    [] addr \in DOMAIN regs -> regs[addr]
    [] OTHER -> Zero

ApplyWstrb(old, new, strb) == [k \in 1..4 |-> IF k \in strb THEN new[k] ELSE old[k]]

\* Registers after a write; CSTS is the enable bit of the new CC.
WriteRegs(regs, addr, tlp) ==
  LET new == ApplyWstrb(regs[addr], tlp.data, tlp.strb) IN
    IF addr = Doorbell THEN regs
    ELSE IF addr = \h14 THEN [regs EXCEPT ![addr] = new, ![\h1c] = <<new[1], 0, 0, 0>>]
    ELSE [regs EXCEPT ![addr] = new]

SlaveReset ==
  [aw |-> FALSE, w |-> FALSE, bvalid |-> FALSE, bresp |-> 0,
   rvalid |-> FALSE, rresp |-> 0, rdata |-> Zero, pulse |-> FALSE,
   regs |-> [a \in ReadWrite \cup {\h1c} |-> Zero]]

\* One clock.  A write is executed when both channels have arrived, a read
\* when its address is accepted.  (The master's TLP is still the one whose
\* address and data were staged.)  dma_doorbell_pulse and doorbell_value are
\* left out: nothing in this build reads them.
SlaveNext(g) ==
  LET exec == slv.aw /\ slv.w /\ ~slv.bvalid
      addr == Decode(mst.tlp.addr)
  IN  [aw |-> (slv.aw \/ "aw" \in g) /\ ~exec,
       w |-> (slv.w \/ "w" \in g) /\ ~exec,
       bvalid |-> exec \/ (slv.bvalid /\ "b" \notin g),
       bresp |-> IF ~exec THEN slv.bresp ELSE IF addr \in ValidWrite THEN 0 ELSE 3,
       regs |-> IF exec /\ addr \in ValidWrite THEN WriteRegs(slv.regs, addr, mst.tlp)
                                               ELSE slv.regs,
       pulse |-> exec /\ addr = Doorbell,
       rvalid |-> "ar" \in g \/ (slv.rvalid /\ "r" \notin g),
       rresp |-> IF "ar" \notin g THEN slv.rresp ELSE IF addr \in ValidRead THEN 0 ELSE 3,
       rdata |-> IF "ar" \notin g THEN slv.rdata
                 ELSE IF addr \in ValidRead THEN ReadValue(slv.regs, addr) ELSE Zero]

-----------------------------------------------------------------------------
(* pcie_axil_master_minimal.                                               *)

NoTlp == [wr |-> FALSE, addr |-> 0, strb |-> {}, data |-> Zero]
MasterReset == [st |-> "idle", tlp |-> NoTlp, sent |-> {}, cpl |-> [status |-> 0, data |-> Zero]]

\* The handshakes that can take place in this cycle.
Can(x) ==
  \/ x = "take" /\ mst.st = "idle" /\ fsm.valid
  \/ x = "aw" /\ mst.st = "write" /\ "aw" \notin mst.sent /\ ~slv.aw /\ ~slv.bvalid
  \/ x = "w" /\ mst.st = "write" /\ "w" \notin mst.sent /\ ~slv.w /\ ~slv.bvalid
  \/ x = "b" /\ mst.st = "write" /\ slv.bvalid
  \/ x = "ar" /\ mst.st = "read" /\ "ar" \notin mst.sent /\ ~slv.rvalid
  \/ x = "r" /\ mst.st = "read" /\ slv.rvalid
  \/ x = "cpl" /\ mst.st = "cpl"

Moves == {x \in {"take", "aw", "w", "b", "ar", "r", "cpl"} : Can(x)}

\* How a decode error on the read channel shows in the completion is the
\* master's business: err says whether it does.
MasterNext(g, err) ==
  CASE "take" \in g -> [st |-> IF fsm.tlp.wr THEN "write" ELSE "read", tlp |-> fsm.tlp,
                        sent |-> {}, cpl |-> mst.cpl]
    [] "b" \in g \/ "cpl" \in g -> [mst EXCEPT !.st = "idle"]
    [] "r" \in g -> [mst EXCEPT !.st = "cpl",
                                !.cpl = [status |-> IF slv.rresp # 0 /\ err THEN 1 ELSE 0,
                                         data |-> slv.rdata]]
    [] OTHER -> [mst EXCEPT !.sent = @ \cup g]

-----------------------------------------------------------------------------
(* alex_qemu_verilator_top.                                                *)

FsmReset ==
  [st |-> "IDLE", wr |-> FALSE, addr |-> 0, len |-> 0, data |-> <<Zero, Zero>>,
   off |-> 0, chunk |-> 0, low |-> Zero, status |-> 0, count |-> 0,
   valid |-> FALSE, tlp |-> NoTlp, rspValid |-> FALSE, rspData |-> <<Zero, Zero>>,
   rspStatus |-> 0, id |-> 0]

\* Mutant: ready whatever the FSM is doing.
Ready_Always == ~fsm.rspValid

Ready == fsm.st = "IDLE" /\ ~fsm.rspValid    \* mmio_req_ready

ByteEnable(offset, len) == {k \in 1..4 : k > offset /\ k <= offset + len}

Rest == fsm.len - fsm.off
ChunkLen == IF Rest >= 4 THEN 4 ELSE Rest

\* Mutant: both TLPs carry the low half of the data.
MakeTlp_LowHalf ==
  [wr |-> fsm.wr, addr |-> ((fsm.addr + fsm.off) \div 4) * 4,
   strb |-> ByteEnable((fsm.addr + fsm.off) % 4, ChunkLen), data |-> fsm.data[1]]

\* The data is not shifted to the lanes the byte enables select.
MakeTlp ==
  [wr |-> fsm.wr, addr |-> ((fsm.addr + fsm.off) \div 4) * 4,
   strb |-> ByteEnable((fsm.addr + fsm.off) % 4, ChunkLen),
   data |-> fsm.data[IF fsm.off = 0 THEN 1 ELSE 2]]

Respond(f, data, status) ==
  [f EXCEPT !.rspValid = TRUE, !.rspData = data, !.rspStatus = status]

\* ST_IDLE: an accepted request is latched, one of a bad length answered.
FsmIdle(f, req) ==
  IF ~req \/ ~Ready THEN f
  ELSE IF har.op.len \notin {1, 2, 4, 8}
  THEN Respond([f EXCEPT !.id = har.n], <<Zero, Zero>>, 3)
  ELSE [f EXCEPT !.st = "SEND", !.wr = har.op.wr, !.addr = har.op.addr, !.len = har.op.len,
                 !.data = har.op.data, !.off = 0, !.low = Zero, !.status = 0,
                 !.count = 0, !.id = har.n]

\* The end of one TLP: the next one, or the response.
FsmAnswered(f, err, data) ==
  LET status == IF err \/ f.status # 0 THEN 3 ELSE 0 IN
    IF f.off + f.chunk < f.len
    THEN [f EXCEPT !.status = IF err THEN 3 ELSE @, !.low = data,
                   !.off = @ + f.chunk, !.st = "SEND"]
    ELSE Respond([f EXCEPT !.st = "RESPONSE"],
                 IF f.wr THEN <<Zero, Zero>>
                 ELSE IF f.off = 0 THEN <<data, Zero>> ELSE <<f.low, data>>, status)

\* No answer in this cycle.
FsmWaiting(f) ==
  IF f.count = Timeout THEN Respond([f EXCEPT !.st = "RESPONSE"], f.rspData, 3)
                       ELSE [f EXCEPT !.count = @ + 1]

FsmNext(req, g) ==
  LET f == [fsm EXCEPT !.rspValid = FALSE] IN
    CASE fsm.st = "IDLE" -> FsmIdle(f, req)
      [] fsm.st = "SEND" -> [f EXCEPT !.chunk = ChunkLen, !.tlp = MakeTlp, !.valid = TRUE,
                                      !.count = 0, !.st = "HANDSHAKE"]
      [] fsm.st = "HANDSHAKE" ->
           IF "take" \in g
           THEN [f EXCEPT !.valid = FALSE, !.st = IF f.wr THEN "WRITE_WAIT" ELSE "READ_WAIT"]
           ELSE f
      [] fsm.st = "WRITE_WAIT" ->
           IF "b" \in g THEN FsmAnswered(f, slv.bresp # 0, f.low) ELSE FsmWaiting(f)
      [] fsm.st = "READ_WAIT" ->
           IF "cpl" \in g THEN FsmAnswered(f, mst.cpl.status # 0, mst.cpl.data)
                          ELSE FsmWaiting(f)
      [] fsm.st = "RESPONSE" -> [f EXCEPT !.st = "IDLE"]

-----------------------------------------------------------------------------
(* The harness.                                                            *)

NoOp == [wr |-> FALSE, addr |-> 0, len |-> 0, data |-> <<Zero, Zero>>]
NoLast == [ok |-> FALSE, op |-> NoOp, data |-> <<Zero, Zero>>, status |-> 0, ran |-> FALSE]

Init ==
  /\ har = [pc |-> "main", n |-> 0, ticks |-> 0, op |-> NoOp, seen |-> FALSE]
  /\ fsm = FsmReset /\ mst = MasterReset /\ slv = SlaveReset
  /\ stall = 0 /\ last = NoLast

\* Tick: one rising edge for the FSM, the master and the slave.
Clock(req) ==
  \E g \in SUBSET Moves, err \in (IF "r" \in Moves /\ slv.rresp # 0 THEN BOOLEAN ELSE {TRUE}) :
    /\ stall' = IF g = {} /\ Moves # {} THEN stall + 1 ELSE 0
    /\ stall' <= MaxStall
    /\ fsm' = FsmNext(req, g) /\ mst' = MasterNext(g, err) /\ slv' = SlaveNext(g)

\* Mutant: the pulse is looked at only when a call returns.
Seen_AtReturn(h) == h.seen \/ (h.pc = "main" /\ slv'.pulse)

\* doorbell_seen_ after a tick.
Seen(h) == h.seen \/ slv'.pulse

\* Mmio is called with the request valid low.
Call ==
  /\ har.pc = "main" /\ har.n < MaxCalls
  /\ \E o \in Ops :
       har' = [har EXCEPT !.pc = "ready", !.n = @ + 1, !.ticks = 0, !.op = o]
  /\ last' = NoLast
  /\ UNCHANGED <<fsm, mst, slv, stall>>

\* What main does when Mmio is back: the doorbell sequence runs if the
\* access was a write to 0x1000, whatever became of it, and a pulse was seen.
Return(ok, data, status, seen) ==
  LET ran == har.op.wr /\ har.op.addr = Doorbell /\ seen IN
    /\ last' = [ok |-> ok, op |-> har.op, data |-> data, status |-> status, ran |-> ran]
    /\ har' = [har EXCEPT !.pc = "main", !.ticks = 0, !.seen = seen /\ ~ran]

ReadyTick ==
  /\ har.pc = "ready" /\ ~Ready /\ har.ticks < ReadyTicks
  /\ Clock(FALSE)
  /\ har' = [har EXCEPT !.ticks = @ + 1, !.seen = Seen(har)]
  /\ UNCHANGED last

ReadyFails ==
  /\ har.pc = "ready" /\ ~Ready /\ har.ticks = ReadyTicks
  /\ Return(FALSE, <<Zero, Zero>>, 5, har.seen)
  /\ UNCHANGED <<fsm, mst, slv, stall>>

Issue ==
  /\ har.pc = "ready" /\ Ready
  /\ Clock(TRUE)
  /\ har' = [har EXCEPT !.pc = "wait", !.ticks = 0, !.seen = Seen(har)]
  /\ UNCHANGED last

WaitTick ==
  /\ har.pc = "wait" /\ ~fsm.rspValid /\ har.ticks < RspTicks
  /\ Clock(FALSE)
  /\ har' = [har EXCEPT !.ticks = @ + 1, !.seen = Seen(har)]
  /\ UNCHANGED last

WaitFails ==
  /\ har.pc = "wait" /\ ~fsm.rspValid /\ har.ticks = RspTicks
  /\ Return(FALSE, <<Zero, Zero>>, 5, har.seen)
  /\ UNCHANGED <<fsm, mst, slv, stall>>

Take ==
  /\ har.pc = "wait" /\ fsm.rspValid
  /\ Clock(FALSE)
  /\ Return(TRUE, fsm.rspData, fsm.rspStatus, Seen(har))

\* main finds nothing to do and ticks once.
MainTick ==
  /\ har.pc = "main"
  /\ Clock(FALSE)
  /\ har' = [har EXCEPT !.seen = Seen(har)]
  /\ UNCHANGED last

\* RESET_REQ: four ticks with rst high.  doorbell_seen_ stays.
Reset ==
  /\ har.pc = "main"
  /\ fsm' = [FsmReset EXCEPT !.id = fsm.id]
  /\ mst' = MasterReset /\ slv' = SlaveReset
  /\ stall' = 0 /\ last' = NoLast
  /\ UNCHANGED har

Next ==
  Call \/ ReadyTick \/ ReadyFails \/ Issue \/ WaitTick \/ WaitFails \/ Take \/ MainTick \/ Reset

Spec == Init /\ [][Next]_vars

-----------------------------------------------------------------------------
(* Properties.                                                             *)

\* The response Mmio takes is the one to the request it issued, also after
\* calls it gave up on while the FSM was still working: mmio_req_ready keeps
\* a request back until the earlier response has come and gone.
OwnResponse == har.pc = "wait" /\ fsm.rspValid => fsm.id = har.n

ByteAt(a) == ReadValue(slv.regs, Decode((a \div 4) * 4))[(a % 4) + 1]

\* A successful access of a dword address is exact, also when it was split
\* into two TLPs and when calls before it were given up: a write has reached
\* every byte it covers (other than of the doorbell, which stores nothing),
\* a read returns every byte it covers.
AccessExact ==
  last.ok /\ last.status = 0 /\ last.op.addr % 4 = 0 /\ Decode(last.op.addr) # Doorbell =>
    LET data == IF last.op.wr THEN last.op.data ELSE last.data
        bytes == data[1] \o data[2]
    IN  \A i \in 1..last.op.len : bytes[i] = ByteAt(last.op.addr + i - 1)

\* A doorbell write that succeeds runs the DMA sequence: the one-cycle pulse
\* of the slave is not missed by the harness, whenever it falls within the
\* call.
DoorbellRuns ==
  last.ok /\ last.status = 0 /\ last.op.wr /\ last.op.addr = Doorbell => last.ran
=============================================================================
