--------------------------- MODULE AxilPathProofs ---------------------------
(***************************************************************************)
(* Proofs about the register path of the Verilator build: what Mmio takes  *)
(* is the answer to its own request, a successful access is exact, and a   *)
(* successful doorbell write runs the DMA sequence, for every set of       *)
(* accesses, every number of calls and every choice of the three timeouts. *)
(*                                                                         *)
(* The hard case is a call that is given up: the FSM answers a timeout, or *)
(* Mmio stops waiting, while the master is still at work on the TLP.  The  *)
(* argument is that the path is serial all the same.  The master takes a   *)
(* TLP only when it has finished the one before, so in ST_WRITE_WAIT and   *)
(* ST_READ_WAIT it works on the FSM's own TLP, and the slave holds nothing *)
(* of an earlier one.                                                      *)
(***************************************************************************)
EXTENDS AxilPath, SequenceTheorems, TLAPS

-----------------------------------------------------------------------------
(* The inductive invariant.                                                *)

Tlp == [wr : BOOLEAN, addr : Nat, strb : SUBSET (1..4), data : Dword]
Registers == [ReadWrite \cup {\h1c} -> Dword]
Pair == Dword \X Dword
ZeroPair == <<Zero, Zero>>

FsmRecord ==
  [st : {"IDLE", "SEND", "HANDSHAKE", "WRITE_WAIT", "READ_WAIT", "RESPONSE"},
   wr : BOOLEAN, addr : Nat, len : Nat, data : Pair, off : Nat, chunk : Int, low : Dword,
   status : {0, 3}, count : Nat, valid : BOOLEAN, tlp : Tlp, rspValid : BOOLEAN,
   rspData : Pair, rspStatus : {0, 3}, id : Nat]
MasterRecord ==
  [st : {"idle", "write", "read", "cpl"}, tlp : Tlp, sent : SUBSET {"aw", "w", "ar"},
   cpl : [status : {0, 1}, data : Dword]]
SlaveRecord ==
  [aw : BOOLEAN, w : BOOLEAN, bvalid : BOOLEAN, bresp : {0, 3}, regs : Registers,
   pulse : BOOLEAN, rvalid : BOOLEAN, rresp : {0, 3}, rdata : Dword]
HarnessRecord ==
  [pc : {"main", "ready", "wait"}, n : Nat, ticks : Nat, op : Ops \cup {NoOp},
   seen : BOOLEAN]

FsmType == fsm \in FsmRecord
MasterType == mst \in MasterRecord
SlaveType == slv \in SlaveRecord
HarnessType == har \in HarnessRecord /\ (har.pc # "main" => har.op \in Ops)

\* The FSM works on a request.
Busy == fsm.st \in {"SEND", "HANDSHAKE", "WRITE_WAIT", "READ_WAIT"}

\* The TLP of the FSM is the one of its current offset, and what the master
\* works on while the FSM waits.
OneTlp ==
  /\ fsm.valid <=> fsm.st = "HANDSHAKE"
  /\ Busy => fsm.len \in {1, 2, 4, 8} /\ fsm.off \in {0, 4} /\ fsm.off < fsm.len
  /\ Busy /\ fsm.st # "SEND" => fsm.chunk = ChunkLen /\ fsm.tlp = MakeTlp
  /\ Busy /\ fsm.st # "SEND" /\ fsm.off = 0 /\ fsm.addr = Doorbell =>
       Decode(fsm.tlp.addr) = Doorbell
  /\ fsm.st = "WRITE_WAIT" => fsm.wr /\ mst.st = "write" /\ mst.tlp = fsm.tlp
  /\ fsm.st = "READ_WAIT" => ~fsm.wr /\ mst.st \in {"read", "cpl"} /\ mst.tlp = fsm.tlp
  /\ fsm.st \in {"SEND", "HANDSHAKE"} /\ fsm.off # 0 => mst.st = "idle"

\* The slave holds nothing but the channels of the master's TLP.
OneTransfer ==
  /\ mst.st # "write" => ~slv.aw /\ ~slv.w /\ ~slv.bvalid
  /\ mst.st # "read" => ~slv.rvalid
  /\ slv.aw => "aw" \in mst.sent
  /\ slv.w => "w" \in mst.sent
  /\ slv.bvalid => ~slv.aw /\ ~slv.w

\* A response is up for the cycle of ST_RESPONSE, or of ST_IDLE for a bad
\* length; after a success the master is idle.
OneResponse ==
  /\ fsm.rspValid => fsm.st \in {"IDLE", "RESPONSE"}
  /\ fsm.st = "RESPONSE" => fsm.rspValid
  /\ fsm.rspValid /\ fsm.rspStatus = 0 => fsm.st = "RESPONSE" /\ mst.st = "idle"

\* The request the FSM works on is the one Mmio waits for.
OwnRequest ==
  har.pc = "wait" =>
    /\ fsm.id = har.n
    /\ fsm.st = "IDLE" => fsm.rspValid
    /\ fsm.st # "IDLE" => /\ fsm.wr = har.op.wr /\ fsm.addr = har.op.addr
                          /\ fsm.len = har.op.len /\ fsm.data = har.op.data

\* A doorbell write that has got so far has been seen.
Rung ==
  har.pc = "wait" /\ har.op.wr /\ har.op.addr = Doorbell =>
    /\ fsm.st = "WRITE_WAIT" /\ slv.bvalid /\ fsm.off = 0 => har.seen
    /\ Busy /\ fsm.off # 0 => har.seen
    /\ fsm.rspValid /\ fsm.rspStatus = 0 => har.seen

-----------------------------------------------------------------------------
(* What has been transferred is in the registers.                          *)

\* The dword at a.
Word(regs, a) == ReadValue(regs, Decode(a))

\* The bytes of d that strb selects are at a.
Reached(regs, a, d, strb) ==
  /\ Decode(a) \in ValidWrite
  /\ Decode(a) # Doorbell => \A k \in strb : Word(regs, a)[k] = d[k]

\* The n bytes of d are what is at a and at a + 4.
Exact(regs, a, n, d) ==
  a % 4 = 0 /\ Decode(a) # Doorbell =>
    /\ \A k \in 1..4 : k <= n => Word(regs, a)[k] = d[1][k]
    /\ \A k \in 1..4 : k + 4 <= n => Word(regs, a + 4)[k] = d[2][k]

\* The answer on its way is right.
AnswerRight ==
  /\ slv.bvalid /\ slv.bresp = 0 => Reached(slv.regs, mst.tlp.addr, mst.tlp.data, mst.tlp.strb)
  /\ slv.rvalid => slv.rdata = Word(slv.regs, mst.tlp.addr)
  /\ mst.st = "cpl" => mst.cpl.data = Word(slv.regs, mst.tlp.addr)

\* So is the half of a split access that was answered.
HalfRight ==
  Busy /\ fsm.off # 0 /\ fsm.status = 0 /\ fsm.addr % 4 = 0 =>
    IF fsm.wr THEN Reached(slv.regs, fsm.addr, fsm.data[1], 1..4)
    ELSE fsm.low = Word(slv.regs, fsm.addr)

\* So is the response, and what main was given until the next call.
ResponseRight ==
  fsm.rspValid /\ fsm.rspStatus = 0 =>
    Exact(slv.regs, fsm.addr, fsm.len, IF fsm.wr THEN fsm.data ELSE fsm.rspData)

LastRight ==
  last.ok /\ last.status = 0 =>
    /\ har.pc = "main" /\ fsm.st = "IDLE" /\ mst.st = "idle"
    /\ last.op \in Ops /\ last.data \in Pair
    /\ Exact(slv.regs, last.op.addr, last.op.len, IF last.op.wr THEN last.op.data ELSE last.data)

Types == FsmType /\ MasterType /\ SlaveType /\ HarnessType
Serial == OneTlp /\ OneTransfer /\ OneResponse

\* The clocked parts, and with them the harness.
PathInv ==
  FsmType /\ MasterType /\ SlaveType /\ Serial /\ AnswerRight /\ HalfRight /\ ResponseRight
AxilInv == PathInv /\ HarnessType /\ OwnRequest /\ Rung /\ LastRight /\ DoorbellRuns

-----------------------------------------------------------------------------
(* What one clock does, field by field.                                    *)

\* A handshake takes place only in the state it belongs to.
MovesIn(g) ==
  /\ g \subseteq {"take", "aw", "w", "b", "ar", "r", "cpl"}
  /\ "take" \in g => mst.st = "idle" /\ fsm.valid
  /\ "aw" \in g => mst.st = "write" /\ "aw" \notin mst.sent /\ ~slv.bvalid
  /\ "w" \in g => mst.st = "write" /\ "w" \notin mst.sent /\ ~slv.bvalid
  /\ "b" \in g => mst.st = "write" /\ slv.bvalid
  /\ "ar" \in g => mst.st = "read" /\ ~slv.rvalid
  /\ "r" \in g => mst.st = "read" /\ slv.rvalid
  /\ "cpl" \in g => mst.st = "cpl"

MasterTakes(g) ==
  /\ "take" \in g /\ mst'.st = (IF fsm.tlp.wr THEN "write" ELSE "read")
  /\ mst'.tlp = fsm.tlp /\ mst'.sent = {}
MasterEnds(g) ==
  /\ "b" \in g \/ "cpl" \in g
  /\ mst'.st = "idle" /\ mst'.tlp = mst.tlp /\ mst'.sent = mst.sent
MasterReads(g) ==
  /\ "r" \in g
  /\ mst'.st = "cpl" /\ mst'.tlp = mst.tlp /\ mst'.sent = mst.sent
  /\ mst'.cpl.data = slv.rdata
MasterWorks(g) ==
  /\ {"take", "b", "cpl", "r"} \cap g = {}
  /\ mst'.st = mst.st /\ mst'.tlp = mst.tlp /\ mst'.sent = mst.sent \cup g
  /\ mst'.cpl = mst.cpl
MasterStep(g) == MasterTakes(g) \/ MasterEnds(g) \/ MasterReads(g) \/ MasterWorks(g)

\* The latched request.
Latched ==
  fsm'.wr = fsm.wr /\ fsm'.addr = fsm.addr /\ fsm'.len = fsm.len /\ fsm'.data = fsm.data
    /\ fsm'.id = fsm.id
\* How far the FSM is with it.
Progress ==
  fsm'.off = fsm.off /\ fsm'.chunk = fsm.chunk /\ fsm'.low = fsm.low
    /\ fsm'.status = fsm.status /\ fsm'.tlp = fsm.tlp
Silent == fsm'.rspValid = FALSE

FsmRests(req) ==
  /\ fsm.st \in {"IDLE", "RESPONSE"} /\ ~req
  /\ fsm'.st = "IDLE" /\ Silent /\ fsm'.valid = fsm.valid
  /\ Latched
FsmRejects(req) ==
  /\ fsm.st = "IDLE" /\ req
  /\ fsm'.st = "IDLE" /\ fsm'.rspValid = TRUE /\ fsm'.rspStatus = 3
  /\ fsm'.valid = fsm.valid /\ fsm'.id = har.n
FsmAccepts(req) ==
  /\ fsm.st = "IDLE" /\ req /\ har.op.len \in {1, 2, 4, 8}
  /\ fsm'.st = "SEND" /\ fsm'.off = 0 /\ Silent /\ fsm'.valid = fsm.valid
  /\ fsm'.wr = har.op.wr /\ fsm'.addr = har.op.addr /\ fsm'.len = har.op.len
  /\ fsm'.data = har.op.data /\ fsm'.id = har.n
FsmSends ==
  /\ fsm.st = "SEND" /\ fsm'.st = "HANDSHAKE" /\ fsm'.valid = TRUE /\ Silent
  /\ fsm'.chunk = ChunkLen /\ fsm'.tlp = MakeTlp
  /\ fsm'.off = fsm.off /\ fsm'.low = fsm.low /\ fsm'.status = fsm.status
  /\ Latched
FsmOffers(g) ==
  /\ fsm.st = "HANDSHAKE" /\ Silent /\ Latched /\ Progress
  /\ \/ "take" \notin g /\ fsm'.st = "HANDSHAKE" /\ fsm'.valid = fsm.valid
     \/ /\ "take" \in g /\ fsm'.valid = FALSE
        /\ fsm'.st = (IF fsm.wr THEN "WRITE_WAIT" ELSE "READ_WAIT")
Waiting(g) ==
  \/ fsm.st = "WRITE_WAIT" /\ "b" \notin g
  \/ fsm.st = "READ_WAIT" /\ "cpl" \notin g
FsmWaits(g) ==
  /\ Waiting(g) /\ fsm'.valid = fsm.valid /\ Latched
  /\ \/ fsm'.st = fsm.st /\ Silent /\ Progress
     \/ fsm'.st = "RESPONSE" /\ fsm'.rspValid = TRUE /\ fsm'.rspStatus = 3
\* The answer that ends a TLP: an error, and the data of a read.
Answer(g, err, data) ==
  \/ /\ fsm.st = "WRITE_WAIT" /\ "b" \in g
     /\ err = (slv.bresp # 0) /\ data = fsm.low
  \/ /\ fsm.st = "READ_WAIT" /\ "cpl" \in g
     /\ err = (mst.cpl.status # 0) /\ data = mst.cpl.data
FsmGoesOn(g) ==
  \E err \in BOOLEAN, data \in Dword :
    /\ Answer(g, err, data) /\ fsm.off + fsm.chunk < fsm.len
    /\ fsm'.st = "SEND" /\ fsm'.off = fsm.off + fsm.chunk /\ fsm'.low = data
    /\ fsm'.status = 0 => ~err /\ fsm.status = 0
    /\ Silent /\ fsm'.valid = fsm.valid /\ Latched
FsmResponds(g) ==
  \E err \in BOOLEAN, data \in Dword :
    /\ Answer(g, err, data) /\ ~(fsm.off + fsm.chunk < fsm.len)
    /\ fsm'.st = "RESPONSE" /\ fsm'.rspValid = TRUE
    /\ fsm'.rspStatus = 0 => ~err /\ fsm.status = 0
    /\ ~fsm.wr => fsm'.rspData = (IF fsm.off = 0 THEN <<data, Zero>> ELSE <<fsm.low, data>>)
    /\ fsm'.valid = fsm.valid /\ Latched
FsmStep(req, g) ==
  \/ FsmRests(req) \/ FsmRejects(req) \/ FsmAccepts(req) \/ FsmSends
  \/ FsmOffers(g) \/ FsmWaits(g) \/ FsmGoesOn(g) \/ FsmResponds(g)

Executes == slv.aw /\ slv.w /\ ~slv.bvalid
Target == Decode(mst.tlp.addr)
SlaveStep(g) ==
  /\ slv'.aw <=> ((slv.aw \/ "aw" \in g) /\ ~Executes)
  /\ slv'.w <=> ((slv.w \/ "w" \in g) /\ ~Executes)
  /\ slv'.bvalid <=> (Executes \/ (slv.bvalid /\ "b" \notin g))
  /\ slv'.bresp = (IF ~Executes THEN slv.bresp ELSE IF Target \in ValidWrite THEN 0 ELSE 3)
  /\ slv'.regs = (IF Executes /\ Target \in ValidWrite
                  THEN WriteRegs(slv.regs, Target, mst.tlp) ELSE slv.regs)
  /\ slv'.pulse <=> (Executes /\ Target = Doorbell)
  /\ slv'.rvalid <=> ("ar" \in g \/ (slv.rvalid /\ "r" \notin g))
  /\ slv'.rdata = (IF "ar" \notin g THEN slv.rdata
                   ELSE IF Target \in ValidRead THEN ReadValue(slv.regs, Target) ELSE Zero)

Ticks(req, g) == MovesIn(g) /\ FsmStep(req, g) /\ MasterStep(g) /\ SlaveStep(g)

-----------------------------------------------------------------------------
(* The operators of the slave.                                             *)

\* apply_wstrb: a dword again, with the selected lanes of the new one.
LEMMA WstrbFacts ==
  ASSUME NEW old \in Dword, NEW new \in Dword, NEW strb \in SUBSET (1..4)
  PROVE  /\ ApplyWstrb(old, new, strb) \in Dword
         /\ \A k \in strb : ApplyWstrb(old, new, strb)[k] = new[k]
BY Zenon DEF ApplyWstrb, Dword

\* The words of a reset are dwords.
LEMMA ZeroWord == Zero \in Dword /\ <<1, 0, 0, 0>> \in Dword
BY DEF Zero, Dword, Byte

\* read_value is a dword, whatever the address.
LEMMA ReadValueType ==
  ASSUME NEW regs \in Registers, NEW a
  PROVE  ReadValue(regs, a) \in Dword
<1>0. 0 \notin ReadWrite \cup {\h1c}
  BY DEF ReadWrite
<1>1. CASE a = 0
  BY <1>0, <1>1, ZeroWord, Zenon DEF ReadValue, Registers
<1>2. CASE a # 0 /\ a \in DOMAIN regs
  BY <1>2, Zenon DEF ReadValue, Registers
<1>3. CASE a # 0 /\ a \notin DOMAIN regs
  BY <1>3, ZeroWord, Zenon DEF ReadValue
<1>4. QED
  BY <1>1, <1>2, <1>3, Zenon

\* A write to a register leaves the selected lanes there, and changes no other
\* register but CSTS when it is CC that is written.
LEMMA WriteRegsFacts ==
  ASSUME NEW regs \in Registers, NEW tlp \in Tlp, NEW a \in ValidWrite
  PROVE  /\ WriteRegs(regs, a, tlp) \in Registers
         /\ a # Doorbell =>
              \A k \in tlp.strb : ReadValue(WriteRegs(regs, a, tlp), a)[k] = tlp.data[k]
         /\ \A b : b # a /\ ~(a = \h14 /\ b = \h1c) =>
              ReadValue(WriteRegs(regs, a, tlp), b) = ReadValue(regs, b)
<1> DEFINE new == ApplyWstrb(regs[a], tlp.data, tlp.strb)
<1> DEFINE csts == <<new[1], 0, 0, 0>>
<1> DEFINE after == WriteRegs(regs, a, tlp)
<1>a. a # 0 /\ a # \h1c
  BY DEF ValidWrite, ReadWrite, Doorbell
<1>b. a # Doorbell => a \in ReadWrite
  BY DEF ValidWrite, Doorbell
<1>c. tlp.data \in Dword /\ tlp.strb \in SUBSET (1..4)
  BY Zenon DEF Tlp
<1>d. a # Doorbell => /\ new \in Dword
                        /\ \A k \in tlp.strb : new[k] = tlp.data[k]
  <2>1. a # Doorbell => regs[a] \in Dword
    BY <1>b, Zenon DEF Registers
  <2>2. QED
    BY <2>1, <1>c, WstrbFacts, Zenon
<1>e. a = Doorbell => after = regs
  BY DEF WriteRegs, Doorbell
<1>f. a = \h14 => after = [regs EXCEPT ![a] = new, ![\h1c] = csts]
  BY DEF WriteRegs, Doorbell
<1>g. a # Doorbell /\ a # \h14 => after = [regs EXCEPT ![a] = new]
  BY DEF WriteRegs, Doorbell
<1>h. a = \h14 => a # Doorbell
  BY DEF Doorbell
<1>i. new \in Dword => csts \in Dword
  BY DEF Dword, Byte
<1> HIDE DEF csts, new, after
<1>1. CASE a = Doorbell
  BY <1>1, <1>e, Zenon DEF after
<1>2. CASE a = \h14
  <2>4. /\ after \in Registers /\ DOMAIN after = DOMAIN regs /\ a \in DOMAIN regs
        /\ after[a] = new
        /\ \A b \in DOMAIN regs : b # a /\ b # \h1c => after[b] = regs[b]
    BY <1>2, <1>f, <1>i, <1>a, <1>b, <1>d, <1>h, Zenon DEF Registers
  <2>5. ReadValue(after, a) = new
    BY <2>4, <1>a, Zenon DEF ReadValue
  <2>6. \A b : b # a /\ b # \h1c => ReadValue(after, b) = ReadValue(regs, b)
    BY <2>4, Zenon DEF ReadValue
  <2>7. QED
    BY <2>4, <2>5, <2>6, <1>d, <1>2, <1>h, Zenon DEF after
<1>3. CASE a # \h14 /\ a # Doorbell
  <2>4. /\ after \in Registers /\ DOMAIN after = DOMAIN regs /\ a \in DOMAIN regs
        /\ after[a] = new
        /\ \A b \in DOMAIN regs : b # a => after[b] = regs[b]
    BY <1>3, <1>b, <1>d, <1>g, Zenon DEF Registers
  <2>5. ReadValue(after, a) = new
    BY <2>4, <1>a, Zenon DEF ReadValue
  <2>6. \A b : b # a => ReadValue(after, b) = ReadValue(regs, b)
    BY <2>4, Zenon DEF ReadValue
  <2>7. QED
    BY <2>4, <2>5, <2>6, <1>d, <1>3, Zenon DEF after
<1>4. QED
  BY <1>1, <1>2, <1>3, Zenon

-----------------------------------------------------------------------------
(* One clock of each part.                                                 *)

\* The handshakes of a cycle fit the states of the master and the slave.
LEMMA MovesFit ==
  ASSUME NEW g \in SUBSET Moves
  PROVE  MovesIn(g)
<1>1. \A x \in g : x \in {"take", "aw", "w", "b", "ar", "r", "cpl"} /\ Can(x)
  BY Zenon DEF Moves
<1>2. QED
  BY <1>1 DEF MovesIn, Can

\* The master takes a TLP, ends it, has read, or goes on.
LEMMA MasterDoes ==
  ASSUME FsmType, MasterType, SlaveType, NEW g, NEW err, MovesIn(g),
         mst' = MasterNext(g, err)
  PROVE  MasterStep(g) /\ MasterType'
<1>a. fsm.tlp \in Tlp /\ fsm.tlp.wr \in BOOLEAN /\ slv.rdata \in Dword
  BY Zenon DEF FsmType, FsmRecord, SlaveType, SlaveRecord, Tlp
<1>1. CASE "take" \in g
  <2>1. "b" \notin g /\ "cpl" \notin g /\ "r" \notin g
    BY <1>1, Zenon DEF MovesIn
  <2>2. mst' = [st |-> IF fsm.tlp.wr THEN "write" ELSE "read", tlp |-> fsm.tlp,
                sent |-> {}, cpl |-> mst.cpl]
    BY <1>1, <2>1, Zenon DEF MasterNext
  <2>3. QED
    BY <1>1, <1>a, <2>2 DEF MasterStep, MasterTakes, MasterType, MasterRecord
<1>2. CASE "b" \in g \/ "cpl" \in g
  <2>1. "take" \notin g /\ "r" \notin g
    BY <1>2, Zenon DEF MovesIn
  <2>2. mst' = [mst EXCEPT !.st = "idle"]
    BY <1>2, <2>1, Zenon DEF MasterNext
  <2>3. QED
    BY <1>2, <2>2 DEF MasterStep, MasterEnds, MasterType, MasterRecord
<1>3. CASE "r" \in g
  <2>1. "take" \notin g /\ "b" \notin g /\ "cpl" \notin g
    BY <1>3, Zenon DEF MovesIn
  <2> DEFINE status == IF slv.rresp # 0 /\ err THEN 1 ELSE 0
  <2>2. mst' = [mst EXCEPT !.st = "cpl", !.cpl = [status |-> status, data |-> slv.rdata]]
    BY <1>3, <2>1, Zenon DEF MasterNext
  <2>3. status \in {0, 1}
    BY Zenon
  <2> HIDE DEF status
  <2> DEFINE cpl == [status |-> status, data |-> slv.rdata]
  <2>4. cpl \in [status : {0, 1}, data : Dword] /\ cpl.data = slv.rdata
    BY <1>a, <2>3, Zenon
  <2> HIDE DEF cpl
  <2>5. MasterType'
    BY <2>2, <2>4, Zenon DEF MasterType, MasterRecord, cpl
  <2>6. mst'.st = "cpl" /\ mst'.tlp = mst.tlp /\ mst'.sent = mst.sent /\ mst'.cpl = cpl
    BY <2>2 DEF MasterType, MasterRecord, cpl
  <2>7. QED
    BY <1>3, <2>4, <2>5, <2>6, Zenon DEF MasterStep, MasterReads
<1>4. CASE {"take", "b", "cpl", "r"} \cap g = {}
  <2>1. "take" \notin g /\ "b" \notin g /\ "cpl" \notin g /\ "r" \notin g
    BY <1>4, Zenon
  <2>2. mst' = [mst EXCEPT !.sent = @ \cup g]
    BY <2>1, Zenon DEF MasterNext
  <2>3. g \subseteq {"aw", "w", "ar"}
    BY <2>1, Zenon DEF MovesIn
  <2>4. QED
    BY <1>4, <2>2, <2>3 DEF MasterStep, MasterWorks, MasterType, MasterRecord
<1>5. QED
  BY <1>1, <1>2, <1>3, <1>4, Zenon

\* The slave stages the channels, executes, and answers.
LEMMA SlaveDoes ==
  ASSUME MasterType, SlaveType, NEW g, slv' = SlaveNext(g)
  PROVE  SlaveStep(g) /\ SlaveType'
<1>a. /\ mst.tlp \in Tlp /\ slv.regs \in Registers /\ slv.rdata \in Dword
      /\ slv.aw \in BOOLEAN /\ slv.w \in BOOLEAN /\ slv.bvalid \in BOOLEAN
      /\ slv.rvalid \in BOOLEAN /\ slv.bresp \in {0, 3} /\ slv.rresp \in {0, 3}
  BY Zenon DEF MasterType, MasterRecord, SlaveType, SlaveRecord
<1>b. Target \in ValidWrite => WriteRegs(slv.regs, Target, mst.tlp) \in Registers
  BY <1>a, WriteRegsFacts, Zenon
<1>c. ReadValue(slv.regs, Target) \in Dword /\ Zero \in Dword
  BY <1>a, ReadValueType, ZeroWord, Zenon
<1> DEFINE next ==
      [aw |-> (slv.aw \/ "aw" \in g) /\ ~Executes,
       w |-> (slv.w \/ "w" \in g) /\ ~Executes,
       bvalid |-> Executes \/ (slv.bvalid /\ "b" \notin g),
       bresp |-> IF ~Executes THEN slv.bresp ELSE IF Target \in ValidWrite THEN 0 ELSE 3,
       regs |-> IF Executes /\ Target \in ValidWrite
                THEN WriteRegs(slv.regs, Target, mst.tlp) ELSE slv.regs,
       pulse |-> Executes /\ Target = Doorbell,
       rvalid |-> "ar" \in g \/ (slv.rvalid /\ "r" \notin g),
       rresp |-> IF "ar" \notin g THEN slv.rresp ELSE IF Target \in ValidRead THEN 0 ELSE 3,
       rdata |-> IF "ar" \notin g THEN slv.rdata
                 ELSE IF Target \in ValidRead THEN ReadValue(slv.regs, Target) ELSE Zero]
<1>1. slv' = next
  BY SMTT(20) DEF SlaveNext, Executes, Target, Doorbell
<1>2. SlaveStep(g)
  <2>1. /\ slv'.aw = next.aw /\ slv'.w = next.w /\ slv'.bvalid = next.bvalid
        /\ slv'.bresp = next.bresp /\ slv'.regs = next.regs /\ slv'.pulse = next.pulse
        /\ slv'.rvalid = next.rvalid /\ slv'.rdata = next.rdata
    BY <1>1, Zenon
  <2>2. QED
    BY <2>1, Zenon DEF SlaveStep
<1>3. /\ next.aw \in BOOLEAN /\ next.w \in BOOLEAN /\ next.bvalid \in BOOLEAN
      /\ next.pulse \in BOOLEAN /\ next.rvalid \in BOOLEAN
  BY Zenon
<1>4. /\ next.bresp \in {0, 3} /\ next.rresp \in {0, 3}
      /\ next.regs \in Registers /\ next.rdata \in Dword
  BY <1>a, <1>b, <1>c, Zenon
<1>5. QED
  BY <1>1, <1>2, <1>3, <1>4, Zenon DEF SlaveType, SlaveRecord

\* The fields of the FSM, typed.
LEMMA FsmFields ==
  ASSUME FsmType
  PROVE  /\ fsm.wr \in BOOLEAN /\ fsm.addr \in Nat /\ fsm.len \in Nat /\ fsm.data \in Pair
         /\ fsm.off \in Nat /\ fsm.chunk \in Int /\ fsm.low \in Dword
         /\ fsm.status \in {0, 3} /\ fsm.count \in Nat /\ fsm.tlp \in Tlp
         /\ fsm.valid \in BOOLEAN /\ fsm.rspValid \in BOOLEAN
         /\ fsm.rspData \in Pair /\ fsm.rspStatus \in {0, 3} /\ fsm.id \in Nat
         /\ fsm.st \in {"IDLE", "SEND", "HANDSHAKE", "WRITE_WAIT", "READ_WAIT", "RESPONSE"}
BY Zenon DEF FsmType, FsmRecord

\* make_tlp: a dword TLP with the enables of the chunk.
LEMMA TlpFacts ==
  ASSUME FsmType
  PROVE  /\ MakeTlp \in Tlp /\ ChunkLen \in Int
         /\ MakeTlp.wr = fsm.wr
         /\ fsm.off = 0 /\ fsm.addr = Doorbell => Decode(MakeTlp.addr) = Doorbell
<1>a. /\ fsm.wr \in BOOLEAN /\ fsm.addr \in Nat /\ fsm.len \in Nat /\ fsm.off \in Nat
      /\ fsm.data[1] \in Dword /\ fsm.data[2] \in Dword
  BY FsmFields DEF Pair
<1> DEFINE ad == ((fsm.addr + fsm.off) \div 4) * 4
<1> DEFINE be == ByteEnable((fsm.addr + fsm.off) % 4, ChunkLen)
<1> DEFINE da == fsm.data[IF fsm.off = 0 THEN 1 ELSE 2]
<1>b. ad \in Nat
  BY <1>a
<1>c. ChunkLen \in Int
  BY <1>a DEF ChunkLen, Rest
<1>d. be \in SUBSET (1..4)
  BY Zenon DEF ByteEnable
<1>e. da \in Dword
  BY <1>a, Zenon
<1>f. fsm.off = 0 /\ fsm.addr = Doorbell => Decode(ad) = Doorbell
  BY DEF Doorbell, Decode
<1>g. MakeTlp = [wr |-> fsm.wr, addr |-> ad, strb |-> be, data |-> da]
  BY Zenon DEF MakeTlp
<1> HIDE DEF ad, be, da
<1>h. MakeTlp \in Tlp /\ MakeTlp.wr = fsm.wr /\ MakeTlp.addr = ad
  BY <1>a, <1>b, <1>d, <1>e, <1>g, Zenon DEF Tlp
<1>i. QED
  BY <1>c, <1>f, <1>h, Zenon

\* ST_IDLE and ST_RESPONSE: a request is accepted, rejected, or there is none.
LEMMA FsmIdleDoes ==
  ASSUME FsmType, NEW req \in BOOLEAN, NEW g, fsm' = FsmNext(req, g),
         har \in HarnessRecord, req => Ready /\ har.op \in Ops,
         fsm.st \in {"IDLE", "RESPONSE"}
  PROVE  FsmStep(req, g) /\ FsmType'
<1> DEFINE f == [fsm EXCEPT !.rspValid = FALSE]
<1>a. f \in FsmRecord /\ f.rspValid = FALSE
  BY Zenon DEF FsmType, FsmRecord
<1>b. /\ f.wr = fsm.wr /\ f.addr = fsm.addr /\ f.len = fsm.len /\ f.data = fsm.data
      /\ f.id = fsm.id /\ f.valid = fsm.valid /\ f.st = fsm.st
  BY DEF FsmType, FsmRecord
<1>c. har.n \in Nat
  BY Zenon DEF HarnessRecord
<1>d. ZeroPair \in Pair
  BY ZeroWord, Zenon DEF Pair, ZeroPair
<1>e. /\ fsm.st = "IDLE" => fsm' = FsmIdle(f, req)
      /\ fsm.st = "RESPONSE" => fsm' = [f EXCEPT !.st = "IDLE"]
  BY Zenon DEF FsmNext
<1> HIDE DEF f
<1>1. CASE fsm.st = "RESPONSE"
  <2>1. fsm' = [f EXCEPT !.st = "IDLE"] /\ ~req
    BY <1>1, <1>e, Zenon DEF Ready
  <2>2. FsmType'
    BY <1>a, <2>1, Zenon DEF FsmType, FsmRecord
  <2>3. FsmRests(req)
    BY <1>1, <1>a, <1>b, <2>1 DEF FsmRests, Latched, Silent, FsmRecord
  <2>4. QED
    BY <2>2, <2>3, Zenon DEF FsmStep
<1>2. CASE fsm.st = "IDLE" /\ ~req
  <2>1. fsm' = f
    BY <1>2, <1>e, Zenon DEF FsmIdle
  <2>2. QED
    BY <1>2, <1>a, <1>b, <2>1, Zenon DEF FsmStep, FsmRests, Latched, Silent, FsmType
<1>3. CASE fsm.st = "IDLE" /\ req /\ har.op.len \notin {1, 2, 4, 8}
  <2> DEFINE i == [f EXCEPT !.id = har.n]
  <2>1. fsm' = [i EXCEPT !.rspValid = TRUE, !.rspData = ZeroPair, !.rspStatus = 3]
    BY <1>3, <1>e, Zenon DEF FsmIdle, Respond, ZeroPair
  <2>2. i \in FsmRecord /\ i.st = f.st /\ i.valid = f.valid /\ i.id = har.n
    BY <1>a, <1>c, Zenon DEF FsmRecord
  <2> HIDE DEF i
  <2>3. FsmType'
    BY <1>d, <2>1, <2>2, Zenon DEF FsmType, FsmRecord
  <2>4. FsmRejects(req)
    BY <1>3, <1>b, <2>1, <2>2, Zenon DEF FsmRejects, FsmRecord
  <2>5. QED
    BY <2>3, <2>4, Zenon DEF FsmStep
<1>4. CASE fsm.st = "IDLE" /\ req /\ har.op.len \in {1, 2, 4, 8}
  <2>1. fsm' = [f EXCEPT !.st = "SEND", !.wr = har.op.wr, !.addr = har.op.addr,
                         !.len = har.op.len, !.data = har.op.data, !.off = 0,
                         !.low = Zero, !.status = 0, !.count = 0, !.id = har.n]
    BY <1>4, <1>e, Zenon DEF FsmIdle
  <2>2. /\ har.op.wr \in BOOLEAN /\ har.op.addr \in Nat /\ har.op.len \in Nat
        /\ har.op.data \in Pair
    BY <1>4, AxilAssumption DEF Pair
  <2>a. 0 \in Nat /\ Zero \in Dword
    BY ZeroWord
  <2>3. FsmType'
    BY <1>a, <1>c, <2>1, <2>2, <2>a, ZenonT(30) DEF FsmType, FsmRecord
  <2>4. FsmAccepts(req)
    BY <1>4, <1>a, <1>b, <2>1, Zenon DEF FsmAccepts, Silent, FsmRecord
  <2>5. QED
    BY <2>3, <2>4, Zenon DEF FsmStep
<1>5. QED
  BY <1>1, <1>2, <1>3, <1>4, Zenon

\* ST_SEND_TLP and the handshake: the TLP is put up and stays until it is taken.
LEMMA FsmSendDoes ==
  ASSUME FsmType, NEW req \in BOOLEAN, NEW g, fsm' = FsmNext(req, g),
         fsm.st \in {"SEND", "HANDSHAKE"}
  PROVE  FsmStep(req, g) /\ FsmType'
<1> DEFINE f == [fsm EXCEPT !.rspValid = FALSE]
<1>a. f \in FsmRecord /\ f.rspValid = FALSE
  BY Zenon DEF FsmType, FsmRecord
<1>b. /\ f.wr = fsm.wr /\ f.addr = fsm.addr /\ f.len = fsm.len /\ f.data = fsm.data
      /\ f.id = fsm.id /\ f.valid = fsm.valid /\ f.st = fsm.st
      /\ f.off = fsm.off /\ f.chunk = fsm.chunk /\ f.low = fsm.low
      /\ f.status = fsm.status /\ f.tlp = fsm.tlp
  BY DEF FsmType, FsmRecord
<1> DEFINE to == IF f.wr THEN "WRITE_WAIT" ELSE "READ_WAIT"
<1>c. /\ fsm.st = "SEND" =>
           fsm' = [f EXCEPT !.chunk = ChunkLen, !.tlp = MakeTlp, !.valid = TRUE,
                            !.count = 0, !.st = "HANDSHAKE"]
      /\ fsm.st = "HANDSHAKE" /\ "take" \in g => fsm' = [f EXCEPT !.valid = FALSE, !.st = to]
      /\ fsm.st = "HANDSHAKE" /\ "take" \notin g => fsm' = f
  BY Zenon DEF FsmNext
<1>d. /\ to \in {"WRITE_WAIT", "READ_WAIT"}
      /\ to = IF fsm.wr THEN "WRITE_WAIT" ELSE "READ_WAIT"
  BY <1>b, Zenon
<1> HIDE DEF f, to
<1>1. CASE fsm.st = "SEND"
  <2> DEFINE c == ChunkLen
  <2> DEFINE t == MakeTlp
  <2>1. 0 \in Nat /\ t \in Tlp /\ c \in Int
    BY TlpFacts
  <2>2. fsm' = [f EXCEPT !.chunk = c, !.tlp = t, !.valid = TRUE, !.count = 0,
                         !.st = "HANDSHAKE"]
    BY <1>1, <1>c, Zenon
  <2> HIDE DEF c, t
  <2>3. FsmType'
    BY <1>a, <2>1, <2>2, ZenonT(30) DEF FsmType, FsmRecord
  <2>4. /\ fsm'.st = "HANDSHAKE" /\ fsm'.valid = TRUE /\ fsm'.rspValid = FALSE
        /\ fsm'.chunk = c /\ fsm'.tlp = t /\ fsm'.off = f.off /\ fsm'.low = f.low
        /\ fsm'.status = f.status /\ fsm'.wr = f.wr /\ fsm'.addr = f.addr
        /\ fsm'.len = f.len /\ fsm'.data = f.data /\ fsm'.id = f.id
    BY <1>a, <2>2 DEF FsmRecord
  <2>5. QED
    BY <1>1, <1>b, <2>3, <2>4, Zenon DEF FsmStep, FsmSends, Latched, Silent, c, t
<1>2. CASE fsm.st = "HANDSHAKE" /\ "take" \in g
  <2>0. fsm' = [f EXCEPT !.valid = FALSE, !.st = to]
    BY <1>2, <1>c, Zenon
  <2>1. FsmType'
    BY <2>0, <1>a, <1>d, Zenon DEF FsmType, FsmRecord
  <2>2. FsmOffers(g)
    BY <2>0, <1>2, <1>a, <1>b, <1>d DEF FsmOffers, Latched, Progress, Silent, FsmRecord
  <2>3. QED
    BY <2>1, <2>2, Zenon DEF FsmStep
<1>3. CASE fsm.st = "HANDSHAKE" /\ "take" \notin g
  <2>1. fsm' = f
    BY <1>3, <1>c, Zenon
  <2>2. QED
    BY <1>3, <1>a, <1>b, <2>1, Zenon
    DEF FsmStep, FsmOffers, Latched, Progress, Silent, FsmType
<1>4. QED
  BY <1>1, <1>2, <1>3, Zenon

\* ST_WRITE_WAIT and ST_READ_WAIT without an answer: the count goes on, or the
\* request ends with an error.
LEMMA FsmWaitDoes ==
  ASSUME FsmType, NEW req \in BOOLEAN, NEW g, fsm' = FsmNext(req, g), Waiting(g)
  PROVE  FsmStep(req, g) /\ FsmType'
<1> DEFINE f == [fsm EXCEPT !.rspValid = FALSE]
<1>a. f \in FsmRecord /\ f.rspValid = FALSE
  BY Zenon DEF FsmType, FsmRecord
<1>b. /\ f.wr = fsm.wr /\ f.addr = fsm.addr /\ f.len = fsm.len /\ f.data = fsm.data
      /\ f.id = fsm.id /\ f.valid = fsm.valid /\ f.st = fsm.st
      /\ f.off = fsm.off /\ f.chunk = fsm.chunk /\ f.low = fsm.low
      /\ f.status = fsm.status /\ f.tlp = fsm.tlp
  BY DEF FsmType, FsmRecord
<1>c. fsm' = FsmWaiting(f)
  BY Zenon DEF FsmNext, Waiting
<1> HIDE DEF f
<1>1. CASE f.count = Timeout
  <2> DEFINE i == [f EXCEPT !.st = "RESPONSE"]
  <2>1. fsm' = [i EXCEPT !.rspValid = TRUE, !.rspData = f.rspData, !.rspStatus = 3]
    BY <1>1, <1>c, Zenon DEF FsmWaiting, Respond
  <2>2. /\ i \in FsmRecord /\ i.st = "RESPONSE" /\ i.valid = f.valid /\ i.id = f.id
        /\ i.wr = f.wr /\ i.addr = f.addr /\ i.len = f.len /\ i.data = f.data
        /\ f.rspData \in Pair
    BY <1>a DEF FsmRecord
  <2> HIDE DEF i
  <2>3. FsmType'
    BY <2>1, <2>2, Zenon DEF FsmType, FsmRecord
  <2>4. FsmWaits(g)
    BY <1>b, <2>1, <2>2 DEF FsmWaits, Latched, FsmRecord
  <2>5. QED
    BY <2>3, <2>4, Zenon DEF FsmStep
<1>2. CASE f.count # Timeout
  <2>1. fsm' = [f EXCEPT !.count = f.count + 1]
    BY <1>2, <1>c, Zenon DEF FsmWaiting
  <2>2. f.count + 1 \in Nat
    BY <1>a DEF FsmRecord
  <2>3. FsmType'
    BY <1>a, <2>1, <2>2, Zenon DEF FsmType, FsmRecord
  <2>4. FsmWaits(g)
    BY <1>a, <1>b, <2>1 DEF FsmWaits, Latched, Progress, Silent, FsmRecord
  <2>5. QED
    BY <2>3, <2>4, Zenon DEF FsmStep
<1>3. QED
  BY <1>1, <1>2, Zenon

\* A busy FSM has a chunk of one to four bytes before it; it is at the second
\* one only in an access of eight.
LEMMA ChunkFacts ==
  ASSUME FsmType, OneTlp, Busy
  PROVE  /\ ChunkLen \in 1..4 /\ (fsm.st # "SEND" => fsm.chunk = ChunkLen)
         /\ fsm.off = 0 \/ (fsm.off = 4 /\ fsm.len = 8)
         /\ fsm.off = 0 => ChunkLen = (IF fsm.len = 8 THEN 4 ELSE fsm.len)
         /\ fsm.off = 4 => ChunkLen = 4
<1>1. /\ fsm.len \in {1, 2, 4, 8} /\ fsm.off \in {0, 4} /\ fsm.off < fsm.len
      /\ fsm.st # "SEND" => fsm.chunk = ChunkLen
  BY Zenon DEF OneTlp
<1>2. QED
  BY <1>1 DEF ChunkLen, Rest

\* The answer to a TLP: the next half of the access, or the response.
LEMMA FsmAnswerDoes ==
  ASSUME FsmType, MasterType, SlaveType, NEW req \in BOOLEAN, NEW g,
         fsm' = FsmNext(req, g),
         OneTlp, Busy, fsm.st \notin {"SEND", "HANDSHAKE"}, ~Waiting(g)
  PROVE  FsmStep(req, g) /\ FsmType'
<1> DEFINE f == [fsm EXCEPT !.rspValid = FALSE]
<1>a. f \in FsmRecord /\ f.rspValid = FALSE
  BY Zenon DEF FsmType, FsmRecord
<1>b. /\ f.wr = fsm.wr /\ f.addr = fsm.addr /\ f.len = fsm.len /\ f.data = fsm.data
      /\ f.id = fsm.id /\ f.valid = fsm.valid
      /\ f.off = fsm.off /\ f.chunk = fsm.chunk /\ f.low = fsm.low /\ f.status = fsm.status
  BY DEF FsmType, FsmRecord
<1>c. \E err \in BOOLEAN, data \in Dword :
         fsm' = FsmAnswered(f, err, data) /\ Answer(g, err, data)
  <2>1. CASE fsm.st = "WRITE_WAIT" /\ "b" \in g
    <3>1. fsm' = FsmAnswered(f, slv.bresp # 0, f.low)
      BY <2>1, Zenon DEF FsmNext
    <3>2. Answer(g, slv.bresp # 0, f.low) /\ f.low \in Dword /\ (slv.bresp # 0) \in BOOLEAN
      BY <2>1, <1>b, FsmFields, Zenon DEF Answer
    <3> HIDE DEF f
    <3>3. QED
      BY <3>1, <3>2, Zenon
  <2>2. CASE fsm.st = "READ_WAIT" /\ "cpl" \in g
    <3>1. fsm' = FsmAnswered(f, mst.cpl.status # 0, mst.cpl.data)
      BY <2>2, Zenon DEF FsmNext
    <3>2. /\ Answer(g, mst.cpl.status # 0, mst.cpl.data)
          /\ mst.cpl.data \in Dword /\ (mst.cpl.status # 0) \in BOOLEAN
      BY <2>2, Zenon DEF Answer, MasterType, MasterRecord
    <3> HIDE DEF f
    <3>3. QED
      BY <3>1, <3>2, Zenon
  <2>3. QED
    BY <2>1, <2>2, Zenon DEF Busy, Waiting
<1> HIDE DEF f
<1>d. PICK err \in BOOLEAN, data \in Dword :
         fsm' = FsmAnswered(f, err, data) /\ Answer(g, err, data)
  BY <1>c, Zenon
<1>e. f.off \in Nat /\ f.chunk \in Int /\ f.len \in Nat /\ f.status \in {0, 3} /\ f.low \in Dword
  BY <1>a, Zenon DEF FsmRecord
<1>1. CASE f.off + f.chunk < f.len
  <2> DEFINE st == IF err THEN 3 ELSE f.status
  <2> DEFINE o == f.off + f.chunk
  <2>1. fsm' = [f EXCEPT !.status = st, !.low = data, !.off = o, !.st = "SEND"]
    BY <1>1, <1>d, Zenon DEF FsmAnswered
  <2>2. st \in {0, 3} /\ (st = 0 => ~err /\ f.status = 0)
    BY <1>e
  <2>3. o \in Nat
    BY <1>b, <1>e, ChunkFacts
  <2> HIDE DEF st, o
  <2>4. FsmType'
    BY <1>a, <2>1, <2>2, <2>3, ZenonT(30) DEF FsmType, FsmRecord
  <2>5. /\ fsm'.st = "SEND" /\ fsm'.off = o /\ fsm'.low = data /\ fsm'.status = st
        /\ fsm'.rspValid = FALSE /\ fsm'.valid = f.valid /\ fsm'.id = f.id
        /\ fsm'.wr = f.wr /\ fsm'.addr = f.addr /\ fsm'.len = f.len /\ fsm'.data = f.data
    BY <1>a, <2>1 DEF FsmRecord
  <2>6. FsmGoesOn(g)
    BY <1>1, <1>b, <1>d, <2>2, <2>5, Zenon DEF FsmGoesOn, Latched, Silent, o
  <2>7. QED
    BY <2>4, <2>6, Zenon DEF FsmStep
<1>2. CASE ~(f.off + f.chunk < f.len)
  <2> DEFINE st == IF err \/ f.status # 0 THEN 3 ELSE 0
  <2> DEFINE d == IF f.wr THEN ZeroPair
                  ELSE IF f.off = 0 THEN <<data, Zero>> ELSE <<f.low, data>>
  <2> DEFINE i == [f EXCEPT !.st = "RESPONSE"]
  <2>1. fsm' = [i EXCEPT !.rspValid = TRUE, !.rspData = d, !.rspStatus = st]
    BY <1>2, <1>d, Zenon DEF FsmAnswered, Respond, ZeroPair
  <2>2. st \in {0, 3} /\ (st = 0 => ~err /\ f.status = 0)
    BY <1>e
  <2>3. d \in Pair
    BY <1>e, ZeroWord, Zenon DEF Pair, ZeroPair
  <2>4. ~f.wr => d = (IF f.off = 0 THEN <<data, Zero>> ELSE <<f.low, data>>)
    BY Zenon
  <2>5. /\ i \in FsmRecord /\ i.st = "RESPONSE" /\ i.valid = f.valid /\ i.id = f.id
        /\ i.wr = f.wr /\ i.addr = f.addr /\ i.len = f.len /\ i.data = f.data
    BY <1>a DEF FsmRecord
  <2> HIDE DEF st, d, i
  <2>6. FsmType'
    BY <2>1, <2>2, <2>3, <2>5, Zenon DEF FsmType, FsmRecord
  <2>7. /\ fsm'.st = "RESPONSE" /\ fsm'.rspValid = TRUE /\ fsm'.rspData = d
        /\ fsm'.rspStatus = st /\ fsm'.valid = f.valid /\ fsm'.id = f.id
        /\ fsm'.wr = f.wr /\ fsm'.addr = f.addr /\ fsm'.len = f.len /\ fsm'.data = f.data
    BY <2>1, <2>5 DEF FsmRecord
  <2>a. ~fsm.wr => fsm'.rspData = (IF fsm.off = 0 THEN <<data, Zero>> ELSE <<fsm.low, data>>)
    BY <1>b, <2>4, <2>7, Zenon
  <2>b. ~(fsm.off + fsm.chunk < fsm.len) /\ (fsm'.rspStatus = 0 => ~err /\ fsm.status = 0)
    BY <1>2, <1>b, <2>2, <2>7, Zenon
  <2>c. fsm'.valid = fsm.valid /\ Latched
    BY <1>b, <2>7, Zenon DEF Latched
  <2>8. FsmResponds(g)
    BY <1>d, <2>7, <2>a, <2>b, <2>c, Zenon DEF FsmResponds
  <2>9. QED
    BY <2>6, <2>8, Zenon DEF FsmStep
<1>3. QED
  BY <1>1, <1>2, Zenon

\* One clock is a step of each part, and keeps the types.
LEMMA ClockDoes ==
  ASSUME Types, OneTlp, NEW req \in BOOLEAN, Clock(req), req => Ready /\ har.op \in Ops
  PROVE  FsmType' /\ MasterType' /\ SlaveType' /\ \E g : Ticks(req, g)
<1>a. FsmType /\ MasterType /\ SlaveType /\ har \in HarnessRecord
  BY Zenon DEF Types, HarnessType
<1>b. PICK g \in SUBSET Moves :
        \E err : fsm' = FsmNext(req, g) /\ mst' = MasterNext(g, err) /\ slv' = SlaveNext(g)
  BY Zenon DEF Clock
<1>c. PICK err : fsm' = FsmNext(req, g) /\ mst' = MasterNext(g, err) /\ slv' = SlaveNext(g)
  BY <1>b, Zenon
<1>1. MovesIn(g)
  BY MovesFit, Zenon
<1>2. MasterStep(g) /\ MasterType'
  BY <1>a, <1>c, <1>1, MasterDoes, Zenon
<1>3. SlaveStep(g) /\ SlaveType'
  BY <1>a, <1>c, SlaveDoes, Zenon
<1>4. FsmStep(req, g) /\ FsmType'
  <2>1. CASE fsm.st \in {"IDLE", "RESPONSE"}
    BY <2>1, <1>a, <1>c, FsmIdleDoes, Zenon
  <2>2. CASE fsm.st \in {"SEND", "HANDSHAKE"}
    BY <2>2, <1>a, <1>c, FsmSendDoes, Zenon
  <2>3. CASE fsm.st \in {"WRITE_WAIT", "READ_WAIT"} /\ Waiting(g)
    BY <2>3, <1>a, <1>c, FsmWaitDoes, Zenon
  <2>4. CASE fsm.st \in {"WRITE_WAIT", "READ_WAIT"} /\ ~Waiting(g)
    <3>1. Busy /\ fsm.st \notin {"SEND", "HANDSHAKE"}
      BY <2>4, Zenon DEF Busy
    <3>2. QED
      BY <2>4, <3>1, <1>a, <1>c, FsmAnswerDoes, Zenon
  <2>5. fsm.st \in {"IDLE", "SEND", "HANDSHAKE", "WRITE_WAIT", "READ_WAIT", "RESPONSE"}
    BY <1>a, FsmFields, Zenon
  <2>6. QED
    BY <2>1, <2>2, <2>3, <2>4, <2>5, Zenon
<1>5. QED
  BY <1>1, <1>2, <1>3, <1>4, Zenon DEF Ticks

-----------------------------------------------------------------------------
(* The path stays serial.                                                  *)

\* Nothing of a transfer is left in the slave when the master is done with it.
LEMMA TransferClock ==
  ASSUME OneTransfer, MasterType, NEW g, MovesIn(g), MasterStep(g), SlaveStep(g)
  PROVE  OneTransfer'
<1>a. /\ slv'.aw <=> (slv.aw \/ "aw" \in g) /\ ~Executes
      /\ slv'.w <=> (slv.w \/ "w" \in g) /\ ~Executes
      /\ slv'.bvalid <=> Executes \/ (slv.bvalid /\ "b" \notin g)
      /\ slv'.rvalid <=> "ar" \in g \/ (slv.rvalid /\ "r" \notin g)
  BY Zenon DEF SlaveStep
<1>b. Executes => mst.st = "write" /\ "aw" \in mst.sent /\ "w" \in mst.sent /\ ~slv.bvalid
  BY Zenon DEF Executes, OneTransfer
<1>1. CASE MasterTakes(g)
  <2>1. mst.st = "idle"
    BY <1>1, Zenon DEF MasterTakes, MovesIn
  <2>2. ~slv'.aw /\ ~slv'.w /\ ~slv'.bvalid /\ ~slv'.rvalid
    BY <2>1, <1>a, <1>b, Zenon DEF MovesIn, OneTransfer
  <2>3. QED
    BY <2>2, Zenon DEF OneTransfer
<1>2. CASE MasterEnds(g)
  <2>1. ~slv'.aw /\ ~slv'.w /\ ~slv'.bvalid /\ ~slv'.rvalid
    BY <1>2, <1>a, <1>b, Zenon DEF MasterEnds, MovesIn, OneTransfer
  <2>2. QED
    BY <2>1, Zenon DEF OneTransfer
<1>3. CASE MasterReads(g)
  <2>1. mst.st = "read" /\ "ar" \notin g /\ "r" \in g
    BY <1>3, Zenon DEF MasterReads, MovesIn
  <2>2. ~slv'.aw /\ ~slv'.w /\ ~slv'.bvalid /\ ~slv'.rvalid
    BY <2>1, <1>a, <1>b, Zenon DEF MovesIn, OneTransfer
  <2>3. QED
    BY <2>2, Zenon DEF OneTransfer
<1>4. CASE MasterWorks(g)
  <2>1. mst'.st = mst.st /\ mst'.sent = mst.sent \cup g
    BY <1>4, Zenon DEF MasterWorks
  <2>2. mst'.st # "write" => ~slv'.aw /\ ~slv'.w /\ ~slv'.bvalid
    BY <2>1, <1>a, <1>b, Zenon DEF MovesIn, OneTransfer
  <2>3. mst'.st # "read" => ~slv'.rvalid
    BY <2>1, <1>a, Zenon DEF MovesIn, OneTransfer
  <2>4. (slv'.aw => "aw" \in mst'.sent) /\ (slv'.w => "w" \in mst'.sent)
    BY <2>1, <1>a, Zenon DEF OneTransfer
  <2>5. slv'.bvalid => ~slv'.aw /\ ~slv'.w
    BY <1>a, <1>b, Zenon DEF MovesIn, OneTransfer
  <2>6. QED
    BY <2>2, <2>3, <2>4, <2>5, Zenon DEF OneTransfer
<1>5. QED
  BY <1>1, <1>2, <1>3, <1>4, Zenon DEF MasterStep

\* A response comes for one cycle, with the master idle after a success.
LEMMA ResponseClock ==
  ASSUME FsmType, OneResponse, OneTlp, NEW req \in BOOLEAN, NEW g, Ticks(req, g)
  PROVE  OneResponse'
<1>a. 3 # 0
  OBVIOUS
<1>1. CASE FsmRests(req) \/ FsmRejects(req) \/ FsmAccepts(req) \/ FsmSends
           \/ FsmOffers(g) \/ FsmWaits(g) \/ FsmGoesOn(g)
  <2>1. \/ fsm'.rspValid = FALSE /\ fsm'.st # "RESPONSE"
        \/ /\ fsm'.rspValid = TRUE /\ fsm'.rspStatus = 3
           /\ fsm'.st \in {"IDLE", "RESPONSE"}
    BY <1>1, Zenon
    DEF FsmRests, FsmRejects, FsmAccepts, FsmSends, FsmOffers, FsmWaits, FsmGoesOn,
        Waiting, Silent
  <2>2. QED
    BY <2>1, <1>a, Zenon DEF OneResponse
<1>2. CASE FsmResponds(g)
  <2>1. fsm'.st = "RESPONSE" /\ fsm'.rspValid = TRUE /\ ("b" \in g \/ "cpl" \in g)
    BY <1>2, Zenon DEF FsmResponds, Answer
  <2>2. mst'.st = "idle"
    BY <2>1, Zenon DEF Ticks, MasterStep, MovesIn, MasterTakes, MasterEnds, MasterReads,
                       MasterWorks
  <2>3. QED
    BY <2>1, <2>2, Zenon DEF OneResponse
<1>3. QED
  BY <1>1, <1>2, Zenon DEF Ticks, FsmStep

\* The master leaves its TLP only by the answer, and starts one only by taking it.
LEMMA MasterKeeps ==
  ASSUME NEW g, MovesIn(g), MasterStep(g)
  PROVE  /\ "b" \in g \/ "cpl" \in g => mst'.st = "idle"
         /\ "take" \in g => /\ mst'.tlp = fsm.tlp
                            /\ mst'.st = (IF fsm.tlp.wr THEN "write" ELSE "read")
         /\ "take" \notin g /\ mst.st = "idle" => mst'.st = "idle"
         /\ "take" \notin g => mst'.tlp = mst.tlp
         /\ "b" \notin g /\ mst.st = "write" => mst'.st = "write"
         /\ "cpl" \notin g /\ mst.st \in {"read", "cpl"} => mst'.st \in {"read", "cpl"}
<1>1. CASE MasterTakes(g)
  BY <1>1, Zenon DEF MasterTakes, MovesIn
<1>2. CASE MasterEnds(g)
  BY <1>2, Zenon DEF MasterEnds, MovesIn
<1>3. CASE MasterReads(g)
  BY <1>3, Zenon DEF MasterReads, MovesIn
<1>4. CASE MasterWorks(g)
  BY <1>4, Zenon DEF MasterWorks
<1>5. QED
  BY <1>1, <1>2, <1>3, <1>4, Zenon DEF MasterStep

\* The TLP of an unchanged request is unchanged.
LEMMA SameTlp ==
  ASSUME Latched, fsm'.off = fsm.off
  PROVE  ChunkLen' = ChunkLen /\ MakeTlp' = MakeTlp
<1>1. ChunkLen' = ChunkLen
  BY Zenon DEF ChunkLen, Rest, Latched
<1>2. QED
  BY <1>1, Zenon DEF MakeTlp, Latched

\* The FSM waits for the TLP the master works on.
LEMMA TlpClock ==
  ASSUME FsmType, OneTlp, NEW req \in BOOLEAN, NEW g, Ticks(req, g)
  PROVE  OneTlp'
<1>a. MovesIn(g) /\ FsmStep(req, g) /\ MasterStep(g)
  BY Zenon DEF Ticks
<1>b. fsm.valid <=> fsm.st = "HANDSHAKE"
  BY Zenon DEF OneTlp
<1>1. CASE fsm'.st \in {"IDLE", "RESPONSE"}
  <2>1. fsm'.valid = fsm.valid /\ fsm.st # "HANDSHAKE"
    BY <1>a, <1>1, Zenon
    DEF FsmStep, FsmRests, FsmRejects, FsmAccepts, FsmSends, FsmOffers, FsmWaits,
        FsmGoesOn, FsmResponds, Waiting, Answer
  <2>2. QED
    BY <1>1, <1>b, <2>1, Zenon DEF OneTlp, Busy
<1>2. CASE FsmAccepts(req)
  <2>1. /\ fsm'.st = "SEND" /\ fsm'.off = 0 /\ fsm'.len \in {1, 2, 4, 8} /\ ~fsm'.valid
    BY <1>2, <1>b, Zenon DEF FsmAccepts
  <2>2. fsm'.off < fsm'.len
    BY <2>1
  <2>3. QED
    BY <2>1, <2>2, Zenon DEF OneTlp, Busy
<1>3. CASE FsmSends
  <2>1. /\ fsm.st = "SEND" /\ fsm'.st = "HANDSHAKE" /\ fsm'.valid = TRUE
        /\ fsm'.chunk = ChunkLen /\ fsm'.tlp = MakeTlp /\ fsm'.off = fsm.off /\ Latched
    BY <1>3, Zenon DEF FsmSends
  <2>2. ChunkLen' = ChunkLen /\ MakeTlp' = MakeTlp
    BY <2>1, SameTlp, Zenon
  <2>3. fsm'.off # 0 => mst'.st = "idle"
    BY <2>1, <1>a, <1>b, MasterKeeps, Zenon DEF MovesIn, OneTlp
  <2>4. fsm'.off = 0 /\ fsm'.addr = Doorbell => Decode(fsm'.tlp.addr) = Doorbell
    BY <2>1, TlpFacts, Zenon DEF Latched
  <2>5. fsm'.len \in {1, 2, 4, 8} /\ fsm'.off \in {0, 4} /\ fsm'.off < fsm'.len
    BY <2>1, Zenon DEF OneTlp, Busy, Latched
  <2>6. QED
    BY <2>1, <2>2, <2>3, <2>4, <2>5, Zenon DEF OneTlp
<1>4. CASE (FsmOffers(g) \/ FsmWaits(g)) /\ fsm'.st \notin {"IDLE", "RESPONSE"}
  <2>1. /\ Busy /\ fsm.st # "SEND" /\ fsm'.st # "SEND" /\ Progress /\ Latched
    BY <1>4, Zenon DEF FsmOffers, FsmWaits, Waiting, Busy
  <2>2. ChunkLen' = ChunkLen /\ MakeTlp' = MakeTlp
    BY <2>1, SameTlp, Zenon DEF Progress
  <2>3. /\ fsm'.len \in {1, 2, 4, 8} /\ fsm'.off \in {0, 4} /\ fsm'.off < fsm'.len
        /\ fsm'.chunk = ChunkLen' /\ fsm'.tlp = MakeTlp'
        /\ fsm'.off = 0 /\ fsm'.addr = Doorbell => Decode(fsm'.tlp.addr) = Doorbell
        /\ fsm'.wr = fsm.wr /\ fsm'.off = fsm.off /\ fsm'.tlp = fsm.tlp
    BY <2>1, <2>2, Zenon DEF OneTlp, Progress, Latched
  <2>4. fsm.tlp.wr = fsm.wr /\ fsm.wr \in BOOLEAN
    BY <2>1, TlpFacts, FsmFields, Zenon DEF OneTlp
  <2>5. CASE FsmOffers(g) /\ "take" \notin g
    <3>1. fsm'.st = "HANDSHAKE" /\ fsm.st = "HANDSHAKE" /\ fsm'.valid = fsm.valid
      BY <2>5, Zenon DEF FsmOffers
    <3>2. fsm'.off # 0 => mst'.st = "idle"
      BY <3>1, <2>3, <2>5, <1>a, MasterKeeps, Zenon DEF OneTlp
    <3>3. QED
      BY <3>1, <3>2, <2>3, <1>b, Zenon DEF OneTlp
  <2>6. CASE FsmOffers(g) /\ "take" \in g
    <3>1. ~fsm'.valid /\ fsm'.st = (IF fsm.wr THEN "WRITE_WAIT" ELSE "READ_WAIT")
      BY <2>6, Zenon DEF FsmOffers
    <3>2. mst'.tlp = fsm.tlp /\ mst'.st = (IF fsm.wr THEN "write" ELSE "read")
      BY <2>4, <2>6, <1>a, MasterKeeps, Zenon
    <3>3. QED
      BY <3>1, <3>2, <2>3, Zenon DEF OneTlp
  <2>7. CASE FsmWaits(g)
    <3>1. fsm'.st = fsm.st /\ Waiting(g) /\ fsm'.valid = fsm.valid
      BY <2>7, <1>4, Zenon DEF FsmWaits
    <3>2. "take" \notin g
      BY <3>1, <1>a, Zenon DEF Waiting, OneTlp, MovesIn
    <3>3. mst'.tlp = mst.tlp
      BY <3>2, <1>a, MasterKeeps, Zenon
    <3>4. fsm.st = "WRITE_WAIT" => fsm.wr /\ mst'.st = "write" /\ mst.tlp = fsm.tlp
      BY <3>1, <1>a, MasterKeeps, Zenon DEF OneTlp, Waiting
    <3>5. fsm.st = "READ_WAIT" => ~fsm.wr /\ mst'.st \in {"read", "cpl"} /\ mst.tlp = fsm.tlp
      BY <3>1, <1>a, MasterKeeps, Zenon DEF OneTlp, Waiting
    <3>6. fsm.st \in {"WRITE_WAIT", "READ_WAIT"}
      BY <3>1, Zenon DEF Waiting
    <3>7. QED
      BY <3>1, <3>3, <3>4, <3>5, <3>6, <2>3, <1>b, Zenon DEF OneTlp
  <2>8. QED
    BY <1>4, <2>5, <2>6, <2>7, Zenon
<1>5. CASE FsmGoesOn(g)
  <2>1. /\ fsm'.st = "SEND" /\ fsm'.valid = fsm.valid /\ fsm'.off = fsm.off + fsm.chunk
        /\ fsm.off + fsm.chunk < fsm.len /\ fsm'.len = fsm.len
        /\ Busy /\ fsm.st # "SEND" /\ fsm.st # "HANDSHAKE" /\ ("b" \in g \/ "cpl" \in g)
    BY <1>5, Zenon DEF FsmGoesOn, Answer, Latched, Busy
  <2>2. mst'.st = "idle"
    BY <2>1, <1>a, MasterKeeps, Zenon
  <2>3. fsm.len \in {1, 2, 4, 8}
    BY <2>1, Zenon DEF OneTlp
  <2>4. fsm'.off = 4 /\ fsm'.off < fsm'.len
    BY <2>1, <2>3, ChunkFacts
  <2>5. QED
    BY <2>1, <2>2, <2>3, <2>4, <1>b, Zenon DEF OneTlp
<1>6. CASE FsmResponds(g) \/ FsmRests(req) \/ FsmRejects(req)
  BY <1>1, <1>6, Zenon DEF FsmResponds, FsmRests, FsmRejects
<1>7. QED
  BY <1>1, <1>2, <1>3, <1>4, <1>5, <1>6, <1>a, Zenon DEF FsmStep

-----------------------------------------------------------------------------
(* What was transferred is in the registers.                               *)

\* Two numbers that lie as far apart as the addresses of neighbouring dwords in
\* the 8 KiB the slave decodes.
Neighbours(m, n) == m \in Nat /\ n \in Nat /\ m <= 8191 /\ (n = m + 4 \/ n + 8192 = m + 4)

\* Neighbours are never the same, and pass neither from CSTS to CC nor from a
\* register that can be written to the doorbell.
LEMMA NeighbourFacts ==
  ASSUME NEW m, NEW n, Neighbours(m, n)
  PROVE  n # m /\ ~(n = \h14 /\ m = \h1c) /\ (m \in ValidWrite => n # Doorbell)
<1>1. n # m
  BY DEF Neighbours
<1>2. ~(n = \h14 /\ m = \h1c)
  BY DEF Neighbours
<1>3. n = Doorbell => m = 4092
  BY DEF Neighbours, Doorbell
<1>4. 4092 \notin ValidWrite
  BY DEF ValidWrite, ReadWrite, Doorbell
<1>5. m \in ValidWrite => n # Doorbell
  BY <1>3, <1>4
<1> QED  BY <1>1, <1>2, <1>5, Zenon

\* The dword after another one is a different register, is not CC when that
\* one is CSTS, and is not the doorbell when that one can be written.
LEMMA NextWord ==
  ASSUME NEW a \in Nat
  PROVE  /\ Decode(a + 4) # Decode(a)
         /\ ~(Decode(a + 4) = \h14 /\ Decode(a) = \h1c)
         /\ Decode(a) \in ValidWrite => Decode(a + 4) # Doorbell
<1>1. Neighbours(a % 8192, (a + 4) % 8192)
  BY SMTT(30) DEF Neighbours
<1>2. Neighbours(Decode(a), Decode(a + 4))
  BY <1>1 DEF Decode
<1> QED  BY <1>2, NeighbourFacts, Zenon

\* The TLP of a dword address is at that address, with the lanes of the chunk.
LEMMA TlpAligned ==
  ASSUME FsmType, OneTlp, Busy, fsm.st # "SEND", fsm.addr % 4 = 0
  PROVE  /\ fsm.tlp.addr = fsm.addr + fsm.off
         /\ fsm.tlp.strb = 1..fsm.chunk
         /\ fsm.off = 0 => fsm.tlp.data = fsm.data[1]
         /\ fsm.off = 4 => fsm.tlp.data = fsm.data[2]
<1>a. fsm.tlp = MakeTlp /\ fsm.chunk = ChunkLen
  BY Zenon DEF OneTlp
<1>b. fsm.addr \in Nat /\ ChunkLen \in 1..4 /\ fsm.off \in {0, 4}
  BY FsmFields, ChunkFacts
<1> DEFINE ad == fsm.addr + fsm.off
<1>1. (ad \div 4) * 4 = ad /\ ad % 4 = 0
  <2>1. \A a \in Nat : a % 4 = 0 => (a \div 4) * 4 = a /\ (a + 0) % 4 = 0 /\ (a + 4) % 4 = 0
    OBVIOUS
  <2>2. ad \in Nat /\ (ad = fsm.addr + 0 \/ ad = fsm.addr + 4)
    BY <1>b
  <2> HIDE DEF ad
  <2>3. ad % 4 = 0
    BY <1>b, <2>1, <2>2, Zenon
  <2>4. QED
    BY <2>1, <2>2, <2>3, Zenon
<1>2. MakeTlp.addr = (ad \div 4) * 4 /\ MakeTlp.strb = ByteEnable(ad % 4, ChunkLen)
      /\ MakeTlp.data = fsm.data[IF fsm.off = 0 THEN 1 ELSE 2]
  BY Zenon DEF MakeTlp
<1>3. ByteEnable(0, ChunkLen) = 1..ChunkLen
  BY <1>b DEF ByteEnable
<1>4. 4 # 0
  OBVIOUS
<1> HIDE DEF ad
<1>5. QED
  BY <1>1, <1>2, <1>3, <1>4, <1>a, Zenon DEF ad

\* A register that cannot be read reads as zero.
LEMMA NotReadable ==
  ASSUME NEW regs \in Registers, NEW a, a \notin ValidRead
  PROVE  ReadValue(regs, a) = Zero
<1>1. a # 0 /\ a \notin ReadWrite \cup {\h1c}
  BY Zenon DEF ValidRead
<1>2. QED
  BY <1>1, Zenon DEF ReadValue, Registers

\* A dword that is the same is as right as it was.
LEMMA ReachedKept ==
  ASSUME NEW r, NEW s, NEW a, NEW d, NEW strb, Reached(r, a, d, strb),
         ReadValue(s, Decode(a)) = ReadValue(r, Decode(a))
  PROVE  Reached(s, a, d, strb)
BY Zenon DEF Reached, Word

\* Only the master's write changes registers, and not while an answer is up.
LEMMA RegsKept ==
  ASSUME OneTransfer, NEW g, SlaveStep(g), mst.st # "write" \/ slv.bvalid
  PROVE  slv'.regs = slv.regs
<1>1. ~Executes
  BY Zenon DEF Executes, OneTransfer
<1>2. QED
  BY <1>1, Zenon DEF SlaveStep

\* The answers of the slave and the master are right.
LEMMA AnswerClock ==
  ASSUME MasterType, SlaveType, OneTransfer, AnswerRight, NEW g, MovesIn(g),
         MasterStep(g), SlaveStep(g)
  PROVE  AnswerRight'
<1>a. slv.regs \in Registers /\ mst.tlp \in Tlp
  BY Zenon DEF SlaveType, SlaveRecord, MasterType, MasterRecord
<1>b. "take" \notin g => mst'.tlp = mst.tlp
  BY MasterKeeps, Zenon
<1>1. ASSUME slv'.bvalid, slv'.bresp = 0
      PROVE  Reached(slv.regs, mst.tlp.addr, mst.tlp.data, mst.tlp.strb)' /\ mst'.tlp = mst.tlp
  <2>1. Executes \/ (slv.bvalid /\ "b" \notin g)
    BY <1>1, Zenon DEF SlaveStep
  <2>2. mst.st = "write"
    BY <2>1, Zenon DEF Executes, OneTransfer
  <2>3. mst'.tlp = mst.tlp
    BY <2>2, <1>b, Zenon DEF MovesIn
  <2>4. CASE Executes
    <3>0. 3 # 0
      OBVIOUS
    <3>1. Target \in ValidWrite /\ slv'.regs = WriteRegs(slv.regs, Target, mst.tlp)
      BY <1>1, <2>4, <3>0, Zenon DEF SlaveStep
    <3>2. Target # Doorbell =>
             \A k \in mst.tlp.strb : ReadValue(slv'.regs, Target)[k] = mst.tlp.data[k]
      <4>1. Target # Doorbell =>
               \A k \in mst.tlp.strb :
                  ReadValue(WriteRegs(slv.regs, Target, mst.tlp), Target)[k] = mst.tlp.data[k]
        BY <3>1, <1>a, WriteRegsFacts, Zenon
      <4>2. QED
        BY <3>1, <4>1, Zenon
    <3>3. QED
      BY <2>3, <3>1, <3>2, Zenon DEF Reached, Word, Target
  <2>5. CASE ~Executes
    <3>1. slv'.regs = slv.regs /\ slv'.bresp = slv.bresp /\ slv.bvalid
      BY <2>1, <2>5, Zenon DEF SlaveStep
    <3>2. Reached(slv.regs, mst.tlp.addr, mst.tlp.data, mst.tlp.strb)
      BY <3>1, <1>1, Zenon DEF AnswerRight
    <3>3. QED
      BY <2>3, <3>1, <3>2, Zenon DEF Reached, Word
  <2>6. QED
    BY <2>4, <2>5, Zenon
<1>2. ASSUME slv'.rvalid
      PROVE  slv'.rdata = ReadValue(slv'.regs, Target) /\ mst'.tlp = mst.tlp
  <2>1. "ar" \in g \/ (slv.rvalid /\ "r" \notin g)
    BY <1>2, Zenon DEF SlaveStep
  <2>2. mst.st = "read"
    BY <2>1, Zenon DEF MovesIn, OneTransfer
  <2>3. slv'.regs = slv.regs /\ mst'.tlp = mst.tlp
    BY <2>2, <1>b, RegsKept, Zenon DEF MovesIn
  <2>4. CASE "ar" \in g
    <3>1. slv'.rdata = IF Target \in ValidRead THEN ReadValue(slv.regs, Target) ELSE Zero
      BY <2>4, Zenon DEF SlaveStep
    <3>2. QED
      BY <2>3, <3>1, <1>a, NotReadable, Zenon
  <2>5. CASE "ar" \notin g
    BY <2>1, <2>3, <2>5, Zenon DEF SlaveStep, AnswerRight, Word, Target
  <2>6. QED
    BY <2>4, <2>5, Zenon
<1>3. ASSUME mst'.st = "cpl"
      PROVE  mst'.cpl.data = ReadValue(slv'.regs, Target) /\ mst'.tlp = mst.tlp
  <2>1. \/ MasterReads(g) /\ mst.st = "read" /\ slv.rvalid
        \/ MasterWorks(g) /\ mst.st = "cpl"
    BY <1>3, Zenon DEF MasterStep, MasterTakes, MasterEnds, MasterReads, MasterWorks, MovesIn
  <2>2. slv'.regs = slv.regs /\ mst'.tlp = mst.tlp
    BY <2>1, <1>b, RegsKept, Zenon DEF MovesIn
  <2>3. QED
    BY <2>1, <2>2, Zenon DEF MasterReads, MasterWorks, AnswerRight, Word, Target
<1>4. QED
  BY <1>1, <1>2, <1>3, Zenon DEF AnswerRight, Reached, Word, Target

\* The half of a split access that was answered stays right while the other
\* half is under way.
LEMMA HalfClock ==
  ASSUME Types, Serial, AnswerRight, HalfRight, NEW req \in BOOLEAN, NEW g, Ticks(req, g)
  PROVE  HalfRight'
<1>a. FsmType /\ MasterType /\ SlaveType /\ OneTlp /\ OneTransfer
  BY Zenon DEF Types, Serial
<1>b. MovesIn(g) /\ FsmStep(req, g) /\ MasterStep(g) /\ SlaveStep(g)
  BY Zenon DEF Ticks
<1>c. fsm.addr \in Nat /\ slv.regs \in Registers /\ mst.tlp \in Tlp
  BY <1>a, FsmFields, Zenon DEF SlaveType, SlaveRecord, MasterType, MasterRecord
<1>1. SUFFICES ASSUME Busy', fsm'.off # 0, fsm'.status = 0, fsm'.addr % 4 = 0
               PROVE  IF fsm'.wr THEN Reached(slv.regs, fsm.addr, fsm.data[1], 1..4)'
                                 ELSE fsm'.low = Word(slv.regs, fsm.addr)'
  BY Zenon DEF HalfRight
<1>2. CASE FsmSends \/ FsmOffers(g) \/ FsmWaits(g)
  <2>1. /\ Busy /\ Latched /\ fsm'.off = fsm.off /\ fsm'.low = fsm.low
        /\ fsm'.status = fsm.status
    BY <1>1, <1>2, Zenon DEF FsmSends, FsmOffers, FsmWaits, Waiting, Progress, Busy
  <2>2. IF fsm.wr THEN Reached(slv.regs, fsm.addr, fsm.data[1], 1..4)
        ELSE fsm.low = Word(slv.regs, fsm.addr)
    BY <1>1, <2>1, Zenon DEF HalfRight, Latched
  <2>3. ReadValue(slv'.regs, Decode(fsm.addr)) = ReadValue(slv.regs, Decode(fsm.addr))
    <3>1. CASE mst.st # "write" \/ ~Executes
      BY <3>1, <1>a, <1>b, RegsKept, Zenon DEF SlaveStep
    <3>2. CASE mst.st = "write" /\ Executes /\ Target \notin ValidWrite
      BY <3>2, <1>b, Zenon DEF SlaveStep
    <3>3. CASE mst.st = "write" /\ Executes /\ Target \in ValidWrite
      <4>1. fsm.st = "WRITE_WAIT"
        BY <3>3, <1>1, <1>a, <2>1, Zenon DEF OneTlp, Busy
      <4>2. fsm.off = 4 /\ mst.tlp = fsm.tlp /\ fsm.addr % 4 = 0
        BY <4>1, <1>1, <1>a, <2>1, Zenon DEF OneTlp, Latched
      <4>3. Target = Decode(fsm.addr + 4)
        BY <4>1, <4>2, <1>a, <2>1, TlpAligned, Zenon DEF Target
      <4>4. Decode(fsm.addr) # Target /\ ~(Target = \h14 /\ Decode(fsm.addr) = \h1c)
        BY <4>3, <1>c, NextWord, Zenon
      <4>5. slv'.regs = WriteRegs(slv.regs, Target, mst.tlp)
        BY <3>3, <1>b, Zenon DEF SlaveStep
      <4>6. ReadValue(WriteRegs(slv.regs, Target, mst.tlp), Decode(fsm.addr))
              = ReadValue(slv.regs, Decode(fsm.addr))
        <5>1. \A b : b # Target /\ ~(Target = \h14 /\ b = \h1c) =>
                ReadValue(WriteRegs(slv.regs, Target, mst.tlp), b) = ReadValue(slv.regs, b)
          BY <3>3, <1>c, WriteRegsFacts, Zenon
        <5>2. QED
          BY <4>4, <5>1, Zenon
      <4>7. QED
        BY <4>5, <4>6, Zenon
    <3>4. QED
      BY <3>1, <3>2, <3>3, Zenon
  <2>4. fsm.wr => Reached(slv'.regs, fsm.addr, fsm.data[1], 1..4)
    BY <2>2, <2>3, ReachedKept, Zenon
  <2>5. ~fsm.wr => fsm.low = Word(slv'.regs, fsm.addr)
    BY <2>2, <2>3, Zenon DEF Word
  <2>6. QED
    BY <2>1, <2>4, <2>5, Zenon DEF Latched
<1>3. CASE FsmGoesOn(g)
  <2>1. PICK err \in BOOLEAN, data \in Dword :
          /\ Answer(g, err, data) /\ fsm.off + fsm.chunk < fsm.len
          /\ fsm'.low = data /\ ~err /\ Latched
    BY <1>1, <1>3, Zenon DEF FsmGoesOn
  <2>2. Busy /\ fsm.st # "SEND"
    BY <2>1, Zenon DEF Answer, Busy
  <2>3. fsm.off = 0 /\ fsm.chunk = 4
    <3>1. fsm.len \in {1, 2, 4, 8}
      BY <1>a, <2>2, Zenon DEF OneTlp
    <3>2. QED
      BY <3>1, <2>1, <2>2, <1>a, ChunkFacts
  <2>4. fsm.tlp.addr = fsm.addr + 0 /\ fsm.tlp.strb = 1..4 /\ fsm.tlp.data = fsm.data[1]
    BY <1>1, <1>a, <2>1, <2>2, <2>3, TlpAligned, Zenon DEF Latched
  <2>5. fsm.addr + 0 = fsm.addr
    BY <1>c
  <2>6. mst.tlp = fsm.tlp
    BY <1>a, <2>1, Zenon DEF OneTlp, Answer
  <2>7. CASE fsm.st = "WRITE_WAIT"
    <3>1. "b" \in g /\ slv.bvalid /\ slv.bresp = 0 /\ fsm.wr
      BY <2>1, <2>7, <1>a, <1>b, Zenon DEF Answer, MovesIn, OneTlp
    <3>2. Reached(slv.regs, fsm.addr, fsm.data[1], 1..4)
      BY <3>1, <2>4, <2>5, <2>6, Zenon DEF AnswerRight
    <3>3. slv'.regs = slv.regs
      BY <3>1, <1>a, <1>b, RegsKept, Zenon
    <3>4. QED
      BY <2>1, <3>1, <3>2, <3>3, Zenon DEF Latched
  <2>8. CASE fsm.st = "READ_WAIT"
    <3>1. "cpl" \in g /\ mst.st = "cpl" /\ data = mst.cpl.data /\ ~fsm.wr
      BY <2>1, <2>8, <1>a, <1>b, Zenon DEF Answer, MovesIn, OneTlp
    <3>2. data = Word(slv.regs, fsm.addr)
      BY <3>1, <2>4, <2>5, <2>6, Zenon DEF AnswerRight
    <3>3. slv'.regs = slv.regs
      BY <3>1, <1>a, <1>b, RegsKept, Zenon
    <3>4. QED
      BY <2>1, <3>1, <3>2, <3>3, Zenon DEF Latched
  <2>9. QED
    BY <2>1, <2>7, <2>8, Zenon DEF Answer
<1>4. CASE FsmRests(req) \/ FsmRejects(req) \/ FsmAccepts(req) \/ FsmResponds(g)
  BY <1>1, <1>4, Zenon DEF FsmRests, FsmRejects, FsmAccepts, FsmResponds, Busy
<1>5. QED
  BY <1>2, <1>3, <1>4, <1>b, Zenon DEF FsmStep

\* A response without an error is exact.
LEMMA RightClock ==
  ASSUME Types, Serial, AnswerRight, HalfRight, NEW req \in BOOLEAN, NEW g, Ticks(req, g)
  PROVE  ResponseRight'
<1>a. FsmType /\ MasterType /\ SlaveType /\ OneTlp /\ OneTransfer
  BY Zenon DEF Types, Serial
<1>b. MovesIn(g) /\ FsmStep(req, g) /\ MasterStep(g) /\ SlaveStep(g)
  BY Zenon DEF Ticks
<1>c. fsm.addr \in Nat /\ 3 # 0 /\ fsm.addr + 0 = fsm.addr
  BY <1>a, FsmFields
<1>1. CASE ~FsmResponds(g)
  <2>1. fsm'.rspValid = FALSE \/ fsm'.rspStatus = 3
    BY <1>1, <1>b, Zenon
    DEF FsmStep, FsmRests, FsmRejects, FsmAccepts, FsmSends, FsmOffers, FsmWaits,
        FsmGoesOn, Silent
  <2>2. QED
    BY <2>1, <1>c, Zenon DEF ResponseRight
<1>2. ASSUME FsmResponds(g), fsm'.rspStatus = 0, fsm.addr % 4 = 0, Decode(fsm.addr) # Doorbell
      PROVE  Exact(slv'.regs, fsm.addr, fsm.len, IF fsm.wr THEN fsm.data ELSE fsm'.rspData)
  <2>1. PICK err \in BOOLEAN, data \in Dword :
          /\ Answer(g, err, data) /\ ~(fsm.off + fsm.chunk < fsm.len)
          /\ ~err /\ fsm.status = 0 /\ Latched
          /\ ~fsm.wr => fsm'.rspData = (IF fsm.off = 0 THEN <<data, Zero>>
                                                       ELSE <<fsm.low, data>>)
    BY <1>2, Zenon DEF FsmResponds
  <2>2. Busy /\ fsm.st # "SEND" /\ mst.tlp = fsm.tlp
    BY <1>a, <2>1, Zenon DEF Answer, Busy, OneTlp
  <2>3. /\ fsm.len \in {1, 2, 4, 8} /\ fsm.chunk \in 1..4
        /\ \/ fsm.off = 0 /\ fsm.chunk = fsm.len
           \/ fsm.off = 4 /\ fsm.chunk = 4 /\ fsm.len = 8
    <3>1. fsm.len \in {1, 2, 4, 8}
      BY <1>a, <2>2, Zenon DEF OneTlp
    <3>2. QED
      BY <3>1, <2>1, <2>2, <1>a, ChunkFacts
  <2>4. /\ fsm.tlp.addr = fsm.addr + fsm.off /\ fsm.tlp.strb = 1..fsm.chunk
        /\ fsm.off = 0 => fsm.tlp.data = fsm.data[1]
        /\ fsm.off = 4 => fsm.tlp.data = fsm.data[2]
    BY <1>2, <1>a, <2>2, TlpAligned, Zenon
  \* the chunk that was answered
  <2>5. /\ slv'.regs = slv.regs
        /\ fsm.wr => Reached(slv.regs, fsm.tlp.addr, fsm.tlp.data, fsm.tlp.strb)
        /\ ~fsm.wr => data = Word(slv.regs, fsm.tlp.addr)
    <3>1. CASE fsm.st = "WRITE_WAIT"
      <4>1. "b" \in g /\ slv.bvalid /\ slv.bresp = 0 /\ fsm.wr
        BY <2>1, <3>1, <1>a, <1>b, Zenon DEF Answer, MovesIn, OneTlp
      <4>2. slv'.regs = slv.regs
        BY <4>1, <1>a, <1>b, RegsKept, Zenon
      <4>3. QED
        BY <4>1, <4>2, <2>2, Zenon DEF AnswerRight
    <3>2. CASE fsm.st = "READ_WAIT"
      <4>1. "cpl" \in g /\ mst.st = "cpl" /\ data = mst.cpl.data /\ ~fsm.wr
        BY <2>1, <3>2, <1>a, <1>b, Zenon DEF Answer, MovesIn, OneTlp
      <4>2. slv'.regs = slv.regs
        BY <4>1, <1>a, <1>b, RegsKept, Zenon
      <4>3. QED
        BY <4>1, <4>2, <2>2, Zenon DEF AnswerRight
    <3>3. QED
      BY <2>1, <3>1, <3>2, Zenon DEF Answer
  <2>6. CASE fsm.off = 0 /\ fsm.chunk = fsm.len
    <3>1. fsm.tlp.addr = fsm.addr
      BY <2>4, <2>6, <1>c, Zenon
    <3>2. \A k \in 1..4 : ~(k + 4 <= fsm.len) /\ (k <= fsm.len => k \in 1..fsm.chunk)
      BY <2>3, <2>6
    <3>3. fsm.wr => \A k \in 1..fsm.chunk : Word(slv.regs, fsm.addr)[k] = fsm.data[1][k]
      <4>1. fsm.wr => Reached(slv.regs, fsm.addr, fsm.data[1], 1..fsm.chunk)
        BY <2>4, <2>5, <2>6, <3>1, Zenon
      <4>2. QED
        BY <1>2, <4>1, Zenon DEF Reached
    <3>4. ~fsm.wr => fsm'.rspData[1] = Word(slv.regs, fsm.addr)
      <4>1. ~fsm.wr => fsm'.rspData = <<data, Zero>>
        BY <2>1, <2>6, Zenon
      <4>2. <<data, Zero>>[1] = data
        OBVIOUS
      <4>3. QED
        BY <4>1, <4>2, <2>5, <3>1, Zenon
    <3>5. CASE fsm.wr
      BY <3>5, <2>5, <3>2, <3>3, Zenon DEF Exact
    <3>6. CASE ~fsm.wr
      BY <3>6, <2>5, <3>2, <3>4, Zenon DEF Exact
    <3>7. QED
      BY <3>5, <3>6, Zenon
  <2>7. CASE fsm.off = 4 /\ fsm.chunk = 4 /\ fsm.len = 8
    <3>0. 4 # 0
      OBVIOUS
    <3>1. fsm.tlp.addr = fsm.addr + 4 /\ fsm.tlp.strb = 1..4
      BY <2>4, <2>7, Zenon
    <3>2. IF fsm.wr THEN Reached(slv.regs, fsm.addr, fsm.data[1], 1..4)
                    ELSE fsm.low = Word(slv.regs, fsm.addr)
      BY <1>2, <2>1, <2>2, <2>7, <3>0, Zenon DEF HalfRight
    <3>3. fsm.wr => \A k \in 1..4 : Word(slv.regs, fsm.addr)[k] = fsm.data[1][k]
      BY <1>2, <3>2, Zenon DEF Reached
    <3>4. fsm.wr => Decode(fsm.addr + 4) # Doorbell
      BY <3>2, <1>c, NextWord, Zenon DEF Reached
    <3>5. fsm.wr => \A k \in 1..4 : Word(slv.regs, fsm.addr + 4)[k] = fsm.data[2][k]
      <4>1. fsm.wr => Reached(slv.regs, fsm.addr + 4, fsm.data[2], 1..4)
        BY <2>4, <2>5, <2>7, <3>1, Zenon
      <4>2. QED
        BY <3>4, <4>1, Zenon DEF Reached
    <3>6. ~fsm.wr => fsm'.rspData = <<fsm.low, data>>
      BY <2>1, <2>7, <3>0, Zenon
    <3>7. ~fsm.wr => /\ fsm'.rspData[1] = Word(slv.regs, fsm.addr)
                     /\ fsm'.rspData[2] = Word(slv.regs, fsm.addr + 4)
      <4>1. <<fsm.low, data>>[1] = fsm.low /\ <<fsm.low, data>>[2] = data
        OBVIOUS
      <4>2. QED
        BY <4>1, <3>2, <3>6, <2>5, <3>1, Zenon
    <3>8. CASE fsm.wr
      BY <3>8, <2>5, <3>3, <3>5, Zenon DEF Exact
    <3>9. CASE ~fsm.wr
      BY <3>9, <2>5, <3>7, Zenon DEF Exact
    <3>10. QED
      BY <3>8, <3>9, Zenon
  <2>8. QED
    BY <2>3, <2>6, <2>7, Zenon
<1>3. CASE FsmResponds(g)
  <2>1. Latched
    BY <1>3, Zenon DEF FsmResponds
  <2>2. fsm'.rspStatus = 0 =>
          Exact(slv'.regs, fsm.addr, fsm.len, IF fsm.wr THEN fsm.data ELSE fsm'.rspData)
    BY <1>2, <1>3, Zenon DEF Exact
  <2>3. QED
    BY <2>1, <2>2, Zenon DEF ResponseRight, Latched
<1>4. QED
  BY <1>1, <1>3, Zenon

-----------------------------------------------------------------------------
(* The steps of the harness.                                               *)

\* One clock keeps what is known of the clocked parts.
LEMMA ClockKeeps ==
  ASSUME PathInv, HarnessType, NEW req \in BOOLEAN, Clock(req),
         req => Ready /\ har.op \in Ops
  PROVE  PathInv' /\ \E g : Ticks(req, g)
<1>a. Types /\ OneTlp /\ OneTransfer /\ OneResponse
  BY Zenon DEF PathInv, Types, Serial
<1>1. FsmType' /\ MasterType' /\ SlaveType' /\ \E g : Ticks(req, g)
  BY <1>a, ClockDoes, Zenon
<1>2. PICK g : Ticks(req, g)
  BY <1>1, Zenon
<1>3. MovesIn(g) /\ MasterStep(g) /\ SlaveStep(g)
  BY <1>2, Zenon DEF Ticks
<1>4. OneTransfer' /\ AnswerRight'
  BY <1>a, <1>3, TransferClock, AnswerClock, Zenon DEF PathInv
<1>5. OneTlp' /\ OneResponse'
  BY <1>a, <1>2, TlpClock, ResponseClock, Zenon DEF PathInv
<1>6. HalfRight' /\ ResponseRight'
  BY <1>a, <1>2, HalfClock, RightClock, Zenon DEF PathInv
<1>7. QED
  BY <1>1, <1>4, <1>5, <1>6, Zenon DEF PathInv, Serial

\* doorbell_seen_ is a Boolean, and has the pulse of the clock.
LEMMA SeenFacts ==
  ASSUME HarnessType, SlaveType'
  PROVE  /\ Seen(har) \in BOOLEAN
         /\ har.seen \/ slv'.pulse => Seen(har)
BY Zenon DEF Seen

\* The clock of a path at rest leaves it at rest, and the registers alone.
LEMMA RestClock ==
  ASSUME PathInv, NEW g, Ticks(FALSE, g), fsm.st \in {"IDLE", "RESPONSE"}, mst.st = "idle"
  PROVE  fsm'.st = "IDLE" /\ mst'.st = "idle" /\ slv'.regs = slv.regs
<1>1. MovesIn(g) /\ FsmStep(FALSE, g) /\ MasterStep(g) /\ SlaveStep(g)
  BY Zenon DEF Ticks
<1>2. OneTlp /\ OneTransfer
  BY Zenon DEF PathInv, Serial
<1>3. "take" \notin g
  BY <1>1, <1>2, Zenon DEF MovesIn, OneTlp
<1>4. mst'.st = "idle"
  BY <1>1, <1>3, MasterKeeps, Zenon
<1>5. slv'.regs = slv.regs
  BY <1>1, <1>2, RegsKept, Zenon
<1>6. fsm'.st = "IDLE"
  BY <1>1, Zenon
  DEF FsmStep, FsmRests, FsmRejects, FsmAccepts, FsmSends, FsmOffers, FsmWaits,
      FsmGoesOn, FsmResponds, Waiting, Answer
<1>7. QED
  BY <1>4, <1>5, <1>6, Zenon

\* What is known of the clocked parts is about their registers alone.
LEMMA PathSame ==
  ASSUME PathInv, UNCHANGED <<fsm, mst, slv>>
  PROVE  PathInv'
<1>a. fsm' = fsm /\ mst' = mst /\ slv' = slv
  BY Zenon
<1>1. Busy' = Busy /\ ChunkLen' = ChunkLen /\ MakeTlp' = MakeTlp
  BY <1>a, Zenon DEF Busy, ChunkLen, Rest, MakeTlp
<1>2. FsmType' /\ MasterType' /\ SlaveType'
  BY <1>a, Zenon DEF PathInv, FsmType, MasterType, SlaveType
<1>3. OneTlp'
  BY <1>a, <1>1 DEF PathInv, Serial, OneTlp
<1>4. OneTransfer' /\ OneResponse'
  BY <1>a, Zenon DEF PathInv, Serial, OneTransfer, OneResponse
<1>5. AnswerRight' /\ ResponseRight'
  BY <1>a, Zenon DEF PathInv, AnswerRight, ResponseRight
<1>6. HalfRight'
  BY <1>a, <1>1 DEF PathInv, HalfRight
<1>7. QED
  BY <1>2, <1>3, <1>4, <1>5, <1>6, Zenon DEF PathInv, Serial

\* A call that has not succeeded claims nothing.
LEMMA NoClaim ==
  ASSUME ~(last'.ok /\ last'.status = 0)
  PROVE  LastRight' /\ DoorbellRuns'
BY DEF LastRight, DoorbellRuns

\* A call begins.
LEMMA CallStep ==
  ASSUME AxilInv, Call
  PROVE  AxilInv'
<1>a. PathInv /\ HarnessType /\ UNCHANGED <<fsm, mst, slv>> /\ last' = NoLast
  BY Zenon DEF AxilInv, Call
<1>b. PICK o \in Ops : har' = [har EXCEPT !.pc = "ready", !.n = har.n + 1, !.ticks = 0, !.op = o]
  BY Zenon DEF Call
<1>1. PathInv'
  BY <1>a, PathSame, Zenon
<1>2. HarnessType' /\ har'.pc = "ready"
  <2>1. har.n + 1 \in Nat /\ 0 \in Nat
    BY <1>a DEF HarnessType, HarnessRecord
  <2>2. QED
    BY <1>a, <1>b, <2>1, Zenon DEF HarnessType, HarnessRecord
<1>3. last'.ok = FALSE
  BY <1>a, Zenon DEF NoLast
<1>4. LastRight' /\ DoorbellRuns'
  BY <1>3, NoClaim, Zenon
<1>5. QED
  BY <1>1, <1>2, <1>4, Zenon DEF AxilInv, OwnRequest, Rung

\* A tick in the wait for mmio_req_ready.
LEMMA ReadyTickStep ==
  ASSUME AxilInv, ReadyTick
  PROVE  AxilInv'
<1>a. /\ PathInv /\ HarnessType /\ Clock(FALSE) /\ har.pc = "ready" /\ UNCHANGED last
      /\ har' = [har EXCEPT !.ticks = har.ticks + 1, !.seen = Seen(har)]
  BY Zenon DEF AxilInv, ReadyTick
<1>1. PathInv'
  BY <1>a, ClockKeeps, Zenon
<1>2. HarnessType' /\ har'.pc = "ready"
  <2>1. har.ticks + 1 \in Nat
    BY <1>a DEF HarnessType, HarnessRecord
  <2>2. Seen(har) \in BOOLEAN
    BY <1>a, <1>1, SeenFacts, Zenon DEF PathInv
  <2>3. QED
    BY <1>a, <2>1, <2>2, Zenon DEF HarnessType, HarnessRecord
<1>3. ~(last'.ok /\ last'.status = 0)
  BY <1>a, Zenon DEF AxilInv, LastRight
<1>4. LastRight' /\ DoorbellRuns'
  BY <1>3, NoClaim, Zenon
<1>5. QED
  BY <1>1, <1>2, <1>4, Zenon DEF AxilInv, OwnRequest, Rung

\* Mmio gives up, on the ready signal or on the response.
LEMMA FailsStep ==
  ASSUME AxilInv, ReadyFails \/ WaitFails
  PROVE  AxilInv'
<1>a. /\ PathInv /\ HarnessType /\ UNCHANGED <<fsm, mst, slv>>
      /\ Return(FALSE, <<Zero, Zero>>, 5, har.seen)
  BY Zenon DEF AxilInv, ReadyFails, WaitFails
<1> DEFINE ran == har.op.wr /\ har.op.addr = Doorbell /\ har.seen
<1> DEFINE left == har.seen /\ ~ran
<1>b. /\ last'.ok = FALSE
      /\ har' = [har EXCEPT !.pc = "main", !.ticks = 0, !.seen = left]
  BY <1>a DEF Return
<1>c. left \in BOOLEAN /\ 0 \in Nat
  OBVIOUS
<1> HIDE DEF ran, left
<1>1. PathInv'
  BY <1>a, PathSame, Zenon
<1>2. HarnessType' /\ har'.pc = "main"
  BY <1>a, <1>b, <1>c, Zenon DEF HarnessType, HarnessRecord
<1>3. LastRight' /\ DoorbellRuns'
  BY <1>b, NoClaim, Zenon
<1>4. QED
  BY <1>1, <1>2, <1>3, Zenon DEF AxilInv, OwnRequest, Rung

\* The request is accepted, or rejected for its length.
LEMMA IssueStep ==
  ASSUME AxilInv, Issue
  PROVE  AxilInv'
<1>a. /\ PathInv /\ HarnessType /\ Clock(TRUE) /\ Ready /\ har.pc = "ready" /\ UNCHANGED last
      /\ har' = [har EXCEPT !.pc = "wait", !.ticks = 0, !.seen = Seen(har)]
  BY Zenon DEF AxilInv, Issue
<1>b. har.op \in Ops
  BY <1>a, Zenon DEF HarnessType
<1>1. PathInv' /\ \E g : Ticks(TRUE, g)
  BY <1>a, <1>b, ClockKeeps, Zenon
<1>2. /\ HarnessType' /\ har'.pc = "wait" /\ har'.n = har.n /\ har'.op = har.op
  <2>1. 0 \in Nat /\ Seen(har) \in BOOLEAN
    BY <1>a, <1>1, SeenFacts DEF PathInv
  <2>2. QED
    BY <1>a, <1>b, <2>1, Zenon DEF HarnessType, HarnessRecord
<1>3. FsmRejects(TRUE) \/ FsmAccepts(TRUE)
  BY <1>1, <1>a, Zenon
  DEF Ready, Ticks, FsmStep, FsmRests, FsmSends, FsmOffers, FsmWaits,
      FsmGoesOn, FsmResponds, Waiting, Answer
<1>4. OwnRequest'
  BY <1>2, <1>3, Zenon DEF OwnRequest, FsmRejects, FsmAccepts
<1>5. Rung'
  <2>1. 3 # 0
    OBVIOUS
  <2>2. CASE FsmRejects(TRUE)
    BY <2>1, <2>2, Zenon DEF FsmRejects, Rung, Busy
  <2>3. CASE FsmAccepts(TRUE)
    BY <2>3, Zenon DEF FsmAccepts, Rung, Busy, Silent
  <2>4. QED
    BY <1>3, <2>2, <2>3, Zenon
<1>6. ~(last'.ok /\ last'.status = 0)
  BY <1>a, Zenon DEF AxilInv, LastRight
<1>7. LastRight' /\ DoorbellRuns'
  BY <1>6, NoClaim, Zenon
<1>8. QED
  BY <1>1, <1>2, <1>4, <1>5, <1>7, Zenon DEF AxilInv

\* The pulse of a doorbell write falls in a tick of the call that made it.
LEMMA RungTick ==
  ASSUME PathInv, HarnessType, OwnRequest, Rung, har.pc = "wait", ~fsm.rspValid,
         NEW g, Ticks(FALSE, g), har.op.wr, har.op.addr = Doorbell, Latched,
         har'.seen = Seen(har)
  PROVE  /\ fsm'.st = "WRITE_WAIT" /\ slv'.bvalid /\ fsm'.off = 0 => har'.seen
         /\ Busy' /\ fsm'.off # 0 => har'.seen
         /\ fsm'.rspValid /\ fsm'.rspStatus = 0 => har'.seen
<1>a. MovesIn(g) /\ FsmStep(FALSE, g) /\ MasterStep(g) /\ SlaveStep(g)
  BY Zenon DEF Ticks
<1>b. OneTlp /\ OneTransfer /\ OneResponse
  BY Zenon DEF PathInv, Serial
<1>c. fsm.st \notin {"IDLE", "RESPONSE"} /\ fsm.wr /\ fsm.addr = Doorbell
  BY <1>b, Zenon DEF OwnRequest, OneResponse
<1>d. har.seen \/ slv'.pulse => har'.seen
  BY Zenon DEF Seen
<1>e. Busy
  BY <1>c, FsmFields, Zenon DEF PathInv, Busy
<1>f. fsm.off # 0 => har.seen
  BY <1>e, Zenon DEF Rung
<1>g. "b" \in g /\ fsm.st = "WRITE_WAIT" => har.seen
  BY <1>a, <1>f, Zenon DEF MovesIn, Rung
<1>1. ASSUME fsm'.st = "WRITE_WAIT", slv'.bvalid, fsm'.off = 0
      PROVE  har'.seen
  <2>1. CASE FsmOffers(g)
    <3>1. fsm.st = "HANDSHAKE" /\ "take" \in g
      BY <1>1, <2>1, Zenon DEF FsmOffers
    <3>2. ~slv.bvalid /\ ~Executes
      BY <3>1, <1>a, <1>b, Zenon DEF MovesIn, OneTransfer, Executes
    <3>3. QED
      BY <3>2, <1>1, <1>a, Zenon DEF SlaveStep
  <2>2. CASE FsmWaits(g)
    <3>1. fsm.st = "WRITE_WAIT" /\ fsm.off = 0
      BY <1>1, <2>2, Zenon DEF FsmWaits, Progress
    <3>2. CASE slv.bvalid
      BY <3>1, <3>2, <1>d, Zenon DEF Rung
    <3>3. CASE ~slv.bvalid
      <4>1. Executes
        BY <3>3, <1>1, <1>a, Zenon DEF SlaveStep
      <4>2. Target = Doorbell
        BY <3>1, <1>b, <1>c, <1>e, Zenon DEF OneTlp, Target
      <4>3. QED
        BY <4>1, <4>2, <1>a, <1>d, Zenon DEF SlaveStep
    <3>4. QED
      BY <3>2, <3>3, Zenon
  <2>3. QED
    BY <1>1, <1>a, <2>1, <2>2, Zenon
    DEF FsmStep, FsmRests, FsmRejects, FsmAccepts, FsmSends, FsmGoesOn, FsmResponds
<1>2. ASSUME Busy', fsm'.off # 0
      PROVE  har'.seen
  <2>1. CASE FsmGoesOn(g)
    <3>1. "b" \in g /\ fsm.st = "WRITE_WAIT"
      BY <2>1, <1>b, <1>c, Zenon DEF FsmGoesOn, Answer, OneTlp
    <3>2. QED
      BY <3>1, <1>d, <1>g, Zenon
  <2>2. CASE ~FsmGoesOn(g)
    <3>1. fsm'.off = fsm.off
      BY <1>2, <1>a, <1>c, <2>2, Zenon
      DEF FsmStep, FsmRests, FsmRejects, FsmAccepts, FsmSends, FsmOffers, FsmWaits,
          FsmResponds, Busy, Progress
    <3>2. QED
      BY <3>1, <1>2, <1>d, <1>f, Zenon
  <2>3. QED
    BY <2>1, <2>2, Zenon
<1>3. ASSUME fsm'.rspValid, fsm'.rspStatus = 0
      PROVE  har'.seen
  <2>1. 3 # 0
    OBVIOUS
  <2>2. FsmResponds(g)
    BY <1>3, <1>a, <1>c, <2>1, Zenon
    DEF FsmStep, FsmRests, FsmRejects, FsmAccepts, FsmSends, FsmOffers, FsmWaits,
        FsmGoesOn, Silent
  <2>3. "b" \in g /\ fsm.st = "WRITE_WAIT"
    BY <2>2, <1>b, <1>c, Zenon DEF FsmResponds, Answer, OneTlp
  <2>4. QED
    BY <2>3, <1>d, <1>g, Zenon
<1>4. QED
  BY <1>1, <1>2, <1>3, Zenon

\* A tick in the wait for the response.
LEMMA WaitTickStep ==
  ASSUME AxilInv, WaitTick
  PROVE  AxilInv'
<1>a. /\ PathInv /\ HarnessType /\ OwnRequest /\ Rung /\ Clock(FALSE)
      /\ har.pc = "wait" /\ ~fsm.rspValid /\ UNCHANGED last
      /\ har' = [har EXCEPT !.ticks = har.ticks + 1, !.seen = Seen(har)]
  BY Zenon DEF AxilInv, WaitTick
<1>1. PathInv' /\ \E g : Ticks(FALSE, g)
  BY <1>a, ClockKeeps, Zenon
<1>2. PICK g : Ticks(FALSE, g)
  BY <1>1, Zenon
<1>3. /\ HarnessType' /\ har'.pc = "wait" /\ har'.n = har.n /\ har'.op = har.op
      /\ har'.seen = Seen(har)
  <2>1. har.ticks + 1 \in Nat
    BY <1>a DEF HarnessType, HarnessRecord
  <2>2. Seen(har) \in BOOLEAN
    BY <1>a, <1>1, SeenFacts, Zenon DEF PathInv
  <2>3. QED
    BY <1>a, <2>1, <2>2, Zenon DEF HarnessType, HarnessRecord
<1>4. fsm.st \notin {"IDLE", "RESPONSE"}
  BY <1>a, Zenon DEF OwnRequest, PathInv, Serial, OneResponse
<1>5. Latched /\ fsm'.st # "IDLE"
  BY <1>2, <1>4, Zenon
  DEF Ticks, FsmStep, FsmRests, FsmRejects, FsmAccepts, FsmSends, FsmOffers, FsmWaits,
      FsmGoesOn, FsmResponds
<1>6. OwnRequest'
  BY <1>a, <1>3, <1>4, <1>5, Zenon DEF OwnRequest, Latched
<1>7. Rung'
  BY <1>a, <1>2, <1>3, <1>5, RungTick, Zenon DEF Rung
<1>8. ~(last'.ok /\ last'.status = 0)
  BY <1>a, Zenon DEF AxilInv, LastRight
<1>9. LastRight' /\ DoorbellRuns'
  BY <1>8, NoClaim, Zenon
<1>10. QED
  BY <1>1, <1>3, <1>6, <1>7, <1>9, Zenon DEF AxilInv

\* Mmio takes the response and main does what follows from it.
LEMMA TakeStep ==
  ASSUME AxilInv, Take
  PROVE  AxilInv'
<1>a. /\ PathInv /\ HarnessType /\ OwnRequest /\ Rung /\ Clock(FALSE)
      /\ har.pc = "wait" /\ fsm.rspValid
      /\ Return(TRUE, fsm.rspData, fsm.rspStatus, Seen(har))
  BY Zenon DEF AxilInv, Take
<1> DEFINE ran == har.op.wr /\ har.op.addr = Doorbell /\ Seen(har)
<1> DEFINE left == Seen(har) /\ ~ran
<1>b. /\ last' = [ok |-> TRUE, op |-> har.op, data |-> fsm.rspData,
                  status |-> fsm.rspStatus, ran |-> ran]
      /\ har' = [har EXCEPT !.pc = "main", !.ticks = 0, !.seen = left]
  BY <1>a DEF Return
<1>c. left \in BOOLEAN /\ 0 \in Nat
  OBVIOUS
<1>d. har.op.addr = Doorbell /\ har.op.wr /\ Seen(har) => ran
  BY DEF Doorbell
<1> HIDE DEF ran, left
<1>1. PathInv' /\ \E g : Ticks(FALSE, g)
  BY <1>a, ClockKeeps, Zenon
<1>2. PICK g : Ticks(FALSE, g)
  BY <1>1, Zenon
<1>3. HarnessType' /\ har'.pc = "main"
  BY <1>a, <1>b, <1>c, Zenon DEF HarnessType, HarnessRecord
<1>4. /\ last'.ok /\ last'.op = har.op /\ last'.data = fsm.rspData
      /\ last'.status = fsm.rspStatus /\ last'.ran = ran
  BY <1>b, Zenon
<1>5. LastRight'
  <2>1. SUFFICES ASSUME fsm.rspStatus = 0 PROVE LastRight'
    BY <1>4, Zenon DEF LastRight
  <2>2. fsm.st = "RESPONSE" /\ mst.st = "idle"
    BY <2>1, <1>a, Zenon DEF PathInv, Serial, OneResponse
  <2>3. fsm'.st = "IDLE" /\ mst'.st = "idle" /\ slv'.regs = slv.regs
    BY <1>a, <1>2, <2>2, RestClock, Zenon
  <2>4. Exact(slv.regs, fsm.addr, fsm.len, IF fsm.wr THEN fsm.data ELSE fsm.rspData)
    BY <1>a, <2>1, Zenon DEF PathInv, ResponseRight
  <2>5. /\ fsm.wr = har.op.wr /\ fsm.addr = har.op.addr /\ fsm.len = har.op.len
        /\ fsm.data = har.op.data
    BY <1>a, <2>2, Zenon DEF OwnRequest
  <2>6. har.op \in Ops /\ fsm.rspData \in Pair
    BY <1>a, FsmFields, Zenon DEF HarnessType, PathInv
  <2>7. QED
    BY <1>3, <1>4, <2>3, <2>4, <2>5, <2>6, Zenon DEF LastRight
<1>6. DoorbellRuns'
  <2>1. fsm.rspStatus = 0 /\ har.op.wr /\ har.op.addr = Doorbell => ran
    BY <1>a, <1>d, Zenon DEF Rung, Seen
  <2>2. QED
    BY <1>4, <2>1 DEF DoorbellRuns, Doorbell
<1>7. QED
  BY <1>1, <1>3, <1>5, <1>6, Zenon DEF AxilInv, OwnRequest, Rung

\* A tick of an idle main: what the last call was told stays true.
LEMMA MainTickStep ==
  ASSUME AxilInv, MainTick
  PROVE  AxilInv'
<1>a. /\ PathInv /\ HarnessType /\ LastRight /\ DoorbellRuns /\ Clock(FALSE)
      /\ har.pc = "main" /\ UNCHANGED last /\ har' = [har EXCEPT !.seen = Seen(har)]
  BY Zenon DEF AxilInv, MainTick
<1>1. PathInv' /\ \E g : Ticks(FALSE, g)
  BY <1>a, ClockKeeps, Zenon
<1>2. PICK g : Ticks(FALSE, g)
  BY <1>1, Zenon
<1>3. HarnessType' /\ har'.pc = "main"
  <2>1. Seen(har) \in BOOLEAN
    BY <1>a, <1>1, SeenFacts, Zenon DEF PathInv
  <2>2. QED
    BY <1>a, <2>1, Zenon DEF HarnessType, HarnessRecord
<1>4. LastRight'
  <2>1. last' = last
    BY <1>a, Zenon
  <2>2. SUFFICES ASSUME last.ok, last.status = 0 PROVE LastRight'
    BY <2>1, Zenon DEF LastRight
  <2>3. fsm'.st = "IDLE" /\ mst'.st = "idle" /\ slv'.regs = slv.regs
    BY <1>a, <1>2, <2>2, RestClock, Zenon DEF LastRight
  <2>4. QED
    BY <1>a, <1>3, <2>1, <2>2, <2>3, Zenon DEF LastRight
<1>5. DoorbellRuns'
  BY <1>a DEF DoorbellRuns
<1>6. QED
  BY <1>1, <1>3, <1>4, <1>5, Zenon DEF AxilInv, OwnRequest, Rung

\* The registers after a reset.
LEMMA ResetFacts ==
  ASSUME NEW i \in Nat
  PROVE  /\ FsmReset \in FsmRecord /\ FsmReset.st = "IDLE" /\ ~FsmReset.valid
         /\ ~FsmReset.rspValid
         /\ [FsmReset EXCEPT !.id = i] \in FsmRecord
         /\ [FsmReset EXCEPT !.id = i].st = "IDLE"
         /\ ~[FsmReset EXCEPT !.id = i].valid /\ ~[FsmReset EXCEPT !.id = i].rspValid
         /\ MasterReset \in MasterRecord /\ MasterReset.st = "idle"
         /\ SlaveReset \in SlaveRecord /\ ~SlaveReset.aw /\ ~SlaveReset.w
         /\ ~SlaveReset.bvalid /\ ~SlaveReset.rvalid
<1>a. 0 \in Nat /\ 0 \in Int /\ Zero \in Dword /\ ZeroPair \in Pair
  <2>1. 0 \in Nat /\ 0 \in Int
    OBVIOUS
  <2>2. QED
    BY <2>1, ZeroWord, Zenon DEF Pair, ZeroPair
<1>b. NoTlp \in Tlp
  BY <1>a, Zenon DEF NoTlp, Tlp
<1>1. FsmReset \in FsmRecord /\ FsmReset.st = "IDLE" /\ ~FsmReset.valid /\ ~FsmReset.rspValid
  BY <1>a, <1>b, Zenon DEF FsmReset, FsmRecord, ZeroPair
<1>2. /\ [FsmReset EXCEPT !.id = i] \in FsmRecord
      /\ [FsmReset EXCEPT !.id = i].st = FsmReset.st
      /\ [FsmReset EXCEPT !.id = i].valid = FsmReset.valid
      /\ [FsmReset EXCEPT !.id = i].rspValid = FsmReset.rspValid
  BY <1>1, Zenon DEF FsmRecord
<1>3. MasterReset \in MasterRecord /\ MasterReset.st = "idle"
  BY <1>a, <1>b, Zenon DEF MasterReset, MasterRecord
<1>4. /\ SlaveReset \in SlaveRecord /\ ~SlaveReset.aw /\ ~SlaveReset.w
      /\ ~SlaveReset.bvalid /\ ~SlaveReset.rvalid
  BY <1>a, Zenon DEF SlaveReset, SlaveRecord, Registers
<1>5. QED
  BY <1>1, <1>2, <1>3, <1>4, Zenon

\* RESET_REQ puts the clocked parts at rest and forgets the last call.
LEMMA ResetStep ==
  ASSUME AxilInv, Reset
  PROVE  AxilInv'
<1>a. /\ HarnessType /\ har.pc = "main" /\ har' = har /\ last' = NoLast /\ fsm.id \in Nat
      /\ fsm' = [FsmReset EXCEPT !.id = fsm.id] /\ mst' = MasterReset /\ slv' = SlaveReset
  BY FsmFields, Zenon DEF AxilInv, PathInv, Reset
<1>1. /\ FsmType' /\ MasterType' /\ SlaveType' /\ fsm'.st = "IDLE" /\ ~fsm'.valid
      /\ ~fsm'.rspValid /\ mst'.st = "idle"
      /\ ~slv'.aw /\ ~slv'.w /\ ~slv'.bvalid /\ ~slv'.rvalid
  BY <1>a, ResetFacts, Zenon DEF FsmType, MasterType, SlaveType
<1>2. PathInv'
  BY <1>1, Zenon
  DEF PathInv, Serial, OneTlp, OneTransfer, OneResponse, AnswerRight, HalfRight,
      ResponseRight, Busy
<1>3. last'.ok = FALSE
  BY <1>a, Zenon DEF NoLast
<1>4. LastRight' /\ DoorbellRuns'
  BY <1>3, NoClaim, Zenon
<1>5. QED
  BY <1>a, <1>2, <1>4, Zenon DEF AxilInv, HarnessType, OwnRequest, Rung

-----------------------------------------------------------------------------
(* The theorems.                                                           *)

\* The path starts at rest.
LEMMA AxilInit ==
  ASSUME Init
  PROVE  AxilInv
<1>a. 0 \in Nat
  OBVIOUS
<1>1. /\ FsmType /\ MasterType /\ SlaveType /\ fsm.st = "IDLE" /\ ~fsm.valid
      /\ ~fsm.rspValid /\ mst.st = "idle"
      /\ ~slv.aw /\ ~slv.w /\ ~slv.bvalid /\ ~slv.rvalid
  BY <1>a, ResetFacts, Zenon DEF Init, FsmType, MasterType, SlaveType
<1>2. PathInv
  BY <1>1, Zenon
  DEF PathInv, Serial, OneTlp, OneTransfer, OneResponse, AnswerRight, HalfRight,
      ResponseRight, Busy
<1>3. HarnessType /\ har.pc = "main"
  BY <1>a, Zenon DEF Init, HarnessType, HarnessRecord
<1>4. last.ok = FALSE
  BY Zenon DEF Init, NoLast
<1>5. LastRight /\ DoorbellRuns
  BY <1>4 DEF LastRight, DoorbellRuns
<1>6. QED
  BY <1>2, <1>3, <1>5, Zenon DEF AxilInv, OwnRequest, Rung

\* Every step keeps the invariant.
LEMMA AxilStep ==
  ASSUME AxilInv, [Next]_vars
  PROVE  AxilInv'
<1>1. CASE Next
  BY <1>1, CallStep, ReadyTickStep, FailsStep, IssueStep, WaitTickStep, TakeStep,
     MainTickStep, ResetStep, Zenon DEF Next
<1>2. CASE UNCHANGED vars
  <2>1. UNCHANGED <<fsm, mst, slv>> /\ fsm' = fsm /\ mst' = mst /\ slv' = slv
        /\ har' = har /\ last' = last
    BY <1>2, Zenon DEF vars
  <2>2. PathInv'
    BY <2>1, PathSame, Zenon DEF AxilInv
  <2>3. HarnessType' /\ OwnRequest' /\ Rung' /\ LastRight'
    BY <2>1, Zenon DEF AxilInv, HarnessType, OwnRequest, Rung, LastRight, Busy
  <2>4. DoorbellRuns'
    BY <2>1 DEF AxilInv, DoorbellRuns
  <2>5. QED
    BY <2>2, <2>3, <2>4, Zenon DEF AxilInv
<1>3. QED
  BY <1>1, <1>2, Zenon

\* The eight bytes of a pair of dwords.
LEMMA PairBytes ==
  ASSUME NEW d \in Pair, NEW i \in 1..8
  PROVE  (d[1] \o d[2])[i] = IF i <= 4 THEN d[1][i] ELSE d[2][i - 4]
<1>1. d[1] \in Dword /\ d[2] \in Dword
  BY DEF Pair
<1>2. \A w \in Dword : w \in Seq(Byte)
  BY SeqDef, 4 \in Nat, Zenon DEF Dword
<1>3. \A w \in Dword : Len(w) = 4
  <2>1. SUFFICES ASSUME NEW w \in Dword PROVE Len(w) = 4
    BY Zenon
  <2>2. DOMAIN w = 1..4
    BY Zenon DEF Dword
  <2>3. Len(w) \in Nat /\ DOMAIN w = 1..Len(w)
    BY <1>2, LenProperties, Zenon
  <2>4. QED
    BY <2>2, <2>3
<1>4. d[1] \in Seq(Byte) /\ d[2] \in Seq(Byte) /\ Len(d[1]) = 4 /\ Len(d[2]) = 4
  BY <1>1, <1>2, <1>3, Zenon
<1>5. \A k \in 1..(Len(d[1]) + Len(d[2])) :
        (d[1] \o d[2])[k] = IF k <= Len(d[1]) THEN d[1][k] ELSE d[2][k - Len(d[1])]
  BY <1>4, ConcatProperties, Zenon
<1>6. i \in 1..(Len(d[1]) + Len(d[2]))
  BY <1>4
<1>7. QED
  BY <1>4, <1>5, <1>6, Zenon

\* The bytes of an access to a dword address are lanes of two dwords.
LEMMA ByteLanes ==
  ASSUME NEW a \in Nat, a % 4 = 0, NEW i \in 1..8
  PROVE  ByteAt(a + i - 1) = IF i <= 4 THEN Word(slv.regs, a)[i]
                                       ELSE Word(slv.regs, a + 4)[i - 4]
<1> DEFINE b == a + i - 1
<1>1. i <= 4 => (b \div 4) * 4 = a /\ (b % 4) + 1 = i
  OBVIOUS
<1>2. ~(i <= 4) => (b \div 4) * 4 = a + 4 /\ (b % 4) + 1 = i - 4
  OBVIOUS
<1> HIDE DEF b
<1>3. ByteAt(b) = Word(slv.regs, (b \div 4) * 4)[(b % 4) + 1]
  BY Zenon DEF ByteAt, Word
<1>4. QED
  BY <1>1, <1>2, <1>3, Zenon DEF b

\* The path is serial and what it holds is right, whatever was given up.
THEOREM AxilInvHolds == Spec => []AxilInv
<1>1. Init => AxilInv
  BY AxilInit
<1>2. AxilInv /\ [Next]_vars => AxilInv'
  BY AxilStep
<1>3. QED
  BY <1>1, <1>2, PTL DEF Spec

\* The response Mmio takes is the one to the request it issued, also after
\* calls it gave up on while the FSM was still working.
THEOREM OwnResponseHolds == Spec => []OwnResponse
<1>1. AxilInv => OwnResponse
  BY Zenon DEF AxilInv, OwnRequest, OwnResponse
<1>2. QED
  BY <1>1, AxilInvHolds, PTL

\* A doorbell write that succeeds runs the DMA sequence: the harness does not
\* miss the one-cycle pulse.
THEOREM DoorbellRunsHolds == Spec => []DoorbellRuns
<1>1. AxilInv => DoorbellRuns
  BY Zenon DEF AxilInv
<1>2. QED
  BY <1>1, AxilInvHolds, PTL

\* A successful access of a dword address is exact, also when it was split and
\* when calls before it were given up.
THEOREM AccessExactHolds == Spec => []AccessExact
<1>1. ASSUME AxilInv
      PROVE  AccessExact
  <2> DEFINE d == IF last.op.wr THEN last.op.data ELSE last.data
  <2>1. SUFFICES ASSUME last.ok, last.status = 0, last.op.addr % 4 = 0,
                        Decode(last.op.addr) # Doorbell, NEW i \in 1..last.op.len
                 PROVE  (d[1] \o d[2])[i] = ByteAt(last.op.addr + i - 1)
    BY Zenon DEF AccessExact
  <2>2. /\ last.op \in Ops /\ last.data \in Pair
        /\ Exact(slv.regs, last.op.addr, last.op.len, d)
    BY <1>1, <2>1 DEF AxilInv, LastRight
  <2>3. last.op.addr \in Nat /\ last.op.len \in 0..8 /\ last.op.data \in Pair
    BY <2>2, AxilAssumption DEF Pair
  <2>4. d \in Pair
    BY <2>2, <2>3
  <2> HIDE DEF d
  <2>5. /\ \A k \in 1..4 : k <= last.op.len => Word(slv.regs, last.op.addr)[k] = d[1][k]
        /\ \A k \in 1..4 : k + 4 <= last.op.len =>
             Word(slv.regs, last.op.addr + 4)[k] = d[2][k]
    BY <2>1, <2>2 DEF Exact, Doorbell
  <2>6. /\ i \in 1..8 /\ i <= last.op.len
        /\ i <= 4 => i \in 1..4
        /\ ~(i <= 4) => i - 4 \in 1..4 /\ (i - 4) + 4 <= last.op.len
    BY <2>1, <2>3
  <2>7. (d[1] \o d[2])[i] = IF i <= 4 THEN d[1][i] ELSE d[2][i - 4]
    BY <2>4, <2>6, PairBytes, Zenon
  <2>8. ByteAt(last.op.addr + i - 1) = IF i <= 4 THEN Word(slv.regs, last.op.addr)[i]
                                        ELSE Word(slv.regs, last.op.addr + 4)[i - 4]
    BY <2>1, <2>3, <2>6, ByteLanes, Zenon
  <2>9. QED
    BY <2>5, <2>6, <2>7, <2>8, Zenon
<1>2. QED
  BY <1>1, AxilInvHolds, PTL
=============================================================================
