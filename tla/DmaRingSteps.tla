---------------------------- MODULE DmaRingSteps ----------------------------
(***************************************************************************)
(* What each action of the descriptor-ring test does, field by field, and  *)
(* that it keeps the types and the parts of the invariant about the callers *)
(* and their register accesses.                                            *)
(***************************************************************************)
EXTENDS DmaRingInvariant, TLAPS

(* Facts about the queues and the addresses in effect.                     *)

\* Replacing one entry of a sequence.
LEMMA EntryReplaced ==
  ASSUME NEW S, NEW seq \in Seq(S), NEW i \in 1..Len(seq), NEW e \in S
  PROVE  /\ [seq EXCEPT ![i] = e] \in Seq(S)
         /\ Len([seq EXCEPT ![i] = e]) = Len(seq)
         /\ \A j \in 1..Len(seq) : [seq EXCEPT ![i] = e][j] = IF j = i THEN e ELSE seq[j]
  OBVIOUS

\* Which slots the descriptors from an even index on have, and how far the
\* next even one is.
LEMMA Parity ==
  ASSUME NEW n \in Nat, Even(n)
  PROVE  /\ n % 2 = 0 /\ (n + 1) % 2 = 1 /\ Even(n + 2)
         /\ \A m \in Nat : Even(m) /\ n < m /\ m - n <= 2 => m = n + 2
  BY DEF Even

\* At the head of the queue a register has its present value.
LEMMA EffectNow ==
  ASSUME NEW q, NEW r, NEW cur, NEW b
  PROVE  InEffect(q, r, cur, 1, b) <=> cur = b
  BY DEF InEffect

\* Two values are not in effect at once.
LEMMA EffectUnique ==
  ASSUME NEW q, NEW r, NEW cur, NEW i \in Nat, NEW b, NEW c,
         InEffect(q, r, cur, i, b), InEffect(q, r, cur, i, c)
  PROVE  b = c
<1>1. CASE \E j \in 1..(i - 1) : q[j].reg = r
  <2>1. PICK j \in 1..(i - 1) : q[j].reg = r /\ q[j].val = b /\ \A k \in (j + 1)..(i - 1) : q[k].reg # r
    BY <1>1, Zenon DEF InEffect
  <2>2. PICK k \in 1..(i - 1) : q[k].reg = r /\ q[k].val = c /\ \A m \in (k + 1)..(i - 1) : q[m].reg # r
    BY <1>1, Zenon DEF InEffect
  <2>3. ~(j < k) /\ ~(k < j)
    BY <2>1, <2>2
  <2> QED BY <2>1, <2>2, <2>3
<1>2. CASE ~\E j \in 1..(i - 1) : q[j].reg = r
  BY <1>2, Zenon DEF InEffect
<1> QED BY <1>1, <1>2, Zenon

\* An access that is added changes nothing for those before it,
LEMMA EffectBefore ==
  ASSUME NEW S, NEW q \in Seq(S), NEW a \in S, NEW r, NEW cur, NEW i \in 1..(Len(q) + 1), NEW b
  PROVE  InEffect(Append(q, a), r, cur, i, b) <=> InEffect(q, r, cur, i, b)
<1> DEFINE w == Append(q, a)
<1>1. \A k \in 1..(i - 1) : w[k] = q[k]
  OBVIOUS
<1>2. \A j \in 1..(i - 1) : \A k \in (j + 1)..(i - 1) : k \in 1..(i - 1)
  OBVIOUS
<1> HIDE DEF w
<1>3. InEffect(w, r, cur, i, b) <=> InEffect(q, r, cur, i, b)
  BY <1>1, <1>2, SMT DEF InEffect
<1> QED BY <1>3, Zenon DEF w

\* and for those after it decides about its own register.
LEMMA EffectAfter ==
  ASSUME NEW S, NEW q \in Seq(S), NEW a \in S, NEW r, NEW cur, NEW b
  PROVE  /\ a.reg = r /\ a.val = b => InEffect(Append(q, a), r, cur, Len(q) + 2, b)
         /\ a.reg # r /\ InEffect(q, r, cur, Len(q) + 1, b) => InEffect(Append(q, a), r, cur, Len(q) + 2, b)
<1> DEFINE w == Append(q, a)
<1>1. Len(q) \in Nat /\ w[Len(q) + 1] = a /\ \A k \in 1..Len(q) : w[k] = q[k]
  OBVIOUS
<1> HIDE DEF w
<1>2. ASSUME a.reg = r, a.val = b PROVE InEffect(w, r, cur, Len(q) + 2, b)
  <2>1. Len(q) + 1 \in 1..(Len(q) + 2 - 1) /\ \A k \in (Len(q) + 1 + 1)..(Len(q) + 2 - 1) : w[k].reg # r
    BY <1>1
  <2> QED BY <1>1, <1>2, <2>1 DEF InEffect
<1>3. ASSUME a.reg # r, InEffect(q, r, cur, Len(q) + 1, b) PROVE InEffect(w, r, cur, Len(q) + 2, b)
  <2>1. CASE \E j \in 1..Len(q) : q[j].reg = r /\ q[j].val = b /\ \A k \in (j + 1)..Len(q) : q[k].reg # r
    <3>1. PICK j \in 1..Len(q) : q[j].reg = r /\ q[j].val = b /\ \A k \in (j + 1)..Len(q) : q[k].reg # r
      BY <2>1, Zenon
    <3>2. j \in 1..(Len(q) + 2 - 1) /\ w[j].reg = r /\ w[j].val = b
      BY <1>1, <3>1
    <3>3. ASSUME NEW k \in (j + 1)..(Len(q) + 2 - 1) PROVE w[k].reg # r
      <4>1. k = Len(q) + 1 \/ (k \in (j + 1)..Len(q) /\ k \in 1..Len(q))
        BY <1>1
      <4> QED BY <1>1, <1>3, <3>1, <4>1, Zenon
    <3> QED BY <3>2, <3>3 DEF InEffect
  <2>2. CASE cur = b /\ \A k \in 1..Len(q) : q[k].reg # r
    BY <1>1, <1>3, <2>2 DEF InEffect
  <2>3. Len(q) + 1 - 1 = Len(q)
    BY <1>1
  <2> QED BY <1>3, <2>1, <2>2, <2>3 DEF InEffect
<1> QED BY <1>2, <1>3, Zenon DEF w

\* When the first access is taken the others see the register as they did
\* before.
LEMMA EffectTail ==
  ASSUME NEW S, NEW q \in Seq(S), q # <<>>, NEW r, NEW cur, NEW now,
         now = IF q[1].reg = r THEN q[1].val ELSE cur,
         NEW i \in 1..Len(q), NEW b
  PROVE  InEffect(Tail(q), r, now, i, b) <=> InEffect(q, r, cur, i + 1, b)
<1> DEFINE w == Tail(q)
<1>1. Len(q) \in Nat /\ i \in Nat /\ i >= 1 /\ i <= Len(q) /\ \A k \in 1..(i - 1) : w[k] = q[k + 1]
  OBVIOUS
<1> HIDE DEF w
<1>2. ASSUME InEffect(w, r, now, i, b) PROVE InEffect(q, r, cur, i + 1, b)
  <2>1. CASE \E j \in 1..(i - 1) : w[j].reg = r /\ w[j].val = b /\ \A k \in (j + 1)..(i - 1) : w[k].reg # r
    <3>1. PICK j \in 1..(i - 1) : w[j].reg = r /\ w[j].val = b /\ \A k \in (j + 1)..(i - 1) : w[k].reg # r
      BY <2>1, Zenon
    <3>2. \A k \in (j + 2)..i : q[k].reg # r
      <4> SUFFICES ASSUME NEW k \in (j + 2)..i PROVE q[k].reg # r
        BY Zenon
      <4>1. k - 1 \in (j + 1)..(i - 1) /\ k - 1 \in 1..(i - 1) /\ (k - 1) + 1 = k
        BY <1>1
      <4> QED BY <1>1, <3>1, <4>1, Zenon
    <3>3. j + 1 \in 1..(i + 1 - 1) /\ q[j + 1].reg = r /\ q[j + 1].val = b
      BY <1>1, <3>1
    <3>4. (j + 1) + 1 = j + 2 /\ i + 1 - 1 = i
      BY <1>1
    <3> QED BY <3>2, <3>3, <3>4 DEF InEffect
  <2>2. CASE now = b /\ \A k \in 1..(i - 1) : w[k].reg # r
    <3>1. \A k \in 2..i : q[k].reg # r
      <4> SUFFICES ASSUME NEW k \in 2..i PROVE q[k].reg # r
        BY Zenon
      <4>1. k - 1 \in 1..(i - 1) /\ (k - 1) + 1 = k
        BY <1>1
      <4> QED BY <1>1, <2>2, <4>1, Zenon
    <3>2. CASE q[1].reg = r
      <4>1. 1 \in 1..(i + 1 - 1) /\ 1 + 1 = 2 /\ i + 1 - 1 = i /\ q[1].val = b
        BY <1>1, <2>2, <3>2
      <4> QED BY <3>1, <3>2, <4>1 DEF InEffect
    <3>3. CASE q[1].reg # r
      <4>1. cur = b /\ \A k \in 1..(i + 1 - 1) : k = 1 \/ k \in 2..i
        BY <1>1, <2>2, <3>3
      <4> QED BY <3>1, <3>3, <4>1 DEF InEffect
    <3> QED BY <3>2, <3>3, Zenon
  <2> QED BY <1>2, <2>1, <2>2, Zenon DEF InEffect
<1>3. ASSUME InEffect(q, r, cur, i + 1, b) PROVE InEffect(w, r, now, i, b)
  <2>0. i + 1 - 1 = i /\ \A k \in 1..(i - 1) : k + 1 \in 1..i /\ k + 1 # 1
    BY <1>1
  <2>1. CASE \E j \in 1..i : q[j].reg = r /\ q[j].val = b /\ \A k \in (j + 1)..i : q[k].reg # r
    <3>1. PICK j \in 1..i : q[j].reg = r /\ q[j].val = b /\ \A k \in (j + 1)..i : q[k].reg # r
      BY <2>1, Zenon
    <3>2. CASE j = 1
      <4>1. \A k \in 1..(i - 1) : k + 1 \in (j + 1)..i
        BY <1>1, <3>2
      <4> QED BY <1>1, <3>1, <3>2, <4>1, Zenon DEF InEffect
    <3>3. CASE j # 1
      <4>1. j - 1 \in 1..(i - 1) /\ (j - 1) + 1 = j
        BY <1>1, <3>3
      <4>2. ASSUME NEW k \in j..(i - 1) PROVE w[k].reg # r
        <5>1. k + 1 \in (j + 1)..i /\ k \in 1..(i - 1)
          BY <1>1
        <5> QED BY <1>1, <3>1, <5>1, Zenon
      <4>3. w[j - 1].reg = r /\ w[j - 1].val = b
        BY <1>1, <3>1, <4>1, Zenon
      <4> QED BY <4>1, <4>2, <4>3, Zenon DEF InEffect
    <3> QED BY <3>2, <3>3, Zenon
  <2>2. CASE cur = b /\ \A k \in 1..i : q[k].reg # r
    <3>1. 1 \in 1..i
      BY <1>1
    <3> QED BY <1>1, <2>0, <2>2, <3>1, Zenon DEF InEffect
  <2> QED BY <1>3, <2>0, <2>1, <2>2 DEF InEffect
<1> QED BY <1>2, <1>3, Zenon DEF w

\* The requests of RunGenericDma, step by step.
LEMMA RequestOf ==
  /\ h.pc = "desc" => HostRequest = [op |-> "READ_DESC", buf |-> reg.base, at |-> Slot, val |-> 0]
  /\ h.pc = "xfer" /\ Slot = 0 =>
       HostRequest = [op |-> "READ_SRC", buf |-> reg.base, at |-> h.chunk, val |-> 0]
  /\ h.pc = "xfer" /\ Slot = 1 =>
       HostRequest = [op |-> "WRITE_DST", buf |-> reg.base, at |-> h.chunk, val |-> ram[h.chunk]]
  /\ h.pc = "cpl" => HostRequest = [op |-> "WRITE_CPL", buf |-> reg.cplBase, at |-> Slot, val |-> Record]
<1>1. ASSUME h.pc = "desc" PROVE h.pc # "xfer"
  BY <1>1, Zenon
<1>2. ASSUME h.pc = "xfer" PROVE h.pc # "desc"
  BY <1>2, Zenon
<1>3. ASSUME Slot = 0 PROVE Slot # 1
  BY <1>3
<1>4. ASSUME h.pc = "cpl" PROVE h.pc # "desc" /\ h.pc # "xfer"
  BY <1>4, Zenon
<1> QED BY <1>1, <1>2, <1>3, <1>4, Zenon DEF HostRequest, Record

\* The slot the harness is at.
LEMMA SlotIs ==
  ASSUME TypeInv, HarnessOk, h.pc # "poll"
  PROVE  /\ Slot \in {0, 1} /\ (Slot = 0 <=> h.idx = reg.head) /\ (Slot = 1 <=> h.idx = reg.head + 1)
         /\ h.idx \in Nat /\ reg.head \in Nat
<1>1. reg.head \in Nat /\ Even(reg.head) /\ reg.count = 2 /\ h.idx \in {reg.head, reg.head + 1}
  BY Zenon DEF TypeInv, RegRecord, HarnessOk
<1>2. reg.head % 2 = 0 /\ (reg.head + 1) % 2 = 1
  BY <1>1, Parity, Zenon
<1> QED BY <1>1, <1>2 DEF Slot

\* The request it makes there: never MSI-X, on the ring's own addresses, a
\* completion at its slot.
LEMMA RequestType ==
  ASSUME TypeInv, HarnessOk, Enabled, h.pc # "poll"
  PROVE  /\ HostRequest \in WorkRecord /\ HostRequest.op # "MSIX"
         /\ HostRequest.buf = reg.base \/ HostRequest.buf = reg.cplBase
         /\ HostRequest.op = "WRITE_CPL" <=> h.pc = "cpl"
         /\ h.pc = "cpl" => HostRequest.at = Slot /\ HostRequest.buf = reg.cplBase /\ HostRequest.val = Record
<1>1. reg.base \in Pool /\ reg.cplBase \in Pool
  BY Zenon DEF HarnessOk, Enabled
<1>2. /\ h.pc \in {"desc", "xfer", "cpl"} /\ h.chunk \in 1..Chunks /\ h.status \in Nat
      /\ ram[h.chunk] \in Data /\ Slot \in {0, 1} /\ h.idx \in Nat
  BY SlotIs, Zenon DEF TypeInv, HarnessRecord
<1>3. CASE h.pc = "desc"
  BY <1>1, <1>2, <1>3, RequestOf DEF WorkRecord
<1>4. CASE h.pc = "xfer" /\ Slot = 0
  BY <1>1, <1>2, <1>4, RequestOf DEF WorkRecord
<1>5. CASE h.pc = "xfer" /\ Slot = 1
  BY <1>1, <1>2, <1>5, RequestOf DEF WorkRecord
<1>6. CASE h.pc = "cpl"
  <2>1. Record \in CplRecord /\ Slot \in Slots
    BY <1>2 DEF Record, CplRecord, Slots
  <2> QED BY <1>1, <1>2, <1>6, <2>1, RequestOf DEF WorkRecord
<1> QED BY <1>2, <1>3, <1>4, <1>5, <1>6, Zenon

\* The harness goes back to its inbound queue.
LEMMA PollingType == Polling \in HarnessRecord /\ Polling.pc = "poll" /\ Polling.flags = 0
<1>1. 1 \in 1..Chunks
  BY RingAssumption
<1> QED BY <1>1, Zenon DEF Polling, HarnessRecord

\* Only one caller is in the critical section.
LEMMA Alone ==
  ASSUME CallersOk, NEW p \in Callers, NEW q \in Callers, drv[p].pc \in Locked, drv[q].pc \in Locked
  PROVE  p = q
  BY Zenon DEF CallersOk

\* Taking the first of a sequence, and adding a last one.
LEMMA TailFacts ==
  ASSUME NEW S, NEW q \in Seq(S), q # <<>>, NEW w, w = Tail(q)
  PROVE  /\ w \in Seq(S) /\ Len(q) \in Nat /\ Len(q) >= 1 /\ Len(w) = Len(q) - 1
         /\ \A i \in DOMAIN w : i + 1 \in DOMAIN q /\ w[i] = q[i + 1]
         /\ Len(q) # 1 => w # <<>> /\ w[Len(w)] = q[Len(q)]
<1>1. /\ w \in Seq(S) /\ Len(q) \in Nat /\ Len(q) >= 1 /\ Len(w) = Len(q) - 1
      /\ DOMAIN w = 1..Len(w) /\ DOMAIN q = 1..Len(q)
      /\ \A i \in 1..Len(w) : w[i] = q[i + 1]
  OBVIOUS
<1>2. ASSUME Len(q) # 1 PROVE w # <<>> /\ w[Len(w)] = q[Len(q)]
  <2>1. Len(w) >= 1 /\ Len(w) \in 1..Len(w) /\ Len(w) + 1 = Len(q)
    BY <1>1, <1>2
  <2>2. w[Len(w)] = q[Len(w) + 1]
    BY <1>1, <2>1, Zenon
  <2>3. w # <<>>
    <3>1. Len(<<>>) = 0
      BY Zenon
    <3>2. Len(w) # 0
      BY <2>1
    <3> QED BY <3>1, <3>2, Zenon
  <2> QED BY <2>1, <2>2, <2>3, Zenon
<1>3. \A i \in 1..Len(w) : i + 1 \in 1..Len(q)
  BY <1>1
<1> QED BY <1>1, <1>2, <1>3, Zenon

\* What Append does to a sequence.
LEMMA AppendFacts ==
  ASSUME NEW S, NEW q \in Seq(S), NEW a \in S, NEW w, w = Append(q, a)
  PROVE  /\ w \in Seq(S) /\ w # <<>> /\ Len(q) \in Nat /\ Len(w) = Len(q) + 1 /\ w[Len(w)] = a /\ w[Len(q) + 1] = a
         /\ \A i \in DOMAIN q : i \in DOMAIN w /\ w[i] = q[i]
         /\ \A i \in DOMAIN w : (i \in DOMAIN q /\ w[i] = q[i]) \/ (i = Len(q) + 1 /\ w[i] = a)
  OBVIOUS

\* An entry of the log changes, the log's length does not.
LEMMA LogSize ==
  ASSUME TypeInv, NEW r, NEW res, NEW d, LogAs(r, res, d)
  PROVE  DOMAIN log' = DOMAIN log
  BY DEF TypeInv, LogAs

\* A caller that does not move goes where it is.
LEMMA Stays ==
  ASSUME TypeInv, NEW p \in Callers, drv' = drv
  PROVE  GoesTo(p, drv[p].pc)
  BY Zenon DEF TypeInv, GoesTo

\* The lock holder moves on.
LEMMA KeptMove ==
  ASSUME CallersOk, NEW p \in Callers, drv[p].pc \in Locked, NEW x, GoesTo(p, x),
         x # "idle", x # "lock",
         \A k \in {1, 2} : (x = "setup" => loop'.n > k \/ (loop'.n = k /\ rpc'.st # "idle")) => Programmed(p, k)
  PROVE  DriverKept
<1>1. \A q \in Callers : q # p => drv'[q] = drv[q] /\ drv[q].pc \notin Locked
  BY Alone, Zenon DEF GoesTo
<1>2. drv[p].pc # "idle" /\ drv[p].pc # "lock"
  BY Zenon DEF Locked
<1>3. \A k \in {1, 2} : Programmed(p, k)' => Programmed(p, k)
  BY Zenon DEF Programmed, At, GoesTo
<1> QED BY <1>1, <1>2, <1>3, Zenon DEF DriverKept, GoesTo

\* Nobody moves.
LEMMA KeptStill ==
  ASSUME drv' = drv, loop' = loop, rpc'.st # "idle" => rpc.st # "idle" PROVE DriverKept
  BY Zenon DEF DriverKept, Programmed, At

\* Requests stay or are executed.
LEMMA WorkStays == ASSUME work' = work PROVE WorkFrom
  BY Zenon DEF WorkFrom

\* The first access is taken.
LEMMA EffectTaken ==
  ASSUME TypeInv, HarnessAccessEffect
  PROVE  /\ mmio' \in Seq(AccessRecord) /\ Len(mmio') + 1 = Len(mmio) /\ Len(mmio') \in Nat
         /\ 1 \in DOMAIN mmio
         /\ \A i \in DOMAIN mmio' : i + 1 \in DOMAIN mmio /\ i \in 1..Len(mmio) /\ mmio'[i] = mmio[i + 1]
         /\ \A i \in 1..Len(mmio) : \A b :
           (BaseAt(i, b)' <=> BaseAt(i + 1, b)) /\ (CplBaseAt(i, b)' <=> CplBaseAt(i + 1, b))
<1>1. mmio \in Seq(AccessRecord) /\ mmio # <<>> /\ mmio' = Tail(mmio)
  BY Zenon DEF TypeInv, HarnessAccessEffect
<1>2. /\ mmio' \in Seq(AccessRecord) /\ Len(mmio) \in Nat /\ Len(mmio) >= 1 /\ Len(mmio') = Len(mmio) - 1
      /\ \A i \in DOMAIN mmio' : i + 1 \in DOMAIN mmio /\ mmio'[i] = mmio[i + 1]
  BY <1>1, TailFacts
<1>3. Len(mmio') + 1 = Len(mmio) /\ Len(mmio') \in Nat /\ 1 \in DOMAIN mmio /\ \A i \in DOMAIN mmio' : i \in 1..Len(mmio)
  BY <1>1, <1>2
<1>4. /\ reg'.base = IF mmio[1].reg = "BASE" THEN mmio[1].val ELSE reg.base
      /\ reg'.cplBase = IF mmio[1].reg = "CPL_BASE" THEN mmio[1].val ELSE reg.cplBase
  BY Zenon DEF HarnessAccessEffect
<1>5. ASSUME NEW i \in 1..Len(mmio), NEW b
      PROVE  (BaseAt(i, b)' <=> BaseAt(i + 1, b)) /\ (CplBaseAt(i, b)' <=> CplBaseAt(i + 1, b))
  <2>1. InEffect(Tail(mmio), "BASE", reg'.base, i, b) <=> InEffect(mmio, "BASE", reg.base, i + 1, b)
    BY <1>1, <1>4, EffectTail, Zenon
  <2>2. InEffect(Tail(mmio), "CPL_BASE", reg'.cplBase, i, b) <=> InEffect(mmio, "CPL_BASE", reg.cplBase, i + 1, b)
    BY <1>1, <1>4, EffectTail, Zenon
  <2> QED BY <1>1, <2>1, <2>2, Zenon DEF BaseAt, CplBaseAt
<1> QED BY <1>2, <1>3, <1>5, Zenon

(* The actions.                                                            *)

\* What a register write does to the shadows: the bases take the value
\* written, desc_head and DMA_STATUS stay.
LEMMA ShadowOf ==
  ASSUME reg \in RegRecord, NEW a \in AccessRecord
  PROVE  /\ Written(a) \in RegRecord
         /\ Written(a).head = reg.head /\ Written(a).status = reg.status
         /\ Written(a).base = IF a.reg = "BASE" THEN a.val ELSE reg.base
         /\ Written(a).cplBase = IF a.reg = "CPL_BASE" THEN a.val ELSE reg.cplBase
         /\ a.reg # "CONTROL" => Written(a).control = reg.control
         /\ a.reg \in {"STATUS", "TAIL"} => Written(a) = reg
<1>1. ASSUME a.reg = "BASE"
      PROVE  Written(a) = [reg EXCEPT !.base = a.val] /\ a.val \in Pool /\ a.reg # "CPL_BASE"
  BY <1>1, Zenon DEF Written, AccessRecord
<1>2. CASE a.reg = "BASE"
  BY <1>1, <1>2, Zenon DEF RegRecord
<1>3. ASSUME a.reg = "CPL_BASE"
      PROVE  Written(a) = [reg EXCEPT !.cplBase = a.val] /\ a.val \in Pool
  <2>1. a.reg # "BASE"
    BY <1>3, Zenon
  <2> QED BY <1>3, <2>1, Zenon DEF Written, AccessRecord
<1>4. CASE a.reg = "CPL_BASE"
  BY <1>3, <1>4, Zenon DEF RegRecord
<1>5. ASSUME a.reg = "COUNT"
      PROVE  Written(a) = [reg EXCEPT !.count = a.val] /\ a.val = 2
  <2>1. a.reg # "BASE" /\ a.reg # "CPL_BASE"
    BY <1>5, Zenon
  <2> QED BY <1>5, <2>1, Zenon DEF Written, AccessRecord
<1>6. CASE a.reg = "COUNT"
  BY <1>5, <1>6, Zenon DEF RegRecord
<1>7. ASSUME a.reg = "CONTROL"
      PROVE  /\ Written(a) = [reg EXCEPT !.control = a.val,
                                         !.status = IF (a.val \div 2) % 2 = 1 THEN 0 ELSE @]
             /\ a.val = 1
  <2>1. a.reg # "BASE" /\ a.reg # "CPL_BASE" /\ a.reg # "COUNT"
    BY <1>7, Zenon
  <2> QED BY <1>7, <2>1, Zenon DEF Written, AccessRecord
<1>8. CASE a.reg = "CONTROL"
  <2>1. (1 \div 2) % 2 # 1
    OBVIOUS
  <2> QED BY <1>7, <1>8, <2>1, Zenon DEF RegRecord
<1>9. ASSUME a.reg \in {"STATUS", "TAIL"}
      PROVE  Written(a) = reg
  <2>1. a.reg # "BASE" /\ a.reg # "CPL_BASE" /\ a.reg # "COUNT" /\ a.reg # "CONTROL"
    BY <1>9, Zenon
  <2> QED BY <2>1, Zenon DEF Written
<1>10. CASE a.reg \in {"STATUS", "TAIL"}
  BY <1>9, <1>10, Zenon DEF RegRecord
<1>11. a.reg \in {"BASE", "CPL_BASE", "COUNT", "CONTROL", "TAIL", "STATUS"}
  BY Zenon DEF AccessRecord
<1> QED BY <1>2, <1>4, <1>6, <1>8, <1>10, <1>11, Zenon

\* Goto moves one caller.
LEMMA Moves ==
  ASSUME TypeInv, NEW p \in Callers, NEW x \in Pcs, Goto(p, x)
  PROVE  GoesTo(p, x)
  BY Zenon DEF TypeInv, CallerRecord, Goto, GoesTo

\* Leaving the critical section is recorded under the caller's own run.
LEMMA Ends ==
  ASSUME TypeInv, CallersOk, NEW p \in Callers, ~At(p, "idle"), NEW res \in Results, Finish(p, res)
  PROVE  /\ GoesTo(p, "free") /\ lock' = NoCaller
         /\ LogAs(drv[p].run, res, log[drv[p].run].descs)
<1>1. "free" \in Pcs
  BY Zenon DEF Pcs
<1>2. GoesTo(p, "free")
  BY <1>1, Moves, Zenon DEF Finish
<1>3. drv[p].run \in DOMAIN log /\ log \in Seq(LogRecord)
  BY Zenon DEF CallersOk, TypeInv
<1> DEFINE r == drv[p].run
           e == [log[r] EXCEPT !.res = res]
<1>4. /\ e \in LogRecord /\ e.iters = log[r].iters /\ e.buf = log[r].buf
      /\ e.res = res /\ e.descs = log[r].descs
  <2>1. log[r] \in LogRecord
    BY <1>3
  <2> HIDE DEF r
  <2> QED BY <2>1, Zenon DEF LogRecord
<1>5. log' = [log EXCEPT ![r] = e]
  BY Zenon DEF Finish
<1>6. r \in 1..Len(log) /\ DOMAIN log = 1..Len(log)
  BY <1>3
<1> HIDE DEF e, r
<1>7. LogAs(r, res, log[r].descs)
  BY <1>3, <1>4, <1>5, <1>6, EntryReplaced DEF LogAs
<1> QED BY <1>2, <1>7, Zenon DEF Finish, r

\* Blank memory has its type.
LEMMA BlankType ==
  Blank \in BufRecord /\ \A s \in Slots : NoCpl \in CplRecord /\ Blank.cpl[s] = NoCpl
<1>1. NoCpl \in CplRecord
  BY Zenon DEF NoCpl, CplRecord
<1>2. [s \in Slots |-> NoCpl] \in [Slots -> CplRecord] /\ [c \in 1..Chunks |-> "zero"] \in [1..Chunks -> Data]
  BY <1>1, Zenon DEF Data
<1>3. "zero" \in Data
  BY Zenon DEF Data
<1> QED BY <1>1, <1>2, <1>3, Zenon DEF Blank, BufRecord

\* What a step does field by field: Begin, the ioctl entered with buffers from dma_alloc_coherent.
LEMMA BeginDoes ==
  ASSUME TypeInv, NEW p \in Callers, NEW n \in Nat, NEW b \in Pool, Begin(p, n, b)
  PROVE  BeginEffect(p, n, b)
<1> USE DEF BeginEffect
<1>1. At(p, "idle") /\ ~mem[b].live
  BY Zenon DEF Begin, Fresh
<1>2. BufAs(b, TRUE, FALSE)
  <2>1. [Blank EXCEPT !.live = TRUE] \in BufRecord
    BY BlankType, Zenon DEF BufRecord
  <2>2. [Blank EXCEPT !.live = TRUE].live = TRUE /\ [Blank EXCEPT !.live = TRUE].desc = FALSE
    BY Zenon DEF Blank
  <2> QED BY <2>1, <2>2, Zenon DEF Begin, BufAs, TypeInv
<1>3. log \in Seq(LogRecord) /\ Len(log) \in Nat
  BY DEF TypeInv
<1>4. /\ drv' \in [Callers -> CallerRecord]
      /\ drv'[p].pc = "lock" /\ drv'[p].buf = b /\ drv'[p].iters = n /\ drv'[p].run = Len(log) + 1
      /\ \A q \in Callers \ {p} : drv'[q] = drv[q]
  <2>1. [pc |-> "lock", buf |-> b, iters |-> n, run |-> Len(log) + 1] \in CallerRecord
    BY <1>3 DEF CallerRecord, Pcs
  <2> QED BY <2>1, Zenon DEF Begin, TypeInv
<1>5. LogMore(n, "busy", b)
  <2>1. [iters |-> n, res |-> "busy", descs |-> 0, buf |-> b] \in LogRecord
    BY Zenon DEF LogRecord, Results
  <2>2. log' = Append(log, [iters |-> n, res |-> "busy", descs |-> 0, buf |-> b])
    BY Zenon DEF Begin
  <2> QED BY <1>3, <2>1, <2>2 DEF LogMore
<1> QED BY <1>1, <1>2, <1>4, <1>5, Zenon DEF Begin

\* What a step does field by field: AllocFails, the ioctl that gets no buffer.
LEMMA AllocFailsDoes ==
  ASSUME TypeInv, NEW p \in Callers, AllocFails(p)
  PROVE  AllocFailsEffect(p)
<1> USE DEF AllocFailsEffect
<1>1. [iters |-> 0, res |-> "nomem", descs |-> 0, buf |-> NoBuf] \in LogRecord
  BY Zenon DEF LogRecord, Results
<1>2. log' = Append(log, [iters |-> 0, res |-> "nomem", descs |-> 0, buf |-> NoBuf]) /\ log \in Seq(LogRecord)
  BY Zenon DEF AllocFails, TypeInv
<1> QED BY <1>1, <1>2 DEF AllocFails, LogMore

\* What a step does field by field: Lock, the process that gets run_lock.
LEMMA LockDoes ==
  ASSUME TypeInv, CallersOk, NEW p \in Callers, Lock(p)
  PROVE  LockEffect(p)
<1> USE DEF LockEffect
<1>1. At(p, "lock") /\ drv[p].buf \in Pool /\ mem[drv[p].buf].live = TRUE
  BY Zenon DEF Lock, At, CallersOk, TypeInv, BufRecord
<1>2. BufAs(drv[p].buf, TRUE, TRUE)
  <2> DEFINE b == drv[p].buf
             e == [mem[b] EXCEPT !.desc = TRUE]
  <2>1. b \in Pool /\ mem[b] \in BufRecord /\ mem[b].live = TRUE
    BY <1>1, Zenon DEF TypeInv
  <2>2. mem' = [mem EXCEPT ![b] = e]
    BY Zenon DEF Lock
  <2> HIDE DEF b
  <2>3. e \in BufRecord /\ e.live = TRUE /\ e.desc = TRUE
    BY <2>1, Zenon DEF BufRecord
  <2> HIDE DEF e
  <2>4. BufAs(b, TRUE, TRUE)
    BY <2>1, <2>2, <2>3, Zenon DEF BufAs, TypeInv
  <2> QED BY <2>4, Zenon DEF b
<1>3. GoesTo(p, "setup")
  <2>1. "setup" \in Pcs /\ Goto(p, "setup")
    BY Zenon DEF Pcs, Locked, Lock
  <2> QED BY <2>1, Moves, Zenon
<1> QED BY <1>1, <1>2, <1>3, Zenon DEF Lock

\* What a step does field by field: SetupIssue, a register write of the set-up.
LEMMA SetupIssueDoes ==
  ASSUME TypeInv, CallersOk, RpcOk, NEW p \in Callers, SetupIssue(p)
  PROVE  SetupIssueEffect(p)
<1> USE DEF SetupIssueEffect
<1>1. At(p, "setup") /\ loop.n \in 1..4
  BY Zenon DEF SetupIssue, RpcOk
<1>2. drv[p].buf \in Pool /\ drv[p].run \in Nat
  BY <1>1, Zenon DEF CallersOk, At, TypeInv, CallerRecord
<1> DEFINE a == SetupWrites(p)[loop.n]
<1>3. Issue(a)
  BY Zenon DEF SetupIssue
<1>4. /\ a \in AccessRecord /\ a.run = drv[p].run /\ a.type = "write"
      /\ a.reg \in {"BASE", "CPL_BASE", "COUNT", "CONTROL"}
      /\ a.reg = "BASE" <=> loop.n = 1
      /\ a.reg = "CPL_BASE" <=> loop.n = 2
      /\ a.reg = "CONTROL" <=> loop.n = 4
      /\ a.reg \in {"BASE", "CPL_BASE"} => a.val = drv[p].buf
  <2>1. CASE loop.n = 1
    <3>1. a = Access("write", "BASE", drv[p].buf, p)
      BY <2>1 DEF SetupWrites
    <3> HIDE DEF a
    <3> QED BY <1>2, <2>1, <3>1 DEF Access, AccessRecord
  <2>2. CASE loop.n = 2
    <3>1. a = Access("write", "CPL_BASE", drv[p].buf, p)
      BY <2>2 DEF SetupWrites
    <3> HIDE DEF a
    <3> QED BY <1>2, <2>2, <3>1 DEF Access, AccessRecord
  <2>3. CASE loop.n = 3
    <3>1. a = Access("write", "COUNT", 2, p)
      BY <2>3 DEF SetupWrites
    <3> HIDE DEF a
    <3> QED BY <1>2, <2>3, <3>1 DEF Access, AccessRecord
  <2>4. CASE loop.n = 4
    <3>1. a = Access("write", "CONTROL", 1, p)
      BY <2>4 DEF SetupWrites
    <3> HIDE DEF a
    <3> QED BY <1>2, <2>4, <3>1 DEF Access, AccessRecord
  <2> QED BY <1>1, <2>1, <2>2, <2>3, <2>4
<1> QED BY <1>1, <1>3, <1>4, Zenon DEF SetupIssue

\* What a step does field by field: SetupReturn, its end.
LEMMA SetupReturnDoes ==
  ASSUME TypeInv, RpcOk, NEW p \in Callers, SetupReturn(p)
  PROVE  SetupReturnEffect(p)
<1> USE DEF SetupReturnEffect
<1>1. Len(SetupWrites(p)) = 4
  BY Zenon DEF SetupWrites
<1>2. loop.n = 4 => GoesTo(p, "fill")
  <2>1. "fill" \in Pcs
    BY Zenon DEF Pcs, Locked
  <2> QED BY <1>1, <2>1, Moves, Zenon DEF SetupReturn
<1>3. loop' = [loop EXCEPT !.n = @ + 1] /\ loop \in [iter : Nat, tail : Nat, n : Nat]
  BY Zenon DEF SetupReturn, TypeInv
<1>4. /\ loop' \in [iter : Nat, tail : Nat, n : Nat]
      /\ loop'.iter = loop.iter /\ loop'.tail = loop.tail /\ loop'.n = loop.n + 1
  BY <1>3
<1> QED BY <1>1, <1>2, <1>4, Zenon DEF SetupReturn, Returned

\* What a step does field by field: Fill, writing the descriptors of an iteration.
LEMMA FillDoes ==
  ASSUME TypeInv, CallersOk, NEW p \in Callers, Fill(p)
  PROVE  FillEffect(p)
<1> USE DEF FillEffect
<1>1. At(p, "fill") /\ ~At(p, "idle") /\ drv[p].buf \in Pool
  BY Zenon DEF Fill, At, CallersOk
<1>2. CASE loop.iter < drv[p].iters
  <2> DEFINE b == drv[p].buf
             e == [Blank EXCEPT !.live = TRUE, !.desc = TRUE, !.src = "pat"]
  <2>1. e \in BufRecord /\ e.live = TRUE /\ e.desc = TRUE /\ \A s \in Slots : e.cpl[s] = NoCpl
    <3>1. "pat" \in Data
      BY Zenon DEF Data
    <3>2. e \in BufRecord /\ e.live = TRUE /\ e.desc = TRUE /\ e.cpl = Blank.cpl
      BY <3>1, BlankType, Zenon DEF BufRecord
    <3> QED BY <3>2, BlankType, Zenon
  <2>2. mem' = [mem EXCEPT ![b] = e]
    BY <1>2, Zenon DEF Fill
  <2> HIDE DEF e
  <2>3. BufAs(b, TRUE, TRUE) /\ \A s \in Slots : mem'[b].cpl[s] = NoCpl
    BY <1>1, <2>1, <2>2, Zenon DEF BufAs, TypeInv
  <2>4. GoesTo(p, "poll")
    <3>1. "poll" \in Pcs
      BY Zenon DEF Pcs, Locked
    <3> QED BY <1>2, <3>1, Moves, Zenon DEF Fill
  <2>5. loop' \in [iter : Nat, tail : Nat, n : Nat] /\ loop'.iter = loop.iter /\ loop'.tail = loop.tail
    BY <1>2 DEF Fill, TypeInv
  <2> QED BY <1>1, <1>2, <2>3, <2>4, <2>5, Zenon DEF Fill
<1>3. CASE ~(loop.iter < drv[p].iters)
  <2>1. Finish(p, "ok") /\ "ok" \in Results
    BY <1>3, Zenon DEF Fill, Results
  <2> QED BY <1>1, <1>3, <2>1, Ends, Zenon DEF Fill
<1> QED BY <1>2, <1>3, Zenon

\* What a step does field by field: PollIssue, reading STATUS.
LEMMA PollIssueDoes ==
  ASSUME TypeInv, NEW p \in Callers, PollIssue(p)
  PROVE  PollIssueEffect(p)
<1> USE DEF PollIssueEffect
<1> DEFINE a == Access("read", "STATUS", 0, p)
<1>1. a \in AccessRecord /\ a.run = drv[p].run /\ a.type = "read" /\ a.reg = "STATUS"
  BY Zenon DEF Access, AccessRecord, TypeInv, CallerRecord
<1>2. Issue(a)
  BY Zenon DEF PollIssue
<1> QED BY <1>1, <1>2, Zenon DEF PollIssue

\* What a step does field by field: PollReturn, looking at what was read.
LEMMA PollReturnDoes ==
  ASSUME TypeInv, CallersOk, NEW p \in Callers, PollReturn(p)
  PROVE  PollReturnEffect(p)
<1> USE DEF PollReturnEffect
<1>1. At(p, "poll") /\ ~At(p, "idle") /\ "ring" \in Pcs /\ "timeout" \in Results
  BY Zenon DEF PollReturn, At, Pcs, Locked, Results
<1>2. loop' = [loop EXCEPT !.n = @ + 1] /\ loop \in [iter : Nat, tail : Nat, n : Nat]
  BY Zenon DEF PollReturn, TypeInv
<1>3. /\ loop' \in [iter : Nat, tail : Nat, n : Nat]
      /\ loop'.iter = loop.iter /\ loop'.tail = loop.tail
  BY <1>2
<1>4. \/ rpc.val = 0 /\ Goto(p, "ring") /\ UNCHANGED <<lock, log>>
      \/ Finish(p, "timeout")
      \/ UNCHANGED <<drv, lock, log>>
  BY Zenon DEF PollReturn
<1>5. \/ rpc.val = 0 /\ GoesTo(p, "ring") /\ UNCHANGED <<lock, log>>
      \/ /\ GoesTo(p, "free") /\ lock' = NoCaller
         /\ LogAs(drv[p].run, "timeout", log[drv[p].run].descs)
      \/ UNCHANGED <<drv, lock, log>>
  BY <1>1, <1>4, Moves, Ends, Zenon
<1> QED BY <1>1, <1>3, <1>5, Zenon DEF PollReturn, Returned

\* What a step does field by field: Ring, the write of TAIL.
LEMMA RingDoes ==
  ASSUME TypeInv, RpcOk, NEW p \in Callers, Ring(p)
  PROVE  RingEffect(p)
<1> USE DEF RingEffect
<1> DEFINE a == Access("write", "TAIL", loop.tail + 2, p)
<1>1. loop' = [loop EXCEPT !.tail = @ + 2] /\ loop \in [iter : Nat, tail : Nat, n : Nat]
  BY Zenon DEF Ring, TypeInv
<1>2. /\ loop' \in [iter : Nat, tail : Nat, n : Nat]
      /\ loop'.iter = loop.iter /\ loop'.tail = loop.tail + 2
  BY <1>1
<1>3. loop.tail + 2 \in Doorbells /\ drv[p].run \in Nat
  <2>1. loop.tail \in Nat /\ drv[p].run \in Nat
    BY Zenon DEF TypeInv, CallerRecord
  <2> QED BY <2>1, Parity DEF RpcOk, Doorbells
<1>4. /\ a \in AccessRecord /\ a.run = drv[p].run /\ a.type = "write"
      /\ a.reg = "TAIL" /\ a.val = loop.tail + 2
  BY <1>3, Zenon DEF Access, AccessRecord
<1>5. Issue(a)
  BY Zenon DEF Ring
<1>6. GoesTo(p, "rung")
  <2>1. "rung" \in Pcs /\ Goto(p, "rung")
    BY Zenon DEF Pcs, Locked, Ring
  <2> QED BY <2>1, Moves, Zenon
<1> QED BY <1>2, <1>4, <1>5, <1>6, Zenon DEF Ring

\* What a step does field by field: RingReturn, its end.
LEMMA RingReturnDoes ==
  ASSUME TypeInv, NEW p \in Callers, RingReturn(p)
  PROVE  RingReturnEffect(p)
<1> USE DEF RingReturnEffect
<1>1. "wait" \in Pcs /\ Goto(p, "wait")
  BY Zenon DEF Pcs, Locked, RingReturn
<1> QED BY <1>1, Moves, Zenon DEF RingReturn, Returned

\* What a step does field by field: WaitDone, the wait that the interrupt ends.
LEMMA WaitDoneDoes ==
  ASSUME TypeInv, NEW p \in Callers, WaitDone(p)
  PROVE  WaitDoneEffect(p)
<1> USE DEF WaitDoneEffect
<1>1. "check" \in Pcs /\ Goto(p, "check")
  BY Zenon DEF Pcs, Locked, WaitDone
<1> QED BY <1>1, Moves, Zenon DEF WaitDone

\* What a step does field by field: WaitTimeout, the wait that runs out.
LEMMA WaitTimeoutDoes ==
  ASSUME TypeInv, CallersOk, NEW p \in Callers, WaitTimeout(p)
  PROVE  WaitTimeoutEffect(p)
<1> USE DEF WaitTimeoutEffect
<1>1. ~At(p, "idle") /\ "timeout" \in Results /\ Finish(p, "timeout")
  BY Zenon DEF WaitTimeout, At, Results
<1> QED BY <1>1, Ends, Zenon DEF WaitTimeout

\* What a step does field by field: Check, comparing records and data.
LEMMA CheckDoes ==
  ASSUME TypeInv, CallersOk, NEW p \in Callers, Check(p)
  PROVE  CheckEffect(p)
<1> USE DEF CheckEffect
<1>1. At(p, "check") /\ ~At(p, "idle") /\ "fill" \in Pcs /\ "io" \in Results
  BY Zenon DEF Check, At, Pcs, Locked, Results
<1>2. \/ /\ \A s \in Slots : mem[drv[p].buf].cpl[s].tag = s /\ mem[drv[p].buf].cpl[s].status = 0
         /\ loop' = [loop EXCEPT !.iter = @ + 1]
         /\ Goto(p, "fill") /\ UNCHANGED <<lock, log>>
      \/ Finish(p, "io") /\ UNCHANGED loop
  BY Zenon DEF Check
<1>3. CASE Finish(p, "io") /\ UNCHANGED loop
  BY <1>1, <1>3, Ends, Zenon DEF Check
<1>4. CASE /\ \A s \in Slots : mem[drv[p].buf].cpl[s].tag = s /\ mem[drv[p].buf].cpl[s].status = 0
           /\ loop' = [loop EXCEPT !.iter = @ + 1]
           /\ Goto(p, "fill") /\ UNCHANGED <<lock, log>>
  <2>1. GoesTo(p, "fill")
    BY <1>1, <1>4, Moves, Zenon
  <2>2. loop' \in [iter : Nat, tail : Nat, n : Nat] /\ loop'.iter = loop.iter + 1 /\ loop'.tail = loop.tail
    <3>1. loop \in [iter : Nat, tail : Nat, n : Nat] /\ loop' = [loop EXCEPT !.iter = @ + 1]
      BY <1>4, Zenon DEF TypeInv
    <3> QED BY <3>1
  <2> QED BY <1>1, <1>4, <2>1, <2>2, Zenon DEF Check
<1> QED BY <1>2, <1>3, <1>4, Zenon

\* What a step does field by field: Free, giving back the buffers.
LEMMA FreeDoes ==
  ASSUME TypeInv, CallersOk, NEW p \in Callers, Free(p)
  PROVE  FreeEffect(p)
<1> USE DEF FreeEffect
<1> DEFINE b == drv[p].buf
           e == [mem[b] EXCEPT !.live = FALSE]
<1>1. At(p, "free") /\ b \in Pool /\ mem[b] \in BufRecord
  BY Zenon DEF Free, At, CallersOk, TypeInv
<1>2. mem' = [mem EXCEPT ![b] = e]
  BY Zenon DEF Free
<1>3. drv' \in [Callers -> CallerRecord] /\ drv'[p].pc = "idle" /\ \A q \in Callers \ {p} : drv'[q] = drv[q]
  <2>1. drv' = [drv EXCEPT ![p] = [drv[p] EXCEPT !.pc = "idle", !.buf = NoBuf]]
    BY Zenon DEF Free
  <2>2. drv[p] \in CallerRecord /\ drv \in [Callers -> CallerRecord]
    BY Zenon DEF TypeInv
  <2> HIDE DEF b
  <2>3. [drv[p] EXCEPT !.pc = "idle", !.buf = NoBuf] \in CallerRecord
    BY <2>2, Zenon DEF CallerRecord, Pcs
  <2>4. [drv[p] EXCEPT !.pc = "idle", !.buf = NoBuf].pc = "idle"
    BY <2>2, Zenon DEF CallerRecord
  <2> QED BY <2>1, <2>2, <2>3, <2>4, Zenon
<1> HIDE DEF b
<1>4. e \in BufRecord /\ e.live = FALSE /\ e.desc = mem[b].desc /\ e.cpl = mem[b].cpl
  BY <1>1, Zenon DEF BufRecord
<1> HIDE DEF e
<1>5. BufAs(b, FALSE, mem[b].desc) /\ mem'[b].cpl = mem[b].cpl
  BY <1>1, <1>2, <1>4, Zenon DEF BufAs, TypeInv
<1> QED BY <1>1, <1>3, <1>5, Zenon DEF Free, b

\* What a step does field by field: BottomHalf, one piece of queued work.
LEMMA BottomHalfDoes ==
  ASSUME TypeInv, BottomHalf
  PROVE  BottomHalfEffect
<1> DEFINE w == work[1]
<1>1. /\ work # <<>> /\ w \in WorkRecord /\ w = Head(work) /\ rpc.st = "idle" /\ work' = Tail(work)
      /\ mem \in [Pool -> BufRecord] /\ ram \in [1..Chunks -> Data] /\ stray \in BOOLEAN
      /\ UNCHANGED <<drv, lock, loop, rpc, mmio, reg, h, log, late, faulty>>
  <2>1. work # <<>> /\ work \in Seq(WorkRecord)
    BY Zenon DEF BottomHalf, TypeInv
  <2>2. w \in WorkRecord /\ w = Head(work)
    BY <2>1
  <2> QED BY <2>1, <2>2, Zenon DEF BottomHalf, TypeInv
<1>2. w.buf \in Pool /\ mem[w.buf] \in BufRecord
  BY <1>1, Zenon DEF WorkRecord
<1>3. mem' = mem => \A b \in Pool : mem'[b].live = mem[b].live /\ mem'[b].desc = mem[b].desc
  BY Zenon
<1>4. CASE w.op = "MSIX"
  <2>1. irqDone' = irqDone + 1 /\ UNCHANGED <<ans, mem, ram, stray>>
    BY <1>1, <1>4, Zenon DEF BottomHalf
  <2> QED BY <1>1, <1>3, <1>4, <2>1, Zenon DEF BottomHalfEffect
<1>5. CASE w.op = "READ_DESC"
  <2>1. UNCHANGED <<irqDone, mem, ram, stray>> /\ (ans' = ans \/ (Awaited /\ ans' \in {"ok", "empty"}))
        /\ (Awaited => ans' \in {"ok", "empty"})
    BY <1>1, <1>5, Zenon DEF BottomHalf
  <2> QED BY <1>1, <1>3, <1>5, <2>1, Zenon DEF BottomHalfEffect
<1>6. CASE w.op = "READ_SRC"
  <2>1. \/ Awaited /\ ans' = "ok" /\ ram' = [ram EXCEPT ![w.at] = IF mem[w.buf].live THEN mem[w.buf].src ELSE "junk"]
        \/ ~Awaited /\ ans' = ans /\ ram' = ram
    BY <1>1, <1>6, Zenon DEF BottomHalf
  <2>2. (IF mem[w.buf].live THEN mem[w.buf].src ELSE "junk") \in Data
    BY <1>2, Zenon DEF Data, BufRecord
  <2>3. ram' \in [1..Chunks -> Data]
    BY <1>1, <2>1, <2>2, Zenon
  <2>4. irqDone' = irqDone /\ mem' = mem /\ stray' = stray
    BY <1>1, <1>6, Zenon DEF BottomHalf
  <2> QED BY <1>1, <1>6, <2>1, <2>3, <2>4, Zenon DEF BottomHalfEffect
<1>7. CASE w.op = "WRITE_DST"
  <2> DEFINE e == [mem[w.buf] EXCEPT !.dst = [@ EXCEPT ![w.at] = w.val]]
  <2>1. /\ mem' = [mem EXCEPT ![w.buf] = e] /\ stray' = (stray \/ ~mem[w.buf].live)
        /\ ans' = (IF Awaited THEN "ok" ELSE ans) /\ irqDone' = irqDone /\ ram' = ram
    BY <1>1, <1>7, Zenon DEF BottomHalf
  <2>2. w.val \in Data
    BY <1>1, <1>7, Zenon DEF WorkRecord
  <2>3. e \in BufRecord /\ e.live = mem[w.buf].live /\ e.desc = mem[w.buf].desc /\ e.cpl = mem[w.buf].cpl
    BY <1>2, <2>2, Zenon DEF BufRecord
  <2> HIDE DEF e
  <2>4. /\ mem' \in [Pool -> BufRecord] /\ mem'[w.buf] = e
        /\ \A b \in Pool : b # w.buf => mem'[b] = mem[b]
    BY <1>1, <1>2, <2>1, <2>3, Zenon
  <2>5. \A b \in Pool : mem'[b].live = mem[b].live /\ mem'[b].desc = mem[b].desc /\ mem'[b].cpl = mem[b].cpl
    BY <2>3, <2>4, Zenon
  <2>6. stray' \in BOOLEAN /\ (stray' => stray \/ ~mem[w.buf].live)
    BY <1>1, <1>2, <2>1, Zenon DEF BufRecord
  <2> QED BY <1>1, <1>7, <2>1, <2>4, <2>5, <2>6, Zenon DEF BottomHalfEffect
<1>8. CASE w.op = "WRITE_CPL"
  <2> DEFINE e == [mem[w.buf] EXCEPT !.cpl = [@ EXCEPT ![w.at] = w.val]]
  <2>1. /\ mem' = [mem EXCEPT ![w.buf] = e] /\ stray' = (stray \/ ~mem[w.buf].live)
        /\ ans' = (IF Awaited THEN "ok" ELSE ans) /\ irqDone' = irqDone /\ ram' = ram
    BY <1>1, <1>8, Zenon DEF BottomHalf
  <2>2. w.val \in CplRecord /\ w.at \in Slots
    BY <1>1, <1>8, Zenon DEF WorkRecord
  <2>3. /\ e \in BufRecord /\ e.live = mem[w.buf].live /\ e.desc = mem[w.buf].desc
        /\ \A s \in Slots : e.cpl[s] = IF w.at = s THEN w.val ELSE mem[w.buf].cpl[s]
    BY <1>2, <2>2, Zenon DEF BufRecord
  <2> HIDE DEF e
  <2>4. /\ mem' \in [Pool -> BufRecord] /\ mem'[w.buf] = e
        /\ \A b \in Pool : b # w.buf => mem'[b] = mem[b]
    BY <1>1, <1>2, <2>1, <2>3, Zenon
  <2>5. \A b \in Pool : /\ mem'[b].live = mem[b].live /\ mem'[b].desc = mem[b].desc
                        /\ \A s \in Slots : mem'[b].cpl[s] =
                             IF w.buf = b /\ w.at = s THEN w.val ELSE mem[b].cpl[s]
    BY <2>3, <2>4, Zenon
  <2>6. stray' \in BOOLEAN /\ (stray' => stray \/ ~mem[w.buf].live)
    BY <1>1, <1>2, <2>1, Zenon DEF BufRecord
  <2> QED BY <1>1, <1>8, <2>1, <2>4, <2>5, <2>6 DEF BottomHalfEffect
<1>9. w.op \in {"MSIX", "READ_DESC", "READ_SRC", "WRITE_DST", "WRITE_CPL"}
  BY <1>1, Zenon DEF WorkRecord
<1> QED BY <1>4, <1>5, <1>6, <1>7, <1>8, <1>9, Zenon

\* That is what HarnessAccess does.
LEMMA HarnessAccessDoes ==
  ASSUME TypeInv, HarnessOk, HarnessAccess
  PROVE  HarnessAccessEffect
<1> USE DEF HarnessAccessEffect
<1> DEFINE a == mmio[1]
<1>1. /\ h.pc = "poll" /\ mmio # <<>> /\ mmio' = Tail(mmio) /\ a \in AccessRecord /\ a = Head(mmio)
      /\ UNCHANGED <<driverVars, mem, ans, ram, work, log, hist>>
  BY DEF HarnessAccess, TypeInv
<1>2. /\ rpc' \in [st : {"idle", "busy", "done"}, val : Int]
      /\ IF rpc.st = "busy" /\ Len(mmio) = 1
         THEN rpc'.st = "done" /\ rpc'.val = (IF mmio[1].type = "read" THEN reg.status ELSE 0)
         ELSE rpc' = rpc
  BY <1>1 DEF HarnessAccess, TypeInv, RegRecord
<1>3. reg \in RegRecord /\ h \in HarnessRecord /\ reg.head \in Nat /\ Even(reg.head)
  BY Zenon DEF TypeInv, RegRecord, HarnessOk
<1>4. CASE ~(a.reg = "TAIL" /\ reg.control % 2 = 1 /\ reg.count # 0)
  <2>1. reg' = Written(a) /\ h' = h
    BY <1>1, <1>4, Zenon DEF HarnessAccess
  <2>2. Written(a).status = reg.status /\ Written(a) \in RegRecord /\ Written(a).head = reg.head
    BY <1>1, <1>3, ShadowOf, Zenon
  <2>3. /\ Written(a).base = (IF a.reg = "BASE" THEN a.val ELSE reg.base)
        /\ Written(a).cplBase = (IF a.reg = "CPL_BASE" THEN a.val ELSE reg.cplBase)
        /\ a.reg # "CONTROL" => Written(a).control = reg.control
    BY <1>1, <1>3, ShadowOf, Zenon
  <2> HIDE DEF a
  <2>4. /\ reg' \in RegRecord /\ reg'.head = reg.head /\ reg'.status = reg.status /\ h' = h
        /\ reg'.base = (IF a.reg = "BASE" THEN a.val ELSE reg.base)
        /\ reg'.cplBase = (IF a.reg = "CPL_BASE" THEN a.val ELSE reg.cplBase)
        /\ a.reg # "CONTROL" => reg'.control = reg.control
    BY <2>1, <2>2, <2>3, Zenon
  <2> QED BY <1>1, <1>2, <1>3, <2>4, Zenon DEF a
<1>5. CASE a.reg = "TAIL" /\ reg.control % 2 = 1 /\ reg.count # 0
  <2>1. reg.control = 1 /\ reg.count = 2 /\ a.val \in Nat /\ a.val >= 2 /\ Even(a.val) /\ a.run \in Nat
    <3>1. reg.control = 1 /\ reg.count = 2
      BY <1>3, <1>5 DEF RegRecord
    <3>2. a.val \in Doorbells /\ a.run \in Nat
      BY <1>1, <1>3, <1>5, Zenon DEF AccessRecord
    <3> QED BY <3>1, <3>2, Zenon DEF Doorbells
  <2>2. CASE ~RingOk(a.val)
    <3>1. reg' = [reg EXCEPT !.status = 1] /\ h' = h
      BY <1>1, <1>5, <2>2, Zenon DEF HarnessAccess
    <3>2. /\ reg' \in RegRecord /\ reg'.status = 1 /\ reg'.head = reg.head /\ reg'.base = reg.base
          /\ reg'.cplBase = reg.cplBase /\ reg'.control = reg.control
      BY <1>3, <3>1, Zenon DEF RegRecord
    <3> QED BY <1>1, <1>2, <1>3, <1>5, <3>1, <3>2, Zenon
  <2>3. CASE RingOk(a.val) /\ a.val = reg.head
    <3>1. reg' = [reg EXCEPT !.status = 0] /\ h' = h
      BY <1>1, <1>5, <2>3, Zenon DEF HarnessAccess
    <3>2. /\ reg' \in RegRecord /\ reg'.head = reg.head /\ reg'.base = reg.base
          /\ reg'.cplBase = reg.cplBase /\ reg'.control = reg.control
      BY <1>3, <3>1, Zenon DEF RegRecord
    <3> QED BY <1>1, <1>2, <1>3, <1>5, <2>1, <2>3, <3>1, <3>2, Zenon
  <2>4. CASE RingOk(a.val) /\ a.val # reg.head
    <3>1. /\ h' = [Polling EXCEPT !.pc = "desc", !.idx = reg.head, !.end = a.val, !.run = a.run]
          /\ reg' = reg
      BY <1>1, <1>5, <2>4, Zenon DEF HarnessAccess
    <3>2. a.val = reg.head + 2
      <4>1. reg.head < a.val /\ a.val - reg.head <= 2
        BY <1>3, <2>1, <2>4 DEF RingOk
      <4> QED BY <1>3, <2>1, <4>1, Parity, Zenon
    <3>3. 1 \in 1..Chunks
      BY RingAssumption
    <3>4. h' = [pc |-> "desc", idx |-> reg.head, end |-> a.val, run |-> a.run, chunk |-> 1, status |-> 0, flags |-> 0]
      BY <3>1, Zenon DEF Polling
    <3>5. /\ h' \in HarnessRecord /\ h'.pc = "desc" /\ h'.idx = reg.head /\ h'.end = a.val
          /\ h'.run = a.run /\ h'.flags = 0
      BY <1>3, <2>1, <3>3, <3>4, Zenon DEF HarnessRecord
    <3>6. Starts(a)
      BY <1>5, <2>1, <3>1, <3>2, <3>5, Zenon DEF Starts
    <3> QED BY <1>1, <1>2, <1>3, <1>5, <3>1, <3>5, <3>6, Zenon
  <2> QED BY <2>2, <2>3, <2>4, Zenon
<1> QED BY <1>4, <1>5, Zenon

\* What a step does field by field: HarnessDesc, the descriptor fetched.
LEMMA HarnessDescDoes ==
  ASSUME TypeInv, HarnessOk, HarnessDesc
  PROVE  HarnessDescEffect
<1> USE DEF HarnessDescEffect
<1>1. h.pc = "desc" /\ Slot \in {0, 1} /\ h \in HarnessRecord /\ 1 \in 1..Chunks
  BY SlotIs, RingAssumption DEF HarnessDesc, TypeInv
<1>2. CASE ans = "ok"
  <2>1. h' = [h EXCEPT !.pc = "xfer", !.chunk = 1, !.flags = Slot, !.status = 1]
    BY <1>2, Zenon DEF HarnessDesc
  <2>2. /\ h' \in HarnessRecord /\ h'.idx = h.idx /\ h'.end = h.end /\ h'.run = h.run
        /\ h'.pc = "xfer" /\ h'.flags = Slot
    BY <1>1, <2>1, Zenon DEF HarnessRecord
  <2> QED BY <2>2, Zenon DEF HarnessDesc
<1>3. CASE ans # "ok"
  <2> DEFINE st == IF ans = "empty" THEN 6 ELSE 1
  <2>1. h' = [h EXCEPT !.pc = "cpl", !.flags = -1, !.status = st]
    BY <1>3, Zenon DEF HarnessDesc
  <2>2. st \in Nat /\ st # 0
    OBVIOUS
  <2> HIDE DEF st
  <2>3. /\ h' \in HarnessRecord /\ h'.idx = h.idx /\ h'.end = h.end /\ h'.run = h.run
        /\ h'.pc = "cpl" /\ h'.flags = -1 /\ h'.status # 0
    BY <1>1, <2>1, <2>2, Zenon DEF HarnessRecord
  <2> QED BY <2>3, Zenon DEF HarnessDesc
<1> QED BY <1>2, <1>3, Zenon

\* What a step does field by field: HarnessXfer, a piece of data moved.
LEMMA HarnessXferDoes ==
  ASSUME TypeInv, HarnessXfer
  PROVE  HarnessXferEffect
<1> USE DEF HarnessXferEffect
<1>1. h \in HarnessRecord /\ Chunks \in Nat
  BY RingAssumption, Zenon DEF TypeInv
<1>2. CASE ans = "ok" /\ h.chunk < Chunks
  <2>1. h' = [h EXCEPT !.chunk = @ + 1]
    BY <1>2, Zenon DEF HarnessXfer
  <2>2. h.chunk + 1 \in 1..Chunks
    BY <1>1, <1>2 DEF HarnessRecord
  <2>3. /\ h' \in HarnessRecord /\ h'.idx = h.idx /\ h'.end = h.end /\ h'.run = h.run
        /\ h'.pc = h.pc /\ h'.flags = h.flags
    BY <1>1, <2>1, <2>2, Zenon DEF HarnessRecord
  <2> QED BY <2>3, Zenon DEF HarnessXfer
<1>3. CASE ~(ans = "ok" /\ h.chunk < Chunks)
  <2> DEFINE st == IF ans = "ok" THEN 0 ELSE 1
  <2>1. h' = [h EXCEPT !.pc = "cpl", !.status = st]
    BY <1>3, Zenon DEF HarnessXfer
  <2>2. st \in Nat
    BY Zenon
  <2> HIDE DEF st
  <2>3. /\ h' \in HarnessRecord /\ h'.idx = h.idx /\ h'.end = h.end /\ h'.run = h.run
        /\ h'.pc = "cpl" /\ h'.flags = h.flags
    BY <1>1, <2>1, <2>2, Zenon DEF HarnessRecord
  <2> QED BY <2>3, Zenon DEF HarnessXfer
<1> QED BY <1>2, <1>3, Zenon

\* What a step does field by field: HarnessCpl, the end of a descriptor.
LEMMA HarnessCplDoes ==
  ASSUME TypeInv, HarnessOk, Enabled, HarnessCpl
  PROVE  HarnessCplEffect
<1> USE DEF HarnessCplEffect
<1>1. /\ h.pc = "cpl" /\ ans \in {"ok", "bad"} /\ ans' = "none" /\ h \in HarnessRecord /\ reg \in RegRecord
      /\ reg.base \in Pool /\ h.run \in DOMAIN log /\ h.end = reg.head + 2
      /\ h.idx \in {reg.head, reg.head + 1} /\ reg.head \in Nat
      /\ UNCHANGED <<driverVars, mem, rpc, mmio, ram, hist>>
  BY Zenon DEF HarnessCpl, TypeInv, HarnessOk, Enabled, RegRecord
<1>2. Msix \in WorkRecord
  BY <1>1, Zenon DEF Msix, WorkRecord
<1>3. work' = IF ans = "ok" /\ h.flags = 1 THEN Append(work, Msix) ELSE work
  BY <1>1, Zenon DEF HarnessCpl, Raise, Msix
<1>4. CASE ans = "bad" \/ h.status # 0
  <2>1. reg' = [reg EXCEPT !.status = 1] /\ h' = Polling /\ log' = log
    BY <1>4, Zenon DEF HarnessCpl
  <2>2. /\ reg' \in RegRecord /\ reg'.base = reg.base /\ reg'.cplBase = reg.cplBase
        /\ reg'.count = reg.count /\ reg'.control = reg.control /\ reg'.head = reg.head /\ reg'.status = 1
    BY <1>1, <2>1, Zenon DEF RegRecord
  <2>3. RunFails
    BY <1>4, <2>1, <2>2, Zenon DEF RunFails
  <2> QED BY <1>1, <1>2, <1>3, <2>2, <2>3, Zenon
<1>5. CASE ~(ans = "bad" \/ h.status # 0)
  <2>1. LogAs(h.run, log[h.run].res, log[h.run].descs + 1)
    <3> DEFINE r == h.run
               e == [log[r] EXCEPT !.descs = @ + 1]
    <3>1. r \in 1..Len(log) /\ DOMAIN log = 1..Len(log) /\ log[r] \in LogRecord /\ log \in Seq(LogRecord)
      BY <1>1 DEF TypeInv
    <3>2. log' = [log EXCEPT ![r] = e]
      BY <1>5, Zenon DEF HarnessCpl
    <3> HIDE DEF r
    <3>3. /\ e \in LogRecord /\ e.iters = log[r].iters /\ e.buf = log[r].buf
          /\ e.res = log[r].res /\ e.descs = log[r].descs + 1
      <4>1. log[r].descs + 1 \in Nat
        BY <3>1 DEF LogRecord
      <4>2. log[r] \in LogRecord
        BY <3>1, Zenon
      <4> QED BY <4>1, <4>2, Zenon DEF LogRecord
    <3> HIDE DEF e
    <3>4. LogAs(r, log[r].res, log[r].descs + 1)
      BY <3>1, <3>2, <3>3, EntryReplaced DEF LogAs
    <3> QED BY <3>4, Zenon DEF r
  <2>2. CASE h.idx = reg.head + 1
    <3>1. h' = Polling /\ reg' = [reg EXCEPT !.head = h.end, !.status = 0]
      BY <1>1, <1>5, <2>2 DEF HarnessCpl
    <3>2. /\ reg' \in RegRecord /\ reg'.base = reg.base /\ reg'.cplBase = reg.cplBase
          /\ reg'.count = reg.count /\ reg'.control = reg.control
          /\ reg'.head = reg.head + 2 /\ reg'.status = 0
      <4>1. reg \in RegRecord /\ h.end = reg.head + 2 /\ h.end \in Nat
        BY <1>1
      <4> QED BY <3>1, <4>1, Zenon DEF RegRecord
    <3>3. RunEnds
      BY <1>1, <1>5, <2>2, <3>1, <3>2, Zenon DEF RunEnds
    <3> QED BY <1>1, <1>2, <1>3, <2>1, <3>2, <3>3, Zenon
  <2>3. CASE h.idx = reg.head
    <3>1. h' = [h EXCEPT !.pc = "desc", !.idx = @ + 1] /\ reg' = reg
      BY <1>1, <1>5, <2>3 DEF HarnessCpl
    <3>2. /\ h' \in HarnessRecord /\ h'.pc = "desc" /\ h'.idx = h.idx + 1 /\ h'.end = h.end
          /\ h'.run = h.run /\ h'.flags = h.flags
      <4>1. h \in HarnessRecord /\ h.idx + 1 \in Nat
        BY <1>1
      <4> QED BY <3>1, <4>1, Zenon DEF HarnessRecord
    <3>3. RunGoesOn
      BY <1>1, <1>5, <2>3, <3>1, <3>2, Zenon DEF RunGoesOn
    <3> QED BY <1>1, <1>2, <1>3, <2>1, <3>1, <3>3, Zenon
  <2> QED BY <1>1, <2>2, <2>3, Zenon
<1> QED BY <1>4, <1>5, Zenon

(* The callers, their register accesses and what they are told.            *)

\* Outside its register accesses the ioctl has none in progress.
LEMMA RpcIdle ==
  ASSUME TypeInv, CallersOk, RpcOk, NEW p \in Callers, drv[p].pc \in Locked, drv[p].pc \notin {"setup", "poll", "rung"}
  PROVE  rpc.st = "idle"
<1>1. ASSUME NEW q \in Callers, drv[q].pc \in {"setup", "poll", "rung"} PROVE FALSE
  <2>1. drv[q].pc \in Locked
    BY <1>1, Zenon DEF Locked
  <2> QED BY <1>1, <2>1, Alone, Zenon
<1> QED BY <1>1, Zenon DEF RpcOk, TypeInv

\* Every step keeps the types.
LEMMA TypeStep ==
  ASSUME RingInv, [Next]_vars
  PROVE  TypeInv'
<1>1. ASSUME UNCHANGED <<drv, lock, loop, irqDone, mem, rpc, mmio, reg, h, ans, ram, work, log, stray, late, faulty>> PROVE TypeInv'
  BY <1>1, Zenon DEF RingInv, TypeInv
<1>2. ASSUME UNCHANGED vars PROVE UNCHANGED <<drv, lock, loop, irqDone, mem, rpc, mmio, reg, h, ans, ram, work, log, stray, late, faulty>>
  BY <1>2, Zenon DEF vars, driverVars, harnessVars, hist
<1>3. ASSUME NEW p \in Callers, NEW n \in 1..MaxIters, NEW b \in Pool, Begin(p, n, b) PROVE TypeInv'
  <2>1. BeginEffect(p, n, b)
    BY <1>3, BeginDoes DEF RingInv
  <2> QED BY <2>1, Zenon DEF RingInv, TypeInv, BeginEffect, BufAs, LogMore, driverVars, harnessVars, hist
<1>4. ASSUME NEW p \in Callers, AllocFails(p) PROVE TypeInv'
  <2>1. AllocFailsEffect(p)
    BY <1>4, AllocFailsDoes, Zenon DEF RingInv
  <2> QED BY <2>1, Zenon DEF RingInv, TypeInv, AllocFailsEffect, driverVars, harnessVars, hist, LogMore
<1>5. ASSUME NEW p \in Callers, Lock(p) PROVE TypeInv'
  <2>1. LockEffect(p)
    BY <1>5, LockDoes, Zenon DEF RingInv
  <2> QED BY <2>1, Zenon DEF RingInv, TypeInv, LockEffect, driverVars, harnessVars, hist, GoesTo, BufAs
<1>6. ASSUME NEW p \in Callers, SetupIssue(p) PROVE TypeInv'
  <2>1. SetupIssueEffect(p)
    BY <1>6, SetupIssueDoes, Zenon DEF RingInv
  <2>2. PICK a \in AccessRecord : Issue(a)
    BY <2>1, Zenon DEF SetupIssueEffect
  <2>3. mmio' \in Seq(AccessRecord) /\ rpc' \in [st : {"idle", "busy", "done"}, val : Int]
    BY <2>2 DEF Issue, RingInv, TypeInv
  <2> QED BY <2>1, <2>3, Zenon DEF RingInv, TypeInv, SetupIssueEffect, driverVars, harnessVars, hist
<1>7. ASSUME NEW p \in Callers, SetupReturn(p) PROVE TypeInv'
  <2>1. SetupReturnEffect(p)
    BY <1>7, SetupReturnDoes, Zenon DEF RingInv
  <2> QED BY <2>1 DEF RingInv, TypeInv, SetupReturnEffect, driverVars, harnessVars, hist, GoesTo
<1>8. ASSUME NEW p \in Callers, Fill(p) PROVE TypeInv'
  <2>1. FillEffect(p)
    BY <1>8, FillDoes, Zenon DEF RingInv
  <2> QED BY <2>1, Zenon DEF RingInv, TypeInv, FillEffect, driverVars, harnessVars, hist, GoesTo, BufAs, LogAs
<1>9. ASSUME NEW p \in Callers, PollIssue(p) PROVE TypeInv'
  <2>1. PollIssueEffect(p)
    BY <1>9, PollIssueDoes, Zenon DEF RingInv
  <2>2. PICK a \in AccessRecord : Issue(a)
    BY <2>1, Zenon DEF PollIssueEffect
  <2>3. mmio' \in Seq(AccessRecord) /\ rpc' \in [st : {"idle", "busy", "done"}, val : Int]
    BY <2>2 DEF Issue, RingInv, TypeInv
  <2> QED BY <2>1, <2>3, Zenon DEF RingInv, TypeInv, PollIssueEffect, driverVars, harnessVars, hist
<1>10. ASSUME NEW p \in Callers, PollReturn(p) PROVE TypeInv'
  <2>1. PollReturnEffect(p)
    BY <1>10, PollReturnDoes, Zenon DEF RingInv
  <2> QED BY <2>1 DEF RingInv, TypeInv, PollReturnEffect, driverVars, harnessVars, hist, GoesTo, LogAs
<1>11. ASSUME NEW p \in Callers, Ring(p) PROVE TypeInv'
  <2>1. RingEffect(p)
    BY <1>11, RingDoes, Zenon DEF RingInv
  <2>2. PICK a \in AccessRecord : Issue(a)
    BY <2>1, Zenon DEF RingEffect
  <2>3. mmio' \in Seq(AccessRecord) /\ rpc' \in [st : {"idle", "busy", "done"}, val : Int]
    BY <2>2 DEF Issue, RingInv, TypeInv
  <2> QED BY <2>1, <2>3, Zenon DEF RingInv, TypeInv, RingEffect, driverVars, harnessVars, hist, GoesTo
<1>12. ASSUME NEW p \in Callers, RingReturn(p) PROVE TypeInv'
  <2>1. RingReturnEffect(p)
    BY <1>12, RingReturnDoes, Zenon DEF RingInv
  <2> QED BY <2>1 DEF RingInv, TypeInv, RingReturnEffect, driverVars, harnessVars, hist, GoesTo
<1>13. ASSUME NEW p \in Callers, WaitDone(p) PROVE TypeInv'
  <2>1. WaitDoneEffect(p)
    BY <1>13, WaitDoneDoes, Zenon DEF RingInv
  <2> QED BY <2>1 DEF RingInv, TypeInv, WaitDoneEffect, driverVars, harnessVars, hist, GoesTo
<1>14. ASSUME NEW p \in Callers, WaitTimeout(p) PROVE TypeInv'
  <2>1. WaitTimeoutEffect(p)
    BY <1>14, WaitTimeoutDoes, Zenon DEF RingInv
  <2> QED BY <2>1, Zenon DEF RingInv, TypeInv, WaitTimeoutEffect, driverVars, harnessVars, hist, GoesTo, LogAs
<1>15. ASSUME NEW p \in Callers, Check(p) PROVE TypeInv'
  <2>1. CheckEffect(p)
    BY <1>15, CheckDoes, Zenon DEF RingInv
  <2> QED BY <2>1, Zenon DEF RingInv, TypeInv, CheckEffect, driverVars, harnessVars, hist, GoesTo, LogAs
<1>16. ASSUME NEW p \in Callers, Free(p) PROVE TypeInv'
  <2>1. FreeEffect(p)
    BY <1>16, FreeDoes, Zenon DEF RingInv
  <2> QED BY <2>1, Zenon DEF RingInv, TypeInv, FreeEffect, driverVars, harnessVars, hist, BufAs
<1>17. ASSUME AccessTimeout PROVE TypeInv'
  BY <1>17 DEF RingInv, TypeInv, AccessTimeout, driverVars, harnessVars, hist
<1>18. ASSUME BottomHalf PROVE TypeInv'
  <2>1. BottomHalfEffect
    BY <1>18, BottomHalfDoes, Zenon DEF RingInv
  <2>2. work \in Seq(WorkRecord) /\ work # <<>> /\ irqDone \in Nat
    BY <2>1, Zenon DEF RingInv, TypeInv, BottomHalfEffect
  <2>3. Tail(work) \in Seq(WorkRecord) /\ irqDone + 1 \in Nat
    BY <2>2
  <2> QED BY <2>1, <2>2, <2>3, Zenon DEF RingInv, TypeInv, BottomHalfEffect, driverVars, harnessVars, hist
<1>19. ASSUME DmaRefused PROVE TypeInv'
  BY <1>19 DEF RingInv, TypeInv, DmaRefused, driverVars, harnessVars, hist
<1>20. ASSUME HarnessAccess PROVE TypeInv'
  <2>1. HarnessAccessEffect
    BY <1>20, HarnessAccessDoes, Zenon DEF RingInv
  <2>2. mmio \in Seq(AccessRecord) /\ mmio # <<>>
    BY <2>1, Zenon DEF RingInv, TypeInv, HarnessAccessEffect
  <2>3. Tail(mmio) \in Seq(AccessRecord)
    BY <2>2
  <2> QED BY <2>1, <2>3, Zenon DEF RingInv, TypeInv, HarnessAccessEffect, driverVars, harnessVars, hist
<1>21. ASSUME HarnessAsk PROVE TypeInv'
  <2>1. HostRequest \in WorkRecord
    BY <1>21, RequestType, Zenon DEF RingInv, HarnessAsk
  <2> QED BY <1>21, <2>1 DEF RingInv, TypeInv, HarnessAsk, driverVars, harnessVars, hist
<1>22. ASSUME HarnessTimeout PROVE TypeInv'
  BY <1>22, Zenon DEF RingInv, TypeInv, HarnessTimeout, driverVars, harnessVars, hist
<1>23. ASSUME HarnessDesc PROVE TypeInv'
  <2>1. HarnessDescEffect
    BY <1>23, HarnessDescDoes, Zenon DEF RingInv
  <2> QED BY <2>1, Zenon DEF RingInv, TypeInv, HarnessDescEffect, driverVars, harnessVars, hist
<1>24. ASSUME HarnessXfer PROVE TypeInv'
  <2>1. HarnessXferEffect
    BY <1>24, HarnessXferDoes, Zenon DEF RingInv
  <2> QED BY <2>1, Zenon DEF RingInv, TypeInv, HarnessXferEffect, driverVars, harnessVars, hist
<1>25. ASSUME HarnessCpl PROVE TypeInv'
  <2>1. HarnessCplEffect
    BY <1>25, HarnessCplDoes, Zenon DEF RingInv
  <2>2. h' \in HarnessRecord /\ log' \in Seq(LogRecord)
    BY <2>1, PollingType, Zenon DEF RingInv, TypeInv, HarnessCplEffect, LogAs, RunFails, RunEnds, RunGoesOn
  <2>3. work \in Seq(WorkRecord) /\ Msix \in WorkRecord
    BY <2>1, Zenon DEF RingInv, TypeInv, HarnessCplEffect
  <2>4. Append(work, Msix) \in Seq(WorkRecord)
    BY <2>3
  <2> QED BY <2>1, <2>2, <2>3, <2>4, Zenon DEF RingInv, TypeInv, HarnessCplEffect, driverVars, harnessVars, hist
<1> QED BY <1>1, <1>2, <1>3, <1>4, <1>5, <1>6, <1>7, <1>8, <1>9, <1>10, <1>11, <1>12, <1>13, <1>14, <1>15, <1>16, <1>17, <1>18, <1>19, <1>20, <1>21, <1>22, <1>23, <1>24, <1>25, Zenon DEF Next, Driver, Harness

\* Within the critical section nothing changes for the others,
LEMMA CallersMove ==
  ASSUME TypeInv, CallersOk, NEW p \in Callers, drv[p].pc \in Locked, NEW x \in Locked, GoesTo(p, x),
         lock' = lock, log' = log, \A b \in Pool : mem'[b].live = mem[b].live
  PROVE  CallersOk'
<1> SUFFICES ASSUME NEW q \in Callers
             PROVE  /\ lock' = q <=> drv'[q].pc \in Locked
                    /\ drv'[q].pc # "idle" =>
                         /\ drv'[q].buf \in Pool /\ mem'[drv'[q].buf].live
                         /\ drv'[q].run \in DOMAIN log' /\ log'[drv'[q].run].iters = drv'[q].iters /\ drv'[q].iters > 0
                         /\ drv'[q].pc # "free" => log'[drv'[q].run].res = "busy"
                         /\ \A r \in Callers \ {q} : drv'[r].pc # "idle" =>
                              drv'[r].buf # drv'[q].buf /\ drv'[r].run # drv'[q].run
  BY Zenon DEF CallersOk, At
<1>1. drv[p].pc # "idle" /\ drv[p].pc # "free" /\ x # "idle"
  BY Zenon DEF Locked
<1>2. \A r \in Callers : /\ drv'[r].buf = drv[r].buf /\ drv'[r].run = drv[r].run /\ drv'[r].iters = drv[r].iters
                         /\ drv'[r].pc = "idle" <=> drv[r].pc = "idle"
                         /\ drv'[r].pc \in Locked <=> drv[r].pc \in Locked
                         /\ drv'[r].pc # "free" => drv[r].pc # "free"
  BY <1>1, Zenon DEF GoesTo
<1> QED BY <1>1, <1>2 DEF CallersOk, At

\* nor when it is left.
LEMMA CallersEnd ==
  ASSUME TypeInv, CallersOk, NEW p \in Callers, drv[p].pc \in Locked, GoesTo(p, "free"),
         lock' = NoCaller, NEW res, NEW d, LogAs(drv[p].run, res, d), mem' = mem
  PROVE  CallersOk'
<1> SUFFICES ASSUME NEW q \in Callers
             PROVE  /\ lock' = q <=> drv'[q].pc \in Locked
                    /\ drv'[q].pc # "idle" =>
                         /\ drv'[q].buf \in Pool /\ mem'[drv'[q].buf].live
                         /\ drv'[q].run \in DOMAIN log' /\ log'[drv'[q].run].iters = drv'[q].iters /\ drv'[q].iters > 0
                         /\ drv'[q].pc # "free" => log'[drv'[q].run].res = "busy"
                         /\ \A r \in Callers \ {q} : drv'[r].pc # "idle" =>
                              drv'[r].buf # drv'[q].buf /\ drv'[r].run # drv'[q].run
  BY Zenon DEF CallersOk, At
<1>1. drv[p].pc # "idle" /\ drv[p].pc # "free" /\ "free" \notin Locked /\ lock = p /\ NoCaller # q
  BY RingAssumption, Zenon DEF Locked, CallersOk
<1>2. \A r \in Callers : /\ drv'[r].buf = drv[r].buf /\ drv'[r].run = drv[r].run /\ drv'[r].iters = drv[r].iters
                         /\ drv'[r].pc = "idle" <=> drv[r].pc = "idle"
                         /\ r # p => drv'[r].pc = drv[r].pc
  BY <1>1, Zenon DEF GoesTo
<1>3. lock' = q <=> drv'[q].pc \in Locked
  BY <1>1, <1>2 DEF CallersOk, GoesTo
<1>4. DOMAIN log' = DOMAIN log /\ \A r \in DOMAIN log : log'[r].iters = log[r].iters /\ (r # drv[p].run => log'[r] = log[r])
  BY DEF LogAs, TypeInv
<1>5. drv'[q].pc # "idle" /\ drv'[q].pc # "free" => log'[drv'[q].run].res = "busy"
  BY <1>1, <1>2, <1>4 DEF CallersOk, At, GoesTo
<1> QED BY <1>1, <1>2, <1>3, <1>4, <1>5 DEF CallersOk, At

\* Who holds run_lock, and whose buffers and log entries are whose.
LEMMA CallersStep ==
  ASSUME RingInv, [Next]_vars
  PROVE  CallersOk'
<1>1. ASSUME UNCHANGED <<drv, lock, mem, log>> PROVE CallersOk'
  BY <1>1, Zenon DEF RingInv, CallersOk, At
<1>2. ASSUME NEW p \in Callers,
             SetupIssue(p) \/ PollIssue(p)
      PROVE  UNCHANGED <<drv, lock, mem, log>>
  BY <1>2, Zenon DEF SetupIssue, PollIssue, driverVars, harnessVars, hist
<1>3. ASSUME AccessTimeout \/ DmaRefused \/ HarnessAccess \/ HarnessAsk \/ HarnessTimeout \/ HarnessDesc \/ HarnessXfer
      PROVE  UNCHANGED <<drv, lock, mem, log>>
  BY <1>3, Zenon DEF AccessTimeout, DmaRefused, HarnessAccess, HarnessAsk, HarnessTimeout, HarnessDesc, HarnessXfer, driverVars, harnessVars, hist
<1>4. ASSUME UNCHANGED vars PROVE UNCHANGED <<drv, lock, mem, log>>
  BY <1>4, Zenon DEF vars, driverVars, harnessVars, hist
<1>5. ASSUME NEW p \in Callers, NEW n \in 1..MaxIters, NEW b \in Pool, Begin(p, n, b) PROVE CallersOk'
  <2>1. BeginEffect(p, n, b)
    BY <1>5, BeginDoes DEF RingInv
  <2> SUFFICES ASSUME NEW q \in Callers
               PROVE  /\ lock' = q <=> drv'[q].pc \in Locked
                      /\ drv'[q].pc # "idle" =>
                           /\ drv'[q].buf \in Pool /\ mem'[drv'[q].buf].live
                           /\ drv'[q].run \in DOMAIN log' /\ log'[drv'[q].run].iters = drv'[q].iters /\ drv'[q].iters > 0
                           /\ drv'[q].pc # "free" => log'[drv'[q].run].res = "busy"
                           /\ \A r \in Callers \ {q} : drv'[r].pc # "idle" =>
                                drv'[r].buf # drv'[q].buf /\ drv'[r].run # drv'[q].run
    BY Zenon DEF CallersOk, At
  <2>2. /\ drv[p].pc = "idle" /\ "lock" \notin Locked /\ "idle" \notin Locked /\ lock' = lock
        /\ ~mem[b].live /\ mem'[b].live /\ \A c \in Pool : c # b => mem'[c] = mem[c]
        /\ n > 0
    BY <2>1 DEF BeginEffect, BufAs, At, Locked
  <2>3. /\ DOMAIN log = 1..Len(log) /\ DOMAIN log' = 1..(Len(log) + 1) /\ Len(log) \in Nat
        /\ \A s \in DOMAIN log : log'[s] = log[s]
        /\ log'[Len(log) + 1].iters = n /\ log'[Len(log) + 1].res = "busy"
    BY <2>1 DEF BeginEffect, LogMore, RingInv, TypeInv
  <2>4. /\ drv'[p].pc = "lock" /\ drv'[p].buf = b /\ drv'[p].iters = n /\ drv'[p].run = Len(log) + 1
        /\ \A r \in Callers \ {p} : drv'[r] = drv[r]
    BY <2>1, Zenon DEF BeginEffect
  <2>5. \A r \in Callers : drv[r].pc # "idle" => /\ drv[r].buf \in Pool /\ drv[r].buf # b /\ mem[drv[r].buf].live
                                                 /\ drv[r].run \in DOMAIN log /\ drv[r].run # Len(log) + 1
    BY <2>2, <2>3 DEF RingInv, CallersOk, At
  <2>6. CASE q = p
    <3>1. lock' = q <=> drv'[q].pc \in Locked
      BY <2>2, <2>4, <2>6, Zenon DEF RingInv, CallersOk
    <3> QED BY <2>2, <2>3, <2>4, <2>5, <2>6, <3>1
  <2>7. CASE q # p
    <3>1. drv'[q] = drv[q]
      BY <2>4, <2>7, Zenon
    <3>2. lock' = q <=> drv'[q].pc \in Locked
      BY <2>2, <3>1, Zenon DEF RingInv, CallersOk
    <3>3. ASSUME drv[q].pc # "idle", NEW r \in Callers \ {q}, drv'[r].pc # "idle"
          PROVE  drv'[r].buf # drv[q].buf /\ drv'[r].run # drv[q].run
      BY <2>4, <2>5, <3>3 DEF RingInv, CallersOk, At
    <3>4. drv[q].pc # "idle" => /\ log[drv[q].run].iters = drv[q].iters /\ drv[q].iters > 0
                                /\ drv[q].pc # "free" => log[drv[q].run].res = "busy"
      BY Zenon DEF RingInv, CallersOk, At
    <3>5. drv[q].pc # "idle" => mem'[drv[q].buf].live /\ log'[drv[q].run] = log[drv[q].run] /\ drv[q].run \in DOMAIN log'
      BY <2>2, <2>3, <2>5
    <3> QED BY <2>5, <3>1, <3>2, <3>3, <3>4, <3>5, Zenon
  <2> QED BY <2>6, <2>7, Zenon
<1>6. ASSUME NEW p \in Callers, AllocFails(p) PROVE CallersOk'
  <2>1. AllocFailsEffect(p)
    BY <1>6, AllocFailsDoes, Zenon DEF RingInv
  <2>2. /\ drv' = drv /\ lock' = lock /\ mem' = mem
    BY <2>1, Zenon DEF AllocFailsEffect, driverVars
  <2>3. DOMAIN log \subseteq DOMAIN log' /\ \A s \in DOMAIN log : log'[s] = log[s]
    BY <2>1 DEF AllocFailsEffect, LogMore, RingInv, TypeInv
  <2> QED BY <2>2, <2>3 DEF RingInv, CallersOk, At
<1>7. ASSUME NEW p \in Callers, Lock(p) PROVE CallersOk'
  <2>1. LockEffect(p)
    BY <1>7, LockDoes, Zenon DEF RingInv
  <2> SUFFICES ASSUME NEW q \in Callers
               PROVE  /\ lock' = q <=> drv'[q].pc \in Locked
                      /\ drv'[q].pc # "idle" =>
                           /\ drv'[q].buf \in Pool /\ mem'[drv'[q].buf].live
                           /\ drv'[q].run \in DOMAIN log' /\ log'[drv'[q].run].iters = drv'[q].iters /\ drv'[q].iters > 0
                           /\ drv'[q].pc # "free" => log'[drv'[q].run].res = "busy"
                           /\ \A r \in Callers \ {q} : drv'[r].pc # "idle" =>
                                drv'[r].buf # drv'[q].buf /\ drv'[r].run # drv'[q].run
    BY Zenon DEF CallersOk, At
  <2>2. /\ drv[p].pc = "lock" /\ lock = NoCaller /\ lock' = p /\ log' = log /\ "lock" \notin Locked /\ "setup" \in Locked
        /\ \A r \in Callers : drv[r].pc \notin Locked
    BY <2>1, RingAssumption, Zenon DEF LockEffect, At, Locked, RingInv, CallersOk
  <2>3. \A b \in Pool : mem[b].live => mem'[b].live
    <3>1. drv[p].buf \in Pool
      BY <2>2, Zenon DEF RingInv, CallersOk, At
    <3> QED BY <2>1, <3>1, Zenon DEF LockEffect, BufAs
  <2>4. \A r \in Callers : /\ drv'[r].buf = drv[r].buf /\ drv'[r].run = drv[r].run /\ drv'[r].iters = drv[r].iters
                           /\ drv'[r].pc = "idle" <=> drv[r].pc = "idle"
                           /\ drv'[r].pc = "free" <=> drv[r].pc = "free"
                           /\ drv'[r].pc \in Locked <=> r = p
    BY <2>1, <2>2, Zenon DEF LockEffect, GoesTo
  <2> QED BY <2>2, <2>3, <2>4 DEF RingInv, CallersOk, At
<1>8. ASSUME NEW p \in Callers, SetupReturn(p) PROVE CallersOk'
  <2>1. SetupReturnEffect(p)
    BY <1>8, SetupReturnDoes, Zenon DEF RingInv
  <2>2. drv[p].pc \in Locked /\ "fill" \in Locked
    BY <2>1, Zenon DEF SetupReturnEffect, At, Locked
  <2>3. (GoesTo(p, "fill") \/ drv' = drv) /\ lock' = lock /\ log' = log /\ mem' = mem
    BY <2>1, Zenon DEF SetupReturnEffect
  <2>4. CASE drv' = drv
    BY <1>1, <2>3, <2>4, Zenon
  <2> QED BY <2>2, <2>3, <2>4, CallersMove, Zenon DEF RingInv
<1>9. ASSUME NEW p \in Callers, Fill(p) PROVE CallersOk'
  <2>1. FillEffect(p)
    BY <1>9, FillDoes, Zenon DEF RingInv
  <2>2. drv[p].pc \in Locked /\ "poll" \in Locked /\ drv[p].buf \in Pool /\ mem[drv[p].buf].live = TRUE
    BY <2>1, Zenon DEF FillEffect, At, Locked, RingInv, CallersOk, TypeInv, BufRecord
  <2>3. CASE GoesTo(p, "poll") /\ lock' = lock /\ log' = log /\ BufAs(drv[p].buf, TRUE, TRUE)
    <3>1. \A b \in Pool : mem'[b].live = mem[b].live
      BY <2>2, <2>3, Zenon DEF BufAs
    <3> QED BY <2>2, <2>3, <3>1, CallersMove, Zenon DEF RingInv
  <2>4. CASE /\ GoesTo(p, "free") /\ lock' = NoCaller
             /\ LogAs(drv[p].run, "ok", log[drv[p].run].descs) /\ mem' = mem
    BY <2>2, <2>4, CallersEnd, Zenon DEF RingInv
  <2> QED BY <2>1, <2>3, <2>4, Zenon DEF FillEffect
<1>10. ASSUME NEW p \in Callers, PollReturn(p) PROVE CallersOk'
  <2>1. PollReturnEffect(p)
    BY <1>10, PollReturnDoes, Zenon DEF RingInv
  <2>2. drv[p].pc \in Locked /\ "ring" \in Locked /\ mem' = mem
    BY <2>1, Zenon DEF PollReturnEffect, At, Locked
  <2>3. CASE GoesTo(p, "ring") /\ lock' = lock /\ log' = log
    BY <2>2, <2>3, CallersMove, Zenon DEF RingInv
  <2>4. CASE /\ GoesTo(p, "free") /\ lock' = NoCaller
             /\ LogAs(drv[p].run, "timeout", log[drv[p].run].descs)
    BY <2>2, <2>4, CallersEnd, Zenon DEF RingInv
  <2>5. CASE UNCHANGED <<drv, lock, log>>
    BY <1>1, <2>2, <2>5, Zenon
  <2> QED BY <2>1, <2>3, <2>4, <2>5, Zenon DEF PollReturnEffect
<1>11. ASSUME NEW p \in Callers, Ring(p) PROVE CallersOk'
  <2>1. RingEffect(p)
    BY <1>11, RingDoes, Zenon DEF RingInv
  <2>2. drv[p].pc \in Locked /\ "rung" \in Locked
    BY <2>1, Zenon DEF RingEffect, At, Locked
  <2>3. GoesTo(p, "rung") /\ lock' = lock /\ log' = log /\ mem' = mem
    BY <2>1, Zenon DEF RingEffect, driverVars, harnessVars, hist
  <2> QED BY <2>2, <2>3, CallersMove, Zenon DEF RingInv
<1>12. ASSUME NEW p \in Callers, RingReturn(p) PROVE CallersOk'
  <2>1. RingReturnEffect(p)
    BY <1>12, RingReturnDoes, Zenon DEF RingInv
  <2>2. drv[p].pc \in Locked /\ "wait" \in Locked
    BY <2>1, Zenon DEF RingReturnEffect, At, Locked
  <2>3. GoesTo(p, "wait") /\ lock' = lock /\ log' = log /\ mem' = mem
    BY <2>1, Zenon DEF RingReturnEffect, driverVars, harnessVars, hist
  <2> QED BY <2>2, <2>3, CallersMove, Zenon DEF RingInv
<1>13. ASSUME NEW p \in Callers, WaitDone(p) PROVE CallersOk'
  <2>1. WaitDoneEffect(p)
    BY <1>13, WaitDoneDoes, Zenon DEF RingInv
  <2>2. drv[p].pc \in Locked /\ "check" \in Locked
    BY <2>1, Zenon DEF WaitDoneEffect, At, Locked
  <2>3. GoesTo(p, "check") /\ lock' = lock /\ log' = log /\ mem' = mem
    BY <2>1, Zenon DEF WaitDoneEffect, driverVars, harnessVars, hist
  <2> QED BY <2>2, <2>3, CallersMove, Zenon DEF RingInv
<1>14. ASSUME NEW p \in Callers, WaitTimeout(p) PROVE CallersOk'
  <2>1. WaitTimeoutEffect(p)
    BY <1>14, WaitTimeoutDoes, Zenon DEF RingInv
  <2>2. drv[p].pc \in Locked
    BY <2>1, Zenon DEF WaitTimeoutEffect, At, Locked
  <2>3. /\ GoesTo(p, "free") /\ lock' = NoCaller /\ mem' = mem
        /\ LogAs(drv[p].run, "timeout", log[drv[p].run].descs)
    BY <2>1, Zenon DEF WaitTimeoutEffect
  <2> QED BY <2>2, <2>3, CallersEnd, Zenon DEF RingInv
<1>15. ASSUME NEW p \in Callers, Check(p) PROVE CallersOk'
  <2>1. CheckEffect(p)
    BY <1>15, CheckDoes, Zenon DEF RingInv
  <2>2. drv[p].pc \in Locked /\ "fill" \in Locked /\ mem' = mem
    BY <2>1, Zenon DEF CheckEffect, At, Locked
  <2>3. CASE GoesTo(p, "fill") /\ lock' = lock /\ log' = log
    BY <2>2, <2>3, CallersMove, Zenon DEF RingInv
  <2>4. CASE /\ GoesTo(p, "free") /\ lock' = NoCaller
             /\ LogAs(drv[p].run, "io", log[drv[p].run].descs)
    BY <2>2, <2>4, CallersEnd, Zenon DEF RingInv
  <2> QED BY <2>1, <2>3, <2>4, Zenon DEF CheckEffect
<1>16. ASSUME NEW p \in Callers, Free(p) PROVE CallersOk'
  <2>1. FreeEffect(p)
    BY <1>16, FreeDoes, Zenon DEF RingInv
  <2> SUFFICES ASSUME NEW q \in Callers
               PROVE  /\ lock' = q <=> drv'[q].pc \in Locked
                      /\ drv'[q].pc # "idle" =>
                           /\ drv'[q].buf \in Pool /\ mem'[drv'[q].buf].live
                           /\ drv'[q].run \in DOMAIN log' /\ log'[drv'[q].run].iters = drv'[q].iters /\ drv'[q].iters > 0
                           /\ drv'[q].pc # "free" => log'[drv'[q].run].res = "busy"
                           /\ \A r \in Callers \ {q} : drv'[r].pc # "idle" =>
                                drv'[r].buf # drv'[q].buf /\ drv'[r].run # drv'[q].run
    BY Zenon DEF CallersOk, At
  <2>2. /\ drv[p].pc = "free" /\ drv'[p].pc = "idle" /\ lock' = lock /\ log' = log
        /\ "free" \notin Locked /\ "idle" \notin Locked
        /\ \A r \in Callers : r # p => drv'[r] = drv[r]
        /\ \A c \in Pool : c # drv[p].buf => mem'[c] = mem[c]
    BY <2>1, Zenon DEF FreeEffect, At, Locked, BufAs
  <2>3. CASE q = p
    BY <2>2, <2>3, Zenon DEF RingInv, CallersOk
  <2>4. CASE q # p
    <3>1. drv'[q] = drv[q] /\ (drv[q].pc # "idle" => drv[q].buf # drv[p].buf)
      BY <2>2, <2>4, Zenon DEF RingInv, CallersOk, At
    <3> QED BY <2>2, <2>4, <3>1 DEF RingInv, CallersOk, At
  <2> QED BY <2>3, <2>4, Zenon
<1>17. ASSUME BottomHalf PROVE CallersOk'
  <2>1. BottomHalfEffect
    BY <1>17, BottomHalfDoes, Zenon DEF RingInv
  <2>2. drv' = drv /\ lock' = lock /\ log' = log /\ \A b \in Pool : mem'[b].live = mem[b].live
    BY <2>1, Zenon DEF BottomHalfEffect
  <2> QED BY <2>2, Zenon DEF RingInv, CallersOk, At
<1>18. ASSUME HarnessCpl PROVE CallersOk'
  <2>1. HarnessCplEffect
    BY <1>18, HarnessCplDoes, Zenon DEF RingInv
  <2>2. drv' = drv /\ lock' = lock /\ mem' = mem
    BY <2>1, Zenon DEF HarnessCplEffect, driverVars
  <2>3. DOMAIN log' = DOMAIN log /\ \A s \in DOMAIN log : log'[s].iters = log[s].iters /\ log'[s].res = log[s].res
    <3>1. CASE LogAs(h.run, log[h.run].res, log[h.run].descs + 1)
      <4>1. log \in Seq(LogRecord)
        BY Zenon DEF RingInv, TypeInv
      <4>2. DOMAIN log' = DOMAIN log
        BY <3>1, <4>1 DEF LogAs
      <4>3. \A s \in DOMAIN log : log'[s].iters = log[s].iters /\ log'[s].res = log[s].res
        BY <3>1, Zenon DEF LogAs
      <4> QED BY <4>2, <4>3, Zenon
    <3>2. CASE log' = log
      BY <3>2, Zenon
    <3> QED BY <2>1, <3>1, <3>2, Zenon DEF HarnessCplEffect, RunFails
  <2> QED BY <2>2, <2>3 DEF RingInv, CallersOk, At
<1> QED BY <1>1, <1>2, <1>3, <1>4, <1>5, <1>6, <1>7, <1>8, <1>9, <1>10, <1>11, <1>12, <1>13, <1>14, <1>15, <1>16, <1>17, <1>18, Zenon DEF Next, Driver, Harness

\* When an access is over, or none is made, the rest is as it was.
LEMMA RpcQuiet ==
  ASSUME TypeInv, CallersOk, RpcOk, NEW p \in Callers, drv[p].pc \in Locked, NEW x, GoesTo(p, x), x # "rung",
         rpc'.st = "idle", mmio' = mmio, DOMAIN log' = DOMAIN log, loop'.tail = loop.tail,
         x = "setup" => loop'.n \in 1..4
  PROVE  RpcOk'
<1>1. \A q \in Callers : q # p => drv'[q] = drv[q] /\ drv[q].pc \notin Locked
  BY Alone, Zenon DEF GoesTo
<1>2. \A q \in Callers : ~At(q, "rung")' /\ (At(q, "setup")' => q = p)
  BY <1>1, Zenon DEF At, GoesTo, Locked
<1>3. At(p, "setup")' => loop'.n \in 1..4
  BY Zenon DEF At, GoesTo
<1> QED BY <1>2, <1>3, Zenon DEF RpcOk

\* An access is made.
LEMMA RpcIssue ==
  ASSUME TypeInv, CallersOk, RpcOk, NEW p \in Callers, drv[p].pc \in Locked, NEW x, GoesTo(p, x),
         NEW a \in AccessRecord, Issue(a), a.run = drv[p].run, x \in {"setup", "poll", "rung"},
         x = "poll" => a.type = "read", log' = log, Even(loop'.tail), x = "setup" => loop'.n \in 1..4
  PROVE  RpcOk'
<1>1. \A q \in Callers : q # p => drv'[q] = drv[q] /\ drv[q].pc \notin Locked
  BY Alone, Zenon DEF GoesTo
<1>2. \A q \in Callers : At(q, "setup")' \/ At(q, "poll")' => q = p
  BY <1>1, Zenon DEF At, GoesTo, Locked
<1>3. rpc'.st = "busy" /\ mmio' = Append(mmio, a) /\ mmio \in Seq(AccessRecord)
  BY Zenon DEF Issue, TypeInv
<1>4. mmio' # <<>> /\ mmio'[Len(mmio')] = a /\ \A i \in DOMAIN mmio' : (i \in DOMAIN mmio /\ mmio'[i] = mmio[i]) \/ mmio'[i] = a
  BY <1>3
<1>5. drv[p].run \in DOMAIN log
  BY Zenon DEF CallersOk, At, Locked
<1>6. \A i \in DOMAIN mmio' : mmio'[i].run \in DOMAIN log'
  BY <1>4, <1>5, Zenon DEF RpcOk
<1>7. /\ At(p, "poll")' => mmio'[Len(mmio')].type = "read"
      /\ At(p, "setup")' => loop'.n \in 1..4
      /\ drv'[p].pc \in {"setup", "poll", "rung"}
  BY <1>4, Zenon DEF At, GoesTo
<1> QED BY <1>2, <1>3, <1>4, <1>6, <1>7, Zenon DEF RpcOk

\* The BAR access in progress is the lock holder's latest.
LEMMA RpcStep ==
  ASSUME RingInv, [Next]_vars
  PROVE  RpcOk'
<1>1. ASSUME UNCHANGED <<drv, loop, rpc, mmio, log>> PROVE RpcOk'
  BY <1>1, Zenon DEF RingInv, RpcOk, At
<1>2. ASSUME BottomHalf \/ DmaRefused \/ HarnessAsk \/ HarnessTimeout \/ HarnessDesc \/ HarnessXfer
      PROVE  UNCHANGED <<drv, loop, rpc, mmio, log>>
  BY <1>2, Zenon DEF BottomHalf, DmaRefused, HarnessAsk, HarnessTimeout, HarnessDesc, HarnessXfer, driverVars, harnessVars, hist
<1>3. ASSUME UNCHANGED vars PROVE UNCHANGED <<drv, loop, rpc, mmio, log>>
  BY <1>3, Zenon DEF vars, driverVars, harnessVars, hist
<1>4. ASSUME NEW p \in Callers, NEW n \in 1..MaxIters, NEW b \in Pool, Begin(p, n, b) PROVE RpcOk'
  <2>1. BeginEffect(p, n, b)
    BY <1>4, BeginDoes DEF RingInv
  <2>2. drv[p].pc = "idle" /\ drv'[p].pc = "lock" /\ \A q \in Callers : q # p => drv'[q] = drv[q]
    BY <2>1, Zenon DEF BeginEffect, At
  <2>3. loop' = loop /\ rpc' = rpc /\ mmio' = mmio /\ DOMAIN log \subseteq DOMAIN log'
    BY <2>1 DEF BeginEffect, LogMore, RingInv, TypeInv
  <2>4. \A q \in Callers : drv[q].pc \in {"setup", "poll", "rung"} => drv'[q] = drv[q]
    BY <2>2, Zenon
  <2>5. \A q \in Callers : drv'[q].pc \in {"setup", "poll", "rung"} => drv'[q] = drv[q]
    BY <2>2, Zenon
  <2> QED BY <2>3, <2>4, <2>5, Zenon DEF RingInv, RpcOk, At
<1>5. ASSUME NEW p \in Callers, AllocFails(p) PROVE RpcOk'
  <2>1. AllocFailsEffect(p)
    BY <1>5, AllocFailsDoes, Zenon DEF RingInv
  <2>2. drv' = drv /\ loop' = loop /\ rpc' = rpc /\ mmio' = mmio /\ DOMAIN log \subseteq DOMAIN log'
    BY <2>1 DEF AllocFailsEffect, LogMore, RingInv, TypeInv, driverVars
  <2> QED BY <2>2, Zenon DEF RingInv, RpcOk, At
<1>6. ASSUME NEW p \in Callers, Lock(p) PROVE RpcOk'
  <2>1. LockEffect(p)
    BY <1>6, LockDoes, Zenon DEF RingInv
  <2>2. \A q \in Callers : drv[q].pc \notin Locked
    BY <2>1, RingAssumption, Zenon DEF LockEffect, RingInv, CallersOk
  <2>3. rpc.st = "idle" /\ \A q \in Callers : drv'[q].pc \in {"setup", "poll", "rung"} => q = p
    BY <2>1, <2>2, Zenon DEF LockEffect, GoesTo, RingInv, RpcOk, Locked
  <2>4. drv'[p].pc = "setup" /\ loop' = [iter |-> 0, tail |-> 0, n |-> 1] /\ rpc' = rpc /\ mmio' = mmio /\ log' = log
    BY <2>1, Zenon DEF LockEffect, GoesTo
  <2>5. Even(loop'.tail) /\ loop'.n \in 1..4
    BY <2>4 DEF Even
  <2> QED BY <2>3, <2>4, <2>5, Zenon DEF RingInv, RpcOk, At
<1>7. ASSUME NEW p \in Callers, SetupIssue(p) PROVE RpcOk'
  <2>1. SetupIssueEffect(p)
    BY <1>7, SetupIssueDoes, Zenon DEF RingInv
  <2>2. PICK a \in AccessRecord : Issue(a) /\ a.run = drv[p].run
    BY <2>1, Zenon DEF SetupIssueEffect
  <2>3. drv[p].pc = "setup" /\ drv' = drv /\ loop' = loop /\ log' = log /\ loop.n \in 1..4
    BY <2>1, Zenon DEF SetupIssueEffect, At, driverVars
  <2>4. GoesTo(p, "setup") /\ drv[p].pc \in Locked
    BY <2>3, Stays, Zenon DEF RingInv, Locked
  <2> QED BY <2>2, <2>3, <2>4, RpcIssue, Zenon DEF RingInv, RpcOk
<1>8. ASSUME NEW p \in Callers, SetupReturn(p) PROVE RpcOk'
  <2>1. SetupReturnEffect(p)
    BY <1>8, SetupReturnDoes, Zenon DEF RingInv
  <2>2. drv[p].pc \in Locked /\ drv[p].pc = "setup"
    BY <2>1, Zenon DEF SetupReturnEffect, At, Locked
  <2>3. /\ rpc'.st = "idle" /\ mmio' = mmio /\ log' = log /\ loop'.tail = loop.tail /\ loop'.n = loop.n + 1
    BY <2>1, Zenon DEF SetupReturnEffect
  <2>4. loop.n \in 1..4
    BY <2>2, Zenon DEF RingInv, RpcOk, At
  <2>5. CASE loop.n = 4
    <3>1. GoesTo(p, "fill")
      BY <2>1, <2>5, Zenon DEF SetupReturnEffect
    <3> QED BY <2>2, <2>3, <3>1, RpcQuiet, Zenon DEF RingInv
  <2>6. CASE loop.n # 4
    <3>1. GoesTo(p, "setup")
      BY <2>1, <2>2, <2>6, Stays, Zenon DEF SetupReturnEffect, RingInv
    <3>2. loop'.n \in 1..4
      BY <2>3, <2>4, <2>6
    <3> QED BY <2>2, <2>3, <3>1, <3>2, RpcQuiet, Zenon DEF RingInv
  <2> QED BY <2>5, <2>6, Zenon
<1>9. ASSUME NEW p \in Callers, Fill(p) PROVE RpcOk'
  <2>1. FillEffect(p)
    BY <1>9, FillDoes, Zenon DEF RingInv
  <2>2. drv[p].pc \in Locked /\ drv[p].pc = "fill"
    BY <2>1, Zenon DEF FillEffect, At, Locked
  <2>3. rpc'.st = "idle"
    BY <2>1, <2>2, RpcIdle, Zenon DEF FillEffect, RingInv
  <2>4. mmio' = mmio /\ loop'.tail = loop.tail /\ DOMAIN log' = DOMAIN log
    BY <2>1, LogSize, Zenon DEF FillEffect, RingInv
  <2>5. GoesTo(p, "poll") \/ GoesTo(p, "free")
    BY <2>1, Zenon DEF FillEffect
  <2> QED BY <2>2, <2>3, <2>4, <2>5, RpcQuiet, Zenon DEF RingInv
<1>10. ASSUME NEW p \in Callers, PollIssue(p) PROVE RpcOk'
  <2>1. PollIssueEffect(p)
    BY <1>10, PollIssueDoes, Zenon DEF RingInv
  <2>2. PICK a \in AccessRecord : Issue(a) /\ a.run = drv[p].run /\ a.type = "read"
    BY <2>1, Zenon DEF PollIssueEffect
  <2>3. drv[p].pc = "poll" /\ drv' = drv /\ loop' = loop /\ log' = log
    BY <2>1, Zenon DEF PollIssueEffect, At, driverVars
  <2>4. GoesTo(p, "poll") /\ drv[p].pc \in Locked
    BY <2>3, Stays, Zenon DEF RingInv, Locked
  <2> QED BY <2>2, <2>3, <2>4, RpcIssue, Zenon DEF RingInv, RpcOk
<1>11. ASSUME NEW p \in Callers, PollReturn(p) PROVE RpcOk'
  <2>1. PollReturnEffect(p)
    BY <1>11, PollReturnDoes, Zenon DEF RingInv
  <2>2. drv[p].pc \in Locked /\ drv[p].pc = "poll"
    BY <2>1, Zenon DEF PollReturnEffect, At, Locked
  <2>3. rpc'.st = "idle" /\ mmio' = mmio /\ loop'.tail = loop.tail
    BY <2>1, Zenon DEF PollReturnEffect
  <2>4. DOMAIN log' = DOMAIN log
    BY <2>1, LogSize, Zenon DEF PollReturnEffect, RingInv
  <2>5. GoesTo(p, "ring") \/ GoesTo(p, "free") \/ GoesTo(p, "poll")
    BY <2>1, <2>2, Stays, Zenon DEF PollReturnEffect, RingInv
  <2> QED BY <2>2, <2>3, <2>4, <2>5, RpcQuiet, Zenon DEF RingInv
<1>12. ASSUME NEW p \in Callers, Ring(p) PROVE RpcOk'
  <2>1. RingEffect(p)
    BY <1>12, RingDoes, Zenon DEF RingInv
  <2>2. PICK a \in AccessRecord : Issue(a) /\ a.run = drv[p].run
    BY <2>1, Zenon DEF RingEffect
  <2>3. GoesTo(p, "rung") /\ drv[p].pc \in Locked /\ log' = log
    BY <2>1, Zenon DEF RingEffect, At, Locked
  <2>4. Even(loop'.tail)
    <3>1. loop.tail \in Nat /\ Even(loop.tail) /\ loop'.tail = loop.tail + 2
      BY <2>1, Zenon DEF RingEffect, RingInv, TypeInv, RpcOk
    <3> QED BY <3>1, Parity, Zenon
  <2> QED BY <2>2, <2>3, <2>4, RpcIssue, Zenon DEF RingInv
<1>13. ASSUME NEW p \in Callers, RingReturn(p) PROVE RpcOk'
  <2>1. RingReturnEffect(p)
    BY <1>13, RingReturnDoes, Zenon DEF RingInv
  <2>2. drv[p].pc \in Locked /\ drv[p].pc = "rung"
    BY <2>1, Zenon DEF RingReturnEffect, At, Locked
  <2>3. rpc'.st = "idle" /\ mmio' = mmio /\ loop' = loop /\ log' = log /\ GoesTo(p, "wait")
    BY <2>1, Zenon DEF RingReturnEffect
  <2> QED BY <2>2, <2>3, RpcQuiet, Zenon DEF RingInv
<1>14. ASSUME NEW p \in Callers, WaitDone(p) PROVE RpcOk'
  <2>1. WaitDoneEffect(p)
    BY <1>14, WaitDoneDoes, Zenon DEF RingInv
  <2>2. drv[p].pc \in Locked /\ drv[p].pc = "wait"
    BY <2>1, Zenon DEF WaitDoneEffect, At, Locked
  <2>3. rpc' = rpc /\ mmio' = mmio /\ loop' = loop /\ log' = log /\ GoesTo(p, "check")
    BY <2>1, Zenon DEF WaitDoneEffect
  <2>4. rpc'.st = "idle"
    BY <2>2, <2>3, RpcIdle, Zenon DEF RingInv
  <2> QED BY <2>2, <2>3, <2>4, RpcQuiet, Zenon DEF RingInv
<1>15. ASSUME NEW p \in Callers, WaitTimeout(p) PROVE RpcOk'
  <2>1. WaitTimeoutEffect(p)
    BY <1>15, WaitTimeoutDoes, Zenon DEF RingInv
  <2>2. drv[p].pc \in Locked /\ drv[p].pc = "wait"
    BY <2>1, Zenon DEF WaitTimeoutEffect, At, Locked
  <2>3. rpc' = rpc /\ mmio' = mmio /\ loop' = loop /\ GoesTo(p, "free")
    BY <2>1, Zenon DEF WaitTimeoutEffect
  <2>4. DOMAIN log' = DOMAIN log
    BY <2>1, LogSize, Zenon DEF WaitTimeoutEffect, RingInv
  <2>5. rpc'.st = "idle"
    BY <2>2, <2>3, RpcIdle, Zenon DEF RingInv
  <2> QED BY <2>2, <2>3, <2>4, <2>5, RpcQuiet, Zenon DEF RingInv
<1>16. ASSUME NEW p \in Callers, Check(p) PROVE RpcOk'
  <2>1. CheckEffect(p)
    BY <1>16, CheckDoes, Zenon DEF RingInv
  <2>2. drv[p].pc \in Locked /\ drv[p].pc = "check"
    BY <2>1, Zenon DEF CheckEffect, At, Locked
  <2>3. rpc' = rpc /\ mmio' = mmio /\ loop'.tail = loop.tail /\ (GoesTo(p, "free") \/ GoesTo(p, "fill"))
    BY <2>1, Zenon DEF CheckEffect
  <2>4. DOMAIN log' = DOMAIN log
    BY <2>1, LogSize, Zenon DEF CheckEffect, RingInv
  <2>5. rpc'.st = "idle"
    BY <2>2, <2>3, RpcIdle, Zenon DEF RingInv
  <2> QED BY <2>2, <2>3, <2>4, <2>5, RpcQuiet, Zenon DEF RingInv
<1>17. ASSUME NEW p \in Callers, Free(p) PROVE RpcOk'
  <2>1. FreeEffect(p)
    BY <1>17, FreeDoes, Zenon DEF RingInv
  <2>2. drv[p].pc = "free" /\ drv'[p].pc = "idle" /\ \A q \in Callers : q # p => drv'[q] = drv[q]
    BY <2>1, Zenon DEF FreeEffect, At
  <2>3. loop' = loop /\ rpc' = rpc /\ mmio' = mmio /\ log' = log
    BY <2>1, Zenon DEF FreeEffect
  <2>4. \A q \in Callers : drv[q].pc \in {"setup", "poll", "rung"} => drv'[q] = drv[q]
    BY <2>2, Zenon
  <2>5. \A q \in Callers : drv'[q].pc \in {"setup", "poll", "rung"} => drv'[q] = drv[q]
    BY <2>2, Zenon
  <2> QED BY <2>3, <2>4, <2>5, Zenon DEF RingInv, RpcOk, At
<1>18. ASSUME AccessTimeout PROVE RpcOk'
  <2>1. drv' = drv /\ loop' = loop /\ mmio' = mmio /\ log' = log /\ rpc.st = "busy" /\ rpc'.st = "done"
    BY <1>18, Zenon DEF AccessTimeout, driverVars
  <2> QED BY <2>1, Zenon DEF RingInv, RpcOk, At
<1>19. ASSUME HarnessAccess PROVE RpcOk'
  <2>1. HarnessAccessEffect
    BY <1>19, HarnessAccessDoes, Zenon DEF RingInv
  <2>2. /\ drv' = drv /\ loop' = loop /\ log' = log /\ mmio' = Tail(mmio) /\ mmio # <<>> /\ mmio \in Seq(AccessRecord)
        /\ IF rpc.st = "busy" /\ Len(mmio) = 1 THEN rpc'.st = "done" ELSE rpc' = rpc
    BY <2>1, Zenon DEF HarnessAccessEffect, driverVars, RingInv, TypeInv
  <2>3. /\ \A i \in DOMAIN mmio' : i + 1 \in DOMAIN mmio /\ mmio'[i] = mmio[i + 1]
        /\ Len(mmio) # 1 => mmio' # <<>> /\ mmio'[Len(mmio')] = mmio[Len(mmio)]
    BY <2>2, TailFacts
  <2>4. rpc'.st = "busy" => rpc' = rpc /\ Len(mmio) # 1
    BY <2>2, Zenon
  <2>5. rpc'.st # "idle" => rpc.st # "idle"
    BY <2>2, Zenon
  <2>6. rpc.st # "idle" => rpc'.st # "idle"
    BY <2>2, Zenon
  <2> QED BY <2>2, <2>3, <2>4, <2>5, <2>6, Zenon DEF RingInv, RpcOk, At
<1>20. ASSUME HarnessCpl PROVE RpcOk'
  <2>1. HarnessCplEffect
    BY <1>20, HarnessCplDoes, Zenon DEF RingInv
  <2>2. drv' = drv /\ loop' = loop /\ rpc' = rpc /\ mmio' = mmio
    BY <2>1, Zenon DEF HarnessCplEffect, driverVars
  <2>3. DOMAIN log' = DOMAIN log
    BY <2>1, LogSize, Zenon DEF HarnessCplEffect, RunFails, RingInv
  <2> QED BY <2>2, <2>3, Zenon DEF RingInv, RpcOk, At
<1> QED BY <1>1, <1>2, <1>3, <1>4, <1>5, <1>6, <1>7, <1>8, <1>9, <1>10, <1>11, <1>12, <1>13, <1>14, <1>15, <1>16, <1>17, <1>18, <1>19, <1>20, Zenon DEF Next, Driver, Harness

\* While the lock holder is elsewhere, nobody has heard anything.
LEMMA HeardMove ==
  ASSUME CallersOk, NEW p \in Callers, drv[p].pc \in Locked, NEW x, GoesTo(p, x),
         x # "ring", x = "poll" => rpc'.st # "done"
  PROVE  Heard'
<1>1. \A q \in Callers : q # p => drv'[q] = drv[q] /\ drv[q].pc \notin Locked
  BY Alone, Zenon DEF GoesTo
<1>2. \A q \in Callers : At(q, "ring")' \/ At(q, "poll")' => q = p
  BY <1>1, Zenon DEF At, Locked
<1>3. ~At(p, "ring")' /\ (At(p, "poll")' => rpc'.st # "done")
  BY Zenon DEF At, GoesTo
<1> QED BY <1>2, <1>3, Zenon DEF Heard

\* What a poll of DMA_STATUS tells the driver.
LEMMA HeardStep ==
  ASSUME RingInv, [Next]_vars
  PROVE  Heard'
<1>1. ASSUME UNCHANGED <<drv, rpc, mmio, h, reg>> PROVE Heard'
  BY <1>1, Zenon DEF RingInv, Heard, At
<1>2. ASSUME NEW p \in Callers,
             AllocFails(p)
      PROVE  UNCHANGED <<drv, rpc, mmio, h, reg>>
  BY <1>2, Zenon DEF AllocFails, driverVars, harnessVars, hist
<1>3. ASSUME BottomHalf \/ DmaRefused \/ HarnessAsk \/ HarnessTimeout
      PROVE  UNCHANGED <<drv, rpc, mmio, h, reg>>
  BY <1>3, Zenon DEF BottomHalf, DmaRefused, HarnessAsk, HarnessTimeout, driverVars, harnessVars, hist
<1>4. ASSUME UNCHANGED vars PROVE UNCHANGED <<drv, rpc, mmio, h, reg>>
  BY <1>4, Zenon DEF vars, driverVars, harnessVars, hist
<1>5. ASSUME NEW p \in Callers, NEW n \in 1..MaxIters, NEW b \in Pool, Begin(p, n, b) PROVE Heard'
  <2>1. BeginEffect(p, n, b)
    BY <1>5, BeginDoes DEF RingInv
  <2>2. drv[p].pc = "idle" /\ drv'[p].pc = "lock" /\ \A q \in Callers : q # p => drv'[q] = drv[q]
    BY <2>1, Zenon DEF BeginEffect, At
  <2>3. UNCHANGED <<rpc, mmio, h, reg>>
    BY <2>1, Zenon DEF BeginEffect, harnessVars
  <2> QED BY <2>2, <2>3, Zenon DEF RingInv, Heard, At
<1>6. ASSUME NEW p \in Callers, Lock(p) PROVE Heard'
  <2>1. LockEffect(p)
    BY <1>6, LockDoes, Zenon DEF RingInv
  <2>2. drv[p].pc = "lock" /\ drv'[p].pc = "setup" /\ \A q \in Callers : q # p => drv'[q] = drv[q]
    BY <2>1, Zenon DEF LockEffect, At, GoesTo
  <2>3. UNCHANGED <<rpc, mmio, h, reg>>
    BY <2>1, Zenon DEF LockEffect, harnessVars
  <2> QED BY <2>2, <2>3, Zenon DEF RingInv, Heard, At
<1>7. ASSUME NEW p \in Callers, SetupIssue(p) PROVE Heard'
  <2>1. SetupIssueEffect(p)
    BY <1>7, SetupIssueDoes, Zenon DEF RingInv
  <2>2. drv[p].pc \in Locked /\ drv[p].pc = "setup" /\ drv' = drv
    BY <2>1, Zenon DEF SetupIssueEffect, At, Locked, driverVars
  <2>3. GoesTo(p, "setup")
    BY <2>2, Stays, Zenon DEF RingInv
  <2> QED BY <2>2, <2>3, HeardMove, Zenon DEF RingInv
<1>8. ASSUME NEW p \in Callers, SetupReturn(p) PROVE Heard'
  <2>1. SetupReturnEffect(p)
    BY <1>8, SetupReturnDoes, Zenon DEF RingInv
  <2>2. drv[p].pc \in Locked /\ drv[p].pc = "setup" /\ (drv' = drv \/ GoesTo(p, "fill"))
    BY <2>1, Zenon DEF SetupReturnEffect, At, Locked
  <2>3. GoesTo(p, "setup") \/ GoesTo(p, "fill")
    BY <2>2, Stays, Zenon DEF RingInv
  <2> QED BY <2>2, <2>3, HeardMove, Zenon DEF RingInv
<1>9. ASSUME NEW p \in Callers, Fill(p) PROVE Heard'
  <2>1. FillEffect(p)
    BY <1>9, FillDoes, Zenon DEF RingInv
  <2>2. drv[p].pc \in Locked /\ drv[p].pc = "fill" /\ (GoesTo(p, "poll") \/ GoesTo(p, "free")) /\ rpc' = rpc
    BY <2>1, Zenon DEF FillEffect, At, Locked
  <2>3. rpc'.st = "idle"
    BY <2>2, RpcIdle, Zenon DEF RingInv
  <2> QED BY <2>2, <2>3, HeardMove, Zenon DEF RingInv
<1>10. ASSUME NEW p \in Callers, PollIssue(p) PROVE Heard'
  <2>1. PollIssueEffect(p)
    BY <1>10, PollIssueDoes, Zenon DEF RingInv
  <2>2. drv[p].pc \in Locked /\ drv[p].pc = "poll" /\ drv' = drv /\ rpc'.st = "busy"
    BY <2>1 DEF PollIssueEffect, At, Locked, driverVars, Issue
  <2>3. GoesTo(p, "poll")
    BY <2>2, Stays, Zenon DEF RingInv
  <2> QED BY <2>2, <2>3, HeardMove, Zenon DEF RingInv
<1>11. ASSUME NEW p \in Callers, PollReturn(p) PROVE Heard'
  <2>1. PollReturnEffect(p)
    BY <1>11, PollReturnDoes, Zenon DEF RingInv
  <2>2. drv[p].pc \in Locked /\ drv[p].pc = "poll" /\ rpc'.st = "idle"
    BY <2>1, Zenon DEF PollReturnEffect, At, Locked
  <2>3. CASE rpc.val = 0 /\ GoesTo(p, "ring")
    <3>1. rpc.st = "done" /\ UNCHANGED <<mmio, h, reg>>
      BY <2>1, Zenon DEF PollReturnEffect, harnessVars
    <3>2. mmio = <<>> /\ h.pc = "poll" /\ reg.status = 0
      BY <2>2, <2>3, <3>1, Zenon DEF RingInv, Heard, At
    <3> QED BY <3>1, <3>2, Zenon DEF Heard
  <2>4. CASE GoesTo(p, "free")
    BY <2>2, <2>4, HeardMove, Zenon DEF RingInv
  <2>5. CASE drv' = drv
    <3>1. GoesTo(p, "poll")
      BY <2>2, <2>5, Stays, Zenon DEF RingInv
    <3> QED BY <2>2, <3>1, HeardMove, Zenon DEF RingInv
  <2> QED BY <2>1, <2>3, <2>4, <2>5, Zenon DEF PollReturnEffect
<1>12. ASSUME NEW p \in Callers, Ring(p) PROVE Heard'
  <2>1. RingEffect(p)
    BY <1>12, RingDoes, Zenon DEF RingInv
  <2>2. drv[p].pc \in Locked /\ (GoesTo(p, "rung"))
    BY <2>1, Zenon DEF RingEffect, At, Locked
  <2> QED BY <2>2, HeardMove, Zenon DEF RingInv
<1>13. ASSUME NEW p \in Callers, RingReturn(p) PROVE Heard'
  <2>1. RingReturnEffect(p)
    BY <1>13, RingReturnDoes, Zenon DEF RingInv
  <2>2. drv[p].pc \in Locked /\ (GoesTo(p, "wait"))
    BY <2>1, Zenon DEF RingReturnEffect, At, Locked
  <2> QED BY <2>2, HeardMove, Zenon DEF RingInv
<1>14. ASSUME NEW p \in Callers, WaitDone(p) PROVE Heard'
  <2>1. WaitDoneEffect(p)
    BY <1>14, WaitDoneDoes, Zenon DEF RingInv
  <2>2. drv[p].pc \in Locked /\ (GoesTo(p, "check"))
    BY <2>1, Zenon DEF WaitDoneEffect, At, Locked
  <2> QED BY <2>2, HeardMove, Zenon DEF RingInv
<1>15. ASSUME NEW p \in Callers, WaitTimeout(p) PROVE Heard'
  <2>1. WaitTimeoutEffect(p)
    BY <1>15, WaitTimeoutDoes, Zenon DEF RingInv
  <2>2. drv[p].pc \in Locked /\ (GoesTo(p, "free"))
    BY <2>1, Zenon DEF WaitTimeoutEffect, At, Locked
  <2> QED BY <2>2, HeardMove, Zenon DEF RingInv
<1>16. ASSUME NEW p \in Callers, Check(p) PROVE Heard'
  <2>1. CheckEffect(p)
    BY <1>16, CheckDoes, Zenon DEF RingInv
  <2>2. drv[p].pc \in Locked /\ (GoesTo(p, "fill") \/ GoesTo(p, "free"))
    BY <2>1, Zenon DEF CheckEffect, At, Locked
  <2> QED BY <2>2, HeardMove, Zenon DEF RingInv
<1>17. ASSUME NEW p \in Callers, Free(p) PROVE Heard'
  <2>1. FreeEffect(p)
    BY <1>17, FreeDoes, Zenon DEF RingInv
  <2>2. drv[p].pc = "free" /\ drv'[p].pc = "idle" /\ \A q \in Callers : q # p => drv'[q] = drv[q]
    BY <2>1, Zenon DEF FreeEffect, At
  <2>3. UNCHANGED <<rpc, mmio, h, reg>>
    BY <2>1, Zenon DEF FreeEffect, harnessVars
  <2> QED BY <2>2, <2>3, Zenon DEF RingInv, Heard, At
<1>18. ASSUME AccessTimeout PROVE Heard'
  <2>1. UNCHANGED <<drv, mmio, h, reg>> /\ rpc'.val = -1
    BY <1>18, Zenon DEF AccessTimeout, driverVars, harnessVars
  <2> QED BY <2>1 DEF RingInv, Heard, At
<1>19. ASSUME HarnessAccess PROVE Heard'
  <2>1. HarnessAccessEffect
    BY <1>19, HarnessAccessDoes, Zenon DEF RingInv
  <2> SUFFICES ASSUME NEW q \in Callers,
                      drv'[q].pc = "ring" \/ (drv'[q].pc = "poll" /\ rpc'.st = "done" /\ rpc'.val = 0)
               PROVE  mmio' = <<>> /\ h'.pc = "poll" /\ reg'.status = 0
    BY Zenon DEF Heard, At
  <2>2. /\ drv' = drv /\ mmio # <<>> /\ h.pc = "poll" /\ mmio' = Tail(mmio) /\ mmio \in Seq(AccessRecord)
        /\ mmio[1] \in AccessRecord
    BY <2>1, Zenon DEF HarnessAccessEffect, driverVars, RingInv, TypeInv
  <2>3. drv[q].pc = "poll" /\ rpc.st = "busy" /\ Len(mmio) = 1 /\ mmio[1].type = "read"
    <3>1. ~(drv[q].pc = "ring") /\ ~(drv[q].pc = "poll" /\ rpc.st = "done" /\ rpc.val = 0)
      BY <2>2, Zenon DEF RingInv, Heard, At
    <3>2. drv[q].pc = "poll" /\ rpc.st = "busy" /\ Len(mmio) = 1
      BY <2>1, <2>2, <3>1, Zenon DEF HarnessAccessEffect
    <3> QED BY <3>2, Zenon DEF RingInv, RpcOk, At
  <2>4. mmio[1].reg = "STATUS"
    BY <2>2, <2>3, Zenon DEF AccessRecord
  <2>5. rpc'.val = reg.status /\ reg'.status = reg.status /\ h' = h
    BY <2>1, <2>3, <2>4, Zenon DEF HarnessAccessEffect
  <2>6. mmio' = <<>>
    BY <2>2, <2>3
  <2>7. drv'[q].pc # "ring"
    BY <2>2, <2>3, Zenon
  <2> QED BY <2>2, <2>5, <2>6, <2>7, Zenon
<1>20. ASSUME HarnessDesc PROVE Heard'
  <2>1. HarnessDescEffect
    BY <1>20, HarnessDescDoes, Zenon DEF RingInv
  <2>2. h.pc # "poll" /\ drv' = drv /\ rpc' = rpc
    BY <2>1, Zenon DEF HarnessDescEffect, driverVars
  <2> QED BY <2>2, Zenon DEF RingInv, Heard, At
<1>21. ASSUME HarnessXfer PROVE Heard'
  <2>1. HarnessXferEffect
    BY <1>21, HarnessXferDoes, Zenon DEF RingInv
  <2>2. h.pc # "poll" /\ drv' = drv /\ rpc' = rpc
    BY <2>1, Zenon DEF HarnessXferEffect, driverVars
  <2> QED BY <2>2, Zenon DEF RingInv, Heard, At
<1>22. ASSUME HarnessCpl PROVE Heard'
  <2>1. HarnessCplEffect
    BY <1>22, HarnessCplDoes, Zenon DEF RingInv
  <2>2. h.pc # "poll" /\ drv' = drv /\ rpc' = rpc
    BY <2>1, Zenon DEF HarnessCplEffect, driverVars
  <2> QED BY <2>2, Zenon DEF RingInv, Heard, At
<1> QED BY <1>1, <1>2, <1>3, <1>4, <1>5, <1>6, <1>7, <1>8, <1>9, <1>10, <1>11, <1>12, <1>13, <1>14, <1>15, <1>16, <1>17, <1>18, <1>19, <1>20, <1>21, <1>22, Zenon DEF Next, Driver, Harness
=============================================================================
