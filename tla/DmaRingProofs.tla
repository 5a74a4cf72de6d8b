--------------------------- MODULE DmaRingProofs ----------------------------
(***************************************************************************)
(* Safety of the descriptor-ring test, for any number of processes,        *)
(* buffers, iterations, polls and link requests per transfer.              *)
(***************************************************************************)
EXTENDS DmaRingSteps

(* A run from the doorbell to its result.                                  *)

\* The completion is in memory, or was refused.
LEMMA DuringCpl ==
  ASSUME RingInv, NEW p \in Callers, ~At(p, "idle"), During(p), HarnessCplEffect
  PROVE  During(p)'
<1> DEFINE b == drv[p].buf
<1>1. /\ h.pc = "cpl" /\ ans \in {"ok", "bad"} /\ ans' = "none" /\ UNCHANGED <<drv, loop, irqDone, mem, mmio, late>>
      /\ work' = IF ans = "ok" /\ h.flags = 1 THEN Append(work, Msix) ELSE work
      /\ RunFails \/ ((RunEnds \/ RunGoesOn) /\ LogAs(h.run, log[h.run].res, log[h.run].descs + 1))
  BY Zenon DEF HarnessCplEffect, driverVars, hist
<1>2. Running(p)
  BY <1>1, Zenon DEF During, Waiting, Over, Stuck, Out
<1>3. /\ loop'.iter < drv'[p].iters /\ loop'.tail = 2 * loop'.iter + 2
      /\ ~At(p, "check")' /\ h.run = drv[p].run /\ reg.head + 2 = loop.tail /\ drv[p].run \in DOMAIN log
      /\ loop.iter \in Nat /\ reg.head \in Nat /\ mmio = <<>> /\ irqDone = 0 /\ NoMsix
      /\ Descs(p) = 2 * loop.iter + (h.idx - reg.head) /\ h.flags \in {-1, Slot}
  BY <1>1, <1>2, Zenon DEF Running, During, At, RingInv, TypeInv, RegRecord, CallersOk, HarnessOk
<1>4. Slot \in {0, 1} /\ (Slot = 0 <=> h.idx = reg.head) /\ (Slot = 1 <=> h.idx = reg.head + 1)
  BY <1>1, SlotIs, Zenon DEF RingInv
<1>5. (h.flags = -1 => h.status # 0) /\ Polling.pc = "poll"
  BY PollingType, Zenon DEF RingInv, HarnessOk
<1>6. ASSUME ans = "ok"
      PROVE  /\ work = <<>>
             /\ mem[b].cpl[Slot].status = h.status /\ mem[b].cpl[Slot].seq = h.idx
             /\ h.flags # -1 => mem[b].cpl[Slot].tag = Slot
  <2>1. mem[b].cpl[Slot] = Record /\ work = <<>>
    BY <1>1, <1>2, <1>6, Zenon DEF Running, RingInv, AnswerOk
  <2> QED BY <2>1 DEF Record
<1>7. ASSUME ans = "ok", h.flags = 1
      PROVE  Tagged(p, 0)' /\ Tagged(p, 1)' /\ Token(p)' /\ mem[b].cpl[1].status = h.status
  <2>1. Slot = 1 /\ h.idx = reg.head + 1 /\ Tagged(p, 0)
    BY <1>2, <1>3, <1>4, <1>7 DEF Running
  <2>2. mem[b].cpl[1].tag = 1 /\ mem[b].cpl[1].seq = loop.tail - 2 + 1 /\ mem[b].cpl[1].status = h.status
    BY <1>3, <1>6, <1>7, <2>1
  <2>3. Len(work') = 1 /\ work'[1].op = "MSIX"
    BY <1>1, <1>6, <1>7 DEF Msix
  <2> QED BY <1>1, <1>3, <2>1, <2>2, <2>3, Zenon DEF Tagged, Token
<1>8. CASE RunFails
  <2>1. /\ ans = "bad" \/ h.status # 0
        /\ reg'.head = reg.head /\ h'.pc = "poll" /\ log' = log
    BY <1>5, <1>8, Zenon DEF RunFails
  <2>2. CASE ans = "ok" /\ h.flags = 1
    <3>1. Over(p)'
      BY <1>1, <1>3, <1>7, <2>1, <2>2, Zenon DEF Over
    <3> QED BY <1>3, <3>1, Zenon DEF During
  <2>3. CASE ~(ans = "ok" /\ h.flags = 1)
    <3>1. work' = work
      BY <1>1, <2>3, Zenon
    <3>2. (Timely' => OnlyOn(drv[p].buf)') /\ NoMsix'
      BY <1>1, <1>2, <1>3, <2>1, <3>1, Zenon DEF Running, Timely, OnlyOn, NoMsix
    <3>3. Stuck(p)'
      BY <1>1, <1>3, <2>1, <3>2, Zenon DEF Stuck
    <3> QED BY <1>3, <3>3, Zenon DEF During
  <2> QED BY <2>2, <2>3, Zenon
<1>9. CASE (RunEnds \/ RunGoesOn) /\ LogAs(h.run, log[h.run].res, log[h.run].descs + 1)
  <2>1. Descs(p)' = Descs(p) + 1
    BY <1>1, <1>3, <1>9, Zenon DEF Descs, LogAs
  <2>2. CASE RunEnds
    <3>1. ans = "ok" /\ h.status = 0 /\ h.idx = reg.head + 1 /\ reg'.head = reg.head + 2 /\ reg'.status = 0 /\ h'.pc = "poll"
      BY <1>5, <2>2, Zenon DEF RunEnds
    <3>2. h.flags = 1
      BY <1>3, <1>4, <1>5, <3>1, Zenon
    <3>3. reg'.head = loop'.tail /\ Descs(p)' = 2 * loop'.iter + 2
      BY <1>1, <1>3, <2>1, <3>1
    <3>4. Over(p)'
      BY <1>1, <1>3, <1>7, <3>1, <3>2, <3>3, Zenon DEF Over
    <3> QED BY <1>3, <3>4, Zenon DEF During
  <2>3. CASE RunGoesOn
    <3>1. ans = "ok" /\ h.status = 0 /\ h.idx = reg.head /\ reg' = reg /\ h'.pc = "desc" /\ h'.idx = h.idx + 1 /\ h'.run = h.run
      BY <2>3, Zenon DEF RunGoesOn
    <3>2. h.flags = 0 /\ Slot = 0
      BY <1>3, <1>4, <1>5, <3>1, Zenon
    <3>3. work' = work /\ work = <<>>
      BY <1>1, <1>6, <3>1, <3>2
    <3>a. h.flags # -1 /\ h.idx = loop.tail - 2 + 0
      BY <1>3, <3>1, <3>2
    <3>4. Tagged(p, 0)'
      BY <1>1, <1>6, <3>1, <3>2, <3>a, Zenon DEF Tagged
    <3>5. NoMsix' /\ OnlyOn(drv[p].buf)' /\ Descs(p)' = 2 * loop'.iter + (h'.idx - reg'.head)
      BY <1>1, <1>3, <2>1, <3>1, <3>3 DEF NoMsix, OnlyOn
    <3>6. Running(p)'
      BY <1>1, <1>3, <3>1, <3>3, <3>4, <3>5 DEF Running
    <3> QED BY <1>3, <3>6, Zenon DEF During
  <2> QED BY <1>9, <2>2, <2>3, Zenon
<1> QED BY <1>1, <1>8, <1>9, Zenon

\* The bottom half executes a request.
LEMMA DuringBottom ==
  ASSUME RingInv, NEW p \in Callers, ~At(p, "idle"), During(p), BottomHalfEffect
  PROVE  During(p)'
<1> DEFINE b == drv[p].buf
           w == work[1]
<1>1. /\ work \in Seq(WorkRecord) /\ work # <<>> /\ work' = Tail(work) /\ w \in WorkRecord /\ b \in Pool
      /\ UNCHANGED <<drv, loop, mmio, reg, h, log, late>>
  BY Zenon DEF BottomHalfEffect, RingInv, TypeInv, CallersOk
<1>2. /\ 1 \in DOMAIN work /\ \A i \in DOMAIN work' : i + 1 \in DOMAIN work /\ work'[i] = work[i + 1]
      /\ Len(work) \in Nat /\ (Len(work) = 1 => work' = <<>>)
  BY <1>1, TailFacts
<1>3. \A s \in Slots : mem'[b].cpl[s] = IF w.op = "WRITE_CPL" /\ w.buf = b /\ w.at = s THEN w.val ELSE mem[b].cpl[s]
  BY <1>1, Zenon DEF BottomHalfEffect
<1>4. NoMsix => NoMsix' /\ irqDone' = irqDone
  BY <1>2, Zenon DEF NoMsix, BottomHalfEffect
<1>5. /\ NotOn(b) => NotOn(drv[p].buf)' /\ (Empty(p) => Empty(p)')
      /\ OnlyOn(b) => OnlyOn(drv[p].buf)'
  BY <1>1, <1>2, <1>3 DEF NotOn, OnlyOn, Empty
<1>6. /\ At(p, "check")' <=> At(p, "check")
      /\ Timely' <=> Timely
      /\ OneTail(p)' <=> OneTail(p)
      /\ Descs(p)' = Descs(p) /\ Slot' = Slot /\ Record' = Record
  BY <1>1, Zenon DEF At, Timely, OneTail, Descs, Slot, Record
<1>7. loop'.iter < drv'[p].iters /\ loop'.tail = 2 * loop'.iter + 2
  BY <1>1, Zenon DEF During
<1>8. ASSUME Waiting(p) PROVE Waiting(p)'
  BY <1>1, <1>4, <1>5, <1>6, <1>8, Zenon DEF Waiting
<1>9. ASSUME Stuck(p) PROVE Stuck(p)'
  BY <1>1, <1>4, <1>5, <1>6, <1>9, Zenon DEF Stuck
<1>10. ASSUME Out(p) PROVE Out(p)'
  BY <1>1, <1>5, <1>6, <1>10, Zenon DEF Out
<1>11. ASSUME Over(p) PROVE Over(p)'
  <2>1. Len(work) = 1 /\ w.op = "MSIX" /\ irqDone = 0 /\ ~At(p, "check")
    BY <1>1, <1>11, Zenon DEF Over, Token
  <2>2. work' = <<>> /\ irqDone' = 1
    BY <1>2, <2>1 DEF BottomHalfEffect
  <2>3. Token(p)'
    BY <1>6, <2>1, <2>2, Zenon DEF Token
  <2>4. mem'[b].cpl[0] = mem[b].cpl[0] /\ mem'[b].cpl[1] = mem[b].cpl[1]
    BY <1>3, <2>1 DEF Slots
  <2>5. Tagged(p, 0)' /\ Tagged(p, 1)'
    BY <1>1, <1>11, <2>4, Zenon DEF Over, Tagged
  <2> QED BY <1>1, <1>6, <1>11, <2>3, <2>4, <2>5, Zenon DEF Over
<1>12. ASSUME Running(p) PROVE Running(p)'
  <2>1. /\ ~At(p, "check")' /\ mmio' = <<>> /\ h'.pc # "poll" /\ h'.run = drv'[p].run
        /\ reg'.head + 2 = loop'.tail /\ irqDone' = 0 /\ NoMsix'
        /\ Descs(p)' = 2 * loop'.iter + (h'.idx - reg'.head)
        /\ Timely' => OnlyOn(drv[p].buf)'
    BY <1>1, <1>4, <1>5, <1>6, <1>12, Zenon DEF Running
  <2>2. ASSUME h.idx = reg.head + 1
        PROVE  Tagged(p, 0)' /\ \A i \in DOMAIN work' : work'[i].op = "WRITE_CPL" => work'[i].at = 1
    <3>1. Tagged(p, 0) /\ \A i \in DOMAIN work : work[i].op = "WRITE_CPL" => work[i].at = 1
      BY <1>12, <2>2, Zenon DEF Running
    <3>2. mem'[b].cpl[0] = mem[b].cpl[0]
      <4>1. 0 \in Slots /\ (w.op = "WRITE_CPL" => w.at # 0)
        BY <1>2, <3>1 DEF Slots
      <4> QED BY <1>3, <4>1, Zenon
    <3> QED BY <1>1, <1>2, <3>1, <3>2, Zenon DEF Tagged
  <2>3. ASSUME ans' = "ok", h.pc = "cpl" PROVE mem'[b].cpl[Slot] = Record
    <3>1. ans # "ok"
      BY <1>1, Zenon DEF RingInv, AnswerOk
    <3>2. Awaited
      BY <2>3, <3>1, Zenon DEF BottomHalfEffect
    <3>3. w = HostRequest
      BY <3>2, Zenon DEF Awaited, RingInv, AnswerOk
    <3>4. HostRequest.op = "WRITE_CPL" /\ HostRequest.at = Slot /\ HostRequest.buf = reg.cplBase /\ HostRequest.val = Record
      BY <2>3, RequestType, Zenon DEF RingInv
    <3>5. reg.cplBase = b /\ Slot \in Slots
      <4>1. h.pc # "poll" /\ drv[p].run = h.run
        BY <1>12, Zenon DEF Running
      <4>2. Slot \in {0, 1}
        BY <4>1, SlotIs, Zenon DEF RingInv
      <4> QED BY <4>1, <4>2 DEF RingInv, RingOwn, OwnDescriptors, Slots
    <3> QED BY <1>3, <3>3, <3>4, <3>5, Zenon
  <2>4. (h.idx = reg.head + 1)' => h.idx = reg.head + 1
    BY <1>1, Zenon
  <2>5. ans' = "ok" /\ h'.pc = "cpl" => mem'[drv'[p].buf].cpl[Slot'] = Record'
    BY <1>1, <1>6, <2>3, Zenon
  <2> QED BY <2>1, <2>2, <2>4, <2>5, Zenon DEF Running
<1> QED BY <1>7, <1>8, <1>9, <1>10, <1>11, <1>12, Zenon DEF During

\* Nothing the situation depends on changes.
LEMMA DuringStill ==
  ASSUME RingInv, NEW p \in Callers, During(p), Timely' => Timely, Timely => Timely',
         UNCHANGED <<loop, irqDone, mmio, reg, h, work>>, ans' = "ok" => ans = "ok",
         drv'[p].buf = drv[p].buf, drv'[p].iters = drv[p].iters, drv'[p].run = drv[p].run,
         drv[p].pc = "check" <=> drv'[p].pc = "check",
         mem'[drv[p].buf] = mem[drv[p].buf], log'[drv[p].run].descs = log[drv[p].run].descs
  PROVE  During(p)'
<1>1. (At(p, "check") <=> At(p, "check")') /\ (OneTail(p) => OneTail(p)') /\ (Empty(p) => Empty(p)') /\ Descs(p)' = Descs(p)
  BY Zenon DEF At, OneTail, Empty, Descs
<1>2. /\ (NoMsix => NoMsix') /\ (NotOn(drv[p].buf) => NotOn(drv[p].buf)') /\ (OnlyOn(drv[p].buf) => OnlyOn(drv[p].buf)')
      /\ \A s \in Slots : Tagged(p, s) => Tagged(p, s)'
  BY Zenon DEF NoMsix, NotOn, OnlyOn, Tagged
<1>3. ASSUME Waiting(p) PROVE Waiting(p)'
  BY <1>1, <1>2, <1>3, Zenon DEF Waiting
<1>4. ASSUME Running(p) PROVE Running(p)'
  <2>1. Slot' = Slot /\ Record' = Record /\ 0 \in Slots
    BY DEF Slot, Record, Slots
  <2>2. ~At(p, "check")' /\ Descs(p)' = 2 * loop.iter + (h.idx - reg.head)
    BY <1>1, <1>4, Zenon DEF Running
  <2>3. h.idx = reg.head + 1 => Tagged(p, 0)' /\ \A i \in DOMAIN work : work[i].op = "WRITE_CPL" => work[i].at = 1
    BY <1>2, <1>4, <2>1, Zenon DEF Running
  <2>4. ans' = "ok" /\ h.pc = "cpl" => mem'[drv[p].buf].cpl[Slot] = Record
    BY <1>4, Zenon DEF Running
  <2>5. Timely' => OnlyOn(drv[p].buf)'
    BY <1>2, <1>4, Zenon DEF Running
  <2>6. NoMsix' /\ mmio = <<>> /\ h.pc # "poll" /\ h.run = drv[p].run /\ reg.head + 2 = loop.tail /\ irqDone = 0
    BY <1>2, <1>4, Zenon DEF Running
  <2> QED BY <2>1, <2>2, <2>3, <2>4, <2>5, <2>6, Zenon DEF Running
<1>5. ASSUME Over(p) PROVE Over(p)'
  <2>1. Token(p)'
    BY <1>1, <1>5, Zenon DEF Over, Token
  <2>2. Tagged(p, 0)' /\ Tagged(p, 1)'
    BY <1>2, <1>5 DEF Over, Slots
  <2> QED BY <1>1, <1>5, <2>1, <2>2, Zenon DEF Over
<1>6. ASSUME Stuck(p) PROVE Stuck(p)'
  BY <1>1, <1>2, <1>6, Zenon DEF Stuck
<1>7. ASSUME Out(p) PROVE Out(p)'
  BY <1>1, <1>2, <1>7, Zenon DEF Out
<1> QED BY <1>3, <1>4, <1>5, <1>6, <1>7, Zenon DEF During

\* The driver is woken: the interrupt of its own run, or one of an earlier.
LEMMA DuringWake ==
  ASSUME RingInv, NEW p \in Callers, During(p), WaitDoneEffect(p)
  PROVE  During(p)'
<1>1. /\ drv[p].pc = "wait" /\ drv'[p].pc = "check" /\ irqDone > 0 /\ irqDone' = irqDone - 1
      /\ UNCHANGED <<loop, mem, mmio, reg, h, work, log, late>>
      /\ drv'[p].buf = drv[p].buf /\ drv'[p].iters = drv[p].iters /\ drv'[p].run = drv[p].run
  BY Zenon DEF WaitDoneEffect, GoesTo, harnessVars, hist, At
<1>2. ~Waiting(p) /\ ~Running(p) /\ ~Stuck(p)
  BY <1>1 DEF Waiting, Running, Stuck
<1>3. CASE Over(p)
  <2>1. irqDone' = 0 /\ work = <<>>
    BY <1>1, <1>3 DEF Over, Token, At
  <2>2. Token(p)'
    BY <1>1, <2>1, Zenon DEF Token, At
  <2>3. Tagged(p, 0)' /\ Tagged(p, 1)'
    BY <1>1, <1>3, Zenon DEF Over, Tagged
  <2>4. Over(p)'
    BY <1>1, <1>3, <2>2, <2>3, Zenon DEF Over, Descs
  <2> QED BY <1>1, <2>4, Zenon DEF During
<1>4. CASE Out(p)
  <2>1. Out(p)'
    BY <1>1, <1>4, Zenon DEF Out, Timely, OneTail, Empty, NotOn
  <2> QED BY <1>1, <2>1, Zenon DEF During
<1> QED BY <1>2, <1>3, <1>4, Zenon DEF During

\* The harness takes the doorbell: it starts the run, or never will.
LEMMA DuringAccess ==
  ASSUME RingInv, NEW p \in Callers, ~At(p, "idle"), During(p), HarnessAccessEffect
  PROVE  During(p)'
<1>1. /\ h.pc = "poll" /\ mmio # <<>> /\ mmio' = Tail(mmio) /\ reg'.head = reg.head
      /\ UNCHANGED <<drv, loop, irqDone, mem, ans, work, log, late>>
      /\ Starts(mmio[1]) \/ h' = h
  BY Zenon DEF HarnessAccessEffect, driverVars, hist
<1>2. /\ At(p, "check")' <=> At(p, "check")
      /\ Timely' <=> Timely
      /\ NoMsix' <=> NoMsix
      /\ OnlyOn(drv[p].buf)' <=> OnlyOn(drv[p].buf)
      /\ Descs(p)' = Descs(p)
      /\ loop'.iter < drv'[p].iters /\ loop'.tail = 2 * loop'.iter + 2
  BY <1>1, Zenon DEF At, Timely, NoMsix, OnlyOn, Descs, During
<1>3. ASSUME OneTail(p) PROVE mmio' = <<>> /\ mmio[1].reg = "TAIL" /\ mmio[1].val = loop.tail /\ mmio[1].run = drv[p].run
  <2>1. Len(mmio) = 1 /\ mmio \in Seq(AccessRecord)
    BY <1>3, Zenon DEF OneTail, RingInv, TypeInv
  <2> QED BY <1>1, <1>3, <2>1 DEF OneTail
<1>4. reg.head \in Nat /\ loop.iter \in Nat /\ loop.tail = 2 * loop.iter + 2
  BY Zenon DEF RingInv, TypeInv, RegRecord, During
<1>5. ASSUME Waiting(p) PROVE Running(p)' \/ Stuck(p)'
  <2>1. mmio' = <<>> /\ mmio[1].run = drv[p].run
    BY <1>3, <1>5, Zenon DEF Waiting
  <2>2. Timely => OnlyOn(drv[p].buf)
    BY <1>5 DEF Waiting, OnlyOn
  <2>3. CASE Starts(mmio[1])
    <3>1. h'.pc = "desc" /\ h'.idx = reg.head /\ h'.run = drv[p].run
      BY <2>1, <2>3, Zenon DEF Starts
    <3>2. /\ ~At(p, "check")' /\ irqDone' = 0 /\ NoMsix' /\ reg'.head + 2 = loop'.tail
          /\ Descs(p)' = 2 * loop'.iter + (h'.idx - reg'.head)
      BY <1>1, <1>2, <1>4, <1>5, <3>1 DEF Waiting
    <3>a. h'.idx # reg'.head + 1 /\ h'.pc # "poll" /\ h'.pc # "cpl" /\ h'.run = drv'[p].run
      BY <1>1, <1>4, <3>1
    <3>b. Timely' => OnlyOn(drv[p].buf)'
      BY <1>2, <2>2, Zenon
    <3>3. Running(p)'
      BY <2>1, <3>2, <3>a, <3>b, Zenon DEF Running
    <3> QED BY <3>3, Zenon
  <2>4. CASE h' = h
    <3>1. Stuck(p)'
      BY <1>1, <1>2, <1>5, <2>1, <2>2, <2>4, Zenon DEF Waiting, Stuck
    <3> QED BY <3>1, Zenon
  <2> QED BY <1>1, <2>3, <2>4, Zenon
<1>6. ASSUME OneTail(p), reg.head >= loop.tail PROVE h' = h /\ mmio' = <<>>
  BY <1>1, <1>3, <1>4, <1>6 DEF Starts
<1>7. ASSUME Stuck(p) PROVE Stuck(p)'
  <2>1. h' = h /\ mmio' = <<>>
    BY <1>1, <1>6, <1>7, Zenon DEF Stuck
  <2> QED BY <1>1, <1>2, <1>7, <2>1, Zenon DEF Stuck
<1>8. ASSUME Out(p) PROVE Out(p)'
  <2>1. h' = h /\ mmio' = <<>>
    BY <1>1, <1>6, <1>8, Zenon DEF Out
  <2> QED BY <1>1, <1>2, <1>8, <2>1, Zenon DEF Out, Empty, NotOn
<1>9. ~Running(p) /\ ~Over(p)
  BY <1>1, Zenon DEF Running, Over
<1> QED BY <1>2, <1>5, <1>7, <1>8, <1>9, Zenon DEF During

\* The harness asks, is answered, refused or waits too long, and moves on.
LEMMA DuringWork ==
  ASSUME RingInv, NEW p \in Callers, ~At(p, "idle"), During(p),
         HarnessAsk \/ DmaRefused \/ HarnessDescEffect \/ HarnessXferEffect
  PROVE  During(p)'
<1>1. h.pc # "poll"
  BY Zenon DEF HarnessAsk, DmaRefused, Awaited, HarnessDescEffect, HarnessXferEffect, RingInv, AnswerOk
<1>2. Running(p)
  BY <1>1, Zenon DEF During, Waiting, Over, Stuck, Out
<1>3. /\ UNCHANGED <<drv, loop, irqDone, mem, mmio, reg, log, late>> /\ ans' # "ok"
      /\ h'.pc # "poll" /\ h'.idx = h.idx /\ h'.run = h.run
      /\ work' = work \/ work' = <<>> \/ (HarnessAsk /\ work' = Append(work, HostRequest))
  BY <1>1, Zenon DEF HarnessAsk, DmaRefused, HarnessDescEffect, HarnessXferEffect, driverVars, hist
<1>4. /\ ~At(p, "check")' /\ (Timely' <=> Timely) /\ Descs(p)' = Descs(p) /\ (Tagged(p, 0) => Tagged(p, 0)')
      /\ loop'.iter < drv'[p].iters /\ loop'.tail = 2 * loop'.iter + 2
  BY <1>2, <1>3, Zenon DEF Running, During, At, Timely, Descs, Tagged
<1>5. ASSUME NEW i \in DOMAIN work', \A k \in DOMAIN work : work'[i] # work[k]
      PROVE  work'[i].op # "MSIX" /\ work'[i].buf = drv[p].buf /\ (h.idx = reg.head + 1 /\ work'[i].op = "WRITE_CPL" => work'[i].at = 1)
  <2>1. work' = Append(work, HostRequest)
    BY <1>3, <1>5
  <2>2. /\ HostRequest \in WorkRecord /\ HostRequest.op # "MSIX"
        /\ HostRequest.buf = reg.base \/ HostRequest.buf = reg.cplBase
        /\ HostRequest.op = "WRITE_CPL" => HostRequest.at = Slot
    BY <1>1, RequestType, Zenon DEF RingInv
  <2>3. reg.base = drv[p].buf /\ reg.cplBase = drv[p].buf
    BY <1>1, <1>2, Zenon DEF Running, RingInv, RingOwn, OwnDescriptors
  <2>4. work'[i] = HostRequest
    BY <1>5, <2>1, <2>2, AppendFacts DEF RingInv, TypeInv
  <2>5. h.idx = reg.head + 1 => Slot = 1
    BY <1>1, SlotIs, Zenon DEF RingInv
  <2> QED BY <2>2, <2>3, <2>4, <2>5, Zenon
<1>6. /\ NoMsix' /\ (Timely' => OnlyOn(drv[p].buf)')
      /\ h.idx = reg.head + 1 => \A i \in DOMAIN work' : work'[i].op = "WRITE_CPL" => work'[i].at = 1
  <2>1. NoMsix'
    BY <1>2, <1>5, Zenon DEF Running, NoMsix
  <2>2. Timely' => OnlyOn(drv[p].buf)'
    BY <1>2, <1>3, <1>4, <1>5, Zenon DEF Running, OnlyOn
  <2>3. h.idx = reg.head + 1 => \A i \in DOMAIN work' : work'[i].op = "WRITE_CPL" => work'[i].at = 1
    BY <1>2, <1>5, Zenon DEF Running
  <2> QED BY <2>1, <2>2, <2>3, Zenon
<1>7. Running(p)'
  BY <1>2, <1>3, <1>4, <1>6, Zenon DEF Running
<1> QED BY <1>4, <1>7, Zenon DEF During

(* The harness and the driver, seen from the lock holder.                  *)

\* A driver step leaves the harness alone.
LEMMA DriverQuiet ==
  ASSUME RingInv, NEW p \in Callers, LockEffect(p) \/ HolderStep(p)
  PROVE  /\ UNCHANGED <<reg, h, ans, ram, work, stray, late>>
         /\ irqDone' > 0 => irqDone > 0
         /\ DOMAIN log' = DOMAIN log /\ \A r \in DOMAIN log : log'[r].descs = log[r].descs /\ log'[r].iters = log[r].iters
<1>1. CASE log' = log /\ irqDone' = irqDone /\ UNCHANGED <<reg, h, ans, ram, work, stray, late>>
  BY <1>1, Zenon
<1>2. CASE LockEffect(p)
  BY <1>1, <1>2, Zenon DEF LockEffect, harnessVars, hist
<1>3. CASE Programs(p) \/ Fills(p) \/ Passes(p)
  BY <1>1, <1>3, Zenon DEF Programs, Fills, Passes
<1>4. CASE RingReturnEffect(p)
  BY <1>1, <1>4, Zenon DEF RingReturnEffect, harnessVars, hist
<1>5. CASE RingEffect(p)
  BY <1>5 DEF RingEffect, harnessVars, hist
<1>6. CASE WaitDoneEffect(p)
  BY <1>6, Zenon DEF WaitDoneEffect, harnessVars, hist
<1>7. ASSUME NEW res, Leaves(p, res)
      PROVE  /\ UNCHANGED <<irqDone, reg, h, ans, ram, work, stray, late>> /\ DOMAIN log' = DOMAIN log
             /\ \A r \in DOMAIN log : log'[r].descs = log[r].descs /\ log'[r].iters = log[r].iters
  <2>1. LogAs(drv[p].run, res, log[drv[p].run].descs)
    BY <1>7, Zenon DEF Leaves
  <2>2. DOMAIN log' = DOMAIN log
    BY <2>1, LogSize, Zenon DEF RingInv
  <2>3. \A r \in DOMAIN log : log'[r].descs = log[r].descs /\ log'[r].iters = log[r].iters
    BY <2>1, Zenon DEF LogAs
  <2> QED BY <1>7, <2>2, <2>3, Zenon DEF Leaves
<1> QED BY <1>2, <1>3, <1>4, <1>5, <1>6, <1>7, Zenon DEF HolderStep

\* Where the harness is in a run.
LEMMA HarnessOkStep ==
  ASSUME RingInv, Kinds PROVE HarnessOk'
<1>0. HarnessOk /\ reg \in RegRecord /\ h \in HarnessRecord /\ irqDone \in Nat /\ work \in Seq(WorkRecord)
  BY Zenon DEF RingInv, TypeInv
<1>1. ASSUME reg' = reg, h' = h, irqDone' > 0 \/ ~NoMsix' => irqDone > 0 \/ ~NoMsix, DOMAIN log \subseteq DOMAIN log'
      PROVE  HarnessOk'
  BY <1>0, <1>1, Zenon DEF HarnessOk, Slot
<1>2. ASSUME Aside PROVE HarnessOk'
  BY <1>1, <1>2, Zenon DEF Aside, NoMsix
<1>3. ASSUME NEW p \in Callers, LockEffect(p) \/ HolderStep(p) PROVE HarnessOk'
  BY <1>1, <1>3, DriverQuiet, Zenon DEF NoMsix
<1>4. ASSUME BottomHalfEffect PROVE HarnessOk'
  <2>1. work # <<>> /\ work' = Tail(work) /\ reg' = reg /\ h' = h /\ log' = log
    BY <1>4, Zenon DEF BottomHalfEffect
  <2>2. 1 \in DOMAIN work /\ \A i \in DOMAIN work' : i + 1 \in DOMAIN work /\ work'[i] = work[i + 1]
    BY <1>0, <2>1, TailFacts
  <2>3. ~NoMsix' => ~NoMsix
    BY <2>2, Zenon DEF NoMsix
  <2>4. irqDone' > 0 => irqDone > 0 \/ work[1].op = "MSIX"
    BY <1>4, Zenon DEF BottomHalfEffect
  <2> QED BY <1>1, <2>1, <2>2, <2>3, <2>4, Zenon DEF NoMsix
<1>5. ASSUME DmaRefused PROVE HarnessOk'
  <2>1. work' = <<>> /\ reg' = reg /\ h' = h /\ log' = log /\ irqDone' = irqDone
    BY <1>5, Zenon DEF DmaRefused, driverVars
  <2> QED BY <1>1, <2>1 DEF NoMsix
<1>6. ASSUME HarnessTimeout PROVE HarnessOk'
  BY <1>1, <1>6, Zenon DEF HarnessTimeout, driverVars, NoMsix
<1>7. ASSUME HarnessAsk PROVE HarnessOk'
  <2>1. work' = Append(work, HostRequest) /\ h.pc # "poll" /\ reg' = reg /\ h' = h /\ log' = log /\ irqDone' = irqDone
    BY <1>7, Zenon DEF HarnessAsk, driverVars
  <2>2. HostRequest \in WorkRecord /\ HostRequest.op # "MSIX"
    BY <2>1, RequestType, Zenon DEF RingInv
  <2>3. \A i \in DOMAIN work' : (i \in DOMAIN work /\ work'[i] = work[i]) \/ (i = Len(work) + 1 /\ work'[i] = HostRequest)
    BY <1>0, <2>1, <2>2, AppendFacts
  <2> QED BY <1>1, <2>1, <2>2, <2>3, Zenon DEF NoMsix
<1>8. ASSUME HarnessAccessEffect PROVE HarnessOk'
  <2>1. /\ h.pc = "poll" /\ reg'.head = reg.head /\ UNCHANGED <<irqDone, work, log>> /\ reg.head \in Nat
        /\ Starts(mmio[1]) \/ (h' = h /\ (reg'.status = reg.status \/ reg'.status = 1 \/ reg.head >= 2))
    BY <1>0, <1>8, Zenon DEF HarnessAccessEffect, driverVars, RegRecord
  <2>2. CASE Starts(mmio[1])
    <3>1. /\ reg' = reg /\ reg.control = 1 /\ reg.count = 2
          /\ h'.pc = "desc" /\ h'.idx = reg.head /\ h'.end = reg.head + 2 /\ h'.run = mmio[1].run /\ h'.flags = 0
      BY <2>2, Zenon DEF Starts
    <3>2. mmio[1].run \in DOMAIN log
      <4>1. 1 \in DOMAIN mmio
        BY <1>8, EffectTaken, Zenon DEF RingInv
      <4> QED BY <4>1, Zenon DEF RingInv, RpcOk
    <3> QED BY <1>0, <2>1, <3>1, <3>2 DEF HarnessOk, NoMsix
  <2>3. CASE h' = h /\ (reg'.status = reg.status \/ reg'.status = 1 \/ reg.head >= 2)
    BY <1>0, <2>1, <2>3, Zenon DEF HarnessOk, NoMsix
  <2> QED BY <2>1, <2>2, <2>3, Zenon
<1>9. ASSUME HarnessDescEffect \/ HarnessXferEffect PROVE HarnessOk'
  <2>1. UNCHANGED <<reg, irqDone, work, log>> /\ h'.idx = h.idx /\ h'.end = h.end /\ h'.run = h.run /\ h.pc # "poll"
    BY <1>9, Zenon DEF HarnessDescEffect, HarnessXferEffect, driverVars
  <2>2. Slot' = Slot
    BY <2>1, Zenon DEF Slot
  <2>3. Slot \in {0, 1}
    BY <2>1, SlotIs, Zenon DEF RingInv
  <2>4. \/ h'.pc = "xfer" /\ h'.flags = Slot
        \/ h'.pc = "cpl" /\ h'.flags = -1 /\ h'.status # 0
        \/ h'.pc = "cpl" /\ h'.flags = Slot
    BY <1>0, <1>9, Zenon DEF HarnessDescEffect, HarnessXferEffect, HarnessOk
  <2> QED BY <1>0, <2>1, <2>2, <2>3, <2>4 DEF HarnessOk, NoMsix
<1>10. ASSUME HarnessCplEffect PROVE HarnessOk'
  <2>1. /\ h.pc = "cpl" /\ UNCHANGED irqDone /\ reg'.count = reg.count /\ reg'.control = reg.control
        /\ reg.head \in Nat /\ (RunFails \/ RunEnds \/ RunGoesOn)
    BY <1>0, <1>10, Zenon DEF HarnessCplEffect, driverVars, RegRecord
  <2>2. /\ Slot \in {0, 1} /\ (Slot = 0 <=> h.idx = reg.head) /\ (Slot = 1 <=> h.idx = reg.head + 1)
    BY <2>1, SlotIs, Zenon DEF RingInv
  <2>3. DOMAIN log' = DOMAIN log
    BY <1>10, LogSize, Zenon DEF HarnessCplEffect, RunFails, RingInv
  <2>4. work' = work \/ (h.flags = 1 /\ work' = Append(work, Msix))
    BY <1>10, Zenon DEF HarnessCplEffect
  <2>5. CASE RunFails
    BY <1>0, <2>1, <2>3, <2>5, PollingType DEF HarnessOk, RunFails
  <2>6. CASE RunEnds
    <3>1. reg'.head = reg.head + 2 /\ Even(reg'.head) /\ reg'.head >= 2
      BY <1>0, <2>6, Parity DEF RunEnds, HarnessOk, RegRecord
    <3> QED BY <3>1, <2>6, PollingType DEF HarnessOk, RunEnds
  <2>7. CASE RunGoesOn
    <3>1. h.status = 0 /\ h.idx = reg.head /\ reg' = reg /\ h'.pc = "desc" /\ h'.idx = h.idx + 1 /\ h'.end = h.end
          /\ h'.run = h.run /\ h'.flags = h.flags
      BY <2>7, Zenon DEF RunGoesOn
    <3>2. h.flags = 0
      BY <1>0, <2>1, <2>2, <3>1, Zenon DEF HarnessOk
    <3>3. work' = work
      BY <2>4, <3>2
    <3> QED BY <1>0, <2>1, <2>3, <3>1, <3>2, <3>3, Zenon DEF HarnessOk, NoMsix
  <2> QED BY <2>1, <2>5, <2>6, <2>7, Zenon
<1> QED BY <1>2, <1>3, <1>4, <1>5, <1>6, <1>7, <1>8, <1>9, <1>10, Zenon DEF Kinds, TurnKind, DeviceStep

\* What an answer answers.
LEMMA AnswerOkStep ==
  ASSUME RingInv, Kinds PROVE AnswerOk'
<1>0. AnswerOk /\ work \in Seq(WorkRecord)
  BY Zenon DEF RingInv, TypeInv
<1>a. ASSUME UNCHANGED <<h, reg, ram>> PROVE HostRequest' = HostRequest
  BY <1>a, Zenon DEF HostRequest, Slot
<1>1. ASSUME UNCHANGED <<ans, work, h, reg, ram>> PROVE AnswerOk'
  BY <1>0, <1>1, <1>a, Zenon DEF AnswerOk
<1>2. ASSUME Aside PROVE AnswerOk'
  BY <1>1, <1>2, Zenon DEF Aside
<1>3. ASSUME NEW p \in Callers, LockEffect(p) \/ HolderStep(p) PROVE AnswerOk'
  BY <1>1, <1>3, DriverQuiet, Zenon
<1>4. ASSUME BottomHalfEffect PROVE AnswerOk'
  <2>1. work # <<>> /\ work' = Tail(work) /\ reg' = reg /\ h' = h /\ work[1] \in WorkRecord
    BY <1>4, Zenon DEF BottomHalfEffect
  <2>2. Len(work) \in Nat /\ Len(work) >= 1 /\ (Len(work) # 1 => work' # <<>> /\ work'[Len(work')] = work[Len(work)])
    BY <1>0, <2>1, TailFacts, SMTT(20)
  <2>3. CASE ans' = ans
    <3>1. CASE ans = "wait"
      <4>1. work[Len(work)] = HostRequest /\ h.pc # "poll"
        BY <1>0, <3>1, Zenon DEF AnswerOk
      <4>2. HostRequest.op # "MSIX"
        BY <4>1, RequestType, Zenon DEF RingInv
      <4>3. Len(work) # 1
        BY <1>4, <2>3, <3>1, <4>1, <4>2, Zenon DEF BottomHalfEffect, Awaited
      <4>4. ram' = ram
        BY <1>4, <4>3, Zenon DEF BottomHalfEffect, Awaited
      <4>5. HostRequest' = HostRequest
        BY <1>a, <2>1, <4>4, Zenon
      <4> QED BY <2>1, <2>2, <2>3, <3>1, <4>1, <4>3, <4>5, Zenon DEF AnswerOk
    <3>2. CASE ans # "wait"
      BY <1>0, <2>1, <2>3, <3>2, Zenon DEF AnswerOk
    <3> QED BY <3>1, <3>2, Zenon
  <2>4. CASE Awaited /\ ans' \in {"ok", "empty"}
    <3>1. work' = <<>> /\ h.pc # "poll"
      BY <1>0, <2>1, <2>4 DEF Awaited, AnswerOk
    <3> QED BY <2>1, <2>4, <3>1, Zenon DEF AnswerOk
  <2> QED BY <1>4, <2>3, <2>4, Zenon DEF BottomHalfEffect
<1>5. ASSUME DmaRefused \/ HarnessTimeout PROVE AnswerOk'
  <2>1. ans' = "bad" /\ ans = "wait" /\ h' = h
    BY <1>5, Zenon DEF DmaRefused, HarnessTimeout, Awaited
  <2> QED BY <1>0, <2>1, Zenon DEF AnswerOk
<1>6. ASSUME HarnessAsk PROVE AnswerOk'
  <2>1. work' = Append(work, HostRequest) /\ ans' = "wait" /\ h.pc # "poll" /\ UNCHANGED <<h, reg, ram>>
    BY <1>6, Zenon DEF HarnessAsk
  <2>2. HostRequest \in WorkRecord
    BY <2>1, RequestType, Zenon DEF RingInv
  <2>3. work' # <<>> /\ work'[Len(work')] = HostRequest
    BY <1>0, <2>1, <2>2, AppendFacts
  <2>4. HostRequest' = HostRequest
    BY <1>a, <2>1, Zenon
  <2> QED BY <2>1, <2>3, <2>4, Zenon DEF AnswerOk
<1>7. ASSUME HarnessAccessEffect PROVE AnswerOk'
  <2>1. ans = "none" /\ ans' = ans
    BY <1>0, <1>7, Zenon DEF AnswerOk, HarnessAccessEffect
  <2> QED BY <2>1, Zenon DEF AnswerOk
<1>8. ASSUME HarnessDescEffect \/ HarnessXferEffect \/ HarnessCplEffect PROVE AnswerOk'
  <2>1. ans' = "none"
    BY <1>8, Zenon DEF HarnessDescEffect, HarnessXferEffect, HarnessCplEffect
  <2> QED BY <2>1, Zenon DEF AnswerOk
<1> QED BY <1>2, <1>3, <1>4, <1>5, <1>6, <1>7, <1>8, Zenon DEF Kinds, TurnKind, DeviceStep

\* The log only grows: an entry keeps its buffers, a timeout stays.
LEMMA LogStep ==
  ASSUME RingInv, Kinds
  PROVE  /\ late' = late /\ DOMAIN log \subseteq DOMAIN log'
         /\ \A r \in DOMAIN log : /\ log'[r].buf = log[r].buf
                                  /\ log[r].res = "timeout" => log'[r].res = "timeout"
         /\ \/ \A r \in DOMAIN log' : log'[r].res = "timeout" => r \in DOMAIN log /\ log[r].res = "timeout"
            \/ \E p \in Callers : Leaves(p, "timeout")
<1> DEFINE Kept == /\ late' = late /\ DOMAIN log \subseteq DOMAIN log'
                   /\ \A r \in DOMAIN log : /\ log'[r].buf = log[r].buf
                                            /\ log[r].res = "timeout" => log'[r].res = "timeout"
           Same == \A r \in DOMAIN log' : log'[r].res = "timeout" => r \in DOMAIN log /\ log[r].res = "timeout"
<1>3. ASSUME late' = late, log' = log PROVE Kept /\ Same
  BY <1>3, Zenon
<1>4. ASSUME Aside PROVE Kept /\ Same
  BY <1>4, Zenon DEF Aside
<1>5. ASSUME NEW p \in Callers, NEW res, Leaves(p, res) PROVE Kept /\ (res # "timeout" => Same)
  <2>1. late' = late /\ LogAs(drv[p].run, res, log[drv[p].run].descs) /\ drv[p].pc \in Locked
    BY <1>5, Zenon DEF Leaves, Locked
  <2>2. DOMAIN log' = DOMAIN log
    BY <2>1, LogSize, Zenon DEF RingInv
  <2>3. log[drv[p].run].res = "busy"
    BY <2>1, Zenon DEF RingInv, CallersOk, At, Locked
  <2>4. \A r \in DOMAIN log : /\ log'[r].buf = log[r].buf
                              /\ log[r].res = "timeout" => log'[r].res = "timeout"
    BY <2>1, <2>3, Zenon DEF LogAs
  <2>5. res # "timeout" => \A r \in DOMAIN log : log'[r].res = "timeout" => log[r].res = "timeout"
    BY <2>1, Zenon DEF LogAs
  <2> QED BY <2>1, <2>2, <2>4, <2>5, Zenon
<1>6. ASSUME NEW p \in Callers, LockEffect(p) \/ HolderStep(p) PROVE Kept /\ (Same \/ Leaves(p, "timeout"))
  <2>1. CASE late' = late /\ log' = log
    BY <1>3, <2>1, Zenon
  <2>2. CASE LockEffect(p) \/ RingEffect(p) \/ RingReturnEffect(p) \/ WaitDoneEffect(p)
    BY <2>1, <2>2, Zenon DEF LockEffect, RingEffect, RingReturnEffect, WaitDoneEffect, hist
  <2>3. CASE Programs(p) \/ Fills(p) \/ Passes(p)
    BY <2>1, <2>3, Zenon DEF Programs, Fills, Passes
  <2>4. CASE \E res \in {"ok", "timeout", "io"} : Leaves(p, res)
    <3>1. PICK res \in {"ok", "timeout", "io"} : Leaves(p, res)
      BY <2>4, Zenon
    <3>2. Kept /\ (res # "timeout" => Same)
      BY <1>5, <3>1, Zenon
    <3> HIDE DEF Kept, Same
    <3> QED BY <3>1, <3>2, Zenon
  <2> HIDE DEF Kept, Same
  <2> QED BY <1>6, <2>2, <2>3, <2>4, Zenon DEF HolderStep
<1>7. ASSUME DeviceStep PROVE Kept /\ Same
  <2>1. CASE HarnessCplEffect
    <3>1. late' = late
      BY <2>1, Zenon DEF HarnessCplEffect, hist
    <3>2. CASE RunFails
      BY <1>3, <3>1, <3>2, Zenon DEF RunFails
    <3>3. CASE LogAs(h.run, log[h.run].res, log[h.run].descs + 1)
      <4>1. DOMAIN log' = DOMAIN log
        BY <3>3, LogSize, Zenon DEF RingInv
      <4>2. \A r \in DOMAIN log : log'[r].res = log[r].res /\ log'[r].buf = log[r].buf
        BY <3>3, Zenon DEF LogAs
      <4> QED BY <3>1, <4>1, <4>2, Zenon
    <3> HIDE DEF Kept, Same
    <3> QED BY <2>1, <3>2, <3>3, Zenon DEF HarnessCplEffect
  <2>2. CASE BottomHalfEffect \/ DmaRefused \/ HarnessAccessEffect \/ HarnessAsk \/ HarnessTimeout
             \/ HarnessDescEffect \/ HarnessXferEffect
    <3>1. late' = late /\ log' = log
      BY <2>2, Zenon DEF BottomHalfEffect, DmaRefused, HarnessAccessEffect, HarnessAsk, HarnessTimeout,
                  HarnessDescEffect, HarnessXferEffect, hist
    <3> QED BY <1>3, <3>1, Zenon
  <2> HIDE DEF Kept, Same
  <2> QED BY <1>7, <2>1, <2>2, Zenon DEF DeviceStep
<1>8. Kept /\ (Same \/ \E p \in Callers : Leaves(p, "timeout"))
  <2> HIDE DEF Kept, Same
  <2> QED BY <1>4, <1>6, <1>7, Zenon DEF Kinds, TurnKind
<1> QED BY <1>8, Zenon

\* Who was too early stays too early, and only a timeout makes it so.
LEMMA TimelyStep ==
  ASSUME RingInv, Kinds
  PROVE  /\ Timely' => Timely
         /\ (Timely => Timely') \/ \E p \in Callers : Leaves(p, "timeout")
         /\ \A b : Tainted(b) => Tainted(b)'
         /\ \A r \in DOMAIN log : Abandoned(r) => Abandoned(r)'
<1>1. /\ late' = late /\ DOMAIN log \subseteq DOMAIN log'
      /\ \A r \in DOMAIN log : /\ log'[r].buf = log[r].buf
                               /\ log[r].res = "timeout" => log'[r].res = "timeout"
      /\ \/ \A r \in DOMAIN log' : log'[r].res = "timeout" => r \in DOMAIN log /\ log[r].res = "timeout"
         \/ \E p \in Callers : Leaves(p, "timeout")
  BY LogStep, Zenon
<1>2. (Timely' => Timely) /\ ((Timely => Timely') \/ \E p \in Callers : Leaves(p, "timeout"))
  BY <1>1, Zenon DEF Timely
<1>3. \A b : Tainted(b) => Tainted(b)'
  BY <1>1, Zenon DEF Tainted
<1>4. \A r \in DOMAIN log : \A q \in 1..(r - 1) : q \in DOMAIN log
  BY DEF RingInv, TypeInv
<1>5. \A r \in DOMAIN log : Abandoned(r) => Abandoned(r)'
  BY <1>1, <1>4, Zenon DEF Abandoned
<1> QED BY <1>2, <1>3, <1>5, Zenon

\* Where no wait ended too early every call is sure.
LEMMA TimelySure == ASSUME Timely PROVE \A p \in Callers : Sure(p)
  BY Zenon DEF Timely, Sure, Tainted

\* The steps of device and harness leave the driver alone.
LEMMA DeviceQuiet ==
  ASSUME DeviceStep
  PROVE  /\ UNCHANGED <<drv, lock, loop, late>>
         /\ (mmio' = mmio) \/ HarnessAccessEffect
  BY Zenon DEF DeviceStep, BottomHalfEffect, DmaRefused, HarnessAccessEffect, HarnessAsk, HarnessTimeout,
         HarnessDescEffect, HarnessXferEffect, HarnessCplEffect, driverVars, hist

\* The lock holder is in the critical section, and nobody else.
LEMMA Holder ==
  ASSUME RingInv, NEW p \in Callers, LockEffect(p) \/ HolderStep(p), NEW q \in Callers, q # p
  PROVE  drv'[q] = drv[q] /\ drv[q].pc \notin Locked
<1>1. CASE LockEffect(p)
  <2>1. lock = NoCaller /\ GoesTo(p, "setup")
    BY <1>1, Zenon DEF LockEffect
  <2> QED BY <2>1, RingAssumption, Zenon DEF RingInv, CallersOk, GoesTo
<1>2. CASE HolderStep(p)
  <2>1. drv[p].pc \in Locked /\ \E x : GoesTo(p, x)
    BY <1>2, Zenon DEF HolderStep, Programs, Fills, RingEffect, RingReturnEffect, WaitDoneEffect, Passes, Leaves, Locked, At
  <2> QED BY <2>1, Alone, Zenon DEF GoesTo, RingInv
<1> QED BY <1>1, <1>2, Zenon

\* In the critical section the buffers stay, and with them what is sure.
LEMMA SureStep ==
  ASSUME RingInv, Kinds, NEW p \in Callers, drv'[p].pc \in Locked
  PROVE  drv'[p].buf = drv[p].buf /\ (Sure(p)' => Sure(p))
<1>1. drv'[p].buf = drv[p].buf
  <2>1. ASSUME Aside PROVE drv'[p].buf = drv[p].buf
    BY <2>1, Zenon DEF Aside
  <2>2. ASSUME NEW q \in Callers, LockEffect(q) \/ HolderStep(q) PROVE drv'[p].buf = drv[p].buf
    <3>1. CASE q # p
      BY <2>2, <3>1, Holder, Zenon
    <3>2. CASE q = p
      BY <2>2, <3>2, Zenon DEF LockEffect, HolderStep, Programs, Fills, RingEffect, RingReturnEffect, WaitDoneEffect,
                               Passes, Leaves, GoesTo
    <3> QED BY <3>1, <3>2, Zenon
  <2>3. ASSUME DeviceStep PROVE drv'[p].buf = drv[p].buf
    BY <2>3, DeviceQuiet, Zenon
  <2> QED BY <2>1, <2>2, <2>3, Zenon DEF Kinds, TurnKind
<1>2. Tainted(drv[p].buf) => \E b : b = drv[p].buf /\ Tainted(b)'
  BY TimelyStep, Zenon
<1> QED BY <1>1, <1>2, Zenon DEF Sure, Tainted

\* A call's log entry is the latest with its buffers.
LEMMA LogOwnStep ==
  ASSUME RingInv, Kinds PROVE LogOwn'
<1> SUFFICES ASSUME NEW q \in Callers, drv'[q].pc # "idle"
             PROVE  /\ log'[drv'[q].run].buf = drv'[q].buf
                    /\ \A r \in DOMAIN log' : log'[r].buf = drv'[q].buf => r <= drv'[q].run
  BY Zenon DEF LogOwn, At
<1>0. log \in Seq(LogRecord) /\ \A r \in DOMAIN log : r \in DOMAIN log' /\ log'[r].buf = log[r].buf
  BY LogStep, Zenon DEF RingInv, TypeInv
<1>1. ASSUME drv[q].pc # "idle", drv'[q].buf = drv[q].buf, drv'[q].run = drv[q].run,
             \A r \in DOMAIN log' : r \in DOMAIN log \/ log'[r].buf # drv[q].buf
      PROVE  /\ log'[drv'[q].run].buf = drv'[q].buf
             /\ \A r \in DOMAIN log' : log'[r].buf = drv'[q].buf => r <= drv'[q].run
  <2>1. /\ drv[q].run \in DOMAIN log /\ log[drv[q].run].buf = drv[q].buf
        /\ \A r \in DOMAIN log : log[r].buf = drv[q].buf => r <= drv[q].run
    BY <1>1, Zenon DEF RingInv, LogOwn, CallersOk, At
  <2> QED BY <1>0, <1>1, <2>1, Zenon
<1>2. ASSUME drv[q].pc # "idle", Aside PROVE \A r \in DOMAIN log' : r \in DOMAIN log \/ log'[r].buf # drv[q].buf
  <2>1. drv[q].buf \in Pool /\ mem[drv[q].buf].live
    BY <1>2, Zenon DEF RingInv, CallersOk, At
  <2> QED BY <1>2, <2>1, Zenon DEF Aside, Unused
<1>3. ASSUME Aside, DriverKept
      PROVE  drv[q].pc # "idle" /\ drv'[q].buf = drv[q].buf /\ drv'[q].run = drv[q].run
  BY <1>3, Zenon DEF DriverKept
<1>4. ASSUME Aside, NEW p \in Callers, NEW n \in Nat, NEW b \in Pool, BeginEffect(p, n, b)
      PROVE  /\ log'[drv'[q].run].buf = drv'[q].buf
             /\ \A r \in DOMAIN log' : log'[r].buf = drv'[q].buf => r <= drv'[q].run
  <2>1. CASE p = q
    <3>1. drv'[q].buf = b /\ drv'[q].run = Len(log) + 1 /\ LogMore(n, "busy", b)
      BY <1>4, <2>1, Zenon DEF BeginEffect
    <3>2. \A r \in DOMAIN log' : r <= Len(log) + 1
      BY <1>0, <3>1 DEF LogMore
    <3>3. log'[Len(log) + 1].buf = b
      BY <3>1, Zenon DEF LogMore
    <3> QED BY <3>1, <3>2, <3>3, Zenon
  <2>2. CASE p # q
    <3>1. drv'[q] = drv[q]
      BY <1>4, <2>2, Zenon DEF BeginEffect
    <3> QED BY <1>1, <1>2, <1>4, <3>1, Zenon
  <2> QED BY <2>1, <2>2, Zenon
<1>5. ASSUME DOMAIN log' = DOMAIN log, drv[q].pc # "idle", drv'[q].buf = drv[q].buf, drv'[q].run = drv[q].run
      PROVE  /\ log'[drv'[q].run].buf = drv'[q].buf
             /\ \A r \in DOMAIN log' : log'[r].buf = drv'[q].buf => r <= drv'[q].run
  BY <1>1, <1>5, Zenon
<1>6. ASSUME NEW p \in Callers, LockEffect(p) \/ HolderStep(p)
      PROVE  DOMAIN log' = DOMAIN log /\ drv[q].pc # "idle" /\ drv'[q].buf = drv[q].buf /\ drv'[q].run = drv[q].run
  <2>1. DOMAIN log' = DOMAIN log
    <3>1. log' = log \/ \E res : LogAs(drv[p].run, res, log[drv[p].run].descs)
      BY <1>6, Zenon DEF LockEffect, HolderStep, Programs, Fills, RingEffect, RingReturnEffect, WaitDoneEffect,
                         Passes, Leaves
    <3> QED BY <3>1, LogSize, Zenon DEF RingInv
  <2>2. CASE p # q
    BY <1>6, <2>1, <2>2, Holder, Zenon
  <2>3. CASE p = q
    BY <1>6, <2>1, <2>3, Zenon DEF LockEffect, HolderStep, Programs, Fills, RingEffect, RingReturnEffect, WaitDoneEffect,
                                   Passes, Leaves, GoesTo, At
  <2> QED BY <2>2, <2>3, Zenon
<1>7. ASSUME DeviceStep
      PROVE  DOMAIN log' = DOMAIN log /\ drv[q].pc # "idle" /\ drv'[q].buf = drv[q].buf /\ drv'[q].run = drv[q].run
  <2>1. log' = log \/ LogAs(h.run, log[h.run].res, log[h.run].descs + 1)
    BY <1>7, Zenon DEF DeviceStep, BottomHalfEffect, DmaRefused, HarnessAccessEffect, HarnessAsk, HarnessTimeout,
                HarnessDescEffect, HarnessXferEffect, HarnessCplEffect, RunFails
  <2>2. DOMAIN log' = DOMAIN log
    BY <2>1, LogSize, Zenon DEF RingInv
  <2> QED BY <1>7, <2>2, DeviceQuiet, Zenon
<1>8. ASSUME Aside, DriverKept
      PROVE  /\ log'[drv'[q].run].buf = drv'[q].buf
             /\ \A r \in DOMAIN log' : log'[r].buf = drv'[q].buf => r <= drv'[q].run
  BY <1>1, <1>2, <1>3, <1>8, Zenon
<1> QED BY <1>4, <1>5, <1>6, <1>7, <1>8, Zenon DEF Kinds, TurnKind

\* Where no doorbell has been rung nothing is under way.
LEMMA NotYetClean ==
  ASSUME RingInv, NEW p \in Callers, NotYet(p), Sure(p)
  PROVE  Clean(drv[p].buf)
<1>1. drv[p].pc # "idle" /\ drv[p].buf \in Pool /\ loop.iter \in Nat
  BY Zenon DEF NotYet, At, RingInv, CallersOk, TypeInv
<1>2. ~Begun(p)
  BY <1>1 DEF NotYet, Begun, At
<1>3. ASSUME NEW q \in Callers, Begun(q), drv[q].buf = drv[p].buf PROVE FALSE
  <2>1. q # p /\ drv[q].pc # "idle"
    BY <1>2, <1>3, Zenon DEF Begun
  <2> QED BY <1>1, <1>3, <2>1, Zenon DEF RingInv, CallersOk, At
<1> QED BY <1>1, <1>3, Zenon DEF RingInv, RingFresh, Sure

\* The doorbell rings.
LEMMA DuringRing ==
  ASSUME RingInv, NEW p \in Callers, Sure(p), RingEffect(p)
  PROVE  During(p)'
<1>1. /\ drv[p].pc = "ring" /\ drv'[p].pc = "rung" /\ irqDone' = 0 /\ UNCHANGED <<mem, reg, h, work, log, late>>
      /\ loop'.iter = loop.iter /\ loop'.tail = loop.tail + 2
      /\ drv'[p].buf = drv[p].buf /\ drv'[p].iters = drv[p].iters /\ drv'[p].run = drv[p].run
  BY Zenon DEF RingEffect, GoesTo, harnessVars, hist, At
<1>2. PICK a \in AccessRecord : /\ mmio' = Append(mmio, a) /\ a.run = drv[p].run
                                /\ a.reg = "TAIL" /\ a.val = loop.tail + 2
  BY Zenon DEF RingEffect, Issue
<1>3. Before(p) /\ loop.iter \in Nat /\ reg.head \in Nat /\ Even(reg.head) /\ drv[p].buf \in Pool
  BY <1>1, Zenon DEF RingInv, BeforeOk, TypeInv, RegRecord, HarnessOk, CallersOk, At
<1>4. mmio = <<>> /\ h.pc = "poll" /\ reg.status = 0
  BY <1>1, Zenon DEF RingInv, Heard, At
<1>5. OneTail(p)'
  BY <1>1, <1>2, <1>4 DEF OneTail
<1>6. /\ loop'.iter < drv'[p].iters /\ loop'.tail = 2 * loop'.iter + 2 /\ Empty(p)' /\ Descs(p)' = 2 * loop'.iter
      /\ ~At(p, "check")' /\ (Timely' <=> Timely) /\ NoMsix' = NoMsix
  BY <1>1, <1>3, Zenon DEF Before, Empty, Descs, At, Timely, NoMsix
<1>7. CASE Silent
  <2>1. work = <<>> /\ NoMsix' /\ NotOn(drv[p].buf)' /\ OnlyOn(drv[p].buf)'
    BY <1>1, <1>7 DEF Silent, NoMsix, NotOn, OnlyOn
  <2>2. CASE reg.head + 2 = loop'.tail
    <3>1. Waiting(p)'
      BY <1>1, <1>4, <1>5, <1>6, <2>1, <2>2, Zenon DEF Waiting
    <3> QED BY <1>6, <3>1, Zenon DEF During
  <2>3. CASE reg.head >= loop'.tail
    <3>1. Stuck(p)'
      BY <1>1, <1>4, <1>5, <1>6, <2>1, <2>3, Zenon DEF Stuck
    <3> QED BY <1>6, <3>1, Zenon DEF During
  <2>4. reg.head + 2 = loop'.tail \/ reg.head >= loop'.tail
    <3>1. loop.iter > 0 => reg.head = loop.tail
      BY <1>3, Zenon DEF Before
    <3>2. loop.iter = 0 => loop'.tail = 2
      BY <1>1, <1>6
    <3>3. reg.head = 0 \/ reg.head >= 2
      BY <1>3 DEF Even
    <3> QED BY <1>1, <1>3, <3>1, <3>2, <3>3
  <2> QED BY <2>2, <2>3, <2>4, Zenon
<1>8. CASE ~Silent
  <2>1. loop.iter = 0 /\ ~Timely
    BY <1>3, <1>8 DEF Before
  <2>2. NotOn(drv[p].buf)'
    <3>1. NotOn(drv[p].buf)
      BY <1>1, <2>1, NotYetClean, Zenon DEF NotYet, Clean
    <3> QED BY <1>1, <3>1, Zenon DEF NotOn
  <2>3. loop'.tail = 2 /\ (reg.head = 0 \/ reg.head >= 2)
    BY <1>3, <1>6, <1>1, <2>1 DEF Even
  <2>4. CASE reg.head = 0
    <3>1. NoMsix'
      BY <1>4, <1>6, <2>4 DEF RingInv, HarnessOk
    <3>2. Waiting(p)'
      BY <1>1, <1>4, <1>5, <1>6, <2>1, <2>2, <2>3, <2>4, <3>1 DEF Waiting
    <3> QED BY <1>6, <3>2, Zenon DEF During
  <2>5. CASE reg.head >= 2
    <3>1. Out(p)'
      BY <1>1, <1>4, <1>5, <1>6, <2>1, <2>2, <2>3, <2>5, Zenon DEF Out
    <3> QED BY <1>6, <3>1, Zenon DEF During
  <2> QED BY <2>3, <2>4, <2>5, Zenon
<1> QED BY <1>7, <1>8, Zenon

\* Who has not rung the doorbell has not done so before.
LEMMA NotYetFrom ==
  ASSUME RingInv, Kinds, NEW q \in Callers, NotYet(q)'
  PROVE  \/ \E n \in Nat, b \in Pool : BeginEffect(q, n, b)
         \/ NotYet(q) /\ drv'[q].run = drv[q].run /\ drv'[q].buf = drv[q].buf
<1>0. loop.iter \in Nat
  BY Zenon DEF RingInv, TypeInv
<1>1. ASSUME drv'[q] = drv[q], loop' = loop \/ drv[q].pc \notin Locked
      PROVE  NotYet(q) /\ drv'[q].run = drv[q].run /\ drv'[q].buf = drv[q].buf
  BY <1>1, Zenon DEF NotYet, At, Locked
<1>2. ASSUME NEW p \in Callers, NEW n \in Nat, NEW b \in Pool, BeginEffect(p, n, b), p # q
      PROVE  NotYet(q) /\ drv'[q].run = drv[q].run /\ drv'[q].buf = drv[q].buf
  BY <1>1, <1>2, Zenon DEF BeginEffect
<1>3. ASSUME Aside, DriverKept
      PROVE  NotYet(q) /\ drv'[q].run = drv[q].run /\ drv'[q].buf = drv[q].buf
  <2>1. drv'[q].pc = "lock" \/ drv'[q].pc \in Locked
    BY Zenon DEF NotYet, At, Locked
  <2>2. CASE drv'[q].pc = "lock"
    BY <1>3, <2>2, Zenon DEF DriverKept, NotYet, At
  <2>3. CASE drv'[q].pc \in Locked
    BY <1>1, <1>3, <2>3, Zenon DEF Aside
  <2> QED BY <2>1, <2>2, <2>3, Zenon
<1>4. ASSUME NEW p \in Callers, LockEffect(p) \/ HolderStep(p), p # q
      PROVE  NotYet(q) /\ drv'[q].run = drv[q].run /\ drv'[q].buf = drv[q].buf
  BY <1>1, <1>4, Holder, Zenon
<1>5. ASSUME LockEffect(q)
      PROVE  NotYet(q) /\ drv'[q].run = drv[q].run /\ drv'[q].buf = drv[q].buf
  BY <1>5, Zenon DEF LockEffect, GoesTo, NotYet
<1>6. ASSUME HolderStep(q)
      PROVE  NotYet(q) /\ drv'[q].run = drv[q].run /\ drv'[q].buf = drv[q].buf
  <2>1. CASE Programs(q)
    BY <2>1, Zenon DEF Programs, GoesTo, NotYet, At
  <2>2. CASE Fills(q)
    BY <2>2, Zenon DEF Fills, GoesTo, NotYet, At
  <2>3. CASE Passes(q)
    BY <1>0, <2>3 DEF Passes, GoesTo, NotYet, At
  <2>4. CASE RingEffect(q) \/ RingReturnEffect(q) \/ WaitDoneEffect(q) \/ \E res \in {"ok", "timeout", "io"} : Leaves(q, res)
    BY <2>4, Zenon DEF RingEffect, RingReturnEffect, WaitDoneEffect, Leaves, GoesTo, NotYet, At
  <2> QED BY <1>6, <2>1, <2>2, <2>3, <2>4, Zenon DEF HolderStep
<1>7. ASSUME DeviceStep
      PROVE  NotYet(q) /\ drv'[q].run = drv[q].run /\ drv'[q].buf = drv[q].buf
  BY <1>1, <1>7, DeviceQuiet, Zenon
<1> QED BY <1>2, <1>3, <1>4, <1>5, <1>6, <1>7, Zenon DEF Kinds, TurnKind

\* A doorbell on its way was so before, or is the lock holder's.
LEMMA TailOrigin ==
  ASSUME RingInv, Kinds, NEW i \in DOMAIN mmio', mmio'[i].reg = "TAIL"
  PROVE  \/ \E j \in DOMAIN mmio : mmio[j] = mmio'[i]
         \/ \E p \in Callers : RingEffect(p) /\ mmio'[i].run = drv[p].run
<1>0. mmio \in Seq(AccessRecord)
  BY Zenon DEF RingInv, TypeInv
<1>1. CASE mmio' = mmio
  BY <1>1, Zenon
<1>2. ASSUME NEW a \in AccessRecord, mmio' = Append(mmio, a)
      PROVE  mmio'[i] = a \/ \E j \in DOMAIN mmio : mmio[j] = mmio'[i]
  BY <1>0, <1>2, AppendFacts
<1>3. ASSUME Aside PROVE mmio' = mmio
  BY <1>3, Zenon DEF Aside
<1>4. ASSUME NEW p \in Callers, RingEffect(p)
      PROVE  mmio'[i].run = drv[p].run \/ \E j \in DOMAIN mmio : mmio[j] = mmio'[i]
  <2>1. PICK a \in AccessRecord : Issue(a) /\ a.run = drv[p].run
    BY <1>4, Zenon DEF RingEffect
  <2> QED BY <1>2, <2>1, Zenon DEF Issue
<1>5. ASSUME NEW p \in Callers, Programs(p) PROVE \E j \in DOMAIN mmio : mmio[j] = mmio'[i]
  <2>1. CASE \E a \in AccessRecord : a.reg # "TAIL" /\ mmio' = Append(mmio, a)
    <3>1. PICK a \in AccessRecord : a.reg # "TAIL" /\ mmio' = Append(mmio, a)
      BY <2>1, Zenon
    <3> QED BY <1>2, <3>1, Zenon
  <2> QED BY <1>1, <1>5, <2>1, Zenon DEF Programs
<1>6. ASSUME NEW p \in Callers, LockEffect(p) \/ HolderStep(p)
      PROVE  RingEffect(p) \/ Programs(p) \/ mmio' = mmio
  BY <1>6, Zenon DEF LockEffect, HolderStep, Fills, RingReturnEffect, WaitDoneEffect, Passes, Leaves
<1>7. ASSUME HarnessAccessEffect PROVE \E j \in DOMAIN mmio : mmio[j] = mmio'[i]
  BY <1>7, EffectTaken, Zenon DEF RingInv
<1>8. ASSUME DeviceStep PROVE \E j \in DOMAIN mmio : mmio[j] = mmio'[i]
  BY <1>1, <1>7, <1>8, DeviceQuiet, Zenon
<1> QED BY <1>1, <1>3, <1>4, <1>5, <1>6, <1>8, Zenon DEF Kinds, TurnKind

\* Only the run at the harness executes descriptors.
LEMMA DescsKept ==
  ASSUME RingInv, Kinds, NEW r \in DOMAIN log, h.pc # "poll" => h.run # r
  PROVE  r \in DOMAIN log' /\ log'[r].descs = log[r].descs /\ log'[r].iters = log[r].iters
<1>1. ASSUME Aside PROVE r \in DOMAIN log' /\ log'[r].descs = log[r].descs /\ log'[r].iters = log[r].iters
  BY <1>1, Zenon DEF Aside
<1>2. ASSUME NEW p \in Callers, LockEffect(p) \/ HolderStep(p)
      PROVE  r \in DOMAIN log' /\ log'[r].descs = log[r].descs /\ log'[r].iters = log[r].iters
  BY <1>2, DriverQuiet, Zenon
<1>3. ASSUME HarnessCplEffect
      PROVE  r \in DOMAIN log' /\ log'[r].descs = log[r].descs /\ log'[r].iters = log[r].iters
  <2>1. h.run # r /\ (log' = log \/ LogAs(h.run, log[h.run].res, log[h.run].descs + 1))
    BY <1>3, Zenon DEF HarnessCplEffect, RunFails
  <2>2. DOMAIN log' = DOMAIN log
    BY <2>1, LogSize, Zenon DEF RingInv
  <2> QED BY <2>1, <2>2, Zenon DEF LogAs
<1>4. ASSUME DeviceStep PROVE log' = log \/ HarnessCplEffect
  BY <1>4, Zenon DEF DeviceStep, BottomHalfEffect, DmaRefused, HarnessAccessEffect, HarnessAsk, HarnessTimeout,
              HarnessDescEffect, HarnessXferEffect
<1> QED BY <1>1, <1>2, <1>3, <1>4, Zenon DEF Kinds, TurnKind

(* The addresses in effect for the harness and for the accesses that wait. *)

\* A register access is made: what is in effect for those before it, and after.
LEMMA EffectIssue ==
  ASSUME TypeInv, NEW a \in AccessRecord, Issue(a), reg' = reg
  PROVE  /\ mmio' \in Seq(AccessRecord) /\ Len(mmio') = Len(mmio) + 1 /\ Len(mmio) \in Nat
         /\ \A i \in DOMAIN mmio : i \in DOMAIN mmio' /\ i \in 1..(Len(mmio) + 1) /\ mmio'[i] = mmio[i]
         /\ \A i \in DOMAIN mmio' : (i \in DOMAIN mmio /\ mmio'[i] = mmio[i]) \/ (i = Len(mmio) + 1 /\ mmio'[i] = a)
         /\ \A i \in 1..(Len(mmio) + 1) : \A b :
           (BaseAt(i, b)' <=> BaseAt(i, b)) /\ (CplBaseAt(i, b)' <=> CplBaseAt(i, b))
         /\ \A b : /\ (a.reg = "BASE" /\ a.val = b) \/ (a.reg # "BASE" /\ BaseAt(Len(mmio) + 1, b))
                        => BaseAt(Len(mmio) + 1, b)'
                   /\ (a.reg = "CPL_BASE" /\ a.val = b) \/ (a.reg # "CPL_BASE" /\ CplBaseAt(Len(mmio) + 1, b))
                        => CplBaseAt(Len(mmio) + 1, b)'
<1>1. mmio \in Seq(AccessRecord) /\ mmio' = Append(mmio, a)
  BY Zenon DEF TypeInv, Issue
<1>2. /\ mmio' \in Seq(AccessRecord) /\ Len(mmio') = Len(mmio) + 1 /\ Len(mmio) \in Nat
      /\ \A i \in DOMAIN mmio : i \in DOMAIN mmio' /\ mmio'[i] = mmio[i]
      /\ \A i \in DOMAIN mmio' : (i \in DOMAIN mmio /\ mmio'[i] = mmio[i]) \/ (i = Len(mmio) + 1 /\ mmio'[i] = a)
  BY <1>1, AppendFacts
<1>3. \A i \in DOMAIN mmio : i \in 1..(Len(mmio) + 1)
  BY <1>1
<1>4. ASSUME NEW i \in 1..(Len(mmio) + 1), NEW b
      PROVE  (BaseAt(i, b)' <=> BaseAt(i, b)) /\ (CplBaseAt(i, b)' <=> CplBaseAt(i, b))
  <2>1. InEffect(Append(mmio, a), "BASE", reg.base, i, b) <=> InEffect(mmio, "BASE", reg.base, i, b)
    BY <1>1, EffectBefore, Zenon
  <2>2. InEffect(Append(mmio, a), "CPL_BASE", reg.cplBase, i, b) <=> InEffect(mmio, "CPL_BASE", reg.cplBase, i, b)
    BY <1>1, EffectBefore, Zenon
  <2> QED BY <1>1, <2>1, <2>2, Zenon DEF BaseAt, CplBaseAt
<1>5. Len(mmio') + 1 = Len(mmio) + 2
  BY <1>2
<1>6. ASSUME NEW b
      PROVE  /\ (a.reg = "BASE" /\ a.val = b) \/ (a.reg # "BASE" /\ BaseAt(Len(mmio) + 1, b))
                  => BaseAt(Len(mmio) + 1, b)'
             /\ (a.reg = "CPL_BASE" /\ a.val = b) \/ (a.reg # "CPL_BASE" /\ CplBaseAt(Len(mmio) + 1, b))
                  => CplBaseAt(Len(mmio) + 1, b)'
  <2>1. /\ a.reg = "BASE" /\ a.val = b => InEffect(Append(mmio, a), "BASE", reg.base, Len(mmio) + 2, b)
        /\ a.reg # "BASE" /\ InEffect(mmio, "BASE", reg.base, Len(mmio) + 1, b)
             => InEffect(Append(mmio, a), "BASE", reg.base, Len(mmio) + 2, b)
    BY <1>1, EffectAfter, Zenon
  <2>2. /\ a.reg = "CPL_BASE" /\ a.val = b => InEffect(Append(mmio, a), "CPL_BASE", reg.cplBase, Len(mmio) + 2, b)
        /\ a.reg # "CPL_BASE" /\ InEffect(mmio, "CPL_BASE", reg.cplBase, Len(mmio) + 1, b)
             => InEffect(Append(mmio, a), "CPL_BASE", reg.cplBase, Len(mmio) + 2, b)
    BY <1>1, EffectAfter, Zenon
  <2> QED BY <1>1, <1>5, <2>1, <2>2, Zenon DEF BaseAt, CplBaseAt
<1> QED BY <1>2, <1>3, <1>4, <1>6, Zenon

\* What is in effect was written or is there.
LEMMA EffectGiven ==
  ASSUME NEW i, NEW b
  PROVE  /\ BaseAt(i, b) => reg.base = b \/ \E j \in 1..(i - 1) : mmio[j].reg = "BASE" /\ mmio[j].val = b
         /\ CplBaseAt(i, b) => reg.cplBase = b \/ \E j \in 1..(i - 1) : mmio[j].reg = "CPL_BASE" /\ mmio[j].val = b
  BY Zenon DEF BaseAt, CplBaseAt, InEffect

\* The lock holder's addresses are in effect for its next access.
LEMMA OwnIssue ==
  ASSUME RingInv, NEW p \in Callers, Issues(p)
  PROVE  /\ drv[p].pc \in Locked /\ drv[p].buf \in Pool /\ UNCHANGED <<reg, h, mem, work, lock, log>>
         /\ \E a \in AccessRecord :
              /\ Issue(a) /\ a.run = drv[p].run
              /\ a.reg = "TAIL" <=> RingEffect(p)
              /\ a.reg \in {"BASE", "CPL_BASE"} => a.val = drv[p].buf
              /\ a.reg = "BASE" \/ BaseAt(Len(mmio) + 1, drv[p].buf) \/ ~Programmed(p, 1)'
              /\ a.reg = "CPL_BASE" \/ CplBaseAt(Len(mmio) + 1, drv[p].buf) \/ ~Programmed(p, 2)'
              /\ a.reg \in {"TAIL", "CONTROL"} =>
                   BaseAt(Len(mmio) + 1, drv[p].buf) /\ CplBaseAt(Len(mmio) + 1, drv[p].buf)
         /\ \A q \in Callers : /\ drv'[q].pc = "idle" <=> drv[q].pc = "idle"
                               /\ drv'[q].pc = "lock" <=> drv[q].pc = "lock"
                               /\ drv'[q].pc \in Locked <=> q = p
                               /\ drv'[q].buf = drv[q].buf /\ drv'[q].run = drv[q].run
<1>1. drv[p].pc \in Locked /\ drv[p].pc \in {"setup", "poll", "ring"} /\ UNCHANGED <<reg, h, mem, work, lock, log>>
  BY Zenon DEF Issues, SetupIssueEffect, PollIssueEffect, RingEffect, At, Locked, harnessVars, driverVars
<1>2. drv[p].buf \in Pool
  BY <1>1, Zenon DEF RingInv, CallersOk, At
<1>3. /\ Programmed(p, 1) => BaseAt(Len(mmio) + 1, drv[p].buf)
      /\ Programmed(p, 2) => CplBaseAt(Len(mmio) + 1, drv[p].buf)
  BY <1>1, Zenon DEF RingInv, RingOwn
<1>4. GoesTo(p, drv[p].pc) \/ GoesTo(p, "rung")
  <2>1. drv' = drv \/ GoesTo(p, "rung")
    BY Zenon DEF Issues, SetupIssueEffect, PollIssueEffect, RingEffect, driverVars
  <2> QED BY <2>1, Stays, Zenon DEF RingInv
<1>5. ASSUME NEW q \in Callers
      PROVE  /\ drv'[q].pc = "idle" <=> drv[q].pc = "idle"
             /\ drv'[q].pc = "lock" <=> drv[q].pc = "lock"
             /\ drv'[q].pc \in Locked <=> q = p
             /\ drv'[q].buf = drv[q].buf /\ drv'[q].run = drv[q].run
  <2>1. q # p => drv'[q] = drv[q] /\ drv[q].pc \notin Locked
    BY <1>1, <1>4, Alone, Zenon DEF GoesTo, RingInv
  <2>2. /\ drv'[p].pc \in Locked /\ drv'[p].pc # "idle" /\ drv'[p].pc # "lock" /\ drv[p].pc # "idle" /\ drv[p].pc # "lock"
        /\ drv'[p].buf = drv[p].buf /\ drv'[p].run = drv[p].run
    BY <1>1, <1>4, Zenon DEF GoesTo, Locked
  <2> QED BY <2>1, <2>2, Zenon
<1>6. \E a \in AccessRecord :
        /\ Issue(a) /\ a.run = drv[p].run
        /\ a.reg = "TAIL" <=> RingEffect(p)
        /\ a.reg \in {"BASE", "CPL_BASE"} => a.val = drv[p].buf
        /\ a.reg = "BASE" \/ BaseAt(Len(mmio) + 1, drv[p].buf) \/ ~Programmed(p, 1)'
        /\ a.reg = "CPL_BASE" \/ CplBaseAt(Len(mmio) + 1, drv[p].buf) \/ ~Programmed(p, 2)'
        /\ a.reg \in {"TAIL", "CONTROL"} =>
             BaseAt(Len(mmio) + 1, drv[p].buf) /\ CplBaseAt(Len(mmio) + 1, drv[p].buf)
  <2>1. CASE drv[p].pc = "setup"
    <3>1. SetupIssueEffect(p) /\ ~RingEffect(p)
      BY <2>1, Zenon DEF Issues, PollIssueEffect, RingEffect, At
    <3>2. loop.n \in 1..4 /\ loop' = loop /\ drv'[p].pc = "setup"
      BY <2>1, <3>1, Zenon DEF SetupIssueEffect, driverVars
    <3>3. PICK a \in AccessRecord :
            /\ Issue(a) /\ a.run = drv[p].run
            /\ a.reg \in {"BASE", "CPL_BASE", "COUNT", "CONTROL"}
            /\ a.reg = "BASE" <=> loop.n = 1
            /\ a.reg = "CPL_BASE" <=> loop.n = 2
            /\ a.reg = "CONTROL" <=> loop.n = 4
            /\ a.reg \in {"BASE", "CPL_BASE"} => a.val = drv[p].buf
      BY <3>1, Zenon DEF SetupIssueEffect
    <3>4. /\ loop.n > 1 => BaseAt(Len(mmio) + 1, drv[p].buf)
          /\ loop.n > 2 => CplBaseAt(Len(mmio) + 1, drv[p].buf)
      BY <1>3, Zenon DEF Programmed
    <3>5. Programmed(p, 2)' => loop.n >= 2
      BY <3>2 DEF Programmed, At
    <3> QED BY <3>1, <3>2, <3>3, <3>4, <3>5
  <2>2. CASE drv[p].pc # "setup"
    <3>1. BaseAt(Len(mmio) + 1, drv[p].buf) /\ CplBaseAt(Len(mmio) + 1, drv[p].buf)
      BY <1>3, <2>2, Zenon DEF Programmed, At
    <3>2. \E a \in AccessRecord : /\ Issue(a) /\ a.run = drv[p].run /\ a.reg \notin {"BASE", "CPL_BASE"}
                                  /\ a.reg = "TAIL" <=> RingEffect(p)
      <4>1. CASE RingEffect(p)
        BY <4>1, Zenon DEF RingEffect
      <4>2. CASE PollIssueEffect(p)
        <5>1. ~RingEffect(p)
          BY <4>2, Zenon DEF PollIssueEffect, RingEffect, At
        <5> QED BY <4>2, <5>1, Zenon DEF PollIssueEffect
      <4> QED BY <2>2, <4>1, <4>2, Zenon DEF Issues, SetupIssueEffect, At
    <3> QED BY <3>1, <3>2, Zenon
  <2> QED BY <2>1, <2>2, Zenon
<1> QED BY <1>1, <1>2, <1>5, <1>6, Zenon

\* The harness is not enabled without the addresses.
LEMMA EnabledStep ==
  ASSUME RingInv, Kinds PROVE Enabled'
<1>1. ASSUME mmio' = mmio, reg'.base = reg.base, reg'.cplBase = reg.cplBase, reg'.control = reg.control
      PROVE  Enabled'
  BY <1>1, Zenon DEF RingInv, Enabled, Given
<1>2. ASSUME NEW p \in Callers, NEW n \in Nat, NEW b \in Pool, BeginEffect(p, n, b) PROVE Enabled'
  BY <1>1, <1>2, Zenon DEF BeginEffect, harnessVars
<1>3. ASSUME NEW p \in Callers, LockEffect(p) PROVE Enabled'
  BY <1>1, <1>3, Zenon DEF LockEffect, harnessVars
<1>4. ASSUME NEW p \in Callers, Issues(p) PROVE Enabled'
  <2>1. PICK a \in AccessRecord :
          /\ Issue(a)
          /\ a.reg \in {"TAIL", "CONTROL"} =>
               BaseAt(Len(mmio) + 1, drv[p].buf) /\ CplBaseAt(Len(mmio) + 1, drv[p].buf)
    BY <1>4, OwnIssue, Zenon
  <2>2. reg' = reg /\ drv[p].buf \in Pool
    BY <1>4, OwnIssue, Zenon
  <2>3. /\ \A i \in DOMAIN mmio : mmio'[i] = mmio[i]
        /\ \A i \in DOMAIN mmio' : (i \in DOMAIN mmio /\ mmio'[i] = mmio[i]) \/ (i = Len(mmio) + 1 /\ mmio'[i] = a)
    BY <2>1, <2>2, EffectIssue, Zenon DEF RingInv
  <2>4. mmio \in Seq(AccessRecord) /\ Len(mmio) \in Nat
    BY DEF RingInv, TypeInv
  <2>5. \A i \in 1..(Len(mmio) + 1) : \A j \in 1..(i - 1) : j \in DOMAIN mmio /\ mmio'[j] = mmio[j]
    BY <2>3, <2>4
  <2>6. DOMAIN mmio = 1..Len(mmio)
    BY <2>4
  <2>7. ASSUME NEW i \in 1..(Len(mmio) + 1)
        PROVE  /\ Given("BASE", reg.base, i) => Given("BASE", reg.base, i)'
               /\ Given("CPL_BASE", reg.cplBase, i) => Given("CPL_BASE", reg.cplBase, i)'
    BY <2>2, <2>5, Zenon DEF Given
  <2>8. ASSUME a.reg = "CONTROL" PROVE Given("BASE", reg.base, Len(mmio) + 1) /\ Given("CPL_BASE", reg.cplBase, Len(mmio) + 1)
    BY <2>1, <2>2, <2>8, EffectGiven DEF Given
  <2>9. ASSUME NEW i \in DOMAIN mmio', mmio'[i].reg = "CONTROL"
        PROVE  i \in 1..(Len(mmio) + 1) /\ Given("BASE", reg.base, i) /\ Given("CPL_BASE", reg.cplBase, i)
    <3>1. CASE i \in DOMAIN mmio /\ mmio'[i] = mmio[i]
      BY <2>4, <2>6, <2>9, <3>1 DEF RingInv, Enabled
    <3>2. CASE i = Len(mmio) + 1 /\ mmio'[i] = a
      BY <2>4, <2>8, <2>9, <3>2
    <3> QED BY <2>3, <3>1, <3>2, Zenon
  <2>10. reg'.control = 1 => reg'.base \in Pool /\ reg'.cplBase \in Pool
    BY <2>2, Zenon DEF RingInv, Enabled
  <2> QED BY <2>7, <2>9, <2>10, Zenon DEF Enabled
<1>5. ASSUME HarnessAccessEffect PROVE Enabled'
  <2>1. /\ 1 \in DOMAIN mmio /\ Len(mmio) \in Nat /\ DOMAIN mmio = 1..Len(mmio)
        /\ \A i \in DOMAIN mmio' : i + 1 \in DOMAIN mmio /\ i \in 1..Len(mmio) /\ mmio'[i] = mmio[i + 1]
    <3>1. mmio \in Seq(AccessRecord)
      BY Zenon DEF RingInv, TypeInv
    <3> QED BY <1>5, <3>1, EffectTaken DEF RingInv
  <2>2. mmio[1] \in AccessRecord
    BY <1>5, Zenon DEF HarnessAccessEffect
  <2>3. mmio[1].reg \in {"BASE", "CPL_BASE"} => mmio[1].val \in Pool
    BY <2>2, Zenon DEF AccessRecord
  <2>4. /\ reg.base \in Pool \/ mmio[1].reg = "BASE" => reg'.base \in Pool
        /\ reg.cplBase \in Pool \/ mmio[1].reg = "CPL_BASE" => reg'.cplBase \in Pool
    BY <1>5, <2>3, Zenon DEF HarnessAccessEffect
  <2>5. reg'.control = 1 => reg'.base \in Pool /\ reg'.cplBase \in Pool
    <3>1. CASE mmio[1].reg = "CONTROL"
      BY <2>1, <2>4, <3>1 DEF RingInv, Enabled, Given
    <3>2. CASE mmio[1].reg # "CONTROL"
      BY <1>5, <2>4, <3>2, Zenon DEF HarnessAccessEffect, RingInv, Enabled
    <3> QED BY <3>1, <3>2, Zenon
  <2>6. ASSUME NEW i \in DOMAIN mmio', NEW j \in 1..(i + 1 - 1)
        PROVE  j = 1 \/ (j - 1 \in 1..(i - 1) /\ j - 1 \in DOMAIN mmio' /\ (j - 1) + 1 = j)
    <3>1. mmio' \in Seq(AccessRecord)
      BY <1>5, EffectTaken, Zenon DEF RingInv
    <3> QED BY <2>1, <3>1
  <2>7. ASSUME NEW i \in DOMAIN mmio', mmio'[i].reg = "CONTROL"
        PROVE  Given("BASE", reg.base, i)' /\ Given("CPL_BASE", reg.cplBase, i)'
    <3>1. Given("BASE", reg.base, i + 1) /\ Given("CPL_BASE", reg.cplBase, i + 1)
      BY <2>1, <2>7, Zenon DEF RingInv, Enabled
    <3>2. reg.base \in Pool \/ \E j \in 1..(i + 1 - 1) : mmio[j].reg = "BASE"
      BY <2>1, <3>1 DEF Given
    <3>3. reg.cplBase \in Pool \/ \E j \in 1..(i + 1 - 1) : mmio[j].reg = "CPL_BASE"
      BY <2>1, <3>1 DEF Given
    <3>4. Given("BASE", reg.base, i)'
      BY <2>1, <2>4, <2>6, <3>2 DEF Given
    <3>5. Given("CPL_BASE", reg.cplBase, i)'
      BY <2>1, <2>4, <2>6, <3>3 DEF Given
    <3> QED BY <3>4, <3>5, Zenon
  <2> QED BY <2>5, <2>7, Zenon DEF Enabled
<1>6. ASSUME RingKept PROVE Enabled'
  BY <1>1, <1>6, Zenon DEF RingKept
<1> QED BY <1>2, <1>3, <1>4, <1>5, <1>6, Zenon DEF Kinds, AddressKind

\* The harness uses the buffers of the ioctl whose run it works on.
LEMMA RingOwnStep ==
  ASSUME RingInv, Kinds PROVE RingOwn'
<1>1. ASSUME NEW p \in Callers, NEW n \in Nat, NEW b \in Pool, BeginEffect(p, n, b) PROVE RingOwn'
  <2>1. UNCHANGED <<mmio, reg, h, loop, rpc>> /\ drv'[p].pc = "lock" /\ drv'[p].run = Len(log) + 1
    BY <1>1, Zenon DEF BeginEffect, harnessVars
  <2>2. \A q \in Callers : q # p => drv'[q] = drv[q]
    BY <1>1, Zenon DEF BeginEffect
  <2>3. Len(log) + 1 \notin DOMAIN log
    BY DEF RingInv, TypeInv
  <2>4. /\ h.pc # "poll" => h.run # Len(log) + 1
        /\ \A i \in DOMAIN mmio : mmio[i].run # Len(log) + 1
    BY <2>3, Zenon DEF RingInv, HarnessOk, RpcOk
  <2>5. OwnDescriptors'
    BY <2>1, <2>2, <2>4, Zenon DEF RingInv, RingOwn, OwnDescriptors, At
  <2>6. ASSUME NEW q \in Callers, drv'[q].pc \in Locked
        PROVE  q # p
    BY <2>1, <2>6, Zenon DEF Locked
  <2> QED BY <2>1, <2>2, <2>4, <2>5, <2>6 DEF RingInv, RingOwn, BaseAt, CplBaseAt, Programmed, At
<1>2. ASSUME NEW p \in Callers, LockEffect(p) PROVE RingOwn'
  <2>1. /\ UNCHANGED <<mmio, reg, h, rpc>> /\ loop'.n = 1 /\ lock = NoCaller
        /\ drv[p].pc = "lock" /\ drv'[p].pc = "setup" /\ drv'[p].buf = drv[p].buf /\ drv'[p].run = drv[p].run
    BY <1>2, Zenon DEF LockEffect, harnessVars, GoesTo, At
  <2>2. \A q \in Callers : q # p => drv'[q] = drv[q]
    BY <1>2, Zenon DEF LockEffect, GoesTo
  <2>3. \A q \in Callers : drv[q].pc \notin Locked
    <3>1. \A q \in Callers : lock # q
      BY <2>1, RingAssumption, Zenon
    <3> QED BY <3>1, Zenon DEF RingInv, CallersOk
  <2>4. rpc.st = "idle"
    BY <2>3, Zenon DEF RingInv, RpcOk, Locked
  <2>5. ~Programmed(p, 1)' /\ ~Programmed(p, 2)'
    BY <2>1, <2>4 DEF Programmed, At
  <2>6. OwnDescriptors'
    BY <2>1, <2>2, Zenon DEF RingInv, RingOwn, OwnDescriptors, At
  <2> QED BY <2>1, <2>2, <2>3, <2>5, <2>6 DEF RingInv, RingOwn, BaseAt, CplBaseAt, At
<1>3. ASSUME NEW p \in Callers, Issues(p) PROVE RingOwn'
  <2>1. PICK a \in AccessRecord :
          /\ Issue(a) /\ a.run = drv[p].run
          /\ a.reg = "TAIL" <=> RingEffect(p)
          /\ a.reg \in {"BASE", "CPL_BASE"} => a.val = drv[p].buf
          /\ a.reg = "BASE" \/ BaseAt(Len(mmio) + 1, drv[p].buf) \/ ~Programmed(p, 1)'
          /\ a.reg = "CPL_BASE" \/ CplBaseAt(Len(mmio) + 1, drv[p].buf) \/ ~Programmed(p, 2)'
          /\ a.reg \in {"TAIL", "CONTROL"} =>
               BaseAt(Len(mmio) + 1, drv[p].buf) /\ CplBaseAt(Len(mmio) + 1, drv[p].buf)
    BY <1>3, OwnIssue, Zenon
  <2>2. /\ reg' = reg /\ h' = h /\ drv[p].pc \in Locked
        /\ \A q \in Callers : /\ drv'[q].pc = "idle" <=> drv[q].pc = "idle"
                              /\ drv'[q].pc \in Locked <=> q = p
                              /\ drv'[q].buf = drv[q].buf /\ drv'[q].run = drv[q].run
    BY <1>3, OwnIssue, Zenon
  <2>3. /\ \A i \in DOMAIN mmio : i \in 1..(Len(mmio) + 1) /\ mmio'[i] = mmio[i]
        /\ \A i \in DOMAIN mmio' : (i \in DOMAIN mmio /\ mmio'[i] = mmio[i]) \/ (i = Len(mmio) + 1 /\ mmio'[i] = a)
        /\ Len(mmio) + 1 \in 1..(Len(mmio) + 1)
    BY <2>1, <2>2, EffectIssue DEF RingInv
  <2>4. \A i \in 1..(Len(mmio) + 1) : \A b :
           (BaseAt(i, b)' <=> BaseAt(i, b)) /\ (CplBaseAt(i, b)' <=> CplBaseAt(i, b))
    BY <2>1, <2>2, EffectIssue, Zenon DEF RingInv
  <2>5. \A b : /\ (a.reg = "BASE" /\ a.val = b) \/ (a.reg # "BASE" /\ BaseAt(Len(mmio) + 1, b))
                    => BaseAt(Len(mmio) + 1, b)'
               /\ (a.reg = "CPL_BASE" /\ a.val = b) \/ (a.reg # "CPL_BASE" /\ CplBaseAt(Len(mmio) + 1, b))
                    => CplBaseAt(Len(mmio) + 1, b)'
    BY <2>1, <2>2, EffectIssue, Zenon DEF RingInv
  <2>6. OwnDescriptors'
    BY <2>2, Zenon DEF RingInv, RingOwn, OwnDescriptors, At
  <2>7. /\ Programmed(p, 1)' => BaseAt(Len(mmio) + 1, drv[p].buf)'
        /\ Programmed(p, 2)' => CplBaseAt(Len(mmio) + 1, drv[p].buf)'
    <3>1. drv'[p].buf = drv[p].buf
      BY <2>2, Zenon
    <3>2. /\ Programmed(p, 1)' => \E b : b = drv[p].buf /\ BaseAt(Len(mmio) + 1, b)'
          /\ Programmed(p, 2)' => \E b : b = drv[p].buf /\ CplBaseAt(Len(mmio) + 1, b)'
      BY <2>1, <2>5, Zenon
    <3> QED BY <3>1, <3>2, Zenon DEF BaseAt, CplBaseAt
  <2>8. ASSUME NEW q \in Callers, NEW i \in DOMAIN mmio', ~At(q, "idle")', mmio'[i].reg = "TAIL",
               mmio'[i].run = drv'[q].run
        PROVE  BaseAt(i, drv[q].buf)' /\ CplBaseAt(i, drv[q].buf)'
    <3>1. drv'[q].buf = drv[q].buf /\ drv'[q].run = drv[q].run /\ ~At(q, "idle")
      BY <2>2, <2>8, Zenon DEF At
    <3>2. i \in 1..(Len(mmio) + 1) /\ BaseAt(i, drv[q].buf) /\ CplBaseAt(i, drv[q].buf)
      <4>1. CASE i \in DOMAIN mmio /\ mmio'[i] = mmio[i]
        BY <2>3, <2>8, <3>1, <4>1, Zenon DEF RingInv, RingOwn
      <4>2. CASE i = Len(mmio) + 1 /\ mmio'[i] = a
        <5>1. q = p
          BY <2>1, <2>2, <2>8, <3>1, <4>2, SMTT(20) DEF RingInv, CallersOk, At, Locked
        <5> QED BY <2>1, <2>3, <2>8, <4>2, <5>1, Zenon
      <4> QED BY <2>3, <4>1, <4>2, Zenon
    <3>3. \E b : b = drv[q].buf /\ BaseAt(i, b)' /\ CplBaseAt(i, b)'
      BY <2>4, <3>2, Zenon
    <3> QED BY <3>1, <3>3, Zenon DEF BaseAt, CplBaseAt
  <2>9. ASSUME NEW q \in Callers, drv'[q].pc \in Locked PROVE q = p
    BY <2>2, <2>9, Zenon
  <2> QED BY <2>6, <2>7, <2>8, <2>9, Zenon DEF RingOwn
<1>4. ASSUME HarnessAccessEffect PROVE RingOwn'
  <2>1. /\ Len(mmio') + 1 = Len(mmio) /\ Len(mmio') \in Nat /\ 1 \in DOMAIN mmio
        /\ \A i \in DOMAIN mmio' : i + 1 \in DOMAIN mmio /\ i \in 1..Len(mmio) /\ mmio'[i] = mmio[i + 1]
    BY <1>4, EffectTaken, Zenon DEF RingInv
  <2>2. \A i \in 1..Len(mmio) : \A b :
           (BaseAt(i, b)' <=> BaseAt(i + 1, b)) /\ (CplBaseAt(i, b)' <=> CplBaseAt(i + 1, b))
    BY <1>4, EffectTaken, Zenon DEF RingInv
  <2>3. drv' = drv /\ loop' = loop /\ h.pc = "poll" /\ (rpc'.st # "idle" => rpc.st # "idle")
    BY <1>4, Zenon DEF HarnessAccessEffect, driverVars
  <2>4. OwnDescriptors'
    <3>1. CASE Starts(mmio[1])
      <4>1. reg' = reg /\ h'.run = mmio[1].run /\ mmio[1].reg = "TAIL"
        BY <3>1, Zenon DEF Starts
      <4>2. ASSUME NEW p \in Callers, ~At(p, "idle"), drv[p].run = mmio[1].run
            PROVE  reg.base = drv[p].buf /\ reg.cplBase = drv[p].buf
        <5>1. BaseAt(1, drv[p].buf) /\ CplBaseAt(1, drv[p].buf)
          BY <2>1, <4>1, <4>2, Zenon DEF RingInv, RingOwn
        <5> QED BY <5>1, EffectNow DEF BaseAt, CplBaseAt
      <4> QED BY <2>3, <4>1, <4>2, Zenon DEF OwnDescriptors, At
    <3>2. CASE h' = h
      BY <2>3, <3>2, Zenon DEF OwnDescriptors
    <3> QED BY <1>4, <3>1, <3>2, Zenon DEF HarnessAccessEffect
  <2>5. ASSUME NEW q \in Callers, drv[q].pc \in Locked
        PROVE  /\ Programmed(q, 1)' => BaseAt(Len(mmio) + 1, drv[q].buf)'
               /\ Programmed(q, 2)' => CplBaseAt(Len(mmio) + 1, drv[q].buf)'
    <3>1. (Programmed(q, 1)' => Programmed(q, 1)) /\ (Programmed(q, 2)' => Programmed(q, 2))
      BY <2>3, Zenon DEF Programmed, At
    <3>2. /\ Programmed(q, 1)' => BaseAt(Len(mmio) + 1, drv[q].buf)
          /\ Programmed(q, 2)' => CplBaseAt(Len(mmio) + 1, drv[q].buf)
      BY <2>5, <3>1, Zenon DEF RingInv, RingOwn
    <3>3. Len(mmio) \in 1..Len(mmio)
      BY <2>1
    <3>4. /\ Programmed(q, 1)' => \E i, b : i = Len(mmio) /\ b = drv[q].buf /\ BaseAt(i, b)'
          /\ Programmed(q, 2)' => \E i, b : i = Len(mmio) /\ b = drv[q].buf /\ CplBaseAt(i, b)'
      BY <2>2, <3>2, <3>3, Zenon
    <3> QED BY <2>1, <2>3, <3>4, Zenon DEF BaseAt, CplBaseAt
  <2>6. ASSUME NEW q \in Callers, NEW i \in DOMAIN mmio', ~At(q, "idle"), mmio'[i].reg = "TAIL",
               mmio'[i].run = drv[q].run
        PROVE  BaseAt(i, drv[q].buf)' /\ CplBaseAt(i, drv[q].buf)'
    <3>1. BaseAt(i + 1, drv[q].buf) /\ CplBaseAt(i + 1, drv[q].buf)
      BY <2>1, <2>6, Zenon DEF RingInv, RingOwn
    <3>2. \E b : b = drv[q].buf /\ BaseAt(i, b)' /\ CplBaseAt(i, b)'
      BY <2>1, <2>2, <3>1, Zenon
    <3> QED BY <2>3, <3>2, Zenon DEF BaseAt, CplBaseAt
  <2>7. \A q \in Callers : drv'[q] = drv[q] /\ (At(q, "idle")' <=> At(q, "idle"))
    BY <2>3, Zenon DEF At
  <2> QED BY <2>4, <2>5, <2>6, <2>7, Zenon DEF RingOwn
<1>5. ASSUME RingKept PROVE RingOwn'
  <2>1. /\ mmio' = mmio /\ reg'.base = reg.base /\ reg'.cplBase = reg.cplBase
        /\ h'.pc # "poll" => h.pc # "poll" /\ h'.run = h.run
    BY <1>5, Zenon DEF RingKept
  <2>2. ASSUME NEW q \in Callers
        PROVE  /\ drv'[q].pc # "idle" => /\ drv[q].pc # "idle" /\ drv'[q].buf = drv[q].buf
                                         /\ drv'[q].run = drv[q].run
               /\ drv'[q].pc \in Locked => drv[q].pc \in Locked /\ drv'[q].pc # "idle"
               /\ drv'[q].pc \in Locked /\ Programmed(q, 1)' => Programmed(q, 1)
               /\ drv'[q].pc \in Locked /\ Programmed(q, 2)' => Programmed(q, 2)
    BY <1>5, Zenon DEF RingKept, DriverKept, Locked
  <2>3. OwnDescriptors'
    BY <2>1, <2>2, Zenon DEF RingInv, RingOwn, OwnDescriptors, At
  <2>4. ASSUME NEW q \in Callers, drv'[q].pc \in Locked
        PROVE  /\ Programmed(q, 1)' => BaseAt(Len(mmio) + 1, drv[q].buf)'
               /\ Programmed(q, 2)' => CplBaseAt(Len(mmio) + 1, drv[q].buf)'
    <3>1. /\ Programmed(q, 1)' => BaseAt(Len(mmio) + 1, drv[q].buf)
          /\ Programmed(q, 2)' => CplBaseAt(Len(mmio) + 1, drv[q].buf)
      BY <2>2, <2>4, Zenon DEF RingInv, RingOwn
    <3>2. drv'[q].buf = drv[q].buf
      BY <2>2, <2>4, Zenon
    <3> QED BY <2>1, <3>1, <3>2, Zenon DEF BaseAt, CplBaseAt
  <2>5. ASSUME NEW q \in Callers, NEW i \in DOMAIN mmio', ~At(q, "idle")', mmio'[i].reg = "TAIL",
               mmio'[i].run = drv'[q].run
        PROVE  BaseAt(i, drv[q].buf)' /\ CplBaseAt(i, drv[q].buf)'
    <3>1. drv[q].pc # "idle" /\ drv'[q].buf = drv[q].buf /\ drv'[q].run = drv[q].run
      BY <2>2, <2>5, Zenon DEF At
    <3>2. BaseAt(i, drv[q].buf) /\ CplBaseAt(i, drv[q].buf)
      BY <2>1, <2>5, <3>1, Zenon DEF RingInv, RingOwn, At
    <3> QED BY <2>1, <3>1, <3>2, Zenon DEF BaseAt, CplBaseAt
  <2> QED BY <2>3, <2>4, <2>5, Zenon DEF RingOwn
<1> QED BY <1>1, <1>2, <1>3, <1>4, <1>5, Zenon DEF Kinds, AddressKind

-----------------------------------------------------------------------------

(* What a run has earned.                                                  *)

\* New requests are always the harness's.
LEMMA WorkOrigin ==
  ASSUME RingInv, Kinds PROVE WorkFrom
<1>1. ASSUME work' = work PROVE WorkFrom
  BY <1>1, WorkStays, Zenon
<1>2. ASSUME NEW p \in Callers, NEW n \in Nat, NEW b \in Pool, BeginEffect(p, n, b) PROVE WorkFrom
  BY <1>1, <1>2, Zenon DEF BeginEffect
<1>3. ASSUME NEW p \in Callers, LockEffect(p) PROVE WorkFrom
  BY <1>1, <1>3, Zenon DEF LockEffect
<1>4. ASSUME NEW p \in Callers, Issues(p) PROVE WorkFrom
  BY <1>1, <1>4, OwnIssue, Zenon
<1>5. ASSUME HarnessAccessEffect PROVE WorkFrom
  BY <1>1, <1>5, Zenon DEF HarnessAccessEffect
<1> QED BY <1>2, <1>3, <1>4, <1>5, Zenon DEF Kinds, AddressKind, RingKept

\* A run at the harness was there before, or was the first access queued.
LEMMA RunOrigin ==
  ASSUME RingInv, Kinds, h'.pc # "poll"
  PROVE  \/ h.pc # "poll" /\ h'.run = h.run
         \/ 1 \in DOMAIN mmio /\ mmio[1].reg = "TAIL" /\ h'.run = mmio[1].run
<1>1. ASSUME h' = h PROVE h.pc # "poll" /\ h'.run = h.run
  BY <1>1, Zenon
<1>2. ASSUME NEW p \in Callers, NEW n \in Nat, NEW b \in Pool, BeginEffect(p, n, b) PROVE h' = h
  BY <1>2, Zenon DEF BeginEffect, harnessVars
<1>3. ASSUME NEW p \in Callers, LockEffect(p) PROVE h' = h
  BY <1>3, Zenon DEF LockEffect, harnessVars
<1>4. ASSUME NEW p \in Callers, Issues(p) PROVE h' = h
  BY <1>4, OwnIssue, Zenon
<1>5. ASSUME HarnessAccessEffect PROVE 1 \in DOMAIN mmio /\ mmio[1].reg = "TAIL" /\ h'.run = mmio[1].run
  <2>1. 1 \in DOMAIN mmio
    BY <1>5, EffectTaken, Zenon DEF RingInv
  <2>2. h' # h
    BY <1>5, Zenon DEF HarnessAccessEffect
  <2> QED BY <1>5, <2>1, <2>2, Zenon DEF HarnessAccessEffect, Starts
<1> QED BY <1>1, <1>2, <1>3, <1>4, <1>5, Zenon DEF Kinds, AddressKind, RingKept

\* Before its first doorbell nothing carries the ioctl's run.
LEMMA NotBegunStep ==
  ASSUME RingInv, Kinds PROVE NotBegun'
<1>0. NotBegun /\ work \in Seq(WorkRecord) /\ log \in Seq(LogRecord)
  BY Zenon DEF RingInv, TypeInv
<1>1. ASSUME NEW q \in Callers, NotYet(q)'
      PROVE  /\ \A i \in DOMAIN mmio' : mmio'[i].reg = "TAIL" => mmio'[i].run # drv'[q].run
             /\ h'.pc # "poll" => h'.run # drv'[q].run
             /\ Descs(q)' = 0
  <2>1. CASE \E n \in Nat, b \in Pool : BeginEffect(q, n, b)
    <3>1. PICK n \in Nat, b \in Pool : BeginEffect(q, n, b)
      BY <2>1, Zenon
    <3>2. UNCHANGED <<mmio, h>> /\ drv'[q].run = Len(log) + 1 /\ LogMore(n, "busy", b)
      BY <3>1, Zenon DEF BeginEffect, harnessVars
    <3>3. Len(log) + 1 \notin DOMAIN log
      BY <1>0
    <3>4. (\A i \in DOMAIN mmio : mmio[i].run \in DOMAIN log) /\ (h.pc # "poll" => h.run \in DOMAIN log)
      BY Zenon DEF RingInv, RpcOk, HarnessOk
    <3>6. log'[Len(log) + 1].descs = 0
      BY <3>2, Zenon DEF LogMore
    <3> QED BY <3>2, <3>3, <3>4, <3>6, Zenon DEF Descs
  <2>2. CASE NotYet(q) /\ drv'[q].run = drv[q].run /\ drv'[q].buf = drv[q].buf
    <3>1. /\ \A i \in DOMAIN mmio : mmio[i].reg = "TAIL" => mmio[i].run # drv[q].run
          /\ h.pc # "poll" => h.run # drv[q].run
          /\ log[drv[q].run].descs = 0
      BY <1>0, <2>2, Zenon DEF NotBegun, NotYet, Descs
    <3>2. drv[q].pc # "idle"
      BY <2>2, Zenon DEF NotYet, At
    <3>3. ASSUME NEW i \in DOMAIN mmio', mmio'[i].reg = "TAIL" PROVE mmio'[i].run # drv[q].run
      <4>1. ASSUME NEW p \in Callers, RingEffect(p), mmio'[i].run = drv[p].run PROVE mmio'[i].run # drv[q].run
        <5>1. drv'[p].pc = "rung" /\ drv[p].pc = "ring"
          BY <4>1, Zenon DEF RingEffect, GoesTo, At
        <5>2. p # q
          BY <1>1, <5>1, Zenon DEF NotYet, At
        <5> QED BY <3>2, <4>1, <5>1, <5>2 DEF RingInv, CallersOk, At
      <4> QED BY <3>1, <3>3, <4>1, TailOrigin, Zenon
    <3>4. h'.pc # "poll" => h'.run # drv[q].run
      BY <3>1, RunOrigin, Zenon
    <3>6. Descs(q)' = 0
      <4>1. drv[q].run \in DOMAIN log
        BY <3>2, Zenon DEF RingInv, CallersOk, At
      <4> QED BY <2>2, <3>1, <4>1, DescsKept, Zenon DEF Descs
    <3> QED BY <2>2, <3>3, <3>4, <3>6, Zenon
  <2> QED BY <1>1, <2>1, <2>2, NotYetFrom, Zenon
<1> QED BY <1>1, Zenon DEF NotBegun, NotYet

\* From the head of the loop to the doorbell.
LEMMA BeforeOkStep ==
  ASSUME RingInv, Kinds PROVE BeforeOk'
<1> SUFFICES ASSUME NEW p \in Callers, Sure(p)', drv'[p].pc \in {"setup", "fill", "poll", "ring"}
             PROVE  Before(p)'
  BY Zenon DEF BeforeOk
<1>a. drv'[p].pc \in Locked
  BY Zenon DEF Locked
<1>0. /\ Sure(p) /\ (Timely' => Timely) /\ loop.iter \in Nat /\ loop.tail \in Nat /\ work \in Seq(WorkRecord)
      /\ drv[p].iters \in Nat
  BY <1>a, SureStep, TimelyStep, Zenon DEF RingInv, TypeInv, CallerRecord
<1>b. ASSUME drv[p].pc \in {"setup", "fill", "poll", "ring"} PROVE Before(p) /\ drv[p].pc \in Locked
  BY <1>0, <1>b, Zenon DEF RingInv, BeforeOk, Locked
<1>c. ASSUME Before(p), ~Silent PROVE loop.iter = 0 /\ ~Timely
  BY <1>0, <1>c DEF Before
<1>1. ASSUME Aside PROVE Before(p)'
  <2>1. drv'[p] = drv[p] /\ mem'[drv[p].buf] = mem[drv[p].buf] /\ UNCHANGED <<loop, mmio, h, reg, work, irqDone>>
    BY <1>1, <1>a, Zenon DEF Aside
  <2>2. Before(p) /\ drv[p].run \in DOMAIN log
    BY <1>b, <2>1, Zenon DEF RingInv, CallersOk, At, Locked
  <2>3. log'[drv[p].run] = log[drv[p].run]
    BY <1>1, <2>2, Zenon DEF Aside
  <2>4. Silent' <=> Silent
    BY <2>1, Zenon DEF Silent, NoTail
  <2> QED BY <1>0, <2>1, <2>2, <2>3, <2>4, Zenon DEF Before, Empty, Descs, At
<1>2. ASSUME NEW q \in Callers, LockEffect(q) PROVE Before(p)'
  <2>1. p = q
    BY <1>2, <1>a, Holder, Zenon
  <2>2. /\ drv[p].pc = "lock" /\ lock = NoCaller /\ loop' = [iter |-> 0, tail |-> 0, n |-> 1] /\ GoesTo(p, "setup")
        /\ UNCHANGED <<irqDone, mmio, h, reg, work, log>>
    BY <1>2, <2>1, Zenon DEF LockEffect, harnessVars, At
  <2>3. Descs(p) = 0
    BY <2>2, Zenon DEF RingInv, NotBegun, At
  <2>4. Timely' => Silent'
    BY <1>0, <2>2, Zenon DEF RingInv, IdleSilent, Silent, NoTail
  <2> QED BY <1>0, <2>2, <2>3, <2>4 DEF Before, Descs, GoesTo, At
<1>3. ASSUME NEW q \in Callers, HolderStep(q) PROVE Before(p)'
  <2>1. p = q
    BY <1>3, <1>a, Holder, Zenon
  <2>2. CASE Programs(p)
    <3>1. /\ loop'.iter = loop.iter /\ loop'.tail = loop.tail
          /\ UNCHANGED <<irqDone, mem, h, reg, work, log>>
          /\ drv'[p].buf = drv[p].buf /\ drv'[p].iters = drv[p].iters /\ drv'[p].run = drv[p].run
          /\ \/ drv[p].pc = "setup" /\ drv'[p].pc \in {"setup", "fill"}
             \/ drv[p].pc = "poll" /\ drv'[p].pc \in {"poll", "ring"}
      BY <2>2, Zenon DEF Programs, GoesTo
    <3>2. Before(p)
      BY <1>b, <3>1, Zenon
    <3>3. NoTail => NoTail'
      <4>1. ASSUME NEW i \in DOMAIN mmio', mmio'[i].reg = "TAIL"
            PROVE  \E j \in DOMAIN mmio : mmio[j] = mmio'[i]
        <5>1. ASSUME NEW c \in Callers PROVE ~RingEffect(c)
          <6>1. ASSUME RingEffect(c) PROVE drv[c].pc = "ring" /\ drv[p].pc \in Locked
            BY <3>1, <6>1, Zenon DEF RingEffect, At, Locked
          <6> QED BY <6>1, <3>1, Alone, Zenon DEF RingInv, Locked
        <5> QED BY <4>1, <5>1, TailOrigin, Zenon
      <4> QED BY <4>1, Zenon DEF NoTail
    <3>4. Silent => Silent'
      BY <3>1, <3>3, Zenon DEF Silent
    <3> QED BY <1>0, <3>1, <3>2, <3>4, Zenon DEF Before, Empty, Descs, At
  <2>3. CASE Fills(p)
    <3>1. /\ loop'.iter = loop.iter /\ loop'.tail = loop.tail /\ drv[p].pc = "fill" /\ drv'[p].pc = "poll"
          /\ UNCHANGED <<irqDone, mmio, h, reg, work, log>> /\ loop.iter < drv[p].iters
          /\ drv'[p].buf = drv[p].buf /\ drv'[p].iters = drv[p].iters /\ drv'[p].run = drv[p].run
          /\ \A s \in Slots : mem'[drv[p].buf].cpl[s] = NoCpl
      BY <2>3, Zenon DEF Fills, GoesTo
    <3>2. Before(p)
      BY <1>b, <3>1, Zenon
    <3>3. Silent' <=> Silent
      BY <3>1, Zenon DEF Silent, NoTail
    <3>4. Empty(p)'
      BY <3>1, Zenon DEF Empty
    <3> QED BY <1>0, <3>1, <3>2, <3>3, <3>4, Zenon DEF Before, Descs, At
  <2>4. CASE Passes(p)
    <3>1. /\ drv[p].pc = "check" /\ drv'[p].pc = "fill" /\ loop'.iter = loop.iter + 1 /\ loop'.tail = loop.tail
          /\ drv'[p].buf = drv[p].buf /\ drv'[p].iters = drv[p].iters /\ drv'[p].run = drv[p].run
          /\ UNCHANGED <<irqDone, mem, mmio, h, reg, work, log>>
          /\ \A s \in Slots : mem[drv[p].buf].cpl[s].tag = s /\ mem[drv[p].buf].cpl[s].status = 0
      BY <2>4, Zenon DEF Passes, GoesTo
    <3>2. During(p)
      BY <1>0, <3>1, Zenon DEF RingInv, DuringOk
    <3>3. 1 \in Slots /\ ~Empty(p)
      BY <3>1 DEF Empty, Slots, NoCpl
    <3>4. Over(p)
      BY <3>1, <3>2, <3>3, Zenon DEF During, Waiting, Running, Stuck, Out, At
    <3>5. /\ mmio = <<>> /\ h.pc = "poll" /\ irqDone = 0 /\ work = <<>>
          /\ reg.head = loop.tail /\ reg.status = 0 /\ Descs(p) = 2 * loop.iter + 2
          /\ loop.iter < drv[p].iters /\ loop.tail = 2 * loop.iter + 2
      BY <3>1, <3>2, <3>3, <3>4, Zenon DEF Over, Token, At, During
    <3>6. Silent'
      BY <3>1, <3>5 DEF Silent, NoTail
    <3> QED BY <1>0, <3>1, <3>5, <3>6 DEF Before, Descs, At
  <2> QED BY <1>3, <2>1, <2>2, <2>3, <2>4, Zenon DEF HolderStep, RingEffect, RingReturnEffect, WaitDoneEffect, Leaves, GoesTo
<1>4. ASSUME DeviceStep PROVE Before(p)'
  <2>1. UNCHANGED <<drv, loop>> /\ Before(p) /\ drv[p].pc \in Locked
    BY <1>4, <1>b, DeviceQuiet, Zenon
  <2>2. CASE ~Silent
    <3>1. loop.iter = 0 /\ ~Timely /\ ~Timely'
      BY <1>0, <1>c, <2>1, <2>2, Zenon
    <3>2. NotOn(drv[p].buf) /\ (h.pc # "poll" => h.run # drv[p].run) /\ drv[p].run \in DOMAIN log
          /\ drv[p].buf \in Pool
      <4>1. drv[p].pc \in {"setup", "fill", "poll", "ring"}
        BY <2>1, Zenon
      <4>2. NotOn(drv[p].buf) /\ (h.pc # "poll" => h.run # drv[p].run)
        BY <1>0, <3>1, <4>1, NotYetClean, Zenon DEF NotYet, Clean, RingInv, NotBegun
      <4>3. drv[p].run \in DOMAIN log /\ drv[p].buf \in Pool
        BY <4>1, Zenon DEF RingInv, CallersOk, At
      <4> QED BY <4>2, <4>3, Zenon
    <3>3. Descs(p)' = Descs(p)
      BY <2>1, <3>2, DescsKept, Zenon DEF Descs
    <3>4. Empty(p) => Empty(p)'
      <4>1. CASE mem' = mem
        BY <2>1, <4>1, Zenon DEF Empty
      <4>2. CASE BottomHalfEffect
        <5>1. 1 \in DOMAIN work
          BY <1>0, <4>2, TailFacts DEF BottomHalfEffect
        <5>2. work[1].buf # drv[p].buf
          BY <3>2, <5>1, Zenon DEF NotOn
        <5>3. \A s \in Slots : mem'[drv[p].buf].cpl[s] = mem[drv[p].buf].cpl[s]
          BY <3>2, <4>2, <5>2, Zenon DEF BottomHalfEffect
        <5> QED BY <2>1, <5>3, Zenon DEF Empty
      <4> QED BY <1>4, <4>1, <4>2, Zenon DEF DeviceStep, DmaRefused, HarnessAccessEffect, HarnessAsk, HarnessTimeout,
                                      HarnessDescEffect, HarnessXferEffect, HarnessCplEffect
    <3> QED BY <2>1, <3>1, <3>3, <3>4 DEF Before, At
  <2>3. CASE Silent
    <3>1. HarnessAccessEffect
      <4>1. work = <<>> /\ h.pc = "poll" /\ ans = "none"
        BY <2>3, Zenon DEF Silent, RingInv, TypeInv, AnswerOk
      <4> QED BY <1>4, <4>1, Zenon DEF DeviceStep, BottomHalfEffect, DmaRefused, Awaited, HarnessAsk, HarnessTimeout,
                                HarnessDescEffect, HarnessXferEffect, HarnessCplEffect
    <3>2. mmio[1].reg # "TAIL" /\ NoTail'
      BY <2>3, <3>1, EffectTaken, Zenon DEF Silent, NoTail, RingInv
    <3>3. h' = h /\ reg'.status = reg.status /\ reg'.head = reg.head /\ UNCHANGED <<work, irqDone, log, mem>>
      BY <3>1, <3>2, Zenon DEF HarnessAccessEffect, driverVars
    <3>4. Silent'
      BY <2>3, <3>2, <3>3, Zenon DEF Silent
    <3> QED BY <2>1, <3>3, <3>4, Zenon DEF Before, Empty, Descs, At
  <2> QED BY <2>2, <2>3, Zenon
<1> QED BY <1>1, <1>2, <1>3, <1>4, Zenon DEF Kinds, TurnKind

\* Nobody in the ioctl's critical section, nothing is under way.
LEMMA IdleSilentStep ==
  ASSUME RingInv, Kinds PROVE IdleSilent'
<1> SUFFICES ASSUME lock' = NoCaller, Timely' PROVE Silent'
  BY Zenon DEF IdleSilent
<1>0. Timely /\ (\A p \in Callers : Sure(p)) /\ NoCaller \notin Callers
  BY TimelyStep, TimelySure, RingAssumption, Zenon
<1>1. ASSUME Aside PROVE Silent'
  BY <1>0, <1>1, Zenon DEF Aside, RingInv, IdleSilent, Silent, NoTail
<1>2. ASSUME NEW p \in Callers, LockEffect(p) PROVE Silent'
  BY <1>0, <1>2, Zenon DEF LockEffect
<1>3. ASSUME NEW p \in Callers, HolderStep(p) PROVE Silent'
  <2>1. PICK res \in {"ok", "timeout", "io"} : Leaves(p, res)
    <3>1. CASE lock' = lock
      <4>1. drv[p].pc \in Locked
        BY <1>3, Zenon DEF HolderStep, Programs, Fills, RingEffect, RingReturnEffect, WaitDoneEffect, Passes, Leaves, Locked, At
      <4> QED BY <1>0, <3>1, <4>1 DEF RingInv, CallersOk
    <3> QED BY <1>3, <3>1, Zenon DEF HolderStep, Programs, Fills, RingEffect, RingReturnEffect, WaitDoneEffect, Passes
  <2>2. UNCHANGED <<irqDone, mmio, h, work, late>> /\ LogAs(drv[p].run, res, log[drv[p].run].descs)
    BY <2>1, Zenon DEF Leaves
  <2>3. Silent' <=> Silent
    BY <2>2, Zenon DEF Silent, NoTail
  <2>4. CASE drv[p].pc \in {"fill", "poll"}
    BY <1>0, <2>3, <2>4, Zenon DEF RingInv, BeforeOk, Before
  <2>5. CASE drv[p].pc = "wait" /\ res = "timeout" /\ irqDone = 0 /\ (late \/ Quiet)
    <3>1. drv[p].run \in DOMAIN log
      BY <2>5, Zenon DEF RingInv, CallersOk, At
    <3>2. drv[p].run \in DOMAIN log' /\ log'[drv[p].run].res = "timeout"
      <4>1. DOMAIN log' = DOMAIN log
        BY <2>2, LogSize, Zenon DEF RingInv
      <4> QED BY <2>2, <2>5, <3>1, <4>1, Zenon DEF LogAs
    <3>3. Quiet
      BY <2>2, <2>5, <3>2, Zenon DEF Timely
    <3> QED BY <2>3, <2>5, <3>3 DEF Quiet, Silent, NoTail
  <2>6. CASE drv[p].pc = "check"
    <3>1. During(p) /\ At(p, "check")
      BY <1>0, <2>6, Zenon DEF RingInv, DuringOk, At
    <3>2. Over(p)
      BY <1>0, <3>1, Zenon DEF During, Waiting, Running, Stuck, Out
    <3> QED BY <2>3, <3>1, <3>2 DEF Over, Token, Silent, NoTail
  <2> QED BY <2>1, <2>4, <2>5, <2>6, Zenon DEF Leaves
<1>4. ASSUME DeviceStep PROVE Silent'
  <2>1. Silent
    BY <1>0, <1>4, DeviceQuiet, Zenon DEF RingInv, IdleSilent
  <2>2. HarnessAccessEffect
    <3>1. work = <<>> /\ h.pc = "poll" /\ ans = "none"
      BY <2>1, Zenon DEF Silent, RingInv, TypeInv, AnswerOk
    <3> QED BY <1>4, <3>1, Zenon DEF DeviceStep, BottomHalfEffect, DmaRefused, Awaited, HarnessAsk, HarnessTimeout,
                              HarnessDescEffect, HarnessXferEffect, HarnessCplEffect
  <2>3. mmio[1].reg # "TAIL" /\ NoTail'
    BY <2>1, <2>2, EffectTaken, Zenon DEF Silent, NoTail, RingInv
  <2> QED BY <2>1, <2>2, <2>3, Zenon DEF HarnessAccessEffect, driverVars, Silent
<1> QED BY <1>1, <1>2, <1>3, <1>4, Zenon DEF Kinds, TurnKind

\* Nothing under way at all leaves nothing at an address.
LEMMA SilentClean == ASSUME NEW b, h.pc = "poll", NoTail, work = <<>> PROVE Clean(b)
<1>1. NotOn(b)
  BY DEF NotOn
<1> QED BY <1>1, Zenon DEF Clean, NoTail

\* An address whose ioctl has returned or has not rung the doorbell stays clean.
LEMMA CleanStep ==
  ASSUME RingInv, Kinds, NEW b \in Pool, Clean(b), \A p \in Callers : ~(Begun(p)' /\ drv'[p].buf = b)
  PROVE  Clean(b)'
<1>0. /\ NotOn(b) /\ (h.pc # "poll" => reg.base # b /\ reg.cplBase # b) /\ reg.head \in Nat
      /\ \A i \in DOMAIN mmio :
           mmio[i].reg = "TAIL" /\ (BaseAt(i, b) \/ CplBaseAt(i, b)) => mmio[i].val <= reg.head
  BY Zenon DEF Clean, RingInv, TypeInv, RegRecord
<1>a. NotOn(b)'
  BY <1>0, WorkOrigin, Zenon DEF WorkFrom, NotOn
<1>1. ASSUME UNCHANGED <<mmio, reg, h>> PROVE Clean(b)'
  BY <1>0, <1>1, <1>a, Zenon DEF Clean, BaseAt, CplBaseAt
<1>2. ASSUME NEW p \in Callers, NEW n \in Nat, NEW c \in Pool, BeginEffect(p, n, c) PROVE UNCHANGED <<mmio, reg, h>>
  BY <1>2, Zenon DEF BeginEffect, harnessVars
<1>3. ASSUME NEW p \in Callers, LockEffect(p) PROVE UNCHANGED <<mmio, reg, h>>
  BY <1>3, Zenon DEF LockEffect, harnessVars
<1>4. ASSUME NEW p \in Callers, Issues(p) PROVE Clean(b)'
  <2>1. PICK a \in AccessRecord :
          /\ Issue(a) /\ (a.reg = "TAIL" <=> RingEffect(p))
          /\ a.reg = "TAIL" => BaseAt(Len(mmio) + 1, drv[p].buf) /\ CplBaseAt(Len(mmio) + 1, drv[p].buf)
    BY <1>4, OwnIssue, Zenon
  <2>2. UNCHANGED <<reg, h>>
    BY <1>4, OwnIssue, Zenon
  <2>3. /\ \A i \in DOMAIN mmio' : (i \in DOMAIN mmio /\ mmio'[i] = mmio[i]) \/ (i = Len(mmio) + 1 /\ mmio'[i] = a)
        /\ \A i \in DOMAIN mmio : i \in 1..(Len(mmio) + 1)
        /\ Len(mmio) + 1 \in 1..(Len(mmio) + 1) /\ Len(mmio) + 1 \in Nat
    BY <2>1, <2>2, EffectIssue DEF RingInv
  <2>4. \A i \in 1..(Len(mmio) + 1) : (BaseAt(i, b)' => BaseAt(i, b)) /\ (CplBaseAt(i, b)' => CplBaseAt(i, b))
    BY <2>1, <2>2, EffectIssue, Zenon DEF RingInv
  <2>5. ASSUME a.reg = "TAIL" PROVE ~BaseAt(Len(mmio) + 1, b) /\ ~CplBaseAt(Len(mmio) + 1, b)
    <3>1. RingEffect(p) /\ drv'[p].pc = "rung" /\ drv'[p].buf = drv[p].buf
      BY <2>1, <2>5, Zenon DEF RingEffect, GoesTo
    <3>2. drv[p].buf # b
      BY <3>1, Zenon DEF Begun
    <3>3. ~BaseAt(Len(mmio) + 1, b)
      BY <2>1, <2>3, <2>5, <3>2, EffectUnique, Zenon DEF BaseAt
    <3>4. ~CplBaseAt(Len(mmio) + 1, b)
      BY <2>1, <2>3, <2>5, <3>2, EffectUnique, Zenon DEF CplBaseAt
    <3> QED BY <3>3, <3>4, Zenon
  <2>6. ASSUME NEW i \in DOMAIN mmio', mmio'[i].reg = "TAIL", BaseAt(i, b)' \/ CplBaseAt(i, b)'
        PROVE  mmio'[i].val <= reg.head
    <3>1. CASE i \in DOMAIN mmio /\ mmio'[i] = mmio[i]
      BY <1>0, <2>3, <2>4, <2>6, <3>1, Zenon
    <3>2. CASE i = Len(mmio) + 1 /\ mmio'[i] = a
      BY <2>3, <2>4, <2>5, <2>6, <3>2, Zenon
    <3> QED BY <2>3, <3>1, <3>2, Zenon
  <2> QED BY <1>0, <1>a, <2>2, <2>6, Zenon DEF Clean
<1>5. ASSUME HarnessAccessEffect PROVE Clean(b)'
  <2>1. /\ 1 \in DOMAIN mmio
        /\ \A i \in DOMAIN mmio' : i + 1 \in DOMAIN mmio /\ i \in 1..Len(mmio) /\ mmio'[i] = mmio[i + 1]
    BY <1>5, EffectTaken, Zenon DEF RingInv
  <2>2. \A i \in 1..Len(mmio) : (BaseAt(i, b)' => BaseAt(i + 1, b)) /\ (CplBaseAt(i, b)' => CplBaseAt(i + 1, b))
    BY <1>5, EffectTaken, Zenon DEF RingInv
  <2>3. reg'.head = reg.head /\ h.pc = "poll"
    BY <1>5, Zenon DEF HarnessAccessEffect
  <2>4. \A i \in DOMAIN mmio' :
          mmio'[i].reg = "TAIL" /\ (BaseAt(i, b)' \/ CplBaseAt(i, b)') => mmio'[i].val <= reg'.head
    BY <1>0, <2>1, <2>2, <2>3, Zenon
  <2>5. ASSUME h'.pc # "poll" PROVE reg'.base # b /\ reg'.cplBase # b
    <3>1. Starts(mmio[1])
      BY <1>5, <2>3, <2>5, Zenon DEF HarnessAccessEffect
    <3>2. mmio[1].reg = "TAIL" /\ ~(mmio[1].val <= reg.head) /\ reg' = reg
      BY <1>0, <3>1 DEF Starts
    <3>3. ~BaseAt(1, b) /\ ~CplBaseAt(1, b)
      BY <1>0, <2>1, <3>2, Zenon
    <3> QED BY <3>2, <3>3, EffectNow DEF BaseAt, CplBaseAt
  <2> QED BY <1>a, <2>4, <2>5, Zenon DEF Clean
<1>6. ASSUME RingKept PROVE Clean(b)'
  <2>1. /\ mmio' = mmio /\ reg'.base = reg.base /\ reg'.cplBase = reg.cplBase /\ (h'.pc # "poll" => h.pc # "poll")
        /\ reg'.head = reg.head \/ reg'.head = reg.head + 2
    BY <1>6, Zenon DEF RingKept
  <2>2. \A i \in DOMAIN mmio : mmio[i].reg = "TAIL" => mmio[i].val \in Int
    <3>1. mmio \in Seq(AccessRecord)
      BY Zenon DEF RingInv, TypeInv
    <3>2. ASSUME NEW a \in AccessRecord, a.reg = "TAIL" PROVE a.val \in Doorbells
      BY <3>2, Zenon DEF AccessRecord
    <3>3. \A i \in DOMAIN mmio : mmio[i] \in AccessRecord
      BY <3>1
    <3> QED BY <3>2, <3>3 DEF Doorbells
  <2>3. \A i \in DOMAIN mmio : mmio[i].reg = "TAIL" /\ mmio[i].val <= reg.head => mmio[i].val <= reg'.head
    BY <1>0, <2>1, <2>2
  <2>4. (BaseAt(1, b)' <=> BaseAt(1, b)) /\ \A i : (BaseAt(i, b)' => BaseAt(i, b)) /\ (CplBaseAt(i, b)' => CplBaseAt(i, b))
    BY <2>1, Zenon DEF BaseAt, CplBaseAt
  <2> QED BY <1>0, <1>a, <2>1, <2>3, <2>4, Zenon DEF Clean
<1> QED BY <1>1, <1>2, <1>3, <1>4, <1>5, <1>6, Zenon DEF Kinds, AddressKind

\* A call that has rung the doorbell is done with it when it leaves.
LEMMA BegunEnds ==
  ASSUME RingInv, Kinds, NEW p \in Callers, Begun(p), ~(Begun(p)' /\ drv'[p].buf = drv[p].buf)
  PROVE  \E res \in {"ok", "timeout", "io"} : Leaves(p, res)
<1>0. drv[p].pc \in Locked /\ loop.iter \in Nat
  BY Zenon DEF Begun, Locked, RingInv, TypeInv
<1>1. ASSUME Aside PROVE FALSE
  BY <1>0, <1>1, Zenon DEF Aside, Begun
<1>2. ASSUME DeviceStep PROVE FALSE
  BY <1>2, DeviceQuiet, Zenon DEF Begun
<1>3. ASSUME NEW q \in Callers, LockEffect(q) PROVE FALSE
  <2>1. p = q
    BY <1>0, <1>3, Holder, Zenon
  <2> QED BY <1>0, <1>3, <2>1, Zenon DEF LockEffect, At, Locked
<1>4. ASSUME NEW q \in Callers, HolderStep(q) PROVE \E res \in {"ok", "timeout", "io"} : Leaves(p, res)
  <2>1. p = q
    BY <1>0, <1>4, Holder, Zenon
  <2>2. CASE Programs(p) \/ Fills(p)
    BY <2>2, Zenon DEF Programs, Fills, GoesTo, Begun
  <2>3. CASE Passes(p)
    <3>1. drv'[p].pc = "fill" /\ drv'[p].buf = drv[p].buf /\ loop'.iter = loop.iter + 1
      BY <2>3, Zenon DEF Passes, GoesTo
    <3> QED BY <1>0, <3>1 DEF Begun
  <2>4. CASE RingEffect(p) \/ RingReturnEffect(p) \/ WaitDoneEffect(p)
    BY <2>4, Zenon DEF RingEffect, RingReturnEffect, WaitDoneEffect, GoesTo, Begun
  <2> QED BY <1>4, <2>1, <2>2, <2>3, <2>4, Zenon DEF HolderStep
<1> QED BY <1>1, <1>2, <1>3, <1>4, Zenon DEF Kinds, TurnKind

\* Only a wait that ended too early leaves an address in use behind.
LEMMA RingFreshStep ==
  ASSUME RingInv, Kinds PROVE RingFresh'
<1> SUFFICES ASSUME NEW b \in Pool, ~Tainted(b)', \A p \in Callers : ~(Begun(p)' /\ drv'[p].buf = b)
             PROVE  Clean(b)'
  BY Zenon DEF RingFresh
<1>1. ~Tainted(b)
  BY TimelyStep, Zenon
<1>2. CASE Clean(b)
  BY <1>2, CleanStep, Zenon
<1>3. ASSUME NEW p \in Callers, Begun(p), drv[p].buf = b PROVE Clean(b)'
  <2>1. PICK res \in {"ok", "timeout", "io"} : Leaves(p, res)
    BY <1>3, BegunEnds, Zenon
  <2>2. /\ LogAs(drv[p].run, res, log[drv[p].run].descs) /\ lock' = NoCaller /\ Sure(p)
        /\ UNCHANGED <<mmio, reg, h, work, late>>
    BY <1>1, <1>3, <2>1, Zenon DEF Leaves, Sure
  <2>3. DOMAIN log' = DOMAIN log /\ drv[p].run \in DOMAIN log /\ log[drv[p].run].buf = b
    <3>1. ~At(p, "idle")
      BY <1>3, Zenon DEF Begun, At
    <3> QED BY <1>3, <2>2, <3>1, LogSize, Zenon DEF RingInv, CallersOk, LogOwn
  <2>4. CASE res = "timeout"
    <3>1. log'[drv[p].run].res = "timeout" /\ log'[drv[p].run].buf = b
      BY <2>2, <2>3, <2>4, Zenon DEF LogAs
    <3>2. ~late'
      BY <2>3, <3>1, Zenon DEF Tainted
    <3>3. Silent'
      BY <2>2, <3>2, IdleSilentStep, Zenon DEF IdleSilent, Timely
    <3>4. h.pc = "poll" /\ NoTail /\ work = <<>>
      BY <2>2, <3>3, Zenon DEF Silent, NoTail
    <3> QED BY <2>2, <3>4, SilentClean, Zenon DEF Clean, NotOn, BaseAt, CplBaseAt
  <2>5. ASSUME Clean(b) PROVE Clean(b)'
    BY <2>2, <2>5, Zenon DEF Clean, NotOn, BaseAt, CplBaseAt
  <2>6. CASE res = "ok"
    <3>1. drv[p].pc = "fill" /\ Before(p) /\ loop.iter > 0
      BY <1>3, <2>1, <2>2, <2>6, Zenon DEF Leaves, RingInv, BeforeOk, Begun
    <3>2. Silent
      BY <3>1, Zenon DEF Before
    <3> QED BY <2>5, <3>2, SilentClean, Zenon DEF Silent
  <2>7. CASE res = "io"
    <3>1. During(p) /\ At(p, "check")
      BY <2>1, <2>2, <2>7, Zenon DEF Leaves, RingInv, DuringOk, At
    <3>2. CASE Over(p)
      <4>1. h.pc = "poll" /\ NoTail /\ work = <<>>
        BY <3>1, <3>2 DEF Over, Token, NoTail
      <4> QED BY <2>5, <4>1, SilentClean, Zenon
    <3>3. CASE Out(p)
      <4>1. /\ NotOn(b) /\ h.pc = "poll" /\ reg.head >= loop.tail /\ loop.tail \in Nat /\ reg.head \in Nat
            /\ mmio = <<>> \/ OneTail(p)
        BY <1>3, <3>3, Zenon DEF Out, RingInv, TypeInv, RegRecord
      <4>2. \A i \in DOMAIN mmio : mmio[i].val <= reg.head
        BY <4>1 DEF OneTail, RingInv, TypeInv
      <4> QED BY <2>5, <4>1, <4>2, Zenon DEF Clean
    <3> QED BY <3>1, <3>2, <3>3, Zenon DEF During, Waiting, Running, Stuck
  <2> QED BY <2>4, <2>6, <2>7, Zenon
<1> QED BY <1>1, <1>2, <1>3, Zenon DEF RingInv, RingFresh

\* From the doorbell to the check.
LEMMA DuringOkStep ==
  ASSUME RingInv, Kinds PROVE DuringOk'
<1> SUFFICES ASSUME NEW p \in Callers, Sure(p)', drv'[p].pc \in {"rung", "wait", "check"}
             PROVE  During(p)'
  BY Zenon DEF DuringOk
<1>0. Sure(p) /\ (Timely' => Timely) /\ drv'[p].pc \in Locked
  BY SureStep, TimelyStep, Zenon DEF Locked
<1>a. ASSUME drv[p].pc \in {"rung", "wait", "check"}
      PROVE  During(p) /\ ~At(p, "idle") /\ drv[p].pc \in Locked /\ drv[p].run \in DOMAIN log
  BY <1>0, <1>a, Zenon DEF RingInv, DuringOk, CallersOk, At, Locked
<1>b. ASSUME NEW q \in Callers, Leaves(q, "timeout") PROVE FALSE
  <2>1. GoesTo(q, "free") /\ HolderStep(q)
    BY <1>b, Zenon DEF Leaves, HolderStep
  <2>2. p # q
    BY <2>1, Zenon DEF GoesTo
  <2> QED BY <1>0, <2>1, <2>2, Holder, Zenon
<1>c. Timely => Timely'
  BY <1>b, TimelyStep, Zenon
<1>1. ASSUME Aside PROVE During(p)'
  <2>1. /\ drv'[p] = drv[p] /\ mem'[drv[p].buf] = mem[drv[p].buf] /\ UNCHANGED <<loop, mmio, h, reg, work, irqDone, ans>>
        /\ \A r \in DOMAIN log : log'[r] = log[r]
    BY <1>0, <1>1, Zenon DEF Aside
  <2>2. During(p) /\ drv[p].run \in DOMAIN log
    BY <1>a, <2>1, Zenon
  <2> QED BY <1>0, <1>c, <2>1, <2>2, DuringStill, Zenon
<1>2. ASSUME NEW q \in Callers, LockEffect(q) PROVE FALSE
  <2>1. q = p
    BY <1>0, <1>2, Holder, Zenon
  <2> QED BY <1>2, <2>1, Zenon DEF LockEffect, GoesTo
<1>3. ASSUME NEW q \in Callers, HolderStep(q) PROVE During(p)'
  <2>1. q = p
    BY <1>0, <1>3, Holder, Zenon
  <2>2. CASE RingEffect(p)
    BY <1>0, <2>2, DuringRing, Zenon
  <2>3. CASE RingReturnEffect(p)
    <3>1. /\ drv[p].pc = "rung" /\ drv'[p].pc = "wait" /\ UNCHANGED <<loop, irqDone, mmio, reg, h, work, ans, mem, log>>
          /\ drv'[p].buf = drv[p].buf /\ drv'[p].iters = drv[p].iters /\ drv'[p].run = drv[p].run
      BY <2>3, Zenon DEF RingReturnEffect, GoesTo, harnessVars, At
    <3>2. During(p)
      BY <1>a, <3>1, Zenon
    <3> QED BY <1>0, <1>c, <3>1, <3>2, DuringStill, Zenon
  <2>4. CASE WaitDoneEffect(p)
    <3>1. During(p)
      BY <1>a, <2>4, Zenon DEF WaitDoneEffect, At
    <3> QED BY <2>4, <3>1, DuringWake, Zenon
  <2> QED BY <1>3, <2>1, <2>2, <2>3, <2>4, Zenon DEF HolderStep, Programs, Fills, Passes, Leaves, GoesTo
<1>4. ASSUME DeviceStep PROVE During(p)'
  <2>1. UNCHANGED <<drv, loop>> /\ During(p) /\ ~At(p, "idle")
    BY <1>4, <1>a, DeviceQuiet, Zenon
  <2>2. CASE BottomHalfEffect
    BY <2>1, <2>2, DuringBottom, Zenon
  <2>3. CASE HarnessAccessEffect
    BY <2>1, <2>3, DuringAccess, Zenon
  <2>4. CASE HarnessAsk \/ DmaRefused \/ HarnessDescEffect \/ HarnessXferEffect
    BY <2>1, <2>4, DuringWork, Zenon
  <2>5. CASE HarnessCplEffect
    BY <2>1, <2>5, DuringCpl, Zenon
  <2>6. CASE HarnessTimeout
    <3>1. UNCHANGED <<drv, loop, irqDone, mmio, reg, h, work, mem, log>> /\ ans' # "ok"
      BY <2>6, Zenon DEF HarnessTimeout, driverVars
    <3> QED BY <1>0, <1>c, <2>1, <3>1, DuringStill, Zenon
  <2> QED BY <1>4, <2>2, <2>3, <2>4, <2>5, <2>6, Zenon DEF DeviceStep
<1> QED BY <1>1, <1>2, <1>3, <1>4, Zenon DEF Kinds, TurnKind

\* A run that passed executed its descriptors and will not execute more.
LEMMA EarnedStep ==
  ASSUME RingInv, Kinds PROVE Earned'
<1> SUFFICES ASSUME NEW r \in DOMAIN log', log'[r].res = "ok", ~Abandoned(r)'
             PROVE  /\ log'[r].descs = 2 * log'[r].iters
                    /\ h'.pc # "poll" => h'.run # r
                    /\ \A i \in DOMAIN mmio' : mmio'[i].reg = "TAIL" => mmio'[i].run # r
  BY Zenon DEF Earned
<1>0. r \in DOMAIN log => ~Abandoned(r)
  BY TimelyStep, Zenon
<1>1. ASSUME r \in DOMAIN log, log[r].res = "ok"
      PROVE  /\ log'[r].descs = 2 * log'[r].iters
             /\ h'.pc # "poll" => h'.run # r
             /\ \A i \in DOMAIN mmio' : mmio'[i].reg = "TAIL" => mmio'[i].run # r
  <2>1. /\ log[r].descs = 2 * log[r].iters
        /\ h.pc # "poll" => h.run # r
        /\ \A i \in DOMAIN mmio : mmio[i].reg = "TAIL" => mmio[i].run # r
    BY <1>0, <1>1, Zenon DEF RingInv, Earned
  <2>2. log'[r].descs = 2 * log'[r].iters
    BY <1>1, <2>1, DescsKept, Zenon
  <2>3. h'.pc # "poll" => h'.run # r
    BY <2>1, RunOrigin, Zenon
  <2>4. ASSUME NEW i \in DOMAIN mmio', mmio'[i].reg = "TAIL" PROVE mmio'[i].run # r
    <3>1. ASSUME NEW p \in Callers, RingEffect(p) PROVE drv[p].run # r
      BY <1>1, <3>1, Zenon DEF RingEffect, RingInv, CallersOk, At
    <3> QED BY <2>1, <2>4, <3>1, TailOrigin, Zenon
  <2> QED BY <2>2, <2>3, <2>4, Zenon
<1>2. ASSUME Aside PROVE r \in DOMAIN log /\ log[r].res = "ok"
  BY <1>2, Zenon DEF Aside
<1>3. ASSUME NEW p \in Callers, NEW res, Leaves(p, res), ~(r \in DOMAIN log /\ log[r].res = "ok")
      PROVE  /\ log'[r].descs = 2 * log'[r].iters
             /\ h'.pc # "poll" => h'.run # r
             /\ \A i \in DOMAIN mmio' : mmio'[i].reg = "TAIL" => mmio'[i].run # r
  <2>1. LogAs(drv[p].run, res, log[drv[p].run].descs) /\ UNCHANGED <<h, mmio>>
    BY <1>3, Zenon DEF Leaves
  <2>2. r \in DOMAIN log /\ r = drv[p].run /\ res = "ok"
    <3>1. DOMAIN log' = DOMAIN log
      BY <2>1, LogSize, Zenon DEF RingInv
    <3> QED BY <1>3, <2>1, <3>1, Zenon DEF LogAs
  <2>3. drv[p].pc = "fill" /\ ~(loop.iter < drv[p].iters)
    BY <1>3, <2>2, Zenon DEF Leaves
  <2>a. Sure(p)
    <3>1. /\ log[r].res = "busy" /\ log[r].buf = drv[p].buf
          /\ \A q \in DOMAIN log : log[q].buf = drv[p].buf => q <= r
      BY <2>2, <2>3, Zenon DEF RingInv, CallersOk, LogOwn, At, Locked
    <3>2. \A q \in DOMAIN log : q <= r /\ q # r => q \in 1..(r - 1)
      BY <2>2 DEF RingInv, TypeInv
    <3>3. ASSUME NEW q \in DOMAIN log, log[q].res = "timeout", log[q].buf = drv[p].buf, late PROVE FALSE
      <4>1. q \in 1..(r - 1)
        BY <3>1, <3>2, <3>3, Zenon
      <4> QED BY <1>0, <2>2, <3>1, <3>3, <4>1, Zenon DEF Abandoned
    <3> QED BY <3>3, Zenon DEF Sure, Tainted
  <2>4. Before(p) /\ drv[p].iters > 0 /\ log[r].iters = drv[p].iters /\ drv[p].iters \in Nat /\ loop.iter \in Nat
    BY <2>2, <2>3, <2>a, Zenon DEF RingInv, BeforeOk, CallersOk, At, TypeInv, CallerRecord
  <2>5. loop.iter = drv[p].iters /\ Silent /\ log[r].descs = 2 * log[r].iters
    BY <2>2, <2>3, <2>4 DEF Before, Descs
  <2>6. log'[r].descs = log[r].descs /\ log'[r].iters = log[r].iters
    BY <2>1, <2>2, Zenon DEF LogAs
  <2> QED BY <2>1, <2>5, <2>6, Zenon DEF Silent, NoTail
<1>4. ASSUME NEW p \in Callers, LockEffect(p) \/ HolderStep(p) PROVE log' = log \/ \E res : Leaves(p, res)
  BY <1>4, Zenon DEF LockEffect, HolderStep, Programs, Fills, RingEffect, RingReturnEffect, WaitDoneEffect, Passes
<1>5. ASSUME DeviceStep PROVE r \in DOMAIN log /\ log[r].res = "ok"
  <2>1. CASE HarnessCplEffect
    <3>1. log' = log \/ LogAs(h.run, log[h.run].res, log[h.run].descs + 1)
      BY <2>1, Zenon DEF HarnessCplEffect, RunFails
    <3>2. DOMAIN log' = DOMAIN log
      BY <3>1, LogSize, Zenon DEF RingInv
    <3> QED BY <3>1, <3>2, Zenon DEF LogAs
  <2>2. log' = log \/ HarnessCplEffect
    BY <1>5, Zenon DEF DeviceStep, BottomHalfEffect, DmaRefused, HarnessAccessEffect, HarnessAsk, HarnessTimeout,
                HarnessDescEffect, HarnessXferEffect
  <2> QED BY <2>1, <2>2, Zenon
<1> QED BY <1>1, <1>2, <1>3, <1>4, <1>5 DEF Kinds, TurnKind

\* The device writes into a free buffer only when a wait ended too early.
LEMMA NoStrayStep ==
  ASSUME RingInv, Kinds PROVE NoStray'
<1> SUFFICES ASSUME Timely' PROVE ~stray'
  BY Zenon DEF NoStray
<1>0. Timely /\ (\A p \in Callers : Sure(p)) /\ ~stray /\ lock \in Callers \cup {NoCaller}
  BY TimelyStep, TimelySure, Zenon DEF RingInv, NoStray, TypeInv
<1>1. ASSUME BottomHalfEffect PROVE ~stray'
  <2>1. work # <<>> /\ (stray' => work[1].op # "MSIX" /\ ~mem[work[1].buf].live) /\ work \in Seq(WorkRecord)
    BY <1>0, <1>1, Zenon DEF BottomHalfEffect, RingInv, TypeInv
  <2>2. 1 \in DOMAIN work
    BY <2>1
  <2>3. lock \in Callers /\ ~Silent
    BY <1>0, <2>1, Zenon DEF RingInv, IdleSilent, Silent
  <2>4. PICK p \in Callers : p = lock
    BY <2>3, Zenon
  <2>5. drv[p].pc \in Locked
    BY <2>4, Zenon DEF RingInv, CallersOk
  <2>6. drv[p].pc \notin {"setup", "fill", "poll", "ring"}
    BY <1>0, <2>3, Zenon DEF RingInv, BeforeOk, Before
  <2>7. During(p) /\ mem[drv[p].buf].live
    BY <1>0, <2>5, <2>6, Zenon DEF Locked, RingInv, DuringOk, CallersOk, At
  <2>8. OnlyOn(drv[p].buf) \/ work[1].op = "MSIX"
    BY <1>0, <2>1, <2>7, Zenon DEF During, Waiting, Running, Over, Token, Stuck, Out
  <2> QED BY <2>1, <2>2, <2>7, <2>8, Zenon DEF OnlyOn
<1>2. ASSUME NEW p \in Callers, LockEffect(p) \/ HolderStep(p) PROVE stray' = stray
  BY <1>2, DriverQuiet, Zenon
<1>3. ASSUME DeviceStep PROVE stray' = stray \/ BottomHalfEffect
  BY <1>3, Zenon DEF DeviceStep, DmaRefused, HarnessAccessEffect, HarnessAsk, HarnessTimeout,
              HarnessDescEffect, HarnessXferEffect, HarnessCplEffect, hist
<1>4. ASSUME Aside PROVE stray' = stray
  BY <1>4, Zenon DEF Aside
<1> QED BY <1>0, <1>1, <1>2, <1>3, <1>4, Zenon DEF Kinds, TurnKind

(* Every action is a step of one of the kinds.                             *)

\* Every step is of one of these kinds.
LEMMA RingKinds ==
  ASSUME RingInv, [Next]_vars
  PROVE  AddressKind
<1>1. ASSUME UNCHANGED vars PROVE RingKept
  <2>1. UNCHANGED <<drv, loop, rpc, mmio, reg, h, work, mem>>
    BY <1>1, Zenon DEF vars, driverVars, harnessVars
  <2> QED BY <2>1, KeptStill, WorkStays, Zenon DEF RingKept
<1>2. ASSUME NEW p \in Callers, NEW n \in 1..MaxIters, NEW b \in Pool, Begin(p, n, b)
      PROVE  n \in Nat /\ BeginEffect(p, n, b)
  BY <1>2, BeginDoes, RingAssumption DEF RingInv
<1>3. ASSUME NEW p \in Callers, Lock(p) PROVE LockEffect(p)
  BY <1>3, LockDoes, Zenon DEF RingInv
<1>4. ASSUME NEW p \in Callers, SetupIssue(p) \/ PollIssue(p) \/ Ring(p) PROVE Issues(p)
  BY <1>4, SetupIssueDoes, PollIssueDoes, RingDoes, Zenon DEF RingInv, Issues
<1>5. ASSUME HarnessAccess PROVE HarnessAccessEffect
  BY <1>5, HarnessAccessDoes, Zenon DEF RingInv
<1>6. ASSUME NEW p \in Callers, AllocFails(p) PROVE RingKept
  <2>1. AllocFailsEffect(p)
    BY <1>6, AllocFailsDoes, Zenon DEF RingInv
  <2>2. UNCHANGED <<drv, loop, rpc, mmio, reg, h, work, mem>>
    BY <2>1, Zenon DEF AllocFailsEffect, driverVars, harnessVars
  <2> QED BY <2>2, KeptStill, WorkStays, Zenon DEF RingKept
<1>7. ASSUME NEW p \in Callers, SetupReturn(p) PROVE RingKept
  <2>1. SetupReturnEffect(p)
    BY <1>7, SetupReturnDoes, Zenon DEF RingInv
  <2>2. drv[p].pc = "setup" /\ drv[p].pc \in Locked
    BY <2>1, Zenon DEF SetupReturnEffect, At, Locked
  <2>3. mmio' = mmio /\ reg' = reg /\ h' = h /\ work' = work /\ mem' = mem
    BY <2>1, Zenon DEF SetupReturnEffect, harnessVars, driverVars
  <2>4. GoesTo(p, "fill") \/ (drv' = drv /\ rpc'.st = "idle")
    BY <2>1, Zenon DEF SetupReturnEffect
  <2>5. GoesTo(p, "fill") \/ GoesTo(p, "setup")
    BY <2>2, <2>4, Stays, Zenon DEF RingInv
  <2>6. rpc.st = "done" /\ rpc'.st = "idle" /\ loop'.n = loop.n + 1 /\ loop.n \in 1..4
    BY <2>1, <2>2, Zenon DEF SetupReturnEffect, RingInv, RpcOk, At
  <2>7. CASE GoesTo(p, "fill")
    <3>1. loop.n = 4
      BY <2>1, <2>2, <2>7, Zenon DEF SetupReturnEffect, GoesTo
    <3>2. \A k \in {1, 2} : Programmed(p, k)
      BY <3>1 DEF Programmed
    <3> QED BY <2>2, <2>3, <2>7, <3>2, KeptMove, WorkStays, Zenon DEF RingInv, RingKept
  <2>8. CASE GoesTo(p, "setup")
    <3>1. \A k \in {1, 2} : loop'.n > k \/ (loop'.n = k /\ rpc'.st # "idle") => Programmed(p, k)
      BY <2>6 DEF Programmed
    <3> QED BY <2>2, <2>3, <2>8, <3>1, KeptMove, WorkStays, Zenon DEF RingInv, RingKept
  <2> QED BY <2>5, <2>7, <2>8, Zenon
<1>8. ASSUME NEW p \in Callers, Fill(p) PROVE RingKept
  <2>1. FillEffect(p)
    BY <1>8, FillDoes, Zenon DEF RingInv
  <2>2. drv[p].pc = "fill" /\ drv[p].pc \in Locked /\ drv[p].buf \in Pool
    BY <2>1, Zenon DEF FillEffect, At, Locked, RingInv, CallersOk
  <2>3. mmio' = mmio /\ reg' = reg /\ h' = h /\ work' = work
    BY <2>1, Zenon DEF FillEffect, harnessVars
  <2>4. GoesTo(p, "poll") \/ GoesTo(p, "free")
    BY <2>1, Zenon DEF FillEffect
  <2>5. \A k \in {1, 2} : Programmed(p, k)
    BY <2>2, Zenon DEF Programmed, At
  <2>6. DriverKept
    BY <2>2, <2>4, <2>5, KeptMove, Zenon DEF RingInv
  <2> QED BY <2>3, <2>6, WorkStays, Zenon DEF RingKept
<1>9. ASSUME NEW p \in Callers, PollReturn(p) PROVE RingKept
  <2>1. PollReturnEffect(p)
    BY <1>9, PollReturnDoes, Zenon DEF RingInv
  <2>2. drv[p].pc = "poll" /\ drv[p].pc \in Locked
    BY <2>1, Zenon DEF PollReturnEffect, At, Locked
  <2>3. mmio' = mmio /\ reg' = reg /\ h' = h /\ work' = work /\ mem' = mem
    BY <2>1, Zenon DEF PollReturnEffect, harnessVars, driverVars
  <2>4. GoesTo(p, "ring") \/ GoesTo(p, "free") \/ (drv' = drv /\ rpc'.st = "idle")
    BY <2>1, Zenon DEF PollReturnEffect
  <2>5. \A k \in {1, 2} : Programmed(p, k)
    BY <2>2, Zenon DEF Programmed, At
  <2>6. GoesTo(p, "ring") \/ GoesTo(p, "free") \/ GoesTo(p, "poll")
    BY <2>2, <2>4, Stays, Zenon DEF RingInv
  <2>7. DriverKept
    BY <2>2, <2>5, <2>6, KeptMove, Zenon DEF RingInv
  <2> QED BY <2>3, <2>7, WorkStays, Zenon DEF RingKept
<1>10. ASSUME NEW p \in Callers, RingReturn(p) PROVE RingKept
  <2>1. RingReturnEffect(p)
    BY <1>10, RingReturnDoes, Zenon DEF RingInv
  <2>2. drv[p].pc = "rung" /\ drv[p].pc \in Locked
    BY <2>1, Zenon DEF RingReturnEffect, At, Locked
  <2>3. mmio' = mmio /\ reg' = reg /\ h' = h /\ work' = work /\ mem' = mem
    BY <2>1, Zenon DEF RingReturnEffect, harnessVars, driverVars
  <2>4. GoesTo(p, "wait")
    BY <2>1, Zenon DEF RingReturnEffect
  <2>5. \A k \in {1, 2} : Programmed(p, k)
    BY <2>2, Zenon DEF Programmed, At
  <2>6. DriverKept
    BY <2>2, <2>4, <2>5, KeptMove, Zenon DEF RingInv
  <2> QED BY <2>3, <2>6, WorkStays, Zenon DEF RingKept
<1>11. ASSUME NEW p \in Callers, WaitDone(p) PROVE RingKept
  <2>1. WaitDoneEffect(p)
    BY <1>11, WaitDoneDoes, Zenon DEF RingInv
  <2>2. drv[p].pc = "wait" /\ drv[p].pc \in Locked
    BY <2>1, Zenon DEF WaitDoneEffect, At, Locked
  <2>3. mmio' = mmio /\ reg' = reg /\ h' = h /\ work' = work /\ mem' = mem
    BY <2>1, Zenon DEF WaitDoneEffect, harnessVars, driverVars
  <2>4. GoesTo(p, "check")
    BY <2>1, Zenon DEF WaitDoneEffect
  <2>5. \A k \in {1, 2} : Programmed(p, k)
    BY <2>2, Zenon DEF Programmed, At
  <2>6. DriverKept
    BY <2>2, <2>4, <2>5, KeptMove, Zenon DEF RingInv
  <2> QED BY <2>3, <2>6, WorkStays, Zenon DEF RingKept
<1>12. ASSUME NEW p \in Callers, WaitTimeout(p) PROVE RingKept
  <2>1. WaitTimeoutEffect(p)
    BY <1>12, WaitTimeoutDoes, Zenon DEF RingInv
  <2>2. drv[p].pc = "wait" /\ drv[p].pc \in Locked
    BY <2>1, Zenon DEF WaitTimeoutEffect, At, Locked
  <2>3. mmio' = mmio /\ reg' = reg /\ h' = h /\ work' = work /\ mem' = mem
    BY <2>1, Zenon DEF WaitTimeoutEffect, harnessVars, driverVars
  <2>4. GoesTo(p, "free")
    BY <2>1, Zenon DEF WaitTimeoutEffect
  <2>5. \A k \in {1, 2} : Programmed(p, k)
    BY <2>2, Zenon DEF Programmed, At
  <2>6. DriverKept
    BY <2>2, <2>4, <2>5, KeptMove, Zenon DEF RingInv
  <2> QED BY <2>3, <2>6, WorkStays, Zenon DEF RingKept
<1>13. ASSUME NEW p \in Callers, Check(p) PROVE RingKept
  <2>1. CheckEffect(p)
    BY <1>13, CheckDoes, Zenon DEF RingInv
  <2>2. drv[p].pc = "check" /\ drv[p].pc \in Locked
    BY <2>1, Zenon DEF CheckEffect, At, Locked
  <2>3. mmio' = mmio /\ reg' = reg /\ h' = h /\ work' = work /\ mem' = mem
    BY <2>1, Zenon DEF CheckEffect, harnessVars, driverVars
  <2>4. GoesTo(p, "fill") \/ GoesTo(p, "free")
    BY <2>1, Zenon DEF CheckEffect
  <2>5. \A k \in {1, 2} : Programmed(p, k)
    BY <2>2, Zenon DEF Programmed, At
  <2>6. DriverKept
    BY <2>2, <2>4, <2>5, KeptMove, Zenon DEF RingInv
  <2> QED BY <2>3, <2>6, WorkStays, Zenon DEF RingKept
<1>14. ASSUME NEW p \in Callers, Free(p) PROVE RingKept
  <2>1. FreeEffect(p)
    BY <1>14, FreeDoes, Zenon DEF RingInv
  <2>2. drv[p].pc = "free" /\ drv'[p].pc = "idle" /\ \A q \in Callers : q # p => drv'[q] = drv[q]
    BY <2>1, Zenon DEF FreeEffect, At
  <2>3. loop' = loop /\ rpc' = rpc /\ mmio' = mmio /\ reg' = reg /\ h' = h /\ work' = work
    BY <2>1, Zenon DEF FreeEffect, harnessVars
  <2>4. DriverKept
    BY <2>2, <2>3, Zenon DEF DriverKept, Programmed, At, Locked
  <2> QED BY <2>3, <2>4, WorkStays, Zenon DEF RingKept
<1>15. ASSUME AccessTimeout PROVE RingKept
  <2>1. UNCHANGED <<drv, loop, mmio, reg, h, work, mem>> /\ rpc.st = "busy"
    BY <1>15, Zenon DEF AccessTimeout, driverVars, harnessVars
  <2> QED BY <2>1, KeptStill, WorkStays, Zenon DEF RingKept
<1>16. ASSUME BottomHalf PROVE RingKept
  <2>1. BottomHalfEffect
    BY <1>16, BottomHalfDoes, Zenon DEF RingInv
  <2>2. UNCHANGED <<drv, loop, rpc, mmio, reg, h>>
    BY <2>1, Zenon DEF BottomHalfEffect
  <2>4. WorkFrom
    <3>1. work # <<>> /\ work' = Tail(work) /\ work \in Seq(WorkRecord)
      BY <2>1, Zenon DEF BottomHalfEffect, RingInv, TypeInv
    <3>2. \A i \in DOMAIN work' : i + 1 \in DOMAIN work /\ work'[i] = work[i + 1]
      BY <3>1, TailFacts
    <3> QED BY <3>2, Zenon DEF WorkFrom
  <2> QED BY <2>2, <2>4, KeptStill, Zenon DEF RingKept
<1>17. ASSUME DmaRefused PROVE RingKept
  <2>1. UNCHANGED <<drv, loop, rpc, mmio, reg, h, mem>> /\ work' = <<>>
    BY <1>17, Zenon DEF DmaRefused, driverVars
  <2>2. WorkFrom
    BY <2>1 DEF WorkFrom
  <2> QED BY <2>1, <2>2, KeptStill, Zenon DEF RingKept
<1>18. ASSUME HarnessAsk PROVE RingKept
  <2>1. UNCHANGED <<drv, loop, rpc, mmio, reg, h, mem>> /\ h.pc # "poll" /\ work' = Append(work, HostRequest)
    BY <1>18, Zenon DEF HarnessAsk, driverVars
  <2>2. HostRequest \in WorkRecord /\ HostRequest.buf \in {reg.base, reg.cplBase} /\ work \in Seq(WorkRecord)
    BY <2>1, RequestType, Zenon DEF RingInv, TypeInv
  <2>3. \A i \in DOMAIN work' : (i \in DOMAIN work /\ work'[i] = work[i]) \/ (i = Len(work) + 1 /\ work'[i] = HostRequest)
    BY <2>1, <2>2, AppendFacts
  <2>4. WorkFrom
    BY <2>1, <2>2, <2>3, Zenon DEF WorkFrom
  <2> QED BY <2>1, <2>4, KeptStill, Zenon DEF RingKept
<1>19. ASSUME HarnessTimeout PROVE RingKept
  <2>1. UNCHANGED <<drv, loop, rpc, mmio, reg, h, work, mem>>
    BY <1>19, Zenon DEF HarnessTimeout, driverVars
  <2> QED BY <2>1, KeptStill, WorkStays, Zenon DEF RingKept
<1>20. ASSUME HarnessDesc PROVE RingKept
  <2>1. HarnessDescEffect
    BY <1>20, HarnessDescDoes, Zenon DEF RingInv
  <2>2. UNCHANGED <<drv, loop, rpc, mmio, reg, work, mem>> /\ h.pc # "poll" /\ h'.run = h.run
    BY <2>1, Zenon DEF HarnessDescEffect, driverVars
  <2> QED BY <2>2, KeptStill, WorkStays, Zenon DEF RingKept
<1>21. ASSUME HarnessXfer PROVE RingKept
  <2>1. HarnessXferEffect
    BY <1>21, HarnessXferDoes, Zenon DEF RingInv
  <2>2. UNCHANGED <<drv, loop, rpc, mmio, reg, work, mem>> /\ h.pc # "poll" /\ h'.run = h.run
    BY <2>1, Zenon DEF HarnessXferEffect, driverVars
  <2> QED BY <2>2, KeptStill, WorkStays, Zenon DEF RingKept
<1>22. ASSUME HarnessCpl PROVE RingKept
  <2>1. HarnessCplEffect
    BY <1>22, HarnessCplDoes, Zenon DEF RingInv
  <2>2. /\ UNCHANGED <<drv, loop, rpc, mmio, mem>> /\ h.pc # "poll" /\ reg'.base = reg.base
        /\ reg'.cplBase = reg.cplBase /\ reg'.control = reg.control
        /\ reg'.head = reg.head \/ reg'.head = reg.head + 2
    BY <2>1, Zenon DEF HarnessCplEffect, driverVars, RunFails, RunEnds, RunGoesOn
  <2>3. h'.pc # "poll" => h'.run = h.run
    BY <2>1, PollingType, Zenon DEF HarnessCplEffect, RunFails, RunEnds, RunGoesOn
  <2>4. WorkFrom
    <3>1. Msix \in WorkRecord /\ Msix.buf = reg.base /\ work \in Seq(WorkRecord)
      BY <2>1, Zenon DEF HarnessCplEffect, Msix, RingInv, TypeInv
    <3>2. work' = work \/ work' = Append(work, Msix)
      BY <2>1, Zenon DEF HarnessCplEffect
    <3>3. ASSUME work' = Append(work, Msix)
          PROVE  \A i \in DOMAIN work' : (i \in DOMAIN work /\ work'[i] = work[i]) \/ (i = Len(work) + 1 /\ work'[i] = Msix)
      BY <3>1, <3>3, AppendFacts
    <3> QED BY <2>2, <3>1, <3>2, <3>3, WorkStays, Zenon DEF WorkFrom
  <2> QED BY <2>2, <2>3, <2>4, KeptStill, Zenon DEF RingKept
<1> QED BY <1>1, <1>2, <1>3, <1>4, <1>5, <1>6, <1>7, <1>8, <1>9, <1>10, <1>11, <1>12, <1>13, <1>14, <1>15, <1>16, <1>17, <1>18, <1>19, <1>20, <1>21, <1>22, Zenon DEF AddressKind, Next, Driver, Harness

\* A result is added.
LEMMA LogGrows ==
  ASSUME TypeInv, NEW n, NEW res, NEW b, LogMore(n, res, b), res \notin {"ok", "timeout"}, Unused(b)
  PROVE  /\ DOMAIN log \subseteq DOMAIN log' /\ \A r \in DOMAIN log : log'[r] = log[r]
         /\ \A r \in DOMAIN log' :
              r \in DOMAIN log \/ (log'[r].res \notin {"ok", "timeout"} /\ Unused(log'[r].buf))
<1>1. Len(log) \in Nat /\ DOMAIN log = 1..Len(log) /\ DOMAIN log' = 1..(Len(log) + 1)
  BY DEF TypeInv, LogMore
<1>2. \A r \in DOMAIN log' : r \in DOMAIN log \/ r = Len(log) + 1
  BY <1>1
<1>3. /\ log'[Len(log) + 1].res = res /\ log'[Len(log) + 1].buf = b
      /\ \A r \in DOMAIN log : log'[r] = log[r]
  BY Zenon DEF LogMore
<1> QED BY <1>1, <1>2, <1>3

\* Nothing of what concerns the holder changes.
LEMMA AsideStill ==
  ASSUME UNCHANGED <<drv, mem, log, loop, lock, irqDone, mmio, reg, h, ans, ram, work, stray, late>>
  PROVE  Aside
  BY Zenon DEF Aside

\* Beginning an ioctl is of no concern to the holder.
LEMMA BeginAside ==
  ASSUME RingInv, NEW p \in Callers, NEW n \in Nat, NEW b \in Pool, BeginEffect(p, n, b)
  PROVE  Aside
<1>1. UNCHANGED <<loop, lock, irqDone, mmio, reg, h, ans, ram, work, stray, late>>
  BY Zenon DEF BeginEffect, harnessVars, hist
<1>2. /\ drv[p].pc = "idle" /\ drv'[p].pc = "lock" /\ ~mem[b].live
      /\ \A q \in Callers : q # p => drv'[q] = drv[q]
      /\ \A c \in Pool : c # b => mem'[c] = mem[c]
  BY Zenon DEF BeginEffect, BufAs, At
<1>3. ASSUME NEW q \in Callers, drv'[q].pc \in Locked \/ drv[q].pc \in Locked
      PROVE  drv'[q] = drv[q] /\ mem'[drv[q].buf] = mem[drv[q].buf]
  <2>1. q # p
    BY <1>2, <1>3, Zenon DEF Locked
  <2>2. drv'[q] = drv[q] /\ drv[q].pc \in Locked
    BY <1>2, <1>3, <2>1, Zenon
  <2>3. drv[q].buf \in Pool /\ mem[drv[q].buf].live
    BY <2>2, Zenon DEF RingInv, CallersOk, At, Locked
  <2> QED BY <1>2, <2>2, <2>3, Zenon
<1>4. LogMore(n, "busy", b) /\ Unused(b)
  BY <1>2, Zenon DEF BeginEffect, Unused
<1>5. /\ DOMAIN log \subseteq DOMAIN log' /\ \A r \in DOMAIN log : log'[r] = log[r]
      /\ \A r \in DOMAIN log' :
           r \in DOMAIN log \/ (log'[r].res \notin {"ok", "timeout"} /\ Unused(log'[r].buf))
  BY <1>4, LogGrows, Zenon DEF RingInv
<1> QED BY <1>1, <1>3, <1>5, Zenon DEF Aside

\* Neither is freeing buffers after the lock was given back.
LEMMA FreeAside ==
  ASSUME RingInv, NEW p \in Callers, FreeEffect(p)
  PROVE  Aside /\ DriverKept
<1>1. UNCHANGED <<loop, lock, irqDone, rpc, mmio, reg, h, ans, ram, work, stray, late, log>>
  BY Zenon DEF FreeEffect, harnessVars, hist
<1>2. /\ drv[p].pc = "free" /\ drv'[p].pc = "idle" /\ \A q \in Callers : q # p => drv'[q] = drv[q]
      /\ \A c \in Pool : c # drv[p].buf => mem'[c] = mem[c]
  BY Zenon DEF FreeEffect, BufAs, At
<1>3. ASSUME NEW q \in Callers, drv'[q].pc \in Locked \/ drv[q].pc \in Locked
      PROVE  drv'[q] = drv[q] /\ mem'[drv[q].buf] = mem[drv[q].buf]
  <2>1. q # p
    BY <1>2, <1>3, Zenon DEF Locked
  <2>2. drv'[q] = drv[q] /\ drv[q].pc \in Locked
    BY <1>2, <1>3, <2>1, Zenon
  <2>3. drv[q].buf \in Pool /\ drv[q].buf # drv[p].buf
    BY <1>2, <2>1, <2>2 DEF RingInv, CallersOk, At, Locked
  <2> QED BY <1>2, <2>2, <2>3, Zenon
<1>4. Aside
  BY <1>1, <1>3, Zenon DEF Aside
<1>5. DriverKept
  BY <1>1, <1>2, Zenon DEF DriverKept, Programmed, At, Locked
<1> QED BY <1>4, <1>5, Zenon

\* Every step is of one of these kinds.
LEMMA StepKinds ==
  ASSUME RingInv, [Next]_vars
  PROVE  TurnKind
<1>1. ASSUME UNCHANGED vars PROVE Aside /\ DriverKept
  <2>1. UNCHANGED <<drv, mem, log, rpc, loop, lock, irqDone, mmio, reg, h, ans, ram, work, stray, late>>
    BY <1>1, Zenon DEF vars, driverVars, harnessVars, hist
  <2> QED BY <2>1, AsideStill, KeptStill, Zenon
<1>2. ASSUME NEW p \in Callers, NEW n \in 1..MaxIters, NEW b \in Pool, Begin(p, n, b)
      PROVE  n \in Nat /\ BeginEffect(p, n, b) /\ Aside
  <2>1. n \in Nat /\ BeginEffect(p, n, b)
    BY <1>2, BeginDoes, RingAssumption DEF RingInv
  <2> QED BY <2>1, BeginAside, Zenon
<1>3. ASSUME NEW p \in Callers, AllocFails(p) PROVE Aside /\ DriverKept
  <2>1. AllocFailsEffect(p)
    BY <1>3, AllocFailsDoes, Zenon DEF RingInv
  <2>2. UNCHANGED <<drv, mem, rpc, loop, lock, irqDone, mmio, reg, h, ans, ram, work, stray, late>>
    BY <2>1, Zenon DEF AllocFailsEffect, driverVars, harnessVars, hist
  <2>3. LogMore(0, "nomem", NoBuf) /\ Unused(NoBuf)
    BY <2>1, RingAssumption, Zenon DEF AllocFailsEffect, Unused
  <2>4. /\ DOMAIN log \subseteq DOMAIN log' /\ \A r \in DOMAIN log : log'[r] = log[r]
        /\ \A r \in DOMAIN log' :
             r \in DOMAIN log \/ (log'[r].res \notin {"ok", "timeout"} /\ Unused(log'[r].buf))
    BY <2>3, LogGrows, Zenon DEF RingInv
  <2> QED BY <2>2, <2>4, KeptStill, Zenon DEF Aside
<1>4. ASSUME NEW p \in Callers, Free(p) PROVE Aside /\ DriverKept
  BY <1>4, FreeDoes, FreeAside, Zenon DEF RingInv
<1>5. ASSUME AccessTimeout PROVE Aside /\ DriverKept
  <2>1. UNCHANGED <<drv, mem, log, loop, lock, irqDone, mmio, reg, h, ans, ram, work, stray, late>> /\ rpc.st = "busy"
    BY <1>5, Zenon DEF AccessTimeout, driverVars, harnessVars, hist
  <2> QED BY <2>1, AsideStill, KeptStill, Zenon
<1>6. ASSUME NEW p \in Callers, Lock(p) PROVE LockEffect(p)
  BY <1>6, LockDoes, Zenon DEF RingInv
<1>7. ASSUME NEW p \in Callers, SetupIssue(p) \/ PollIssue(p) PROVE Programs(p)
  <2>1. SetupIssueEffect(p) \/ PollIssueEffect(p)
    BY <1>7, SetupIssueDoes, PollIssueDoes, Zenon DEF RingInv
  <2>2. /\ drv[p].pc = "setup" \/ drv[p].pc = "poll"
        /\ UNCHANGED <<drv, mem, log, loop, lock, irqDone, reg, h, ans, ram, work, stray, late>>
        /\ \E a \in AccessRecord : a.reg # "TAIL" /\ Issue(a)
    BY <2>1, Zenon DEF SetupIssueEffect, PollIssueEffect, At, driverVars, harnessVars, hist
  <2>3. GoesTo(p, drv[p].pc)
    BY <2>2, Stays, Zenon DEF RingInv
  <2> QED BY <2>2, <2>3, Zenon DEF Programs, Issue
<1>8. ASSUME NEW p \in Callers, SetupReturn(p) PROVE Programs(p)
  <2>1. SetupReturnEffect(p)
    BY <1>8, SetupReturnDoes, Zenon DEF RingInv
  <2>2. /\ drv[p].pc = "setup" /\ loop'.iter = loop.iter /\ loop'.tail = loop.tail
        /\ UNCHANGED <<mem, log, lock, irqDone, mmio, reg, h, ans, ram, work, stray, late>>
        /\ GoesTo(p, "fill") \/ drv' = drv
    BY <2>1, Zenon DEF SetupReturnEffect, At, harnessVars, hist
  <2>3. GoesTo(p, "fill") \/ GoesTo(p, "setup")
    BY <2>2, Stays, Zenon DEF RingInv
  <2> QED BY <2>2, <2>3, Zenon DEF Programs
<1>9. ASSUME NEW p \in Callers, Fill(p) PROVE Fills(p) \/ Leaves(p, "ok")
  <2>1. FillEffect(p)
    BY <1>9, FillDoes, Zenon DEF RingInv
  <2>2. drv[p].pc = "fill" /\ UNCHANGED <<irqDone, mmio, reg, h, ans, ram, work, stray, late>>
    BY <2>1, Zenon DEF FillEffect, At, harnessVars, hist
  <2> QED BY <2>1, <2>2, Zenon DEF FillEffect, Fills, Leaves
<1>10. ASSUME NEW p \in Callers, PollReturn(p) PROVE Programs(p) \/ Leaves(p, "timeout")
  <2>1. PollReturnEffect(p)
    BY <1>10, PollReturnDoes, Zenon DEF RingInv
  <2>2. /\ drv[p].pc = "poll" /\ UNCHANGED <<irqDone, mem, mmio, reg, h, ans, ram, work, stray, late>>
        /\ loop'.iter = loop.iter /\ loop'.tail = loop.tail
    BY <2>1, Zenon DEF PollReturnEffect, At, harnessVars, hist
  <2>3. CASE drv' = drv /\ lock' = lock /\ log' = log
    <3>1. GoesTo(p, "poll")
      BY <2>2, <2>3, Stays, Zenon DEF RingInv
    <3> QED BY <2>2, <2>3, <3>1, Zenon DEF Programs
  <2>4. CASE GoesTo(p, "ring") /\ lock' = lock /\ log' = log
    BY <2>2, <2>4, Zenon DEF Programs
  <2>5. CASE GoesTo(p, "free") /\ lock' = NoCaller /\ LogAs(drv[p].run, "timeout", log[drv[p].run].descs)
    BY <2>2, <2>5, Zenon DEF Leaves
  <2> QED BY <2>1, <2>3, <2>4, <2>5, Zenon DEF PollReturnEffect
<1>11. ASSUME NEW p \in Callers, Ring(p) PROVE RingEffect(p)
  BY <1>11, RingDoes, Zenon DEF RingInv
<1>12. ASSUME NEW p \in Callers, RingReturn(p) PROVE RingReturnEffect(p)
  BY <1>12, RingReturnDoes, Zenon DEF RingInv
<1>13. ASSUME NEW p \in Callers, WaitDone(p) PROVE WaitDoneEffect(p)
  BY <1>13, WaitDoneDoes, Zenon DEF RingInv
<1>14. ASSUME NEW p \in Callers, WaitTimeout(p) PROVE Leaves(p, "timeout")
  <2>1. WaitTimeoutEffect(p)
    BY <1>14, WaitTimeoutDoes, Zenon DEF RingInv
  <2> QED BY <2>1, Zenon DEF WaitTimeoutEffect, Leaves, At, harnessVars, hist
<1>15. ASSUME NEW p \in Callers, Check(p) PROVE Passes(p) \/ Leaves(p, "io")
  <2>1. CheckEffect(p)
    BY <1>15, CheckDoes, Zenon DEF RingInv
  <2>2. drv[p].pc = "check" /\ UNCHANGED <<irqDone, mem, mmio, reg, h, ans, ram, work, stray, late>>
    BY <2>1, Zenon DEF CheckEffect, At, harnessVars, hist
  <2> QED BY <2>1, <2>2, Zenon DEF CheckEffect, Passes, Leaves
<1>16. ASSUME BottomHalf PROVE BottomHalfEffect
  BY <1>16, BottomHalfDoes, Zenon DEF RingInv
<1>17. ASSUME HarnessAccess PROVE HarnessAccessEffect
  BY <1>17, HarnessAccessDoes, Zenon DEF RingInv
<1>18. ASSUME HarnessDesc PROVE HarnessDescEffect
  BY <1>18, HarnessDescDoes, Zenon DEF RingInv
<1>19. ASSUME HarnessXfer PROVE HarnessXferEffect
  BY <1>19, HarnessXferDoes, Zenon DEF RingInv
<1>20. ASSUME HarnessCpl PROVE HarnessCplEffect
  BY <1>20, HarnessCplDoes, Zenon DEF RingInv
<1>21. ASSUME NEW p \in Callers, Driver(p)
       PROVE  \/ Aside /\ (DriverKept \/ \E q \in Callers, n \in Nat, b \in Pool : BeginEffect(q, n, b))
              \/ LockEffect(p) \/ HolderStep(p)
  BY <1>2, <1>3, <1>4, <1>6, <1>7, <1>8, <1>9, <1>10, <1>11, <1>12, <1>13, <1>14, <1>15, <1>21, Zenon DEF Driver, HolderStep
<1> QED BY <1>1, <1>5, <1>16, <1>17, <1>18, <1>19, <1>20, <1>21, Zenon DEF TurnKind, Next, Harness, DeviceStep

(* The invariant and what follows from it.                                 *)

\* Nothing is under way in the beginning.
LEMMA RingInit == ASSUME Init PROVE RingInv
<1>1. TypeInv
  <2>1. Blank \in BufRecord /\ Polling \in HarnessRecord
    BY BlankType, PollingType, Zenon
  <2>2. /\ drv \in [Callers -> CallerRecord] /\ lock \in Callers \cup {NoCaller}
        /\ loop \in [iter : Nat, tail : Nat, n : Nat] /\ irqDone \in Nat
        /\ rpc \in [st : {"idle", "busy", "done"}, val : Int] /\ reg \in RegRecord
    BY DEF Init, CallerRecord, Pcs, RegRecord
  <2>3. mem \in [Pool -> BufRecord] /\ h \in HarnessRecord /\ ram \in [1..Chunks -> Data]
    BY <2>1, Zenon DEF Init, Data
  <2>4. mmio \in Seq(AccessRecord) /\ work \in Seq(WorkRecord) /\ log \in Seq(LogRecord)
    BY DEF Init
  <2> QED BY <2>2, <2>3, <2>4, Zenon DEF Init, TypeInv
<1>2. /\ \A p \in Callers : drv[p].pc = "idle"
      /\ mmio = <<>> /\ work = <<>> /\ log = <<>> /\ h.pc = "poll" /\ h.flags = 0 /\ irqDone = 0 /\ ans = "none"
      /\ reg.head = 0 /\ reg.control = 0 /\ reg.base = NoBuf /\ reg.cplBase = NoBuf
      /\ rpc.st = "idle" /\ loop.tail = 0 /\ lock = NoCaller /\ ~stray
  BY PollingType, Zenon DEF Init
<1>3. NoCaller \notin Callers /\ NoBuf \notin Pool
  BY RingAssumption, Zenon
<1>4. CallersOk /\ LogOwn
  BY <1>2, <1>3, Zenon DEF CallersOk, LogOwn, At, Locked
<1>5. RpcOk
  BY <1>2 DEF RpcOk, At, Even
<1>6. Heard /\ Enabled
  BY <1>2 DEF Heard, Enabled, At
<1>7. RingOwn
  BY <1>2, SMTT(20) DEF RingOwn, OwnDescriptors, Locked
<1>8. RingFresh
  BY <1>2, SilentClean DEF RingFresh, NoTail
<1>9. HarnessOk
  BY <1>2 DEF HarnessOk, Even, NoMsix
<1>10. AnswerOk
  BY <1>2, Zenon DEF AnswerOk
<1>11. NotBegun /\ BeforeOk /\ DuringOk
  BY <1>2, Zenon DEF NotBegun, BeforeOk, DuringOk, At
<1>12. IdleSilent /\ Earned /\ NoStray
  BY <1>2 DEF IdleSilent, Silent, NoTail, Earned, NoStray
<1> QED BY <1>1, <1>4, <1>5, <1>6, <1>7, <1>8, <1>9, <1>10, <1>11, <1>12, Zenon DEF RingInv

\* Every step keeps the invariant.
LEMMA RingStep == ASSUME RingInv, [Next]_vars PROVE RingInv'
<1>0. Kinds
  BY RingKinds, StepKinds, Zenon DEF Kinds
<1>1. TypeInv' /\ CallersOk' /\ RpcOk' /\ Heard'
  BY TypeStep, CallersStep, RpcStep, HeardStep, Zenon
<1>2. LogOwn' /\ Enabled' /\ RingOwn' /\ RingFresh'
  BY <1>0, LogOwnStep, EnabledStep, RingOwnStep, RingFreshStep, Zenon
<1>3. HarnessOk' /\ AnswerOk' /\ NotBegun'
  BY <1>0, HarnessOkStep, AnswerOkStep, NotBegunStep, Zenon
<1>4. BeforeOk' /\ DuringOk' /\ IdleSilent' /\ Earned' /\ NoStray'
  BY <1>0, BeforeOkStep, DuringOkStep, IdleSilentStep, EarnedStep, NoStrayStep, Zenon
<1> QED BY <1>1, <1>2, <1>3, <1>4, Zenon DEF RingInv

\* The inductive invariant holds in every reachable state.
THEOREM RingInvHolds == Spec => []RingInv
<1>1. Init => RingInv
  BY RingInit, Zenon
<1>2. RingInv /\ [Next]_vars => RingInv'
  BY RingStep, Zenon
<1> QED BY <1>1, <1>2, PTL DEF Spec

\* While RunGenericDma works on a run whose ioctl has not returned, the ring's
\* addresses are those of that ioctl's own buffers, whatever timed out.
THEOREM OwnDescriptorsHolds == Spec => []OwnDescriptors
<1>1. RingInv => OwnDescriptors
  BY Zenon DEF RingInv, RingOwn
<1> QED BY <1>1, RingInvHolds, PTL

\* The device does not write into a buffer that pcie_vip_run_config has freed
\* unless some wait timed out.
THEOREM StrayOnlyAfterTimeoutHolds == Spec => []StrayOnlyAfterTimeout
<1>1. RingInv => StrayOnlyAfterTimeout
  BY Zenon DEF RingInv, NoStray, Timely, StrayOnlyAfterTimeout
<1> QED BY <1>1, RingInvHolds, PTL

\* No wait ending too early, wait_for_completion_timeout returns with both
\* completion records of the current iteration in memory.
THEOREM WakeAfterCompletionHolds == Spec => []WakeAfterCompletion
<1>1. ASSUME RingInv PROVE WakeAfterCompletion
  <2> SUFFICES ASSUME ~late, NEW p \in Callers, At(p, "check"), NEW s \in Slots
               PROVE  mem[drv[p].buf].cpl[s].tag = s /\ mem[drv[p].buf].cpl[s].seq = loop.tail - 2 + s
    BY Zenon DEF WakeAfterCompletion
  <2>1. Timely /\ During(p)
    BY <1>1, TimelySure, Zenon DEF Timely, RingInv, DuringOk, At
  <2>2. Over(p)
    BY <2>1, Zenon DEF During, Waiting, Running, Stuck, Out
  <2>3. s = 0 \/ s = 1
    BY DEF Slots
  <2> QED BY <2>2, <2>3, Zenon DEF Over, Tagged
<1> QED BY <1>1, RingInvHolds, PTL

\* pcie_vip_run_config returns 0 only if the harness executed both descriptors
\* of every iteration of that very call: at any address dma_alloc_coherent may
\* return, used before or not, next to any number of other calls and after
\* calls that failed halfway.  The one exception is a call whose buffers an
\* earlier call had when its wait ended before the harness was done with them.
THEOREM PassMeansExecutedHolds == Spec => []PassMeansExecuted
<1>1. RingInv => PassMeansExecuted
  BY Zenon DEF RingInv, Earned, PassMeansExecuted
<1> QED BY <1>1, RingInvHolds, PTL
=============================================================================
