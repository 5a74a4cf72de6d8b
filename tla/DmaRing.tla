------------------------------ MODULE DmaRing ------------------------------
(***************************************************************************)
(* The descriptor-ring DMA test: the guest driver's ioctl                  *)
(* (guest/pcie-vip/driver/pcie_vip.c, pcie_vip_run_config) against the     *)
(* Verilator harness (rtl/alex/verilator_qemu_main.cpp, main and           *)
(* RunGenericDma), with the QEMU device between them.                      *)
(*                                                                         *)
(* Of the device only what QemuDevice establishes is kept: BAR accesses    *)
(* reach the harness in order and one at a time, an access that times out  *)
(* stays queued and its late answer is dropped, DMA and MSI-X requests are *)
(* executed in order by the bottom half, and the bottom half runs only     *)
(* while no BAR access is in progress.                                     *)
(*                                                                         *)
(* A buffer set is what one ioctl allocates: descriptors, completions,     *)
(* source and destination.  A transfer takes Chunks requests on the link.  *)
(***************************************************************************)
EXTENDS Integers, Sequences, FiniteSets

CONSTANTS
  Callers,    \* processes that use /dev/pcie_vip0
  NoCaller,   \* run_lock is free
  Pool,       \* addresses at which buffer sets are allocated
  Chunks,     \* link requests per transfer
  MaxRuns,    \* bound: ioctls
  MaxIters,   \* bound: cfg->iterations, of all ioctls together
  MaxPolls    \* polls of DMA_STATUS before the driver gives up (50)

NoBuf == "none"

ASSUME RingAssumption ==
  /\ NoCaller \notin Callers /\ Pool # {} /\ NoBuf \notin Pool
  /\ {Chunks, MaxRuns, MaxIters, MaxPolls} \subseteq Nat \ {0}

VARIABLES
  drv,     \* each caller: where it is, its buffer set, iterations, run number
  lock,    \* run_lock
  loop,    \* locals of the lock holder: [iter, tail, n], n counting register
           \* writes and polls
  irqDone, \* irq_done: completions not yet waited for
  mem,     \* the buffer sets: [live, desc, src, dst, cpl]
  rpc,     \* the BAR access in progress: [st, val]
  mmio,    \* BAR accesses the harness has not taken yet
  reg,     \* the harness's shadows: base, cplBase, count, control, head, status
  h,       \* the harness: [pc, idx, end, run, chunk, status, flags]
  ans,     \* SendRequestToHost: "none", "wait", "ok", "empty" or "bad"
  ram,     \* the endpoint's DMA RAM
  work,    \* DMA and MSI-X requests queued in the device
  log,     \* history: per ioctl, its iterations, result, buffer set and the
           \* descriptors executed successfully for it
  stray,   \* history: a DMA write hit a buffer set that was free
  late,    \* whether in this behaviour timed waits may end although an answer
           \* is still coming
  faulty   \* whether in this behaviour allocations and DMA requests may fail

driverVars == <<drv, lock, loop, irqDone>>
harnessVars == <<reg, h, ans, ram>>
hist == <<stray, late, faulty>>
vars == <<driverVars, mem, rpc, mmio, harnessVars, work, log, hist>>

Data == {"zero", "pat", "junk"}
Slots == 0..1
NoCpl == [tag |-> -1, status |-> 0, seq |-> 0]

Blank == [live |-> FALSE, desc |-> FALSE, src |-> "zero",
          dst |-> [c \in 1..Chunks |-> "zero"], cpl |-> [s \in Slots |-> NoCpl]]

Polling == [pc |-> "poll", idx |-> 0, end |-> 0, run |-> 0, chunk |-> 1, status |-> 0, flags |-> 0]

Init ==
  /\ drv = [p \in Callers |-> [pc |-> "idle", buf |-> NoBuf, iters |-> 0, run |-> 0]]
  /\ lock = NoCaller /\ loop = [iter |-> 0, tail |-> 0, n |-> 0] /\ irqDone = 0
  /\ mem = [b \in Pool |-> Blank]
  /\ rpc = [st |-> "idle", val |-> 0] /\ mmio = <<>>
  /\ reg = [base |-> NoBuf, cplBase |-> NoBuf, count |-> 0, control |-> 0, head |-> 0, status |-> 0]
  /\ h = Polling /\ ans = "none" /\ ram = [c \in 1..Chunks |-> "zero"]
  /\ work = <<>> /\ log = <<>> /\ stray = FALSE
  /\ late \in BOOLEAN /\ faulty \in BOOLEAN /\ (late => faulty)

-----------------------------------------------------------------------------
(* The driver: pcie_vip_run_config on caller p.                            *)

At(p, pc) == drv[p].pc = pc
Goto(p, pc) == drv' = [drv EXCEPT ![p].pc = pc]

\* Addresses dma_alloc_coherent may return: any that is free, used before or
\* not.
Fresh == {b \in Pool : ~mem[b].live}

\* Iterations asked for so far.
Asked == Cardinality({x \in (DOMAIN log) \X (1..MaxIters) : x[2] <= log[x[1]].iters})

\* dma_alloc_coherent hands out zeroed memory, before run_lock is taken.
Begin(p, n, b) ==
  /\ At(p, "idle") /\ Len(log) < MaxRuns /\ Asked + n <= MaxIters
  /\ b \in Fresh
  /\ mem' = [mem EXCEPT ![b] = [Blank EXCEPT !.live = TRUE]]
  /\ drv' = [drv EXCEPT ![p] = [pc |-> "lock", buf |-> b, iters |-> n, run |-> Len(log) + 1]]
  /\ log' = Append(log, [iters |-> n, res |-> "busy", descs |-> 0, buf |-> b])
  /\ UNCHANGED <<lock, loop, irqDone, rpc, mmio, harnessVars, work, hist>>

\* -ENOMEM: whatever was allocated is freed again.
AllocFails(p) ==
  /\ At(p, "idle") /\ faulty /\ Len(log) < MaxRuns
  /\ log' = Append(log, [iters |-> 0, res |-> "nomem", descs |-> 0, buf |-> NoBuf])
  /\ UNCHANGED <<driverVars, mem, rpc, mmio, harnessVars, work, hist>>

\* mutex_lock, then fill the two descriptors.  tail is 0 in every call.
Lock(p) ==
  /\ At(p, "lock") /\ lock = NoCaller
  /\ lock' = p
  /\ loop' = [iter |-> 0, tail |-> 0, n |-> 1]
  /\ mem' = [mem EXCEPT ![drv[p].buf].desc = TRUE]
  /\ Goto(p, "setup")
  /\ UNCHANGED <<irqDone, rpc, mmio, harnessVars, work, log, hist>>

Access(type, r, val, p) == [type |-> type, reg |-> r, val |-> val, run |-> drv[p].run]

\* iowrite32 / ioread32: the access is on its way and holds the big lock.
Issue(a) ==
  /\ rpc.st = "idle"
  /\ rpc' = [st |-> "busy", val |-> 0]
  /\ mmio' = Append(mmio, a)

Returned == rpc.st = "done" /\ rpc' = [st |-> "idle", val |-> 0]

\* The register writes before the loop.  The two halves of a base address are
\* one write here: nothing reads the shadow between them.
SetupWrites(p) ==
  << Access("write", "BASE", drv[p].buf, p), Access("write", "CPL_BASE", drv[p].buf, p),
     Access("write", "COUNT", 2, p), Access("write", "CONTROL", 1, p) >>

SetupIssue(p) ==
  /\ At(p, "setup") /\ Issue(SetupWrites(p)[loop.n])
  /\ UNCHANGED <<driverVars, mem, harnessVars, work, log, hist>>

SetupReturn(p) ==
  /\ At(p, "setup") /\ Returned
  /\ loop' = [loop EXCEPT !.n = @ + 1]
  /\ IF loop.n = Len(SetupWrites(p)) THEN Goto(p, "fill") ELSE UNCHANGED drv
  /\ UNCHANGED <<lock, irqDone, mem, mmio, harnessVars, work, log, hist>>

\* "out": record the result, unlock, then free the buffers.
Finish(p, res) ==
  /\ log' = [log EXCEPT ![drv[p].run].res = res]
  /\ lock' = NoCaller
  /\ Goto(p, "free")

\* The head of the loop: clear completions and destination, write the source.
Fill(p) ==
  /\ At(p, "fill")
  /\ IF loop.iter < drv[p].iters
     THEN /\ mem' = [mem EXCEPT ![drv[p].buf] =
                       [Blank EXCEPT !.live = TRUE, !.desc = TRUE, !.src = "pat"]]
          /\ loop' = [loop EXCEPT !.n = 0]
          /\ Goto(p, "poll")
          /\ UNCHANGED <<lock, log>>
     ELSE Finish(p, "ok") /\ UNCHANGED <<mem, loop>>
  /\ UNCHANGED <<irqDone, rpc, mmio, harnessVars, work, hist>>

PollIssue(p) ==
  /\ At(p, "poll") /\ Issue(Access("read", "STATUS", 0, p))
  /\ UNCHANGED <<driverVars, mem, harnessVars, work, log, hist>>

PollReturn(p) ==
  /\ At(p, "poll") /\ Returned
  /\ loop' = [loop EXCEPT !.n = @ + 1]
  /\ IF rpc.val = 0 THEN Goto(p, "ring") /\ UNCHANGED <<lock, log>>
     ELSE IF loop.n + 1 = MaxPolls THEN Finish(p, "timeout")
     ELSE UNCHANGED <<drv, lock, log>>
  /\ UNCHANGED <<irqDone, mem, mmio, harnessVars, work, hist>>

\* reinit_completion and the doorbell.
Ring(p) ==
  /\ At(p, "ring")
  /\ irqDone' = 0
  /\ loop' = [loop EXCEPT !.tail = @ + 2]
  /\ Issue(Access("write", "TAIL", loop.tail + 2, p))
  /\ Goto(p, "rung")
  /\ UNCHANGED <<lock, mem, harnessVars, work, log, hist>>

RingReturn(p) ==
  /\ At(p, "rung") /\ Returned
  /\ Goto(p, "wait")
  /\ UNCHANGED <<lock, loop, irqDone, mem, mmio, harnessVars, work, log, hist>>

\* Mutant: the result of wait_for_completion_timeout is ignored.
WaitDone_Ignored(p) ==
  /\ At(p, "wait")
  /\ irqDone' = 0
  /\ Goto(p, "check")
  /\ UNCHANGED <<lock, loop, mem, rpc, mmio, harnessVars, work, log, hist>>

WaitDone(p) ==
  /\ At(p, "wait") /\ irqDone > 0
  /\ irqDone' = irqDone - 1
  /\ Goto(p, "check")
  /\ UNCHANGED <<lock, loop, mem, rpc, mmio, harnessVars, work, log, hist>>

\* Nothing is on its way to the driver any more.
Quiet == h.pc = "poll" /\ mmio = <<>> /\ work = <<>>

\* Mutant: wait_for_completion.
WaitTimeout_Never(p) == At(p, "wait") /\ FALSE /\ Finish(p, "timeout")

\* wait_for_completion_timeout returns 0.
WaitTimeout(p) ==
  /\ At(p, "wait") /\ irqDone = 0
  /\ late \/ Quiet
  /\ Finish(p, "timeout")
  /\ UNCHANGED <<loop, irqDone, mem, rpc, mmio, harnessVars, work, hist>>

\* Mutant: the driver looks at the tags of the completions only.
Check_TagsOnly(p) ==
  /\ At(p, "check")
  /\ LET m == mem[drv[p].buf] IN
       IF \A s \in Slots : m.cpl[s].tag = s
       THEN /\ loop' = [loop EXCEPT !.iter = @ + 1]
            /\ Goto(p, "fill")
            /\ UNCHANGED <<lock, log>>
       ELSE Finish(p, "io") /\ UNCHANGED loop
  /\ UNCHANGED <<irqDone, mem, rpc, mmio, harnessVars, work, hist>>

\* Compare the destination and both completion records (tag, status, bytes;
\* bytes is the length exactly when status is 0, and the sequence number is
\* not looked at).
Check(p) ==
  /\ At(p, "check")
  /\ LET m == mem[drv[p].buf] IN
       IF /\ \A c \in 1..Chunks : m.dst[c] = "pat"
          /\ \A s \in Slots : m.cpl[s].tag = s /\ m.cpl[s].status = 0
       THEN /\ loop' = [loop EXCEPT !.iter = @ + 1]
            /\ Goto(p, "fill")
            /\ UNCHANGED <<lock, log>>
       ELSE Finish(p, "io") /\ UNCHANGED loop
  /\ UNCHANGED <<irqDone, mem, rpc, mmio, harnessVars, work, hist>>

Free(p) ==
  /\ At(p, "free")
  /\ mem' = [mem EXCEPT ![drv[p].buf].live = FALSE]
  /\ drv' = [drv EXCEPT ![p].pc = "idle", ![p].buf = NoBuf]
  /\ UNCHANGED <<lock, loop, irqDone, rpc, mmio, harnessVars, work, log, hist>>

Driver(p) ==
  \/ \E n \in 1..MaxIters, b \in Pool : Begin(p, n, b)
  \/ AllocFails(p) \/ Lock(p) \/ SetupIssue(p) \/ SetupReturn(p) \/ Fill(p)
  \/ PollIssue(p) \/ PollReturn(p) \/ Ring(p) \/ RingReturn(p)
  \/ WaitDone(p) \/ WaitTimeout(p) \/ Check(p) \/ Free(p)

-----------------------------------------------------------------------------
(* The device between them.                                                *)

\* The access times out: a read yields all ones, a write is not reported.
AccessTimeout ==
  /\ late /\ rpc.st = "busy"
  /\ rpc' = [st |-> "done", val |-> -1]
  /\ UNCHANGED <<driverVars, mem, mmio, harnessVars, work, log, hist>>

\* The harness waits for the request at the end of the queue, if for any.
Awaited == ans = "wait" /\ Len(work) = 1

\* The bottom half executes the first queued request and answers it.  MSI-X
\* runs pcie_vip_irq.  Memory that is free holds anything.
BottomHalf ==
  /\ work # <<>> /\ rpc.st = "idle"
  /\ work' = Tail(work)
  /\ LET w == Head(work)
         m == mem[w.buf]
     IN  \/ /\ w.op = "MSIX"
            /\ irqDone' = irqDone + 1
            /\ UNCHANGED <<ans, mem, ram, stray>>
         \/ /\ w.op = "READ_DESC"
            /\ \E v \in (IF m.live THEN {m.desc} ELSE BOOLEAN) :
                 ans' = IF ~Awaited THEN ans ELSE IF v THEN "ok" ELSE "empty"
            /\ UNCHANGED <<irqDone, mem, ram, stray>>
         \/ /\ w.op = "READ_SRC"
            /\ IF Awaited
               THEN /\ ans' = "ok"
                    /\ ram' = [ram EXCEPT ![w.at] = IF m.live THEN m.src ELSE "junk"]
               ELSE UNCHANGED <<ans, ram>>
            /\ UNCHANGED <<irqDone, mem, stray>>
         \/ /\ w.op = "WRITE_DST"
            /\ mem' = [mem EXCEPT ![w.buf].dst[w.at] = w.val]
            /\ stray' = (stray \/ ~m.live)
            /\ ans' = IF Awaited THEN "ok" ELSE ans
            /\ UNCHANGED <<irqDone, ram>>
         \/ /\ w.op = "WRITE_CPL"
            /\ mem' = [mem EXCEPT ![w.buf].cpl[w.at] = w.val]
            /\ stray' = (stray \/ ~m.live)
            /\ ans' = IF Awaited THEN "ok" ELSE ans
            /\ UNCHANGED <<irqDone, ram>>
  /\ UNCHANGED <<drv, lock, loop, rpc, mmio, reg, h, log, late, faulty>>

\* pci_dma_read or pci_dma_write fails, or the request is refused.
DmaRefused ==
  /\ faulty /\ Awaited /\ rpc.st = "idle"
  /\ work' = <<>>
  /\ ans' = "bad"
  /\ UNCHANGED <<driverVars, mem, rpc, mmio, reg, h, ram, log, hist>>

-----------------------------------------------------------------------------
(* The harness.                                                            *)

\* Mutant: a base address that is set stays.
Written_Once(a) ==
  CASE a.reg = "BASE"     -> [reg EXCEPT !.base = IF @ = NoBuf THEN a.val ELSE @]
    [] a.reg = "CPL_BASE" -> [reg EXCEPT !.cplBase = IF @ = NoBuf THEN a.val ELSE @]
    [] a.reg = "COUNT"    -> [reg EXCEPT !.count = a.val]
    [] a.reg = "CONTROL"  -> [reg EXCEPT !.control = a.val]
    [] OTHER              -> reg

\* Shadow writes in main, and the values the guest reads back.
Written(a) ==
  CASE a.reg = "BASE"     -> [reg EXCEPT !.base = a.val]
    [] a.reg = "CPL_BASE" -> [reg EXCEPT !.cplBase = a.val]
    [] a.reg = "COUNT"    -> [reg EXCEPT !.count = a.val]
    [] a.reg = "CONTROL"  -> [reg EXCEPT !.control = a.val,
                                         !.status = IF (a.val \div 2) % 2 = 1 THEN 0 ELSE @]
    [] OTHER              -> reg

\* Mutant: a full ring is refused.
RingOk_Strict(tail) == tail >= reg.head /\ tail - reg.head < reg.count

\* The check at the head of RunGenericDma (count > 1024 does not occur).
RingOk(tail) == tail >= reg.head /\ tail - reg.head <= reg.count

\* One access from the inbound queue.  The answer goes out before any DMA, and
\* only an access that still waits takes it.
HarnessAccess ==
  /\ h.pc = "poll" /\ mmio # <<>>
  /\ mmio' = Tail(mmio)
  /\ rpc' = IF rpc.st = "busy" /\ Len(mmio) = 1
            THEN [st |-> "done", val |-> IF Head(mmio).type = "read" THEN reg.status ELSE 0]
            ELSE rpc
  /\ LET a == Head(mmio) IN
       IF a.reg = "TAIL" /\ reg.control % 2 = 1 /\ reg.count # 0
       THEN IF ~RingOk(a.val) THEN reg' = [reg EXCEPT !.status = 1] /\ UNCHANGED h
            ELSE IF a.val = reg.head THEN reg' = [reg EXCEPT !.status = 0] /\ UNCHANGED h
            ELSE /\ h' = [Polling EXCEPT !.pc = "desc", !.idx = reg.head, !.end = a.val, !.run = a.run]
                 /\ UNCHANGED reg
       ELSE reg' = Written(a) /\ UNCHANGED h
  /\ UNCHANGED <<driverVars, mem, ans, ram, work, log, hist>>

Slot == h.idx % reg.count

\* The driver's descriptors: slot 0 reads the source, slot 1 writes the
\* destination and asks for MSI-X.
HostRequest ==
  CASE h.pc = "desc" -> [op |-> "READ_DESC", buf |-> reg.base, at |-> Slot, val |-> 0]
    [] h.pc = "xfer" /\ Slot = 0 -> [op |-> "READ_SRC", buf |-> reg.base, at |-> h.chunk, val |-> 0]
    [] h.pc = "xfer" /\ Slot = 1 -> [op |-> "WRITE_DST", buf |-> reg.base, at |-> h.chunk, val |-> ram[h.chunk]]
    [] OTHER -> [op |-> "WRITE_CPL", buf |-> reg.cplBase, at |-> Slot,
                 val |-> [tag |-> IF h.flags = -1 THEN -1 ELSE Slot, status |-> h.status, seq |-> h.idx]]

\* SendRequestToHost up to the wait.
HarnessAsk ==
  /\ h.pc # "poll" /\ ans = "none"
  /\ ans' = "wait"
  /\ work' = Append(work, HostRequest)
  /\ UNCHANGED <<driverVars, mem, rpc, mmio, reg, h, ram, log, hist>>

\* The wait times out; the request stays queued in the device.
HarnessTimeout ==
  /\ late /\ ans = "wait"
  /\ ans' = "bad"
  /\ UNCHANGED <<driverVars, mem, rpc, mmio, reg, h, ram, work, log, hist>>

\* The descriptor is in: start its transfer, or complete it with an error
\* (flags -1: neither tag nor flags are known).  A successful answer has the 32
\* bytes that were asked for: the device sends no other (pcie_vip_process_work).
HarnessDesc ==
  /\ h.pc = "desc" /\ ans \in {"ok", "empty", "bad"}
  /\ ans' = "none"
  /\ h' = IF ans = "ok"
          THEN [h EXCEPT !.pc = "xfer", !.chunk = 1, !.flags = Slot, !.status = 1]
          ELSE [h EXCEPT !.pc = "cpl", !.flags = -1, !.status = IF ans = "empty" THEN 6 ELSE 1]
  /\ UNCHANGED <<driverVars, mem, rpc, mmio, reg, ram, work, log, hist>>

Raise ==
  work' = IF h.flags = 1
          THEN Append(work, [op |-> "MSIX", buf |-> reg.base, at |-> 0, val |-> 0])
          ELSE work

\* Mutant: MSI-X is raised when the transfer is done.
HarnessXfer_EarlyIrq ==
  /\ h.pc = "xfer" /\ ans \in {"ok", "bad"}
  /\ ans' = "none"
  /\ IF ans = "ok" /\ h.chunk < Chunks
     THEN h' = [h EXCEPT !.chunk = @ + 1] /\ UNCHANGED work
     ELSE h' = [h EXCEPT !.pc = "cpl", !.status = IF ans = "ok" THEN 0 ELSE 1] /\ Raise
  /\ UNCHANGED <<driverVars, mem, rpc, mmio, reg, ram, log, hist>>

\* Harness::DmaRead and Harness::DmaWrite, one link request after the other.
HarnessXfer ==
  /\ h.pc = "xfer" /\ ans \in {"ok", "bad"}
  /\ ans' = "none"
  /\ h' = IF ans = "ok" /\ h.chunk < Chunks THEN [h EXCEPT !.chunk = @ + 1]
          ELSE [h EXCEPT !.pc = "cpl", !.status = IF ans = "ok" THEN 0 ELSE 1]
  /\ UNCHANGED <<driverVars, mem, rpc, mmio, reg, ram, work, log, hist>>

\* The completion is written: MSI-X if the descriptor asks for it, then the
\* next descriptor.  An error ends the run and leaves desc_head alone.
HarnessCpl ==
  /\ h.pc = "cpl" /\ ans \in {"ok", "bad"}
  /\ ans' = "none"
  /\ IF ans = "ok" THEN Raise ELSE UNCHANGED work
  /\ IF ans = "bad" \/ h.status # 0
     THEN /\ reg' = [reg EXCEPT !.status = 1]
          /\ h' = Polling
          /\ UNCHANGED log
     ELSE /\ log' = [log EXCEPT ![h.run].descs = @ + 1]
          /\ IF h.idx + 1 = h.end
             THEN h' = Polling /\ reg' = [reg EXCEPT !.head = h.end, !.status = 0]
             ELSE h' = [h EXCEPT !.pc = "desc", !.idx = @ + 1] /\ UNCHANGED reg
  /\ UNCHANGED <<driverVars, mem, rpc, mmio, ram, hist>>

Harness == HarnessAccess \/ HarnessAsk \/ HarnessTimeout \/ HarnessDesc \/ HarnessXfer \/ HarnessCpl

Next == (\E p \in Callers : Driver(p)) \/ AccessTimeout \/ BottomHalf \/ DmaRefused \/ Harness

Spec == Init /\ [][Next]_vars

\* Whoever is inside the ioctl keeps running (its timed waits end), run_lock
\* is handed on, and device and harness keep running.
DriverStep(p) == Driver(p) /\ drv[p].pc # "idle"

Fairness ==
  /\ \A p \in Callers : SF_vars(Lock(p)) /\ WF_vars(DriverStep(p))
  /\ WF_vars(AccessTimeout) /\ WF_vars(Harness) /\ SF_vars(BottomHalf)

FairSpec == Spec /\ Fairness

-----------------------------------------------------------------------------
(* Properties.                                                             *)

\* An earlier ioctl at the same address gave up although the harness may still
\* have been at work on it.
Abandoned(r) ==
  late /\ \E q \in 1..(r - 1) : log[q].res = "timeout" /\ log[q].buf = log[r].buf

\* guest/pcie-vip/README.md: the ioctl "waits for MSI-X, and verifies both
\* completion records".  A PASS is earned: when pcie_vip_run_config returns 0,
\* the harness executed both descriptors of every iteration of that very call,
\* although the driver does not compare the completions' sequence numbers and
\* dma_alloc_coherent hands the same addresses out again.  The exception is an
\* ioctl at an address on which an earlier one timed out too early: pcie_vip.c
\* frees the buffers without stopping the device, whose late completions then
\* meet the next user of the address.
PassMeansExecuted ==
  \A r \in DOMAIN log :
    log[r].res = "ok" /\ ~Abandoned(r) => log[r].descs = 2 * log[r].iters

\* The driver frees its buffers without telling the device.  As long as no
\* wait has timed out, the device never writes into a buffer that is free.
StrayOnlyAfterTimeout == stray => \E r \in DOMAIN log : log[r].res = "timeout"

\* The interrupt that ends the driver's wait announces completions that are
\* already in memory, both of them and of the current iteration: RunGenericDma
\* writes each completion and waits for it before MSI-X, and the device keeps
\* the order.  (Not so once an interrupt of an abandoned run may be on its way.)
WakeAfterCompletion ==
  ~late => \A p \in Callers : At(p, "check") =>
    \A s \in Slots : mem[drv[p].buf].cpl[s].tag = s /\ mem[drv[p].buf].cpl[s].seq = loop.tail - 2 + s

\* The harness keeps the ring's addresses from run to run and nothing resets
\* them.  While it works on a run whose ioctl has not returned, they are the
\* addresses of that ioctl's own buffers: also when register writes timed out
\* and are taken late, and when another caller is waiting or has given up.
OwnDescriptors ==
  \A p \in Callers : h.pc # "poll" /\ ~At(p, "idle") /\ drv[p].run = h.run
    => reg.base = drv[p].buf /\ reg.cplBase = drv[p].buf

\* Every ioctl returns, whatever times out or fails.
IoctlReturns == \A p \in Callers : At(p, "lock") ~> At(p, "idle")

\* Nothing failing and no timeout too short, the first ioctl to get run_lock
\* passes, for any number of iterations: index and tail stay in step, neither
\* side waits for the other while the big lock is held, and a caller that waits
\* for run_lock disturbs nothing.
FirstRunPasses ==
  ~late /\ ~faulty /\ (\E r \in DOMAIN log : log[r].res # "busy")
    => \E r \in DOMAIN log : log[r].res = "ok"

\* guest/pcie-vip/README.md: pcie-vip-run prints PASS and can then be run with
\* other parameters.  Nothing failing and no timeout too short, no run fails.
EveryRunPasses == ~late /\ ~faulty => \A r \in DOMAIN log : log[r].res \in {"busy", "ok"}
=============================================================================
