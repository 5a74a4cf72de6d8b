-------------------------- MODULE DmaRingInvariant --------------------------
(***************************************************************************)
(* The invariant of the descriptor-ring test, and its steps as what they   *)
(* do field by field and as the few kinds its parts tell apart.            *)
(*                                                                         *)
(* A driver may give up on a run the harness is still working on, so that  *)
(* requests and interrupts of an abandoned run meet the next one.  The     *)
(* invariant says what can be left over, and in which of a few situations  *)
(* the holder of run_lock is.                                              *)
(***************************************************************************)
EXTENDS DmaRing

(* What holds in every state.                                              *)

Locked == {"setup", "fill", "poll", "ring", "rung", "wait", "check"}

Pcs == {"idle", "lock", "free"} \cup Locked

Results == {"busy", "nomem", "ok", "timeout", "io"}

Even(n) == n % 2 = 0

Doorbells == {n \in Nat : n >= 2 /\ Even(n)}

CallerRecord == [pc : Pcs, buf : Pool \cup {NoBuf}, iters : Nat, run : Nat]

LogRecord == [iters : Nat, res : Results, descs : Nat, buf : Pool \cup {NoBuf}]

CplRecord == [tag : Slots \cup {-1}, status : Nat, seq : Nat]

BufRecord == [live : BOOLEAN, desc : BOOLEAN, src : Data, dst : [1..Chunks -> Data],
              cpl : [Slots -> CplRecord]]

AccessRecord ==
  [type : {"write"}, reg : {"BASE", "CPL_BASE"}, val : Pool, run : Nat]
    \cup [type : {"write"}, reg : {"COUNT"}, val : {2}, run : Nat]
    \cup [type : {"write"}, reg : {"CONTROL"}, val : {1}, run : Nat]
    \cup [type : {"write"}, reg : {"TAIL"}, val : Doorbells, run : Nat]
    \cup [type : {"read"}, reg : {"STATUS"}, val : {0}, run : Nat]

WorkRecord ==
  [op : {"MSIX", "READ_DESC"}, buf : Pool, at : Nat, val : {0}]
    \cup [op : {"READ_SRC"}, buf : Pool, at : 1..Chunks, val : {0}]
    \cup [op : {"WRITE_DST"}, buf : Pool, at : 1..Chunks, val : Data]
    \cup [op : {"WRITE_CPL"}, buf : Pool, at : Slots, val : CplRecord]

RegRecord == [base : Pool \cup {NoBuf}, cplBase : Pool \cup {NoBuf}, count : {0, 2},
              control : {0, 1}, head : Nat, status : {0, 1}]

HarnessRecord == [pc : {"poll", "desc", "xfer", "cpl"}, idx : Nat, end : Nat, run : Nat,
                  chunk : 1..Chunks, status : Nat, flags : {-1, 0, 1}]

TypeInv ==
  /\ drv \in [Callers -> CallerRecord] /\ lock \in Callers \cup {NoCaller}
  /\ loop \in [iter : Nat, tail : Nat, n : Nat] /\ irqDone \in Nat
  /\ mem \in [Pool -> BufRecord]
  /\ rpc \in [st : {"idle", "busy", "done"}, val : Int] /\ mmio \in Seq(AccessRecord)
  /\ reg \in RegRecord /\ h \in HarnessRecord
  /\ ans \in {"none", "wait", "ok", "empty", "bad"} /\ ram \in [1..Chunks -> Data]
  /\ work \in Seq(WorkRecord) /\ log \in Seq(LogRecord)
  /\ stray \in BOOLEAN /\ late \in BOOLEAN /\ faulty \in BOOLEAN

\* Who is inside the ioctl has buffers and a log entry of its own.
CallersOk ==
  \A p \in Callers :
    /\ lock = p <=> drv[p].pc \in Locked
    /\ ~At(p, "idle") =>
         /\ drv[p].buf \in Pool /\ mem[drv[p].buf].live
         /\ drv[p].run \in DOMAIN log /\ log[drv[p].run].iters = drv[p].iters /\ drv[p].iters > 0
         /\ ~At(p, "free") => log[drv[p].run].res = "busy"
         /\ \A q \in Callers \ {p} : ~At(q, "idle") =>
              drv[q].buf # drv[p].buf /\ drv[q].run # drv[p].run

\* Its log entry is the latest one with its buffers.
LogOwn ==
  \A p \in Callers : ~At(p, "idle") =>
    /\ log[drv[p].run].buf = drv[p].buf
    /\ \A r \in DOMAIN log : log[r].buf = drv[p].buf => r <= drv[p].run

\* A BAR access is made by the holder of run_lock; if it still waits it is the
\* latest one.
RpcOk ==
  /\ rpc.st # "idle" => \E p \in Callers : drv[p].pc \in {"setup", "poll", "rung"}
  /\ rpc.st = "busy" => mmio # <<>>
  /\ \A p \in Callers : At(p, "rung") => rpc.st # "idle"
  /\ \A p \in Callers : At(p, "setup") => loop.n \in 1..4
  /\ Even(loop.tail)
  /\ \A p \in Callers : At(p, "poll") /\ rpc.st = "busy" => mmio[Len(mmio)].type = "read"
  /\ \A i \in DOMAIN mmio : mmio[i].run \in DOMAIN log

\* A poll that returned 0 was answered with nothing left before it.
Heard ==
  \A p \in Callers :
    At(p, "ring") \/ (At(p, "poll") /\ rpc.st = "done" /\ rpc.val = 0) =>
      mmio = <<>> /\ h.pc = "poll" /\ reg.status = 0

\* When access i of q is taken, register r, now cur, is b.
InEffect(q, r, cur, i, b) ==
  \/ \E j \in 1..(i - 1) : /\ q[j].reg = r /\ q[j].val = b
                           /\ \A k \in (j + 1)..(i - 1) : q[k].reg # r
  \/ cur = b /\ \A k \in 1..(i - 1) : q[k].reg # r

BaseAt(i, b) == InEffect(mmio, "BASE", reg.base, i, b)

CplBaseAt(i, b) == InEffect(mmio, "CPL_BASE", reg.cplBase, i, b)

\* The harness is not enabled before it has the addresses.
Given(r, cur, i) == cur \in Pool \/ \E j \in 1..(i - 1) : mmio[j].reg = r

Enabled ==
  /\ reg.control = 1 => reg.base \in Pool /\ reg.cplBase \in Pool
  /\ \A i \in DOMAIN mmio : mmio[i].reg = "CONTROL" =>
       Given("BASE", reg.base, i) /\ Given("CPL_BASE", reg.cplBase, i)

\* The writes that are out of the way at a point of the ioctl.
Programmed(p, n) == At(p, "setup") => loop.n > n \/ (loop.n = n /\ rpc.st # "idle")

RingOwn ==
  /\ OwnDescriptors
  /\ \A p \in Callers : drv[p].pc \in Locked =>
       /\ Programmed(p, 1) => BaseAt(Len(mmio) + 1, drv[p].buf)
       /\ Programmed(p, 2) => CplBaseAt(Len(mmio) + 1, drv[p].buf)
  /\ \A p \in Callers, i \in DOMAIN mmio :
       ~At(p, "idle") /\ mmio[i].reg = "TAIL" /\ mmio[i].run = drv[p].run =>
         BaseAt(i, drv[p].buf) /\ CplBaseAt(i, drv[p].buf)

\* A wait ended too early on an ioctl at this address.
Tainted(b) == late /\ \E r \in DOMAIN log : log[r].res = "timeout" /\ log[r].buf = b

\* The ioctl has rung the doorbell.
Begun(p) == \/ drv[p].pc \in {"rung", "wait", "check"}
            \/ drv[p].pc \in {"setup", "fill", "poll", "ring"} /\ loop.iter > 0

NotOn(b) == \A i \in DOMAIN work : work[i].buf # b

\* Nothing is under way at an address: no request, no run at the harness, and
\* only doorbells that start nothing any more.
Clean(b) ==
  /\ NotOn(b)
  /\ h.pc # "poll" => reg.base # b /\ reg.cplBase # b
  /\ \A i \in DOMAIN mmio :
       mmio[i].reg = "TAIL" /\ (BaseAt(i, b) \/ CplBaseAt(i, b)) => mmio[i].val <= reg.head

\* Unless a wait ended too early on it, an address is in use only by an ioctl
\* that has rung the doorbell.
RingFresh ==
  \A b \in Pool :
    Tainted(b) \/ (\E p \in Callers : Begun(p) /\ drv[p].buf = b) \/ Clean(b)

NoTail == \A i \in DOMAIN mmio : mmio[i].reg # "TAIL"

NoMsix == \A i \in DOMAIN work : work[i].op # "MSIX"

\* A run is two descriptors; the second raises MSI-X.  An interrupt is only
\* raised when desc_head moves on or DMA_STATUS shows an error for good.
HarnessOk ==
  /\ Even(reg.head)
  /\ h.pc # "poll" => /\ reg.count = 2 /\ reg.control = 1 /\ h.run \in DOMAIN log
                      /\ h.end = reg.head + 2 /\ h.idx \in {reg.head, reg.head + 1}
  /\ h.pc = "desc" => h.flags = 0
  /\ h.pc = "xfer" => h.flags = Slot
  /\ h.pc = "cpl" => h.flags \in {-1, Slot}
  /\ h.flags = -1 => h.status # 0
  /\ irqDone > 0 \/ ~NoMsix => reg.head >= 2 \/ reg.status = 1

\* An answered request was the last one queued.
Record == [tag |-> IF h.flags = -1 THEN -1 ELSE Slot, status |-> h.status, seq |-> h.idx]

AnswerOk ==
  /\ ans \in {"ok", "empty"} => work = <<>>
  /\ ans = "wait" => work # <<>> /\ work[Len(work)] = HostRequest
  /\ ans # "none" => h.pc # "poll"

\* No wait ended too early so far.
Timely == ~late \/ \A r \in DOMAIN log : log[r].res # "timeout"

Sure(p) == ~Tainted(drv[p].buf)

\* Nothing of any run is under way.
Silent == h.pc = "poll" /\ NoTail /\ work = <<>> /\ irqDone = 0

Empty(p) == \A s \in Slots : mem[drv[p].buf].cpl[s] = NoCpl

OnlyOn(b) == \A i \in DOMAIN work : work[i].buf = b

Descs(p) == log[drv[p].run].descs

\* Before its first doorbell nothing carries the ioctl's run.
NotBegun ==
  \A p \in Callers :
    At(p, "lock") \/ (drv[p].pc \in {"setup", "fill", "poll", "ring"} /\ loop.iter = 0) =>
      /\ \A i \in DOMAIN mmio : mmio[i].reg = "TAIL" => mmio[i].run # drv[p].run
      /\ h.pc # "poll" => h.run # drv[p].run
      /\ Descs(p) = 0

\* From the head of the loop to the doorbell.
Before(p) ==
  /\ loop.iter <= drv[p].iters /\ loop.tail = 2 * loop.iter /\ Descs(p) = 2 * loop.iter
  /\ Timely \/ loop.iter > 0 => Silent
  /\ loop.iter > 0 => reg.head = loop.tail /\ reg.status = 0
  /\ At(p, "setup") => loop.iter = 0
  /\ drv[p].pc \in {"poll", "ring"} => loop.iter < drv[p].iters /\ Empty(p)

\* After it: the doorbell is on its way,
OneTail(p) == Len(mmio) = 1 /\ mmio[1].reg = "TAIL" /\ mmio[1].val = loop.tail /\ mmio[1].run = drv[p].run

Waiting(p) ==
  /\ ~At(p, "check") /\ OneTail(p) /\ h.pc = "poll" /\ reg.head + 2 = loop.tail
  /\ irqDone = 0 /\ NoMsix /\ Empty(p) /\ NotOn(drv[p].buf)
  /\ Descs(p) = 2 * loop.iter
  /\ Timely => work = <<>>

\* or the harness is at work on it,
Tagged(p, s) == /\ mem[drv[p].buf].cpl[s].tag = s
                /\ mem[drv[p].buf].cpl[s].seq = loop.tail - 2 + s

Running(p) ==
  /\ ~At(p, "check") /\ mmio = <<>> /\ h.pc # "poll" /\ h.run = drv[p].run
  /\ reg.head + 2 = loop.tail
  /\ irqDone = 0 /\ NoMsix
  /\ Descs(p) = 2 * loop.iter + (h.idx - reg.head)
  /\ h.idx = reg.head + 1 =>
       Tagged(p, 0) /\ \A i \in DOMAIN work : work[i].op = "WRITE_CPL" => work[i].at = 1
  /\ ans = "ok" /\ h.pc = "cpl" => mem[drv[p].buf].cpl[Slot] = Record
  /\ Timely => OnlyOn(drv[p].buf)

\* or the interrupt is raised and tells what became of it,
Token(p) ==
  \/ ~At(p, "check") /\ irqDone = 0 /\ Len(work) = 1 /\ work[1].op = "MSIX"
  \/ ~At(p, "check") /\ irqDone = 1 /\ work = <<>>
  \/ At(p, "check") /\ irqDone = 0 /\ work = <<>>

Over(p) ==
  /\ mmio = <<>> /\ h.pc = "poll" /\ Token(p) /\ Tagged(p, 0) /\ Tagged(p, 1)
  /\ mem[drv[p].buf].cpl[1].status = 0 =>
       reg.head = loop.tail /\ reg.status = 0 /\ Descs(p) = 2 * loop.iter + 2

\* or there will be none,
Stuck(p) ==
  /\ ~At(p, "check") /\ h.pc = "poll" /\ irqDone = 0 /\ NoMsix
  /\ mmio = <<>> \/ (OneTail(p) /\ reg.head >= loop.tail)
  /\ Timely => OnlyOn(drv[p].buf)

\* or only one of an earlier run, with nothing to show for it.
Out(p) ==
  /\ ~Timely /\ h.pc = "poll" /\ reg.head >= loop.tail
  /\ mmio = <<>> \/ OneTail(p)
  /\ Empty(p) /\ NotOn(drv[p].buf)

During(p) ==
  /\ loop.iter < drv[p].iters /\ loop.tail = 2 * loop.iter + 2
  /\ Waiting(p) \/ Running(p) \/ Over(p) \/ Stuck(p) \/ Out(p)

BeforeOk ==
  \A p \in Callers : Sure(p) /\ drv[p].pc \in {"setup", "fill", "poll", "ring"} => Before(p)

DuringOk ==
  \A p \in Callers : Sure(p) /\ drv[p].pc \in {"rung", "wait", "check"} => During(p)

\* Nobody in the ioctl's critical section, nothing is under way.
IdleSilent == lock = NoCaller /\ Timely => Silent

\* A run that passed executed its descriptors and will not execute more.
Earned ==
  \A r \in DOMAIN log : log[r].res = "ok" /\ ~Abandoned(r) =>
    /\ log[r].descs = 2 * log[r].iters
    /\ h.pc # "poll" => h.run # r
    /\ \A i \in DOMAIN mmio : mmio[i].reg = "TAIL" => mmio[i].run # r

NoStray == Timely => ~stray

RingInv ==
  /\ TypeInv /\ CallersOk /\ LogOwn /\ RpcOk /\ Heard /\ Enabled /\ RingOwn /\ RingFresh
  /\ HarnessOk /\ AnswerOk /\ NotBegun
  /\ BeforeOk /\ DuringOk /\ IdleSilent /\ Earned /\ NoStray

(* What a step does.                                                       *)

GoesTo(p, x) ==
  /\ drv' \in [Callers -> CallerRecord]
  /\ drv'[p].pc = x /\ drv'[p].buf = drv[p].buf
  /\ drv'[p].iters = drv[p].iters /\ drv'[p].run = drv[p].run
  /\ \A q \in Callers \ {p} : drv'[q] = drv[q]

LogAs(r, res, descs) ==
  /\ log' \in Seq(LogRecord) /\ Len(log') = Len(log)
  /\ \A s \in DOMAIN log :
       IF s = r THEN /\ log'[s].iters = log[s].iters /\ log'[s].buf = log[s].buf
                     /\ log'[s].res = res /\ log'[s].descs = descs
                ELSE log'[s] = log[s]

LogMore(n, res, b) ==
  /\ log' \in Seq(LogRecord) /\ Len(log') = Len(log) + 1
  /\ \A s \in DOMAIN log : log'[s] = log[s]
  /\ LET e == log'[Len(log) + 1] IN e.iters = n /\ e.res = res /\ e.descs = 0 /\ e.buf = b

\* One buffer set changes; its marks are given.
BufAs(b, live, desc) ==
  /\ mem' \in [Pool -> BufRecord]
  /\ mem'[b].live = live /\ mem'[b].desc = desc
  /\ \A c \in Pool \ {b} : mem'[c] = mem[c]

\* An ioctl begins with buffers of its own.
BeginEffect(p, n, b) ==
  /\ At(p, "idle") /\ ~mem[b].live
  /\ BufAs(b, TRUE, FALSE)
  /\ drv' \in [Callers -> CallerRecord]
  /\ drv'[p].pc = "lock" /\ drv'[p].buf = b /\ drv'[p].iters = n /\ drv'[p].run = Len(log) + 1
  /\ \A q \in Callers \ {p} : drv'[q] = drv[q]
  /\ LogMore(n, "busy", b)
  /\ UNCHANGED <<lock, loop, irqDone, rpc, mmio, harnessVars, work, hist>>

\* An ioctl that gets no memory only leaves its result.
AllocFailsEffect(p) ==
  LogMore(0, "nomem", NoBuf) /\ UNCHANGED <<driverVars, mem, rpc, mmio, harnessVars, work, hist>>

\* run_lock is taken and the descriptors are filled in.
LockEffect(p) ==
  /\ At(p, "lock") /\ lock = NoCaller /\ lock' = p
  /\ loop' = [iter |-> 0, tail |-> 0, n |-> 1]
  /\ BufAs(drv[p].buf, TRUE, TRUE) /\ GoesTo(p, "setup")
  /\ UNCHANGED <<irqDone, rpc, mmio, harnessVars, work, log, hist>>

\* The register writes before the loop, one of four.
SetupIssueEffect(p) ==
  /\ At(p, "setup") /\ loop.n \in 1..4
  /\ \E a \in AccessRecord :
       /\ Issue(a) /\ a.run = drv[p].run /\ a.type = "write"
       /\ a.reg \in {"BASE", "CPL_BASE", "COUNT", "CONTROL"}
       /\ a.reg = "BASE" <=> loop.n = 1
       /\ a.reg = "CPL_BASE" <=> loop.n = 2
       /\ a.reg = "CONTROL" <=> loop.n = 4
       /\ a.reg \in {"BASE", "CPL_BASE"} => a.val = drv[p].buf
  /\ UNCHANGED <<driverVars, mem, harnessVars, work, log, hist>>

\* The next write, or the loop.
SetupReturnEffect(p) ==
  /\ At(p, "setup") /\ rpc.st = "done" /\ rpc' = [st |-> "idle", val |-> 0]
  /\ loop' \in [iter : Nat, tail : Nat, n : Nat]
  /\ loop'.iter = loop.iter /\ loop'.tail = loop.tail /\ loop'.n = loop.n + 1
  /\ IF loop.n = 4 THEN GoesTo(p, "fill") ELSE drv' = drv
  /\ UNCHANGED <<lock, irqDone, mem, mmio, harnessVars, work, log, hist>>

\* A round of the loop begins with cleared completions, or the ioctl is done.
FillEffect(p) ==
  /\ At(p, "fill")
  /\ \/ /\ loop.iter < drv[p].iters
        /\ BufAs(drv[p].buf, TRUE, TRUE)
        /\ \A s \in Slots : mem'[drv[p].buf].cpl[s] = NoCpl
        /\ loop' \in [iter : Nat, tail : Nat, n : Nat]
        /\ loop'.iter = loop.iter /\ loop'.tail = loop.tail
        /\ GoesTo(p, "poll")
        /\ UNCHANGED <<lock, log>>
     \/ /\ ~(loop.iter < drv[p].iters)
        /\ GoesTo(p, "free") /\ lock' = NoCaller
        /\ LogAs(drv[p].run, "ok", log[drv[p].run].descs)
        /\ UNCHANGED <<mem, loop>>
  /\ UNCHANGED <<irqDone, rpc, mmio, harnessVars, work, hist>>

\* DMA_STATUS is read.
PollIssueEffect(p) ==
  /\ At(p, "poll")
  /\ \E a \in AccessRecord :
       Issue(a) /\ a.run = drv[p].run /\ a.type = "read" /\ a.reg = "STATUS"
  /\ UNCHANGED <<driverVars, mem, harnessVars, work, log, hist>>

\* The doorbell when the status is 0, another poll, or -ETIMEDOUT.
PollReturnEffect(p) ==
  /\ At(p, "poll") /\ rpc.st = "done" /\ rpc' = [st |-> "idle", val |-> 0]
  /\ loop' \in [iter : Nat, tail : Nat, n : Nat]
  /\ loop'.iter = loop.iter /\ loop'.tail = loop.tail
  /\ \/ rpc.val = 0 /\ GoesTo(p, "ring") /\ UNCHANGED <<lock, log>>
     \/ /\ GoesTo(p, "free") /\ lock' = NoCaller
        /\ LogAs(drv[p].run, "timeout", log[drv[p].run].descs)
     \/ UNCHANGED <<drv, lock, log>>
  /\ UNCHANGED <<irqDone, mem, mmio, harnessVars, work, hist>>

\* The doorbell rings for the next two descriptors.
RingEffect(p) ==
  /\ At(p, "ring") /\ irqDone' = 0
  /\ loop' \in [iter : Nat, tail : Nat, n : Nat]
  /\ loop'.iter = loop.iter /\ loop'.tail = loop.tail + 2
  /\ \E a \in AccessRecord :
       /\ Issue(a) /\ a.run = drv[p].run /\ a.type = "write"
       /\ a.reg = "TAIL" /\ a.val = loop.tail + 2
  /\ GoesTo(p, "rung")
  /\ UNCHANGED <<lock, mem, harnessVars, work, log, hist>>

\* The driver goes from the doorbell to the wait,
RingReturnEffect(p) ==
  /\ At(p, "rung") /\ rpc' = [st |-> "idle", val |-> 0] /\ GoesTo(p, "wait")
  /\ UNCHANGED <<lock, loop, irqDone, mem, mmio, harnessVars, work, log, hist>>

\* is woken by the interrupt,
WaitDoneEffect(p) ==
  /\ At(p, "wait") /\ irqDone > 0 /\ irqDone' = irqDone - 1 /\ GoesTo(p, "check")
  /\ UNCHANGED <<lock, loop, mem, rpc, mmio, harnessVars, work, log, hist>>

\* or gives up.
WaitTimeoutEffect(p) ==
  /\ At(p, "wait") /\ irqDone = 0 /\ (late \/ Quiet)
  /\ GoesTo(p, "free") /\ lock' = NoCaller
  /\ LogAs(drv[p].run, "timeout", log[drv[p].run].descs)
  /\ UNCHANGED <<loop, irqDone, mem, rpc, mmio, harnessVars, work, hist>>

\* The completions are right, or the ioctl fails with -EIO.
CheckEffect(p) ==
  /\ At(p, "check")
  /\ \/ /\ \A s \in Slots : /\ mem[drv[p].buf].cpl[s].tag = s
                            /\ mem[drv[p].buf].cpl[s].status = 0
        /\ loop' \in [iter : Nat, tail : Nat, n : Nat]
        /\ loop'.iter = loop.iter + 1 /\ loop'.tail = loop.tail
        /\ GoesTo(p, "fill") /\ UNCHANGED <<lock, log>>
     \/ /\ GoesTo(p, "free") /\ lock' = NoCaller
        /\ LogAs(drv[p].run, "io", log[drv[p].run].descs)
        /\ UNCHANGED loop
  /\ UNCHANGED <<irqDone, mem, rpc, mmio, harnessVars, work, hist>>

\* The buffers are freed, with what they hold.
FreeEffect(p) ==
  /\ At(p, "free") /\ drv[p].buf \in Pool
  /\ BufAs(drv[p].buf, FALSE, mem[drv[p].buf].desc)
  /\ mem'[drv[p].buf].cpl = mem[drv[p].buf].cpl
  /\ drv' \in [Callers -> CallerRecord] /\ drv'[p].pc = "idle"
  /\ \A q \in Callers \ {p} : drv'[q] = drv[q]
  /\ UNCHANGED <<lock, loop, irqDone, rpc, mmio, harnessVars, work, log, hist>>

\* What the bottom half executes: only a write changes memory, only MSI-X the
\* completion, and only the request the harness waits for is answered.
BottomHalfEffect ==
  /\ work # <<>> /\ work[1] \in WorkRecord /\ rpc.st = "idle" /\ work' = Tail(work)
  /\ irqDone' = IF work[1].op = "MSIX" THEN irqDone + 1 ELSE irqDone
  /\ ans' = ans \/ (Awaited /\ ans' \in {"ok", "empty"})
  /\ Awaited /\ work[1].op # "MSIX" => ans' # "wait"
  /\ ram' \in [1..Chunks -> Data] /\ (ram' = ram \/ (Awaited /\ ans' = "ok"))
  /\ mem' \in [Pool -> BufRecord]
  /\ \A b \in Pool : /\ mem'[b].live = mem[b].live /\ mem'[b].desc = mem[b].desc
                     /\ \A s \in Slots : mem'[b].cpl[s] =
                          IF work[1].op = "WRITE_CPL" /\ work[1].buf = b /\ work[1].at = s
                          THEN work[1].val ELSE mem[b].cpl[s]
  /\ stray' \in BOOLEAN /\ (stray' => stray \/ (work[1].op # "MSIX" /\ ~mem[work[1].buf].live))
  /\ UNCHANGED <<drv, lock, loop, rpc, mmio, reg, h, log, late, faulty>>

\* The access is taken: a shadow is written, a run starts, or the doorbell is
\* refused or has nothing to do.
Starts(a) ==
  /\ a.reg = "TAIL" /\ reg.control = 1 /\ reg.count = 2 /\ a.val = reg.head + 2
  /\ reg' = reg /\ h' \in HarnessRecord
  /\ h'.pc = "desc" /\ h'.idx = reg.head /\ h'.end = a.val /\ h'.run = a.run /\ h'.flags = 0

HarnessAccessEffect ==
  /\ h.pc = "poll" /\ mmio # <<>> /\ mmio' = Tail(mmio) /\ mmio[1] \in AccessRecord
  /\ rpc' \in [st : {"idle", "busy", "done"}, val : Int]
  /\ IF rpc.st = "busy" /\ Len(mmio) = 1
     THEN rpc'.st = "done" /\ rpc'.val = (IF mmio[1].type = "read" THEN reg.status ELSE 0)
     ELSE rpc' = rpc
  /\ reg' \in RegRecord /\ h' \in HarnessRecord /\ reg'.head = reg.head
  /\ reg'.base = IF mmio[1].reg = "BASE" THEN mmio[1].val ELSE reg.base
  /\ reg'.cplBase = IF mmio[1].reg = "CPL_BASE" THEN mmio[1].val ELSE reg.cplBase
  /\ mmio[1].reg # "CONTROL" => reg'.control = reg.control
  /\ mmio[1].reg # "TAIL" => reg'.status = reg.status /\ h' = h
  /\ \/ Starts(mmio[1])
     \/ h' = h /\ (reg'.status = reg.status \/ reg'.status = 1 \/ reg.head >= 2)
  /\ UNCHANGED <<driverVars, mem, ans, ram, work, log, hist>>

\* The descriptor arrived or did not.
HarnessDescEffect ==
  /\ h.pc = "desc" /\ ans \in {"ok", "empty", "bad"} /\ ans' = "none"
  /\ h' \in HarnessRecord /\ h'.idx = h.idx /\ h'.end = h.end /\ h'.run = h.run
  /\ \/ h'.pc = "xfer" /\ h'.flags = Slot
     \/ h'.pc = "cpl" /\ h'.flags = -1 /\ h'.status # 0
  /\ UNCHANGED <<driverVars, mem, rpc, mmio, reg, ram, work, log, hist>>

\* The transfer goes on or is over.
HarnessXferEffect ==
  /\ h.pc = "xfer" /\ ans \in {"ok", "bad"} /\ ans' = "none"
  /\ h' \in HarnessRecord /\ h'.idx = h.idx /\ h'.end = h.end /\ h'.run = h.run
  /\ h'.pc \in {"xfer", "cpl"} /\ h'.flags = h.flags
  /\ UNCHANGED <<driverVars, mem, rpc, mmio, reg, ram, work, log, hist>>

Msix == [op |-> "MSIX", buf |-> reg.base, at |-> 0, val |-> 0]

RunFails ==
  /\ ans = "bad" \/ h.status # 0
  /\ reg'.head = reg.head /\ reg'.status = 1 /\ h' = Polling /\ log' = log

RunEnds ==
  /\ ans = "ok" /\ h.status = 0 /\ h.idx = reg.head + 1
  /\ reg'.head = reg.head + 2 /\ reg'.status = 0 /\ h' = Polling

RunGoesOn ==
  /\ ans = "ok" /\ h.status = 0 /\ h.idx = reg.head
  /\ reg' = reg /\ h' \in HarnessRecord
  /\ h'.pc = "desc" /\ h'.idx = h.idx + 1 /\ h'.end = h.end /\ h'.run = h.run /\ h'.flags = h.flags

\* The completion is written or not; the run fails, ends or goes on.
HarnessCplEffect ==
  /\ h.pc = "cpl" /\ ans \in {"ok", "bad"} /\ ans' = "none"
  /\ Msix \in WorkRecord
  /\ work' = IF ans = "ok" /\ h.flags = 1 THEN Append(work, Msix) ELSE work
  /\ reg' \in RegRecord /\ reg'.base = reg.base /\ reg'.cplBase = reg.cplBase
  /\ reg'.count = reg.count /\ reg'.control = reg.control
  /\ \/ RunFails
     \/ (RunEnds \/ RunGoesOn) /\ LogAs(h.run, log[h.run].res, log[h.run].descs + 1)
  /\ UNCHANGED <<driverVars, mem, rpc, mmio, ram, hist>>

(* The kinds of steps.                                                     *)

\* No ioctl begins or takes run_lock, and no register write is made.
DriverKept ==
  \A q \in Callers :
    /\ drv'[q].pc # "idle" => /\ drv[q].pc # "idle" /\ drv'[q].buf = drv[q].buf
                              /\ drv'[q].run = drv[q].run /\ drv'[q].iters = drv[q].iters
    /\ drv'[q].pc \in Locked => drv[q].pc \in Locked
    /\ drv'[q].pc = "lock" <=> drv[q].pc = "lock"
    /\ \A k \in {1, 2} : drv'[q].pc \in Locked /\ Programmed(q, k)' => Programmed(q, k)

\* New requests are the harness's.
WorkFrom ==
  \A i \in DOMAIN work' :
    \/ \E j \in DOMAIN work : work'[i] = work[j]
    \/ h.pc # "poll" /\ work'[i].buf \in {reg.base, reg.cplBase}

RingKept ==
  /\ mmio' = mmio /\ reg'.base = reg.base /\ reg'.cplBase = reg.cplBase /\ reg'.control = reg.control
  /\ h'.pc # "poll" => h.pc # "poll" /\ h'.run = h.run
  /\ reg'.head = reg.head \/ reg'.head = reg.head + 2
  /\ DriverKept /\ WorkFrom

\* A register access is made.
Issues(p) == SetupIssueEffect(p) \/ PollIssueEffect(p) \/ RingEffect(p)

Unused(b) == b \in Pool => ~mem[b].live

\* Something that does not concern it: other callers come and go.
Aside ==
  /\ UNCHANGED <<loop, lock, irqDone, mmio, reg, h, ans, ram, work, stray, late>>
  /\ \A q \in Callers : drv'[q].pc \in Locked \/ drv[q].pc \in Locked =>
       drv'[q] = drv[q] /\ mem'[drv[q].buf] = mem[drv[q].buf]
  /\ DOMAIN log \subseteq DOMAIN log' /\ \A r \in DOMAIN log : log'[r] = log[r]
  /\ \A r \in DOMAIN log' :
       r \in DOMAIN log \/ (log'[r].res \notin {"ok", "timeout"} /\ Unused(log'[r].buf))

\* It programs the harness or polls.
Programs(p) ==
  /\ \/ drv[p].pc = "setup" /\ (GoesTo(p, "setup") \/ GoesTo(p, "fill"))
     \/ drv[p].pc = "poll" /\ (GoesTo(p, "poll") \/ GoesTo(p, "ring"))
  /\ loop'.iter = loop.iter /\ loop'.tail = loop.tail
  /\ mmio' = mmio \/ \E a \in AccessRecord : a.reg # "TAIL" /\ mmio' = Append(mmio, a)
  /\ UNCHANGED <<lock, irqDone, mem, reg, h, ans, ram, work, log, stray, late>>

\* It prepares a round,
Fills(p) ==
  /\ drv[p].pc = "fill" /\ loop.iter < drv[p].iters /\ GoesTo(p, "poll")
  /\ loop'.iter = loop.iter /\ loop'.tail = loop.tail
  /\ BufAs(drv[p].buf, TRUE, TRUE) /\ \A s \in Slots : mem'[drv[p].buf].cpl[s] = NoCpl
  /\ UNCHANGED <<lock, irqDone, mmio, reg, h, ans, ram, work, log, stray, late>>

\* finds it well done,
Passes(p) ==
  /\ drv[p].pc = "check" /\ GoesTo(p, "fill")
  /\ \A s \in Slots : mem[drv[p].buf].cpl[s].tag = s /\ mem[drv[p].buf].cpl[s].status = 0
  /\ loop'.iter = loop.iter + 1 /\ loop'.tail = loop.tail
  /\ UNCHANGED <<lock, irqDone, mem, mmio, reg, h, ans, ram, work, log, stray, late>>

\* or leaves.
Leaves(p, res) ==
  /\ GoesTo(p, "free") /\ lock' = NoCaller /\ LogAs(drv[p].run, res, log[drv[p].run].descs)
  /\ \/ drv[p].pc = "fill" /\ res = "ok" /\ ~(loop.iter < drv[p].iters)
     \/ drv[p].pc = "poll" /\ res = "timeout"
     \/ drv[p].pc = "wait" /\ res = "timeout" /\ irqDone = 0 /\ (late \/ Quiet)
     \/ drv[p].pc = "check" /\ res = "io"
  /\ UNCHANGED <<irqDone, mem, mmio, reg, h, ans, ram, work, stray, late>>

HolderStep(p) ==
  \/ Programs(p) \/ Fills(p) \/ RingEffect(p) \/ RingReturnEffect(p) \/ WaitDoneEffect(p) \/ Passes(p)
  \/ \E res \in {"ok", "timeout", "io"} : Leaves(p, res)

DeviceStep ==
  \/ BottomHalfEffect \/ DmaRefused \/ HarnessAccessEffect \/ HarnessAsk \/ HarnessTimeout
  \/ HarnessDescEffect \/ HarnessXferEffect \/ HarnessCplEffect

NotYet(q) == At(q, "lock") \/ (drv[q].pc \in {"setup", "fill", "poll", "ring"} /\ loop.iter = 0)

\* A step as the harness sees it: a call begins or takes the lock, an access
\* is issued, the harness takes one, or the ring stays as it is.
AddressKind ==
  \/ \E p \in Callers, n \in Nat, b \in Pool : BeginEffect(p, n, b)
  \/ \E p \in Callers : LockEffect(p) \/ Issues(p)
  \/ HarnessAccessEffect \/ RingKept

\* A step as the holder of run_lock sees it: it does not concern the run, the
\* holder takes the lock or moves, or the device moves.
TurnKind ==
  \/ Aside /\ (DriverKept \/ \E p \in Callers, n \in Nat, b \in Pool : BeginEffect(p, n, b))
  \/ \E p \in Callers : LockEffect(p) \/ HolderStep(p)
  \/ DeviceStep

Kinds == AddressKind /\ TurnKind
=============================================================================
