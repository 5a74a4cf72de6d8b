---------------------------- MODULE GuestDriver ----------------------------
(***************************************************************************)
(* The life of the guest driver (guest/pcie-vip/driver/pcie_vip.c) around  *)
(* the processes that use it: probe with its error paths, remove, the      *)
(* release of managed resources by the driver core, open and ioctl of      *)
(* pcie-vip-run, and BAR accesses of pcie-vip-pcimem.  What a run does to  *)
(* the device is DmaRing's subject: here it succeeds or fails.             *)
(***************************************************************************)
EXTENDS Integers, Sequences, FiniteSets

CONSTANTS
  Apps,      \* pcie-vip-run processes
  NoApp,     \* run_lock is free
  Choices,   \* the <<length, iterations>> given to them
  MaxBinds,  \* bound: probes
  BarSize, PageSize, Offsets   \* for pcie-vip-pcimem, in bytes

\* A page holds at least the widest access of pcie-vip-pcimem.
ASSUME GuestAssumption ==
  /\ NoApp \notin Apps /\ Choices \subseteq Nat \X Nat /\ Offsets \subseteq Nat
  /\ {MaxBinds, BarSize, PageSize} \subseteq Nat \ {0} /\ PageSize >= 8

VARIABLES
  core,    \* the driver core: [st, todo], the steps to come of a probe, of a
           \* probe that fails ("fail") or of a remove ("remove")
  res,     \* what the driver holds
  leaving, \* the module is being unloaded
  binds,   \* probes so far
  app,     \* each process: [pc, ask, ran, code]
  lock,    \* run_lock
  raw,     \* the latest BAR access of pcie-vip-pcimem
  unplug   \* whether in this behaviour the device may be unplugged or unbound

vars == <<core, res, leaving, binds, app, lock, raw, unplug>>

NoRun == [len |-> 0, iters |-> 0]
NoAccess == [at |-> 0, bytes |-> 0, mapped |-> 0, off |-> 0, how |-> "none"]

Init ==
  /\ core = [st |-> "unbound", todo |-> <<>>] /\ res = {} /\ leaving = FALSE /\ binds = 0
  /\ app = [p \in Apps |-> [pc |-> "idle", ask |-> NoRun, verbose |-> FALSE, ran |-> NoRun, code |-> "none"]]
  /\ lock = NoApp /\ raw = NoAccess /\ unplug \in BOOLEAN

-----------------------------------------------------------------------------
(* probe, remove and the driver core.                                      *)

\* The steps of pcie_vip_probe that can fail, in order.
ProbeSteps == <<"vip", "enabled", "bar0", "mask", "vectors", "irq", "dma", "misc">>

\* What a step leaves behind.  The two buffers are both tried before either is
\* looked at; bar0 fails with the region taken when the table has no mapping.
Gains(step, ok) ==
  CASE step = "dma"  -> IF ok THEN {{"cmd", "completion"}} ELSE {{}, {"cmd"}, {"completion"}}
    [] step = "bar0" -> IF ok THEN {{"bar0"}} ELSE {{}, {"bar0"}}
    [] step = "mask" -> {{}}
    [] OTHER         -> IF ok THEN {{step}} ELSE {{}}

\* devres_release_all, latest first.
Managed == <<"irq", "bar0", "enabled", "vip">>

\* Mutant: a failing misc_register skips err_dma.
Unwind_Vectors(step) ==
  CASE step \in {"irq", "misc"} -> <<"vectors">>
    [] step = "dma"             -> <<"completion", "cmd", "vectors">>
    [] OTHER                    -> <<>>

\* The labels err_dma and err_vectors.
Unwind(step) ==
  CASE step = "irq"            -> <<"vectors">>
    [] step \in {"dma", "misc"} -> <<"completion", "cmd", "vectors">>
    [] OTHER                   -> <<>>

\* Mutant: devm_free_irq is left to devres, which comes after the vectors.
RemoveSteps_NoFreeIrq == <<"misc", "completion", "cmd", "vectors">>

\* pcie_vip_remove.
RemoveSteps == <<"misc", "irq", "completion", "cmd", "vectors">>

HasFile(p) == app[p].pc \in {"opened", "alloc", "lock", "run", "free", "close"}

\* insmod, or bind: the device is there and is probed.  (After an unplug only
\* once no process holds a file of the device that was there before.)
Bind ==
  /\ core.st = "unbound" /\ ~leaving /\ binds < MaxBinds /\ raw = NoAccess
  /\ \A p \in Apps : ~HasFile(p)
  /\ core' = [st |-> "probe", todo |-> ProbeSteps]
  /\ binds' = binds + 1
  /\ UNCHANGED <<res, leaving, app, lock, raw, unplug>>

Probe ==
  /\ core.st = "probe"
  /\ \E ok \in BOOLEAN, r \in UNION {Gains(Head(core.todo), b) : b \in BOOLEAN} :
       /\ r \in Gains(Head(core.todo), ok)
       /\ res' = res \cup r
       /\ core' = IF ~ok THEN [st |-> "fail", todo |-> Unwind(Head(core.todo)) \o Managed]
                  ELSE IF Len(core.todo) = 1 THEN [st |-> "bound", todo |-> <<>>]
                  ELSE [core EXCEPT !.todo = Tail(@)]
  /\ UNCHANGED <<leaving, binds, app, lock, raw, unplug>>

Release ==
  /\ core.st \in {"fail", "remove"}
  /\ res' = res \ {Head(core.todo)}
  /\ core' = IF Len(core.todo) = 1 THEN [st |-> "unbound", todo |-> <<>>]
             ELSE [core EXCEPT !.todo = Tail(@)]
  /\ UNCHANGED <<leaving, binds, app, lock, raw, unplug>>

\* Mutant: .owner is not set, so an open file does not hold the module.
Rmmod_NoOwner ==
  /\ core.st = "bound" /\ ~leaving
  /\ leaving' = TRUE
  /\ core' = [st |-> "remove", todo |-> RemoveSteps \o Managed]
  /\ UNCHANGED <<res, binds, app, lock, raw, unplug>>

\* rmmod: refused while a file is open, because .owner pins the module.
Rmmod ==
  /\ core.st = "bound" /\ ~leaving
  /\ \A p \in Apps : ~HasFile(p)
  /\ leaving' = TRUE
  /\ core' = [st |-> "remove", todo |-> RemoveSteps \o Managed]
  /\ UNCHANGED <<res, binds, app, lock, raw, unplug>>

RmmodDone ==
  /\ leaving /\ core.st = "unbound"
  /\ leaving' = FALSE
  /\ UNCHANGED <<core, res, binds, app, lock, raw, unplug>>

\* Hot-unplug, or unbind through sysfs: no file is asked.
Unplug ==
  /\ unplug /\ core.st = "bound" /\ ~leaving
  /\ core' = [st |-> "remove", todo |-> RemoveSteps \o Managed]
  /\ UNCHANGED <<res, leaving, binds, app, lock, raw, unplug>>

-----------------------------------------------------------------------------
(* pcie-vip-run, and the driver's file operations on its behalf.           *)

At(p, pc) == app[p].pc = pc
Goto(p, pc) == app' = [app EXCEPT ![p].pc = pc]
Returns(p, pc, code) == app' = [app EXCEPT ![p].pc = pc, ![p].code = code]

\* Mutant: zero is let through.
ArgsOk_Zero(len, iters) == len <= 4096 /\ iters <= 1024

\* The checks on --length and --iterations, and on what --interactive reads.
ArgsOk(len, iters) == len # 0 /\ len <= 4096 /\ iters # 0 /\ iters <= 1024

Start(p, len, iters) ==
  /\ At(p, "idle") /\ app[p].code = "none" /\ raw = NoAccess
  /\ \E v \in BOOLEAN :
       /\ len # 64 \/ iters # 1 => v     \* the options switch verbose on
       /\ app' = [app EXCEPT ![p] =
                    [@ EXCEPT !.ask = [len |-> len, iters |-> iters], !.verbose = v,
                              !.pc = IF ArgsOk(len, iters) THEN "open" ELSE "idle",
                              !.code = IF ArgsOk(len, iters) THEN "none" ELSE "usage"]]
  /\ UNCHANGED <<core, res, leaving, binds, lock, raw, unplug>>

\* open finds the node only while it is registered and the module stays.
Open(p) ==
  /\ At(p, "open")
  /\ IF "misc" \in res /\ ~leaving THEN Goto(p, "opened") ELSE Returns(p, "idle", "fail")
  /\ UNCHANGED <<core, res, leaving, binds, lock, raw, unplug>>

\* What the driver runs for a process: IOC_RUN has parameters of its own,
\* IOC_RUN_CONFIG replaces zeros.
RunConfig(a) ==
  IF ~a.verbose /\ a.ask.len = 64 /\ a.ask.iters = 1 THEN [len |-> 64, iters |-> 1]
  ELSE [len |-> IF a.ask.len = 0 THEN 64 ELSE a.ask.len,
        iters |-> IF a.ask.iters = 0 THEN 1 ELSE a.ask.iters]

\* pcie_vip_ioctl up to the allocations of pcie_vip_run_config.  (The argument
\* is on the tool's stack: copying it in and out does not fail.)
Ioctl(p) ==
  /\ At(p, "opened")
  /\ LET c == RunConfig(app[p])
     IN  IF c.len > 4096 \/ c.iters > 1024 THEN Returns(p, "close", "fail")
         ELSE app' = [app EXCEPT ![p].pc = "alloc", ![p].ran = c]
  /\ UNCHANGED <<core, res, leaving, binds, lock, raw, unplug>>

Alloc(p) ==
  /\ At(p, "alloc")
  /\ \/ Goto(p, "lock")
     \/ Returns(p, "free", "fail")
  /\ UNCHANGED <<core, res, leaving, binds, lock, raw, unplug>>

Lock(p) ==
  /\ At(p, "lock") /\ lock = NoApp
  /\ lock' = p
  /\ Goto(p, "run")
  /\ UNCHANGED <<core, res, leaving, binds, raw, unplug>>

\* Mutant: a run that times out returns without unlocking.
RunEnds_KeepLock(p) ==
  /\ At(p, "run")
  /\ \E code \in {"pass", "fail"} :
       /\ Returns(p, "free", code)
       /\ lock' = IF code = "pass" THEN NoApp ELSE lock
  /\ UNCHANGED <<core, res, leaving, binds, raw, unplug>>

\* The run ends, well or not, and unlocks.
RunEnds(p) ==
  /\ At(p, "run")
  /\ \E code \in {"pass", "fail"} : Returns(p, "free", code)
  /\ lock' = NoApp
  /\ UNCHANGED <<core, res, leaving, binds, raw, unplug>>

Free(p) ==
  /\ At(p, "free")
  /\ Goto(p, "close")
  /\ UNCHANGED <<core, res, leaving, binds, lock, raw, unplug>>

Close(p) ==
  /\ At(p, "close")
  /\ Goto(p, "idle")
  /\ UNCHANGED <<core, res, leaving, binds, lock, raw, unplug>>

App(p) ==
  \/ \E c \in Choices : Start(p, c[1], c[2])
  \/ Open(p) \/ Ioctl(p) \/ Alloc(p) \/ Lock(p) \/ RunEnds(p) \/ Free(p) \/ Close(p)

-----------------------------------------------------------------------------
(* pcie-vip-pcimem.                                                        *)

PageOf(off) == off - (off % PageSize)

\* bytes > size - offset, with offset <= size tested first.
RangeOk(off, bytes) == off <= BarSize /\ bytes <= BarSize - off

MapLength(off) == PageSize + off - PageOf(off)

\* The kernel maps whole pages, and none beyond the resource.
MapFits(off) == PageOf(off) + ((MapLength(off) + PageSize - 1) \div PageSize) * PageSize <= BarSize

\* Mutant: the offset is added to the mapping without taking the page off.
MapIndex_Absolute(off) == off

MapIndex(off) == off - PageOf(off)

How(off, bytes) ==
  CASE off % bytes # 0      -> "usage"
    [] ~RangeOk(off, bytes) -> "range"
    [] ~MapFits(off)        -> "mmap"
    [] OTHER                -> "done"

\* The README asks that the driver be not bound.  (Bound: nothing else has
\* been started yet.)
Pcimem(off, bytes) ==
  /\ binds = 0 /\ \A p \in Apps : At(p, "idle") /\ app[p].code = "none"
  /\ raw = NoAccess
  /\ raw' = [at |-> MapIndex(off), bytes |-> bytes, mapped |-> MapLength(off), off |-> off,
             how |-> How(off, bytes)]
  /\ UNCHANGED <<core, res, leaving, binds, app, lock, unplug>>

PcimemExit ==
  /\ raw # NoAccess
  /\ raw' = NoAccess
  /\ UNCHANGED <<core, res, leaving, binds, app, lock, unplug>>

-----------------------------------------------------------------------------

Next ==
  \/ Bind \/ Probe \/ Release \/ Rmmod \/ RmmodDone \/ Unplug
  \/ \E p \in Apps : App(p)
  \/ \E off \in Offsets, bytes \in {1, 2, 4, 8} : Pcimem(off, bytes)
  \/ PcimemExit

\* Processes keep running, runs end (DmaRing's IoctlReturns), and the driver
\* core finishes what it began.
Spec == Init /\ [][Next]_vars
FairSpec ==
  /\ Spec
  /\ WF_vars(Probe \/ Release)
  /\ \A p \in Apps : WF_vars(App(p))

-----------------------------------------------------------------------------
(* Properties.                                                             *)

\* pcie_vip_ioctl uses vip, the BAR, the interrupt and the bus without asking
\* whether they are there.  They are, for as long as a file is open: the node is
\* registered last and taken away first, and .owner makes rmmod wait.  Nothing
\* makes an unplug or an unbind wait, so it is not claimed for them.
IoctlFindsDevice ==
  ~unplug => \A p \in Apps : HasFile(p) =>
    {"vip", "enabled", "bar0", "vectors", "irq", "misc"} \subseteq res

\* An interrupt may come whenever the handler is registered.  Its opaque pointer
\* and the BAR are then alive, on the error paths of probe as well as in remove.
\* Its vectors are there too, unless a probe is failing: remove frees the
\* interrupt first, as its comment says it must (for probe: VectorsOutliveIrq).
HandlerSafe ==
  "irq" \in res => /\ {"vip", "enabled", "bar0"} \subseteq res
                   /\ core.st # "fail" => "vectors" \in res

\* The comment in pcie_vip_remove, taken for the driver as a whole: "the PCI core
\* never observes a live IRQ using an already-freed vector table".  The labels of
\* probe free the vectors, and devres the interrupt after that.
VectorsOutliveIrq == "irq" \in res => "vectors" \in res

\* Whatever step of probe failed, and after every remove, nothing is left
\* behind: what devres does not release, the labels and remove do.
NothingLeaked == core.st = "unbound" => res = {}

\* PASS is printed for the transfer that was asked for: no value the tool lets
\* through is replaced by a default of the driver or refused by it.
PassAsAsked == \A p \in Apps : app[p].code = "pass" => app[p].ran = app[p].ask

\* A load or store of pcie-vip-pcimem lies inside its mapping and inside BAR0.
RawAccessInside ==
  raw.how = "done" => /\ raw.at + raw.bytes <= raw.mapped
                      /\ PageOf(raw.off) + raw.at = raw.off /\ raw.off + raw.bytes <= BarSize

\* Every pcie-vip-run ends, whatever fails and whoever else is in a run: no
\* error path keeps run_lock.
ToolEnds == \A p \in Apps : At(p, "open") ~> At(p, "idle")
=============================================================================
