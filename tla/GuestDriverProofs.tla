------------------------- MODULE GuestDriverProofs -------------------------
(***************************************************************************)
(* Safety of the guest driver's life cycle for every number of processes,  *)
(* of binds, and every choice of arguments, offsets and page size.         *)
(***************************************************************************)
EXTENDS GuestDriver, SequenceTheorems, TLAPS

\* Everything pcie_vip_probe takes.
Everything == {"vip", "enabled", "bar0", "vectors", "irq", "cmd", "completion", "misc"}

\* The steps of probe and of the release.
Steps == Everything \cup {"mask", "dma"}

\* What is held when step n of probe is about to run: all that the steps before
\* it take (the DMA mask of step 4 is no resource).
Before ==
  << {}, {"vip"}, {"vip", "enabled"}, {"vip", "enabled", "bar0"}, {"vip", "enabled", "bar0"},
     {"vip", "enabled", "bar0", "vectors"}, {"vip", "enabled", "bar0", "vectors", "irq"},
     {"vip", "enabled", "bar0", "vectors", "irq", "cmd", "completion"} >>

\* What the steps from step n of the release on give back.
GivenBack ==
  << Everything,
     {"irq", "completion", "cmd", "vectors", "bar0", "enabled", "vip"},
     {"irq", "completion", "cmd", "vectors", "bar0", "enabled", "vip"},
     {"irq", "cmd", "vectors", "bar0", "enabled", "vip"},
     {"irq", "vectors", "bar0", "enabled", "vip"},
     {"irq", "bar0", "enabled", "vip"}, {"bar0", "enabled", "vip"}, {"enabled", "vip"}, {"vip"} >>

\* Every path to "unbound" runs through a suffix of remove followed by devres.
ReleaseSteps == RemoveSteps \o Managed
Probing(n) == SubSeq(ProbeSteps, n, 8)
Releasing(n) == SubSeq(ReleaseSteps, n, 9)

\* What may be held when step n of the release is about to run: nothing that no
\* later step gives back, and with the interrupt all that its handler needs.
ReleaseHolds(n, held) ==
  /\ held \subseteq GivenBack[n]
  /\ "irq" \in held => /\ {"vip", "enabled", "bar0"} \subseteq held
                       /\ n <= 5 => "vectors" \in held

\* The driver core: exactly what is held in each step of probe, and during a
\* release no more than it gives back.  The first step of remove, which takes the
\* node away, needs rmmod or an unplug; its second frees the interrupt.
CoreInv ==
  \/ core = [st |-> "unbound", todo |-> <<>>] /\ res = {}
  \/ core = [st |-> "bound", todo |-> <<>>] /\ res = Everything
  \/ \E n \in 1..8 : core = [st |-> "probe", todo |-> Probing(n)] /\ res = Before[n]
  \/ \E n \in 1..9, how \in {"fail", "remove"} :
       /\ core = [st |-> how, todo |-> Releasing(n)]
       /\ ReleaseHolds(n, res)
       /\ n = 1 => leaving \/ unplug
       /\ how = "remove" /\ n >= 3 => "irq" \notin res

\* An open file keeps the driver bound, unless the device may be unplugged.
FilePins == ~unplug => \A p \in Apps : HasFile(p) => core.st = "bound" /\ ~leaving

\* The record of one process.
AppRecord == [pc : {"idle", "open", "opened", "alloc", "lock", "run", "free", "close"},
              ask : [len : Nat, iters : Nat], verbose : BOOLEAN,
              ran : [len : Nat, iters : Nat], code : {"none", "usage", "pass", "fail"}]

\* A process past its argument checks asked for something in range; from the
\* ioctl on the driver runs just that.
AppOk(a) ==
  /\ a \in AppRecord
  /\ a.pc \in {"open", "opened", "alloc", "lock", "run"} =>
       a.code = "none" /\ ArgsOk(a.ask.len, a.ask.iters)
  /\ a.pc \in {"alloc", "lock", "run"} \/ a.code = "pass" => a.ran = a.ask

AppInv == app \in [Apps -> AppRecord] /\ \A p \in Apps : AppOk(app[p])

\* run_lock is held by the process that is in a run, so by no other.
RunLockHeld == \A p \in Apps : At(p, "run") <=> lock = p

-----------------------------------------------------------------------------
(* The tables of steps.                                                    *)

\* The release in full: its nine steps, in order.
LEMMA ReleaseTable ==
  /\ ReleaseSteps \in Seq(Steps) /\ Len(ReleaseSteps) = 9
  /\ ReleaseSteps = <<"misc", "irq", "completion", "cmd", "vectors", "irq", "bar0", "enabled", "vip">>
<1>1. RemoveSteps \in Seq(Steps) /\ Len(RemoveSteps) = 5
  BY DEF RemoveSteps, Steps, Everything
<1>2. Managed \in Seq(Steps) /\ Len(Managed) = 4
  BY DEF Managed, Steps, Everything
<1>3. ReleaseSteps \in Seq(Steps)
  BY <1>1, <1>2, ConcatProperties DEF ReleaseSteps
<1>4. Len(ReleaseSteps) = Len(RemoveSteps) + Len(Managed)
  BY <1>1, <1>2, ConcatProperties, Zenon DEF ReleaseSteps
<1>5. Len(ReleaseSteps) = 9
  BY <1>1, <1>2, <1>4
<1>6. /\ ReleaseSteps[1] = "misc" /\ ReleaseSteps[2] = "irq" /\ ReleaseSteps[3] = "completion"
      /\ ReleaseSteps[4] = "cmd" /\ ReleaseSteps[5] = "vectors" /\ ReleaseSteps[6] = "irq"
      /\ ReleaseSteps[7] = "bar0" /\ ReleaseSteps[8] = "enabled" /\ ReleaseSteps[9] = "vip"
  BY DEF ReleaseSteps, RemoveSteps, Managed
<1> QED
  BY <1>3, <1>5, <1>6

\* A release step takes the first of the steps to come.
LEMMA ReleaseStep ==
  ASSUME NEW n \in 1..9
  PROVE  /\ Head(Releasing(n)) = ReleaseSteps[n]
         /\ Len(Releasing(n)) = 10 - n
         /\ Tail(Releasing(n)) = Releasing(n + 1)
<1>1. /\ Head(SubSeq(ReleaseSteps, n, 9)) = ReleaseSteps[n]
      /\ Tail(SubSeq(ReleaseSteps, n, 9)) = SubSeq(ReleaseSteps, n + 1, 9)
  BY ReleaseTable, HeadTailOfSubSeq
<1>2. \A i \in 1..9 : ReleaseSteps[i] \in Steps
  BY ReleaseTable, ElementOfSeq
<1>3. Len(SubSeq(ReleaseSteps, n, 9)) = IF n <= 9 THEN 9 - n + 1 ELSE 0
  BY <1>2, SubSeqProperties
<1> QED
  BY <1>1, <1>3 DEF Releasing

\* So does a probe step.
LEMMA ProbeStep ==
  ASSUME NEW n \in 1..8
  PROVE  /\ Head(Probing(n)) = ProbeSteps[n]
         /\ Len(Probing(n)) = 9 - n
         /\ Tail(Probing(n)) = Probing(n + 1)
<1>1. ProbeSteps \in Seq(Steps) /\ Len(ProbeSteps) = 8
  BY DEF ProbeSteps, Steps, Everything
<1>2. /\ Head(SubSeq(ProbeSteps, n, 8)) = ProbeSteps[n]
      /\ Tail(SubSeq(ProbeSteps, n, 8)) = SubSeq(ProbeSteps, n + 1, 8)
  BY <1>1, HeadTailOfSubSeq
<1>3. \A i \in 1..8 : ProbeSteps[i] \in Steps
  BY <1>1, ElementOfSeq, Zenon
<1>4. Len(SubSeq(ProbeSteps, n, 8)) = IF n <= 8 THEN 8 - n + 1 ELSE 0
  BY <1>3, SubSeqProperties
<1> QED
  BY <1>2, <1>4 DEF Probing

\* Where remove and the error labels of probe enter the release.
LEMMA UnwindStep ==
  /\ \A step \in {"vip", "enabled", "bar0", "mask", "vectors"} :
       Unwind(step) \o Managed = Releasing(6)
  /\ Unwind("irq") \o Managed = Releasing(5)
  /\ \A step \in {"dma", "misc"} : Unwind(step) \o Managed = Releasing(3)
  /\ RemoveSteps \o Managed = Releasing(1)
  /\ Managed = Releasing(6)
<1>1. \A step \in {"vip", "enabled", "bar0", "mask", "vectors"} : Unwind(step) = <<>>
  BY Zenon DEF Unwind
<1>2. Unwind("irq") = <<"vectors">>
  BY Zenon DEF Unwind
<1>3. \A step \in {"dma", "misc"} : Unwind(step) = <<"completion", "cmd", "vectors">>
  BY Zenon DEF Unwind
<1>4. Managed \in Seq(Steps) /\ Len(Managed) = 4
  BY DEF Managed, Steps, Everything
<1>5. Releasing(1) = RemoveSteps \o Managed
  BY ReleaseTable, SubSeqFull, Zenon DEF Releasing, ReleaseSteps
<1>6. Releasing(2) = <<"irq", "completion", "cmd", "vectors", "irq", "bar0", "enabled", "vip">>
  <2>1. Releasing(1) = <<"misc", "irq", "completion", "cmd", "vectors", "irq", "bar0", "enabled", "vip">>
    BY <1>5, ReleaseTable DEF ReleaseSteps
  <2>2. Tail(Releasing(1)) = Releasing(2)
    BY ReleaseStep, 1 + 1 = 2
  <2>3. Tail(<<"misc", "irq", "completion", "cmd", "vectors", "irq", "bar0", "enabled", "vip">>)
          = <<"irq", "completion", "cmd", "vectors", "irq", "bar0", "enabled", "vip">>
    OBVIOUS
  <2> QED
    BY <2>1, <2>2, <2>3, Zenon
<1>7. Releasing(3) = <<"completion", "cmd", "vectors", "irq", "bar0", "enabled", "vip">>
  <2>1. Tail(Releasing(2)) = Releasing(3)
    BY ReleaseStep, 2 + 1 = 3
  <2>3. Tail(<<"irq", "completion", "cmd", "vectors", "irq", "bar0", "enabled", "vip">>)
          = <<"completion", "cmd", "vectors", "irq", "bar0", "enabled", "vip">>
    OBVIOUS
  <2> QED
    BY <1>6, <2>1, <2>3, Zenon
<1>8. Releasing(4) = <<"cmd", "vectors", "irq", "bar0", "enabled", "vip">>
  <2>1. Tail(Releasing(3)) = Releasing(4)
    BY ReleaseStep, 3 + 1 = 4
  <2>3. Tail(<<"completion", "cmd", "vectors", "irq", "bar0", "enabled", "vip">>)
          = <<"cmd", "vectors", "irq", "bar0", "enabled", "vip">>
    OBVIOUS
  <2> QED
    BY <1>7, <2>1, <2>3, Zenon
<1>9. Releasing(5) = <<"vectors", "irq", "bar0", "enabled", "vip">>
  <2>1. Tail(Releasing(4)) = Releasing(5)
    BY ReleaseStep, 4 + 1 = 5
  <2>3. Tail(<<"cmd", "vectors", "irq", "bar0", "enabled", "vip">>)
          = <<"vectors", "irq", "bar0", "enabled", "vip">>
    OBVIOUS
  <2> QED
    BY <1>8, <2>1, <2>3, Zenon
<1>10. Releasing(6) = <<"irq", "bar0", "enabled", "vip">>
  <2>1. Tail(Releasing(5)) = Releasing(6)
    BY ReleaseStep, 5 + 1 = 6
  <2>3. Tail(<<"vectors", "irq", "bar0", "enabled", "vip">>)
          = <<"irq", "bar0", "enabled", "vip">>
    OBVIOUS
  <2> QED
    BY <1>9, <2>1, <2>3, Zenon
<1>11. <<"vectors">> \o Managed = <<"vectors", "irq", "bar0", "enabled", "vip">>
  <2> DEFINE u == <<"vectors">>
             r == u \o Managed
  <2>1. u \in Seq(Steps) /\ Len(u) = 1
    BY DEF Steps, Everything
  <2>2. r \in Seq(Steps) /\ Len(r) = Len(u) + Len(Managed)
    <3> HIDE DEF u
    <3> QED BY <1>4, <2>1, ConcatProperties, Zenon
  <2>3. r[1] = "vectors" /\ r[2] = "irq" /\ r[3] = "bar0" /\ r[4] = "enabled" /\ r[5] = "vip"
    BY DEF Managed
  <2>4. Len(r) = 5
    BY <1>4, <2>1, <2>2
  <2>s. r \in Seq(Steps)
    BY <2>2
  <2> HIDE DEF r
  <2>5. r = <<"vectors", "irq", "bar0", "enabled", "vip">>
    BY <2>s, <2>3, <2>4
  <2> QED
    BY <2>5 DEF r
<1>12. <<"completion", "cmd", "vectors">> \o Managed =
         <<"completion", "cmd", "vectors", "irq", "bar0", "enabled", "vip">>
  <2> DEFINE u == <<"completion", "cmd", "vectors">>
             r == u \o Managed
  <2>1. u \in Seq(Steps) /\ Len(u) = 3
    BY DEF Steps, Everything
  <2>2. r \in Seq(Steps) /\ Len(r) = Len(u) + Len(Managed)
    <3> HIDE DEF u
    <3> QED BY <1>4, <2>1, ConcatProperties, Zenon
  <2>3. /\ r[1] = "completion" /\ r[2] = "cmd" /\ r[3] = "vectors"
        /\ r[4] = "irq" /\ r[5] = "bar0" /\ r[6] = "enabled" /\ r[7] = "vip"
    BY DEF Managed
  <2>4. Len(r) = 7
    BY <1>4, <2>1, <2>2
  <2>s. r \in Seq(Steps)
    BY <2>2
  <2> HIDE DEF r
  <2>5. r = <<"completion", "cmd", "vectors", "irq", "bar0", "enabled", "vip">>
    BY <2>s, <2>3, <2>4
  <2> QED
    BY <2>5 DEF r
<1>13. <<>> \o Managed = Managed
  BY <1>4, ConcatEmptySeq
<1>14. Managed = Releasing(6)
  BY <1>10 DEF Managed
<1> QED
  BY <1>1, <1>2, <1>3, <1>5, <1>7, <1>9, <1>11, <1>12, <1>13, <1>14, Zenon

\* A release step gives back its own resource and leaves the rest to later steps.
LEMMA ReleaseKeeps ==
  ASSUME NEW n \in 1..9, NEW held, ReleaseHolds(n, held)
  PROVE  IF n = 9 THEN held \ {ReleaseSteps[n]} = {}
         ELSE ReleaseHolds(n + 1, held \ {ReleaseSteps[n]})
<1>1. CASE n = 1
  BY <1>1, ReleaseTable DEF ReleaseHolds, GivenBack, Everything
<1>2. CASE n = 2
  BY <1>2, ReleaseTable DEF ReleaseHolds, GivenBack
<1>3. CASE n = 3
  BY <1>3, ReleaseTable DEF ReleaseHolds, GivenBack
<1>4. CASE n = 4
  BY <1>4, ReleaseTable DEF ReleaseHolds, GivenBack
<1>5. CASE n = 5
  BY <1>5, ReleaseTable DEF ReleaseHolds, GivenBack
<1>6. CASE n = 6
  BY <1>6, ReleaseTable DEF ReleaseHolds, GivenBack
<1>7. CASE n = 7
  BY <1>7, ReleaseTable DEF ReleaseHolds, GivenBack
<1>8. CASE n = 8
  BY <1>8, ReleaseTable DEF ReleaseHolds, GivenBack
<1>9. CASE n = 9
  BY <1>9, ReleaseTable DEF ReleaseHolds, GivenBack
<1> QED
  BY <1>1, <1>2, <1>3, <1>4, <1>5, <1>6, <1>7, <1>8, <1>9

\* What the steps of probe take.
LEMMA GainsOf ==
  ASSUME NEW step, NEW ok \in BOOLEAN, NEW r \in Gains(step, ok)
  PROVE  /\ step \in {"vip", "enabled", "vectors", "irq", "misc"} =>
              (ok => r = {step}) /\ (~ok => r = {})
         /\ step = "bar0" => (ok => r = {"bar0"}) /\ (~ok => r \in {{}, {"bar0"}})
         /\ step = "mask" => r = {}
         /\ step = "dma" => /\ ok => r = {"cmd", "completion"}
                            /\ ~ok => r \in {{}, {"cmd"}, {"completion"}}
<1>1. CASE ok
  BY <1>1, Zenon DEF Gains
<1>2. CASE ~ok
  BY <1>2, Zenon DEF Gains
<1> QED
  BY <1>1, <1>2

\* A probe step that succeeds holds what the next one expects; one that fails
\* leaves only what the release from its label on gives back.
LEMMA ProbeKeeps ==
  ASSUME NEW n \in 1..8, NEW ok \in BOOLEAN, NEW r \in Gains(ProbeSteps[n], ok)
  PROVE  /\ ok => Before[n] \cup r = IF n = 8 THEN Everything ELSE Before[n + 1]
         /\ ~ok => \E m \in 2..9 : /\ Unwind(ProbeSteps[n]) \o Managed = Releasing(m)
                                   /\ ReleaseHolds(m, Before[n] \cup r)
<1> DEFINE step == ProbeSteps[n]
<1> HIDE DEF step
<1>0. r \in Gains(step, ok)
  BY Zenon DEF step
<1>1. CASE n = 1
  <2>1. step = "vip"
    BY <1>1 DEF step, ProbeSteps
  <2>2. Unwind(step) \o Managed = Releasing(6)
    BY <2>1, UnwindStep
  <2>3. (ok => r = {"vip"}) /\ (~ok => r = {})
    BY <1>0, <2>1, GainsOf, Zenon
  <2>4. ok => Before[n] \cup r = Before[n + 1]
    BY <1>1, <2>3 DEF Before
  <2>5. ~ok => ReleaseHolds(6, Before[n] \cup r)
    BY <1>1, <2>3 DEF Before, ReleaseHolds, GivenBack
  <2> QED
    BY <1>1, <2>2, <2>4, <2>5 DEF step
<1>2. CASE n = 2
  <2>1. step = "enabled"
    BY <1>2 DEF step, ProbeSteps
  <2>2. Unwind(step) \o Managed = Releasing(6)
    BY <2>1, UnwindStep
  <2>3. (ok => r = {"enabled"}) /\ (~ok => r = {})
    BY <1>0, <2>1, GainsOf, Zenon
  <2>4. ok => Before[n] \cup r = Before[n + 1]
    BY <1>2, <2>3 DEF Before
  <2>5. ~ok => ReleaseHolds(6, Before[n] \cup r)
    BY <1>2, <2>3 DEF Before, ReleaseHolds, GivenBack
  <2> QED
    BY <1>2, <2>2, <2>4, <2>5 DEF step
<1>3. CASE n = 3
  <2>1. step = "bar0"
    BY <1>3 DEF step, ProbeSteps
  <2>2. Unwind(step) \o Managed = Releasing(6)
    BY <2>1, UnwindStep
  <2>3. (ok => r = {"bar0"}) /\ (~ok => r \in {{}, {"bar0"}})
    BY <1>0, <2>1, GainsOf, Zenon
  <2>4. ok => Before[n] \cup r = Before[n + 1]
    BY <1>3, <2>3 DEF Before
  <2>5. ~ok => ReleaseHolds(6, Before[n] \cup r)
    BY <1>3, <2>3 DEF Before, ReleaseHolds, GivenBack
  <2> QED
    BY <1>3, <2>2, <2>4, <2>5 DEF step
<1>4. CASE n = 4
  <2>1. step = "mask"
    BY <1>4 DEF step, ProbeSteps
  <2>2. Unwind(step) \o Managed = Releasing(6)
    BY <2>1, UnwindStep
  <2>3. r = {}
    BY <1>0, <2>1, GainsOf, Zenon
  <2>4. ok => Before[n] \cup r = Before[n + 1]
    BY <1>4, <2>3 DEF Before
  <2>5. ~ok => ReleaseHolds(6, Before[n] \cup r)
    BY <1>4, <2>3 DEF Before, ReleaseHolds, GivenBack
  <2> QED
    BY <1>4, <2>2, <2>4, <2>5 DEF step
<1>5. CASE n = 5
  <2>1. step = "vectors"
    BY <1>5 DEF step, ProbeSteps
  <2>2. Unwind(step) \o Managed = Releasing(6)
    BY <2>1, UnwindStep
  <2>3. (ok => r = {"vectors"}) /\ (~ok => r = {})
    BY <1>0, <2>1, GainsOf, Zenon
  <2>4. ok => Before[n] \cup r = Before[n + 1]
    BY <1>5, <2>3 DEF Before
  <2>5. ~ok => ReleaseHolds(6, Before[n] \cup r)
    BY <1>5, <2>3 DEF Before, ReleaseHolds, GivenBack
  <2> QED
    BY <1>5, <2>2, <2>4, <2>5 DEF step
<1>6. CASE n = 6
  <2>1. step = "irq"
    BY <1>6 DEF step, ProbeSteps
  <2>2. Unwind(step) \o Managed = Releasing(5)
    BY <2>1, UnwindStep
  <2>3. (ok => r = {"irq"}) /\ (~ok => r = {})
    BY <1>0, <2>1, GainsOf, Zenon
  <2>4. ok => Before[n] \cup r = Before[n + 1]
    BY <1>6, <2>3 DEF Before
  <2>5. ~ok => ReleaseHolds(5, Before[n] \cup r)
    BY <1>6, <2>3 DEF Before, ReleaseHolds, GivenBack
  <2> QED
    BY <1>6, <2>2, <2>4, <2>5 DEF step
<1>7. CASE n = 7
  <2>1. step = "dma"
    BY <1>7 DEF step, ProbeSteps
  <2>2. Unwind(step) \o Managed = Releasing(3)
    BY <2>1, UnwindStep
  <2>3. (ok => r = {"cmd", "completion"}) /\ (~ok => r \in {{}, {"cmd"}, {"completion"}})
    BY <1>0, <2>1, GainsOf, Zenon
  <2>4. ok => Before[n] \cup r = Before[n + 1]
    BY <1>7, <2>3 DEF Before
  <2>5. ~ok => ReleaseHolds(3, Before[n] \cup r)
    BY <1>7, <2>3 DEF Before, ReleaseHolds, GivenBack
  <2> QED
    BY <1>7, <2>2, <2>4, <2>5 DEF step
<1>8. CASE n = 8
  <2>1. step = "misc"
    BY <1>8 DEF step, ProbeSteps
  <2>2. Unwind(step) \o Managed = Releasing(3)
    BY <2>1, UnwindStep, SMTT(20)
  <2>3. (ok => r = {"misc"}) /\ (~ok => r = {})
    BY <1>0, <2>1, GainsOf, Zenon
  <2>4. ok => Before[n] \cup r = Everything
    BY <1>8, <2>3 DEF Before, Everything
  <2>5. ~ok => ReleaseHolds(3, Before[n] \cup r)
    BY <1>8, <2>3 DEF Before, ReleaseHolds, GivenBack
  <2> QED
    BY <1>8, <2>2, <2>4, <2>5 DEF step
<1>9. n = 1 \/ n = 2 \/ n = 3 \/ n = 4 \/ n = 5 \/ n = 6 \/ n = 7 \/ n = 8
  OBVIOUS
<1> QED
  BY <1>1, <1>2, <1>3, <1>4, <1>5, <1>6, <1>7, <1>8, <1>9, Zenon

-----------------------------------------------------------------------------
(* The driver core.                                                        *)

\* A step of probe.
LEMMA ProbeInv == ASSUME CoreInv, Probe PROVE CoreInv'
<1>1. PICK n \in 1..8 : core = [st |-> "probe", todo |-> Probing(n)] /\ res = Before[n]
  BY DEF CoreInv, Probe
<1>2. core.todo = Probing(n) /\ Head(core.todo) = ProbeSteps[n] /\ Len(core.todo) = 9 - n
      /\ Tail(core.todo) = Probing(n + 1)
  BY <1>1, ProbeStep, Zenon
<1>3. PICK ok \in BOOLEAN, r \in UNION {Gains(Head(core.todo), b) : b \in BOOLEAN} :
        /\ r \in Gains(Head(core.todo), ok)
        /\ res' = res \cup r
        /\ core' = IF ~ok THEN [st |-> "fail", todo |-> Unwind(Head(core.todo)) \o Managed]
                   ELSE IF Len(core.todo) = 1 THEN [st |-> "bound", todo |-> <<>>]
                   ELSE [core EXCEPT !.todo = Tail(@)]
  BY DEF Probe
<1>r. r \in Gains(ProbeSteps[n], ok)
  BY <1>2, <1>3, Zenon
<1>4. CASE ~ok
  <2>1. PICK m \in 2..9 : /\ Unwind(ProbeSteps[n]) \o Managed = Releasing(m)
                          /\ ReleaseHolds(m, Before[n] \cup r)
    BY <1>4, <1>r, ProbeKeeps, Zenon
  <2>2. core' = [st |-> "fail", todo |-> Releasing(m)] /\ ReleaseHolds(m, res')
    BY <1>1, <1>2, <1>3, <1>4, <2>1, Zenon
  <2> QED
    BY <2>2 DEF CoreInv
<1>5. CASE ok /\ n = 8
  <2>1. res' = Everything
    BY <1>1, <1>3, <1>5, <1>r, ProbeKeeps, Zenon
  <2>2. core' = [st |-> "bound", todo |-> <<>>]
    BY <1>2, <1>3, <1>5
  <2> QED
    BY <2>1, <2>2 DEF CoreInv
<1>6. CASE ok /\ n # 8
  <2>1. res' = Before[n + 1]
    BY <1>1, <1>3, <1>6, <1>r, ProbeKeeps, Zenon
  <2>2. core' = [st |-> "probe", todo |-> Probing(n + 1)]
    <3>1. core' = [core EXCEPT !.todo = Tail(core.todo)]
      BY <1>2, <1>3, <1>6
    <3> QED
      BY <1>1, <1>2, <3>1, Zenon
  <2>3. n + 1 \in 1..8
    BY <1>6
  <2> QED
    BY <2>1, <2>2, <2>3 DEF CoreInv
<1> QED
  BY <1>4, <1>5, <1>6

\* A step of the release, in remove or in devres.
LEMMA ReleaseInv == ASSUME CoreInv, Release PROVE CoreInv'
<1>1. PICK n \in 1..9, how \in {"fail", "remove"} :
        /\ core = [st |-> how, todo |-> Releasing(n)] /\ ReleaseHolds(n, res)
        /\ how = "remove" /\ n >= 3 => "irq" \notin res
  BY DEF CoreInv, Release
<1>2. Head(core.todo) = ReleaseSteps[n] /\ Len(core.todo) = 10 - n
      /\ Tail(core.todo) = Releasing(n + 1)
  BY <1>1, ReleaseStep, Zenon
<1>3. res' = res \ {ReleaseSteps[n]}
  BY <1>2 DEF Release
<1>4. CASE n = 9
  <2>1. res' = {}
    BY <1>1, <1>3, <1>4, ReleaseKeeps
  <2>2. core' = [st |-> "unbound", todo |-> <<>>]
    BY <1>2, <1>4 DEF Release
  <2> QED
    BY <2>1, <2>2 DEF CoreInv
<1>5. CASE n # 9
  <2>1. ReleaseHolds(n + 1, res')
    BY <1>1, <1>3, <1>5, ReleaseKeeps
  <2>2. core' = [st |-> how, todo |-> Releasing(n + 1)]
    <3>1. core' = [core EXCEPT !.todo = Tail(core.todo)]
      BY <1>2, <1>5 DEF Release
    <3> QED
      BY <1>1, <1>2, <3>1, Zenon
  <2>3. n + 1 \in 1..9 /\ n + 1 # 1
    BY <1>5
  <2>4. how = "remove" /\ n + 1 >= 3 => "irq" \notin res'
    BY <1>1, <1>3, ReleaseTable
  <2> QED
    BY <2>1, <2>2, <2>3, <2>4 DEF CoreInv
<1> QED
  BY <1>4, <1>5

\* rmmod and unplug start remove with everything held.
LEMMA RemoveInv ==
  ASSUME CoreInv, core.st = "bound", core' = [st |-> "remove", todo |-> RemoveSteps \o Managed],
         UNCHANGED res, leaving' \/ unplug'
  PROVE  CoreInv'
<1>1. res' = Everything
  BY DEF CoreInv
<1>2. ReleaseHolds(1, res')
  BY <1>1 DEF ReleaseHolds, GivenBack, Everything
<1>3. core' = [st |-> "remove", todo |-> Releasing(1)]
  BY UnwindStep
<1>4. 1 \in 1..9 /\ ~(1 >= 3)
  OBVIOUS
<1> QED
  BY <1>2, <1>3, <1>4, Zenon DEF CoreInv

\* Processes change neither the driver core nor what it holds.
LEMMA AppFrame == ASSUME NEW p, App(p) PROVE UNCHANGED <<core, res, leaving, binds, raw, unplug>>
<1>1. ASSUME NEW c \in Choices, Start(p, c[1], c[2])
      PROVE  UNCHANGED <<core, res, leaving, binds, raw, unplug>>
  BY <1>1, Zenon DEF Start
<1>2. CASE Open(p) \/ Ioctl(p) \/ Alloc(p) \/ Free(p) \/ Close(p)
  BY <1>2, Zenon DEF Open, Ioctl, Alloc, Free, Close
<1>3. CASE Lock(p) \/ RunEnds(p)
  BY <1>3, Zenon DEF Lock, RunEnds
<1> QED
  BY <1>1, <1>2, <1>3, Zenon DEF App

\* Every step keeps the driver core's invariant.
LEMMA CoreStep == ASSUME CoreInv, [Next]_vars PROVE CoreInv'
<1>1. CASE Bind
  <2>1. core.st = "unbound" /\ res' = res /\ core' = [st |-> "probe", todo |-> ProbeSteps]
    BY <1>1 DEF Bind
  <2>2. res' = Before[1]
    BY <2>1 DEF CoreInv, Before
  <2>3. ProbeSteps = Probing(1)
    BY SubSeqFull DEF Probing, ProbeSteps
  <2> QED
    BY <2>1, <2>2, <2>3 DEF CoreInv
<1>2. CASE Probe
  BY <1>2, ProbeInv
<1>3. CASE Release
  BY <1>3, ReleaseInv
<1>4. CASE Rmmod
  BY <1>4, RemoveInv DEF Rmmod
<1>5. CASE Unplug
  BY <1>5, RemoveInv DEF Unplug
<1>6. CASE RmmodDone
  BY <1>6 DEF RmmodDone, CoreInv
<1>7. CASE \/ \E p \in Apps : App(p)
           \/ \E off \in Offsets, bytes \in {1, 2, 4, 8} : Pcimem(off, bytes)
           \/ PcimemExit \/ UNCHANGED vars
  <2>1. UNCHANGED <<core, res, leaving, unplug>>
    BY <1>7, AppFrame, Zenon DEF Pcimem, PcimemExit, vars
  <2> QED
    BY <2>1 DEF CoreInv
<1> QED
  BY <1>1, <1>2, <1>3, <1>4, <1>5, <1>6, <1>7 DEF Next

-----------------------------------------------------------------------------
(* The processes.                                                          *)

\* The node is registered only while the driver is bound or is being removed.
LEMMA NodeMeansBound ==
  ASSUME CoreInv, "misc" \in res, ~leaving, ~unplug
  PROVE  core.st = "bound"
<1>1. \A n \in 1..8 : "misc" \notin Before[n]
  BY DEF Before
<1>2. \A n \in 2..9 : "misc" \notin GivenBack[n]
  BY DEF GivenBack
<1>3. \A n \in 1..9 : ReleaseHolds(n, res) => n = 1
  BY <1>2 DEF ReleaseHolds
<1> QED
  BY <1>1, <1>3 DEF CoreInv

\* What a step of process p does: the new record a, and what becomes of run_lock.
\* A file comes only from an open that finds the node.
AppMove(p, a) ==
  /\ app' = [app EXCEPT ![p] = a]
  /\ AppOk(a)
  /\ a.pc = "opened" => "misc" \in res /\ ~leaving
  /\ a.pc \in {"alloc", "lock", "run", "free", "close"} => HasFile(p)
  /\ \/ lock' = lock /\ app[p].pc # "run" /\ a.pc # "run"
     \/ lock = NoApp /\ lock' = p /\ a.pc = "run"
     \/ app[p].pc = "run" /\ lock' = NoApp /\ a.pc # "run"

\* Moving on, and ending with an exit code, as assignments to the whole record.
LEMMA GotoRecord ==
  ASSUME AppInv, NEW p \in Apps, NEW pc, NEW code
  PROVE  /\ Goto(p, pc) => app' = [app EXCEPT ![p] = [app[p] EXCEPT !.pc = pc]]
         /\ Returns(p, pc, code) =>
              app' = [app EXCEPT ![p] = [app[p] EXCEPT !.pc = pc, !.code = code]]
BY Zenon DEF AppInv, Goto, Returns

\* Starting: the arguments are checked, and no file is open yet.
LEMMA StartMove ==
  ASSUME AppInv, NEW p \in Apps, NEW c \in Choices, Start(p, c[1], c[2])
  PROVE  \E a : AppMove(p, a)
<1>1. PICK v \in BOOLEAN :
        app' = [app EXCEPT ![p] =
                  [app[p] EXCEPT !.ask = [len |-> c[1], iters |-> c[2]], !.verbose = v,
                              !.pc = IF ArgsOk(c[1], c[2]) THEN "open" ELSE "idle",
                              !.code = IF ArgsOk(c[1], c[2]) THEN "none" ELSE "usage"]]
  BY Zenon DEF Start
<1> DEFINE a == [app[p] EXCEPT !.ask = [len |-> c[1], iters |-> c[2]], !.verbose = v,
                              !.pc = IF ArgsOk(c[1], c[2]) THEN "open" ELSE "idle",
                              !.code = IF ArgsOk(c[1], c[2]) THEN "none" ELSE "usage"]
<1>2. c[1] \in Nat /\ c[2] \in Nat
  BY GuestAssumption
<1>3. app[p] \in AppRecord /\ app[p].pc = "idle" /\ lock' = lock
  BY DEF AppInv, Start, At
<1>4. AppOk(a) /\ a.pc \in {"idle", "open"}
  BY <1>2, <1>3, Zenon DEF AppOk, AppRecord
<1> HIDE DEF a
<1> QED
  BY <1>1, <1>3, <1>4, Zenon DEF AppMove, a

\* Opening the node, or failing to.
LEMMA OpenMove == ASSUME AppInv, NEW p \in Apps, Open(p) PROVE \E a : AppMove(p, a)
<1>1. app[p] \in AppRecord /\ AppOk(app[p]) /\ app[p].pc = "open" /\ lock' = lock
  BY DEF AppInv, Open, At
<1>2. CASE "misc" \in res /\ ~leaving
  <2> DEFINE a == [app[p] EXCEPT !.pc = "opened"]
  <2>1. app' = [app EXCEPT ![p] = a]
    BY <1>2, GotoRecord, Zenon DEF Open
  <2>2. AppOk(a) /\ a.pc = "opened"
    BY <1>1 DEF AppOk, AppRecord
  <2> HIDE DEF a
  <2> QED
    BY <1>1, <1>2, <2>1, <2>2, Zenon DEF AppMove
<1>3. CASE ~("misc" \in res /\ ~leaving)
  <2> DEFINE a == [app[p] EXCEPT !.pc = "idle", !.code = "fail"]
  <2>1. app' = [app EXCEPT ![p] = a]
    <3>1. Returns(p, "idle", "fail")
      BY <1>3, Zenon DEF Open
    <3> QED
      BY <3>1, Zenon DEF AppInv, Returns
  <2>2. AppOk(a) /\ a.pc = "idle"
    BY <1>1, Zenon DEF AppOk, AppRecord
  <2> HIDE DEF a
  <2> QED
    BY <1>1, <1>3, <2>1, <2>2, Zenon DEF AppMove
<1> QED
  BY <1>2, <1>3

\* The defaults of IOC_RUN_CONFIG never apply: what was asked for is in range.
LEMMA IoctlMove == ASSUME AppInv, NEW p \in Apps, Ioctl(p) PROVE \E a : AppMove(p, a)
<1>1. app[p] \in AppRecord /\ AppOk(app[p]) /\ app[p].pc = "opened" /\ lock' = lock
  BY DEF AppInv, Ioctl, At
<1>2. app[p].ask \in [len : Nat, iters : Nat]
  BY <1>1 DEF AppRecord
<1>3. ArgsOk(app[p].ask.len, app[p].ask.iters) /\ app[p].code = "none"
  BY <1>1 DEF AppOk
<1> DEFINE b == app[p].ask
           c == RunConfig(app[p])
<1>4. b.len \in Nat /\ b.iters \in Nat /\ b.len # 0 /\ b.len <= 4096 /\ b.iters # 0 /\ b.iters <= 1024
  BY <1>2, <1>3 DEF ArgsOk
<1>5. c = [len |-> b.len, iters |-> b.iters]
  <2>1. b.len # 0 /\ b.iters # 0
    BY <1>4
  <2> QED
    BY <2>1, Zenon DEF RunConfig
<1>7. b = [len |-> b.len, iters |-> b.iters]
  BY <1>2
<1> HIDE DEF c
<1>8. c.len = b.len /\ c.iters = b.iters
  BY <1>5
<1>9. app' = [app EXCEPT ![p].pc = "alloc", ![p].ran = c]
  BY <1>4, <1>8 DEF Ioctl, c
<1> DEFINE a == [app[p] EXCEPT !.pc = "alloc", !.ran = b]
<1>10. app' = [app EXCEPT ![p] = a]
  BY <1>5, <1>7, <1>9, Zenon DEF AppInv
<1>11. AppOk(a) /\ a.pc = "alloc"
  BY <1>1, <1>2, <1>3, Zenon DEF AppOk, AppRecord
<1>6. HasFile(p)
  BY <1>1 DEF HasFile
<1> HIDE DEF a
<1> QED
  BY <1>1, <1>6, <1>10, <1>11, Zenon DEF AppMove

\* The two buffers, or -ENOMEM.
LEMMA AllocMove == ASSUME AppInv, NEW p \in Apps, Alloc(p) PROVE \E a : AppMove(p, a)
<1>1. /\ app[p] \in AppRecord /\ AppOk(app[p]) /\ app[p].pc = "alloc" /\ HasFile(p)
      /\ lock' = lock
  BY DEF AppInv, Alloc, At, HasFile
<1>2. CASE Goto(p, "lock")
  <2> DEFINE a == [app[p] EXCEPT !.pc = "lock"]
  <2>1. app' = [app EXCEPT ![p] = a]
    BY <1>2 DEF AppInv, Goto
  <2>2. AppOk(a) /\ a.pc = "lock"
    BY <1>1 DEF AppOk, AppRecord
  <2> HIDE DEF a
  <2> QED
    BY <1>1, <2>1, <2>2, Zenon DEF AppMove
<1>3. CASE Returns(p, "free", "fail")
  <2> DEFINE a == [app[p] EXCEPT !.pc = "free", !.code = "fail"]
  <2>1. app' = [app EXCEPT ![p] = a]
    BY <1>3, Zenon DEF AppInv, Returns
  <2>2. AppOk(a) /\ a.pc = "free"
    BY <1>1, Zenon DEF AppOk, AppRecord
  <2> HIDE DEF a
  <2> QED
    BY <1>1, <2>1, <2>2, Zenon DEF AppMove
<1> QED
  BY <1>2, <1>3 DEF Alloc

\* Taking run_lock, which was free.
LEMMA LockMove == ASSUME AppInv, NEW p \in Apps, Lock(p) PROVE \E a : AppMove(p, a)
<1>1. /\ app[p] \in AppRecord /\ AppOk(app[p]) /\ app[p].pc = "lock" /\ HasFile(p)
      /\ lock = NoApp /\ lock' = p
  BY DEF AppInv, Lock, At, HasFile
<1>2. CASE Goto(p, "run")
  <2> DEFINE a == [app[p] EXCEPT !.pc = "run"]
  <2>1. app' = [app EXCEPT ![p] = a]
    BY <1>2 DEF AppInv, Goto
  <2>2. AppOk(a) /\ a.pc = "run"
    BY <1>1 DEF AppOk, AppRecord
  <2> HIDE DEF a
  <2> QED
    BY <1>1, <2>1, <2>2, Zenon DEF AppMove
<1> QED
  BY <1>2 DEF Lock

\* The end of a run gives run_lock back, whatever its result.
LEMMA RunEndsMove == ASSUME AppInv, NEW p \in Apps, RunEnds(p) PROVE \E a : AppMove(p, a)
<1>1. /\ app[p] \in AppRecord /\ AppOk(app[p]) /\ app[p].pc = "run" /\ HasFile(p)
      /\ lock' = NoApp
  BY DEF AppInv, RunEnds, At, HasFile
<1>2. CASE Returns(p, "free", "pass")
  <2> DEFINE a == [app[p] EXCEPT !.pc = "free", !.code = "pass"]
  <2>1. app' = [app EXCEPT ![p] = a]
    BY <1>2, Zenon DEF AppInv, Returns
  <2>2. AppOk(a) /\ a.pc = "free"
    BY <1>1, Zenon DEF AppOk, AppRecord
  <2> HIDE DEF a
  <2> QED
    BY <1>1, <2>1, <2>2, Zenon DEF AppMove
<1>3. CASE Returns(p, "free", "fail")
  <2> DEFINE a == [app[p] EXCEPT !.pc = "free", !.code = "fail"]
  <2>1. app' = [app EXCEPT ![p] = a]
    BY <1>3, Zenon DEF AppInv, Returns
  <2>2. AppOk(a) /\ a.pc = "free"
    BY <1>1, Zenon DEF AppOk, AppRecord
  <2> HIDE DEF a
  <2> QED
    BY <1>1, <2>1, <2>2, Zenon DEF AppMove
<1> QED
  BY <1>2, <1>3 DEF RunEnds

\* Freeing the buffers.
LEMMA FreeMove == ASSUME AppInv, NEW p \in Apps, Free(p) PROVE \E a : AppMove(p, a)
<1>1. /\ app[p] \in AppRecord /\ AppOk(app[p]) /\ app[p].pc = "free" /\ HasFile(p)
      /\ lock' = lock
  BY DEF AppInv, Free, At, HasFile
<1>2. CASE Goto(p, "close")
  <2> DEFINE a == [app[p] EXCEPT !.pc = "close"]
  <2>1. app' = [app EXCEPT ![p] = a]
    BY <1>2 DEF AppInv, Goto
  <2>2. AppOk(a) /\ a.pc = "close"
    BY <1>1 DEF AppOk, AppRecord
  <2> HIDE DEF a
  <2> QED
    BY <1>1, <2>1, <2>2, Zenon DEF AppMove
<1> QED
  BY <1>2 DEF Free

\* Closing the file.
LEMMA CloseMove == ASSUME AppInv, NEW p \in Apps, Close(p) PROVE \E a : AppMove(p, a)
<1>1. /\ app[p] \in AppRecord /\ AppOk(app[p]) /\ app[p].pc = "close" /\ HasFile(p)
      /\ lock' = lock
  BY DEF AppInv, Close, At, HasFile
<1>2. CASE Goto(p, "idle")
  <2> DEFINE a == [app[p] EXCEPT !.pc = "idle"]
  <2>1. app' = [app EXCEPT ![p] = a]
    BY <1>2 DEF AppInv, Goto
  <2>2. AppOk(a) /\ a.pc = "idle"
    BY <1>1 DEF AppOk, AppRecord
  <2> HIDE DEF a
  <2> QED
    BY <1>1, <2>1, <2>2, Zenon DEF AppMove
<1> QED
  BY <1>2 DEF Close

\* So every step of a process is such a move.
LEMMA AppMoves == ASSUME AppInv, NEW p \in Apps, App(p) PROVE \E a : AppMove(p, a)
BY StartMove, OpenMove, IoctlMove, AllocMove, LockMove, RunEndsMove, FreeMove, CloseMove DEF App

\* A move keeps what holds of every process.
LEMMA AppKept == ASSUME AppInv, NEW p \in Apps, NEW a, AppMove(p, a) PROVE AppInv'
<1>1. AppOk(a) /\ app' = [app EXCEPT ![p] = a] /\ a \in AppRecord
  BY DEF AppMove, AppOk
<1>2. app \in [Apps -> AppRecord] /\ \A q \in Apps : AppOk(app[q])
  BY DEF AppInv
<1>3. app' \in [Apps -> AppRecord] /\ \A q \in Apps : AppOk(app'[q])
  BY <1>1, <1>2
<1> QED
  BY <1>3 DEF AppInv

\* A move keeps run_lock with the process that is in a run.
LEMMA LockKept ==
  ASSUME AppInv, RunLockHeld, NEW p \in Apps, NEW a, AppMove(p, a)
  PROVE  RunLockHeld'
<1>1. app'[p] = a /\ \A q \in Apps : q # p => app'[q] = app[q]
  BY DEF AppInv, AppMove
<1>2. \A q \in Apps : app[q].pc = "run" <=> lock = q
  BY DEF RunLockHeld, At
<1>3. \/ lock' = lock /\ app[p].pc # "run" /\ a.pc # "run"
      \/ lock = NoApp /\ lock' = p /\ a.pc = "run"
      \/ app[p].pc = "run" /\ lock' = NoApp /\ a.pc # "run"
  BY DEF AppMove
<1>4. \A q \in Apps : app'[q].pc = "run" <=> lock' = q
  BY <1>1, <1>2, <1>3, GuestAssumption
<1> QED
  BY <1>4 DEF RunLockHeld, At

\* Every step keeps the driver bound while a file is open.
LEMMA FileInv == ASSUME CoreInv, AppInv, FilePins, [Next]_vars PROVE FilePins'
<1>1. CASE Bind \/ Probe \/ Release \/ RmmodDone
  BY <1>1 DEF FilePins, HasFile, Bind, Probe, Release, RmmodDone
<1>2. CASE Rmmod
  BY <1>2 DEF FilePins, HasFile, Rmmod
<1>3. CASE Unplug
  BY <1>3 DEF FilePins, Unplug
<1>4. ASSUME NEW p \in Apps, App(p) PROVE FilePins'
  <2>1. UNCHANGED <<core, leaving, unplug>>
    BY <1>4, AppFrame
  <2>2. ASSUME ~unplug, NEW q \in Apps, HasFile(q)' PROVE core.st = "bound" /\ ~leaving
    <3>0. PICK a : AppMove(p, a)
      BY <1>4, AppMoves
    <3>1. CASE q = p
      <4>1. app'[q] = a
        BY <3>0, <3>1 DEF AppInv, AppMove
      <4>2. HasFile(p) \/ ("misc" \in res /\ ~leaving)
        BY <2>2, <3>0, <4>1 DEF AppMove, HasFile
      <4> QED
        BY <2>2, <4>2, NodeMeansBound, <2>1 DEF FilePins
    <3>2. CASE q # p
      <4>1. app'[q] = app[q]
        BY <3>0, <3>2 DEF AppInv, AppMove
      <4> QED
        BY <2>2, <4>1 DEF FilePins, HasFile
    <3> QED
      BY <3>1, <3>2
  <2> QED
    BY <2>1, <2>2 DEF FilePins
<1>5. CASE \/ \E off \in Offsets, bytes \in {1, 2, 4, 8} : Pcimem(off, bytes)
           \/ PcimemExit \/ UNCHANGED vars
  BY <1>5, Zenon DEF FilePins, HasFile, Pcimem, PcimemExit, vars
<1> QED
  BY <1>1, <1>2, <1>3, <1>4, <1>5 DEF Next

-----------------------------------------------------------------------------
(* pcie-vip-pcimem.                                                        *)

\* An access that is carried out passed the range check.
LEMMA DoneInRange ==
  ASSUME NEW off, NEW bytes, How(off, bytes) = "done" PROVE RangeOk(off, bytes)
BY Zenon DEF How

\* Only pcie-vip-pcimem accesses the BAR this way, and it checks the range first.
LEMMA RawInv == ASSUME RawAccessInside, [Next]_vars PROVE RawAccessInside'
<1>1. ASSUME NEW off \in Offsets, NEW bytes \in {1, 2, 4, 8}, Pcimem(off, bytes)
      PROVE  RawAccessInside'
  <2>1. off \in Nat /\ PageSize \in Nat \ {0} /\ BarSize \in Nat /\ PageSize >= 8
    BY GuestAssumption
  <2>2. off % PageSize \in Nat
    BY <2>1
  <2>3. PageOf(off) \in Int
    BY <2>1, <2>2 DEF PageOf
  <2>4. /\ raw'.at = off - PageOf(off) /\ raw'.bytes = bytes /\ raw'.off = off
        /\ raw'.mapped = PageSize + off - PageOf(off) /\ raw'.how = How(off, bytes)
    BY <1>1 DEF Pcimem, MapIndex, MapLength
  <2>5. raw'.how = "done" => off + bytes <= BarSize
    <3>1. How(off, bytes) = "done" => off <= BarSize /\ bytes <= BarSize - off
      BY DoneInRange, Zenon DEF RangeOk
    <3> QED
      BY <1>1, <2>1, <2>4, <3>1
  <2>6. bytes <= PageSize
    BY <1>1, <2>1
  <2>7. raw'.at + raw'.bytes <= raw'.mapped /\ PageOf(raw'.off) + raw'.at = raw'.off
    BY <1>1, <2>1, <2>3, <2>4, <2>6
  <2> QED
    BY <2>4, <2>5, <2>7 DEF RawAccessInside, PageOf
<1>2. CASE PcimemExit
  BY <1>2 DEF PcimemExit, RawAccessInside, NoAccess
<1>3. CASE \/ Bind \/ Probe \/ Release \/ Rmmod \/ RmmodDone \/ Unplug
           \/ (\E p \in Apps : App(p)) \/ UNCHANGED vars
  <2>1. raw' = raw
    BY <1>3, AppFrame, Zenon DEF Bind, Probe, Release, Rmmod, RmmodDone, Unplug, vars
  <2> QED
    BY <2>1 DEF RawAccessInside, PageOf
<1> QED
  BY <1>1, <1>2, <1>3 DEF Next

-----------------------------------------------------------------------------
(* The inductive invariant and what follows from it.                       *)

Inv == CoreInv /\ AppInv /\ FilePins /\ RunLockHeld /\ RawAccessInside

\* Before the module is loaded the invariant holds.
LEMMA InitInv == Init => Inv
<1> SUFFICES ASSUME Init PROVE Inv
  OBVIOUS
<1>1. CoreInv
  BY DEF Init, CoreInv
<1>2. AppInv
  <2>1. \A p \in Apps : app[p] = [pc |-> "idle", ask |-> NoRun, verbose |-> FALSE, ran |-> NoRun,
                                  code |-> "none"]
    BY DEF Init
  <2> DEFINE a == [pc |-> "idle", ask |-> NoRun, verbose |-> FALSE, ran |-> NoRun, code |-> "none"]
  <2>2. AppOk(a)
    BY DEF AppOk, AppRecord, NoRun
  <2>3. \A p \in Apps : AppOk(app[p])
    BY <2>1, <2>2, Zenon
  <2> QED
    BY <2>1, <2>2, <2>3, Zenon DEF Init, AppInv, AppOk
<1>3. FilePins
  BY DEF Init, FilePins, HasFile
<1>4. RunLockHeld
  BY GuestAssumption DEF Init, RunLockHeld, At
<1>5. RawAccessInside
  BY DEF Init, RawAccessInside, NoAccess
<1> QED
  BY <1>1, <1>2, <1>3, <1>4, <1>5 DEF Inv

\* Every step of every actor keeps it.
LEMMA NextInv == Inv /\ [Next]_vars => Inv'
<1> SUFFICES ASSUME Inv, [Next]_vars PROVE Inv'
  OBVIOUS
<1>1. CoreInv' /\ FilePins' /\ RawAccessInside'
  BY CoreStep, FileInv, RawInv DEF Inv
<1>2. ASSUME NEW p \in Apps, App(p) PROVE AppInv' /\ RunLockHeld'
  BY <1>2, AppMoves, AppKept, LockKept DEF Inv
<1>3. ASSUME UNCHANGED <<app, lock>> PROVE AppInv' /\ RunLockHeld'
  BY <1>3 DEF Inv, AppInv, RunLockHeld, At
<1>4. UNCHANGED <<app, lock>> \/ \E p \in Apps : App(p)
  BY DEF Next, Bind, Probe, Release, Rmmod, RmmodDone, Unplug, Pcimem, PcimemExit, vars
<1> QED
  BY <1>1, <1>2, <1>3, <1>4 DEF Inv

\* So it always holds.
LEMMA InvHolds == Spec => []Inv
BY InitInv, NextInv, PTL DEF Spec

\* While a file is open and the device is not unplugged, everything the ioctl
\* uses is there: whatever probe, rmmod and the other processes are doing.
THEOREM IoctlFindsDeviceHolds == Spec => []IoctlFindsDevice
<1>1. Inv => IoctlFindsDevice
  BY DEF Inv, CoreInv, FilePins, IoctlFindsDevice, Everything
<1> QED
  BY <1>1, InvHolds, PTL

\* A registered interrupt handler finds its data, in probe, on each of its error
\* paths and in remove; and its vectors, except on the error paths of probe.
THEOREM HandlerSafeHolds == Spec => []HandlerSafe
<1>1. Inv => HandlerSafe
  <2> SUFFICES ASSUME CoreInv, "irq" \in res PROVE HandlerSafe
    BY DEF Inv, HandlerSafe
  <2>1. CASE \E n \in 1..8 : core = [st |-> "probe", todo |-> Probing(n)] /\ res = Before[n]
    <3>1. \A n \in 1..8 : "irq" \in Before[n] => {"vip", "enabled", "bar0", "vectors"} \subseteq Before[n]
      BY DEF Before
    <3> QED
      BY <2>1, <3>1 DEF HandlerSafe
  <2>2. ASSUME NEW n \in 1..9, NEW how \in {"fail", "remove"}, ReleaseHolds(n, res),
               core = [st |-> how, todo |-> Releasing(n)],
               how = "remove" /\ n >= 3 => "irq" \notin res
        PROVE  HandlerSafe
    <3>1. {"vip", "enabled", "bar0"} \subseteq res
      BY <2>2 DEF ReleaseHolds
    <3>2. how = "remove" => "vectors" \in res
      BY <2>2 DEF ReleaseHolds
    <3> QED
      BY <2>2, <3>1, <3>2 DEF HandlerSafe
  <2>3. CASE res = {} \/ res = Everything
    BY <2>3 DEF HandlerSafe, Everything
  <2> QED
    BY <2>1, <2>2, <2>3 DEF CoreInv
<1> QED
  BY <1>1, InvHolds, PTL

\* Every failing probe and every remove ends with nothing held.
THEOREM NothingLeakedHolds == Spec => []NothingLeaked
<1>1. Inv => NothingLeaked
  BY DEF Inv, CoreInv, NothingLeaked
<1> QED
  BY <1>1, InvHolds, PTL

\* A PASS of pcie-vip-run is one for the length and the iterations it was given.
THEOREM PassAsAskedHolds == Spec => []PassAsAsked
<1>1. Inv => PassAsAsked
  BY DEF Inv, AppInv, AppOk, PassAsAsked
<1> QED
  BY <1>1, InvHolds, PTL

\* Each access of pcie-vip-pcimem that is carried out lies inside its mapping and
\* inside the BAR, for every page size, BAR size, offset and width.
THEOREM RawAccessInsideHolds == Spec => []RawAccessInside
<1>1. Inv => RawAccessInside
  BY DEF Inv
<1> QED
  BY <1>1, InvHolds, PTL

\* At most one process is in a run, and it holds run_lock (DmaRing's runs of one
\* process at a time).
THEOREM RunsExcludeEachOther ==
  Spec => [](\A p, q \in Apps : At(p, "run") /\ At(q, "run") => p = q)
<1>1. Inv => \A p, q \in Apps : At(p, "run") /\ At(q, "run") => p = q
  BY DEF Inv, RunLockHeld
<1> QED
  BY <1>1, InvHolds, PTL
=============================================================================
