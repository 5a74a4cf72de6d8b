------------------------------ MODULE HostDemo ------------------------------
(***************************************************************************)
(* mini_ics_host_client (mini-ics/src/host_client.cpp) against             *)
(* mini_ics_server --demo.  Every session is one run of RunDemo by a       *)
(* process of its own: it connects, goes through a fixed script of         *)
(* requests, serves the endpoint's DMA and MSI-X, and exits.               *)
(***************************************************************************)
EXTENDS SoftwareEndpoint

CONSTANT
  MaxPolls   \* bound: reads of CSTS (50 in the code)

ASSUME DemoAssumption == MaxPolls \in Nat \ {0}

\* kAsqBase, kAcqBase, kMockCommandGuestAddr and the size of HostMemory.
AsqBase == 1048576
AcqBase == 1052672
CommandAddr == 2097152
MemSize == 67108864

\* Memory contents: the initial pattern and the mock command.
Pattern == 10
Command == 11

VARIABLES
  cl,       \* per session, the client: [st, step, polls, saw, turn, cpl, txn]
  seqs,     \* history: DMA sequences the endpoint carried through to MSI-X
  base,     \* history, per session: seqs at the time of the last request
  calm      \* whether in this behaviour no timed wait runs out before it is
            \* answered and no client process is killed

demoVars == <<cl, seqs, base, calm>>
vars == <<serverVars, epVars, demoVars>>

NewClient == [st |-> "off", step |-> 1, polls |-> 0, saw |-> {}, turn |-> 0,
              cpl |-> NoData, txn |-> 1]

Init ==
  /\ ServerInit /\ EpInit
  /\ cl = [s \in Sessions |-> NewClient]
  /\ seqs = 0
  /\ base = [s \in Sessions |-> 0]
  /\ calm \in BOOLEAN

-----------------------------------------------------------------------------
(* The script of RunDemo up to the doorbell.                               *)

Req(type, addr, data, len, plen) ==
  [type |-> type, txn |-> 0, arg |-> addr, data |-> data,
   len |-> len, plen |-> plen, status |-> "SUCCESS"]

Script == <<
  Req("HELLO", 0, NoData, 0, 0),
  Req("RESET_REQ", 0, NoData, 0, 0),
  Req("MMIO_WRITE_REQ", AsqReg, AsqBase, 8, 8),
  Req("MMIO_WRITE_REQ", AcqReg, AcqBase, 8, 8),
  Req("MMIO_WRITE_REQ", AqaReg, 2031647, 4, 4),
  Req("MMIO_WRITE_REQ", CcReg, 1, 4, 4),
  Req("MMIO_READ_REQ", CstsReg, NoData, 4, 0),
  Req("MMIO_WRITE_REQ", Sq0Doorbell, 1, 4, 4) >>

Polling(s) == Script[cl[s].step].type = "MMIO_READ_REQ"

\* HostMemory: one command at its address, the pattern everywhere else.
InBounds(addr, len) == len = 0 \/ (addr < MemSize /\ addr + len <= MemSize)
MemRead(addr) == IF addr = CommandAddr THEN Command ELSE Pattern

\* RunDemo returns false and the process exits.
Fail(s) ==
  /\ cl' = [cl EXCEPT ![s].st = "failed"]
  /\ cst' = [cst EXCEPT ![s] = "closed"]

Connect(s) ==
  /\ ClientConnect(s)
  /\ cl' = [cl EXCEPT ![s].st = "ask"]
  /\ UNCHANGED <<epVars, seqs, base, calm>>

\* SendRequestAndWait up to the send.
Ask(s) ==
  /\ cl[s].st = "ask" /\ cst[s] = "open"
  /\ IF sst[s] = "closed"
     THEN Fail(s) /\ UNCHANGED <<in, base>>
     ELSE /\ in' = [in EXCEPT ![s] = Append(@, [Script[cl[s].step] EXCEPT !.txn = cl[s].txn])]
          /\ cl' = [cl EXCEPT ![s].st = "await", ![s].txn = @ + 1]
          /\ base' = [base EXCEPT ![s] = seqs]
          /\ UNCHANGED cst
  /\ UNCHANGED <<ioVars, tableVars, out, sst, epVars, seqs, calm>>

\* What the caller of SendRequestAndWait accepts: the expected type and, but
\* for HELLO, success.  The transaction ID is not looked at.
Accepts(s, m) ==
  /\ m.type = Expected(Script[cl[s].step].type)
  /\ m.type = "HELLO_ACK" \/ m.status = "SUCCESS"
  /\ Polling(s) => m.plen >= 4

\* ReadMessage takes the next message, whatever it is.
Answer(s) ==
  /\ cl[s].st = "await" /\ cst[s] = "open" /\ out[s] # <<>>
  /\ out' = [out EXCEPT ![s] = Tail(@)]
  /\ LET m == Head(out[s])
         notReady == Polling(s) /\ m.data % 2 = 0
         last == cl[s].step = Len(Script)
     IN
       /\ IF ~Accepts(s, m) \/ (notReady /\ cl[s].polls + 1 = MaxPolls)
          THEN Fail(s)
          ELSE /\ cl' = [cl EXCEPT
                    ![s].st = IF last THEN "serve" ELSE "ask",
                    ![s].step = IF notReady \/ last THEN @ ELSE @ + 1,
                    ![s].polls = IF notReady THEN @ + 1 ELSE @]
               /\ UNCHANGED cst
  /\ UNCHANGED <<ioVars, tableVars, in, sst, epVars, seqs, base, calm>>

\* Mutant: the service loop ends one message early.
Turns_Two == 2

\* Messages ServiceRtlInitiatedTransactions reads at most.
Turns == 3

\* Mutant: the demo is over with the first completion.
Served_Completion(c) == "cpl" \in c.saw

\* All three messages seen and the completion is the expected one.
Served(c) == c.saw = {"cmd", "cpl", "msix"} /\ c.cpl = Completion

\* One round of the service loop.  A DMA request is carried out and
\* answered, and ends the loop if it is refused; anything unexpected uses up
\* a round.  A response that cannot be sent is not noticed.
Serve(s) ==
  /\ cl[s].st = "serve" /\ cst[s] = "open" /\ out[s] # <<>> /\ cl[s].turn < Turns
  /\ out' = [out EXCEPT ![s] = Tail(@)]
  /\ LET m == Head(out[s])
         c == [cl[s] EXCEPT !.turn = @ + 1]
         sees(x) == [c EXCEPT !.saw = @ \cup {x}]
         answer(data, plen, status) ==
           in' = IF sst[s] = "closed" THEN in
                 ELSE [in EXCEPT ![s] = Append(@, Reply(m, Expected(m.type), data, plen, status))]
     IN
       \/ /\ m.type = "DMA_READ_REQ"
          /\ IF m.len # 0 /\ InBounds(m.arg, m.len)
             THEN /\ answer(MemRead(m.arg), m.len, "SUCCESS")
                  /\ cl' = [cl EXCEPT ![s] = sees("cmd")]
                  /\ UNCHANGED cst
             ELSE /\ answer(NoData, 0, IF m.len = 0 THEN "BAD_LENGTH" ELSE "OUT_OF_BOUNDS")
                  /\ Fail(s)
       \/ /\ m.type = "DMA_WRITE_REQ"
          /\ IF InBounds(m.arg, m.plen)
             THEN /\ answer(NoData, 0, "SUCCESS")
                  /\ cl' = [cl EXCEPT ![s] = [sees("cpl") EXCEPT !.cpl = m.data]]
                  /\ UNCHANGED cst
             ELSE answer(NoData, 0, "OUT_OF_BOUNDS") /\ Fail(s)
       \/ /\ m.type \notin {"DMA_READ_REQ", "DMA_WRITE_REQ"}
          /\ cl' = [cl EXCEPT ![s] = IF m.type = "MSIX" THEN sees("msix") ELSE c]
          /\ UNCHANGED <<in, cst>>
  /\ UNCHANGED <<ioVars, tableVars, sst, epVars, seqs, base, calm>>

\* The loop is over: PASS and SHUTDOWN, or failure.
Verdict(s) ==
  /\ cl[s].st = "serve" /\ cst[s] = "open"
  /\ Served(cl[s]) \/ cl[s].turn = Turns
  /\ IF Served(cl[s])
     THEN /\ cl' = [cl EXCEPT ![s].st = "pass"]
          /\ in' = IF sst[s] = "closed" THEN in
                   ELSE [in EXCEPT ![s] = Append(@, [Req("SHUTDOWN", 0, NoData, 0, 0)
                                                       EXCEPT !.txn = cl[s].txn])]
          /\ UNCHANGED cst
     ELSE Fail(s) /\ UNCHANGED in
  /\ UNCHANGED <<ioVars, tableVars, out, sst, epVars, seqs, base, calm>>

Exit(s) ==
  /\ cl[s].st = "pass" /\ ClientClose(s)
  /\ UNCHANGED <<epVars, demoVars>>

Reading(s) == cl[s].st = "await" \/ (cl[s].st = "serve" /\ ~Served(cl[s]) /\ cl[s].turn < Turns)

\* Mutant: RecvAll takes an orderly close for "0 more bytes needed".
ReadFails_IgnoresClose(s) ==
  /\ Reading(s) /\ cst[s] = "open" /\ out[s] = <<>> /\ ~calm /\ sst[s] # "closed"
  /\ Fail(s)
  /\ UNCHANGED <<ioVars, tableVars, in, out, sst, epVars, seqs, base, calm>>

\* ReadMessage times out, or finds the connection closed; a server that
\* closes with data unread resets it, and what the client has not read is lost.
ReadFails(s) ==
  /\ Reading(s) /\ cst[s] = "open"
  /\ (out[s] = <<>> /\ (~calm \/ sst[s] = "closed")) \/ (in[s] # <<>> /\ sst[s] = "closed")
  /\ Fail(s)
  /\ UNCHANGED <<ioVars, tableVars, in, out, sst, epVars, seqs, base, calm>>

Kill(s) ==
  /\ ~calm /\ cl[s].st \in {"ask", "await", "serve"} /\ cst[s] = "open"
  /\ Fail(s)
  /\ UNCHANGED <<ioVars, tableVars, in, out, sst, epVars, seqs, base, calm>>

HostClient(s) == Ask(s) \/ Answer(s) \/ Serve(s) \/ Verdict(s) \/ Exit(s) \/ ReadFails(s)

-----------------------------------------------------------------------------
(* The server process.                                                     *)

DemoIo ==
  /\ calm /\ io = "hello" => in[sock] # <<>> \/ cst[sock] = "closed"
  /\ IoThread
  /\ UNCHANGED <<epVars, demoVars>>

DemoEndpoint ==
  \/ /\ calm /\ stage = "poll" => inbound # <<>>
     /\ Endpoint
     /\ seqs' = IF stage = "write" /\ stage' = "answer" THEN seqs + 1 ELSE seqs
     /\ UNCHANGED <<cl, base, calm>>
  \/ /\ CallSend \/ WaitAnswered \/ (~calm /\ WaitTimeout)
     /\ UNCHANGED <<epVars, demoVars>>

Next ==
  \/ DemoIo \/ DemoEndpoint
  \/ \E s \in Sessions : Connect(s) \/ HostClient(s) \/ Kill(s)

Spec == Init /\ [][Next]_vars

\* Every process keeps running; nobody has to start or kill a client.
FairSpec ==
  /\ Spec
  /\ WF_vars(DemoIo) /\ WF_vars(DemoEndpoint)
  /\ \A s \in Sessions : WF_vars(HostClient(s))

-----------------------------------------------------------------------------
(* Properties.                                                             *)

Passed(s) == cl[s].st = "pass"

\* "MINI ICS DEMO: PASS" is printed only if, since this client rang the
\* doorbell, the endpoint carried a DMA sequence through to its interrupt,
\* whatever earlier clients left behind in the server's queue.
PassEarned == \A s \in Sessions : Passed(s) => seqs > base[s]

\* With nothing timing out, the demo that is started first passes and takes
\* the server down with it, also when others are started meanwhile.
DemoPasses == calm /\ cl[1].st = "ask" ~> Passed(1) /\ stage = "end"

\* host_client.cpp bounds every wait "so a misbehaving RTL side can't hang
\* the demo": each client process ends, passed or failed.
DemoEnds == \A s \in Sessions : cl[s].st = "ask" ~> cst[s] = "closed"
=============================================================================
