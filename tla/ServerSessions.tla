--------------------------- MODULE ServerSessions ---------------------------
(***************************************************************************)
(* A Mini-ICS server process against the clients it serves in turn.  The   *)
(* process is mini_ics_server --demo, a simulator with the DPI endpoint,   *)
(* or the Verilator harness: "kind" says which.  Each client speaks the    *)
(* host side as the QEMU device does: HELLO with transaction ID 1, then    *)
(* one request at a time with increasing IDs, answering DMA requests while *)
(* it waits.  Transaction IDs start over in every session.                 *)
(***************************************************************************)
EXTENDS DpiEndpoint, HarnessEndpoint

CONSTANTS
  Kinds,      \* the kinds of process: "software", "dpi", "harness"
  Requests    \* what clients may ask each kind, as the first, second, ... of
              \* all sessions: sets of [type, arg, data, len, plen].  Its length
              \* is the bound on requests.

\* Payloads are words: a shorter read of one is one, and it may serve as a host
\* address, as those written to ASQ and ACQ do.
ASSUME SessionAssumption ==
  /\ Kinds \subseteq {"software", "dpi", "harness"}
  /\ Persistent \in BOOLEAN
  /\ {0, 1, Completion} \subseteq Values /\ Values \subseteq Nat /\ Values \subseteq Args
  /\ \A v \in Values : 0..v \subseteq Values
  /\ \A k \in Kinds : Requests[k] \in
       Seq(SUBSET [type : RequestTypes \cup {BadHeader}, arg : Args, data : Values,
                   len : Nat, plen : Nat])

VARIABLES
  cpc,    \* client of each session: "off", "connected", "hello", "live",
          \* "await" or "left"
  asked,  \* per session, the messages it has sent that want an answer
  hist,   \* per session, the completion writes its client handled, the ones
          \* it stored, and the MSI-X it received
  kind,   \* the kind of process
  calm    \* whether in this behaviour no wait times out, no client hangs up,
          \* no DMA is refused, and from a doorbell to its MSI-X clients ask
          \* for nothing else

modes == <<kind, calm>>
clientVars == <<cpc, asked, hist, modes>>
endVars == <<epVars, dpiVars, seen>>
vars == <<serverVars, endVars, clientVars>>

Init ==
  /\ ServerInit /\ EpInit /\ DpiInit /\ HarnessInit
  /\ kind \in Kinds /\ calm \in BOOLEAN
  /\ cpc = [s \in Sessions |-> "off"]
  /\ asked = [s \in Sessions |-> <<>>]
  /\ hist = [wr |-> [s \in Sessions |-> 0], cpl |-> [s \in Sessions |-> 0],
             msix |-> [s \in Sessions |-> 0]]

Asking(s, m) == asked' = [asked EXCEPT ![s] = Append(@, m)]

Request(r, txn) ==
  [type |-> r.type, txn |-> txn, arg |-> r.arg, data |-> r.data,
   len |-> r.len, plen |-> r.plen, status |-> "SUCCESS"]

Connect(s) ==
  /\ ClientConnect(s)
  /\ cpc' = [cpc EXCEPT ![s] = "connected"]
  /\ UNCHANGED <<endVars, asked, hist, modes>>

Hello(s) ==
  /\ cpc[s] = "connected"
  /\ LET m == Request([type |-> "HELLO", arg |-> NoArg, data |-> NoData, len |-> 0, plen |-> 0], 1)
     IN  ClientSend(s, m) /\ Asking(s, m)
  /\ cpc' = [cpc EXCEPT ![s] = "hello"]
  /\ UNCHANGED <<endVars, hist, modes>>

\* The requests made so far after HELLO, the doorbells among those of a
\* session, and whether every doorbell has had its MSI-X.
Made == {x \in UNION {{s} \X DOMAIN asked[s] : s \in Sessions} : x[2] > 1}
Rung(s) == {x \in Made : x[1] = s /\ IsDoorbell(asked[s][x[2]])}
Interrupted == \A s \in Sessions : hist.msix[s] = Cardinality(Rung(s))

Ask(s) ==
  /\ cpc[s] = "live" /\ Cardinality(Made) < Len(Requests[kind])
  /\ calm => Interrupted
  /\ \E r \in Requests[kind][Cardinality(Made) + 1] :
       LET m == Request(r, Len(asked[s]) + 1) IN
         /\ ClientSend(s, m) /\ Asking(s, m)
         /\ cpc' = [cpc EXCEPT ![s] = IF r.type = "SHUTDOWN" THEN "left" ELSE "await"]
  /\ UNCHANGED <<endVars, hist, modes>>

\* The client reads a response.  It takes the one with the ID it waits for
\* and drops any other.
TakeResponse(s) ==
  /\ cpc[s] \in {"hello", "live", "await"}
  /\ ClientRecv(s)
  /\ IsResponse(Head(out[s]))
  /\ cpc' = IF cpc[s] # "live" /\ Head(out[s]).txn = Len(asked[s])
            THEN [cpc EXCEPT ![s] = "live"] ELSE cpc
  /\ UNCHANGED <<endVars, asked, hist, modes>>

\* The client carries out a DMA request or MSI-X and answers the former.
Serve(s) ==
  /\ cpc[s] \in {"live", "await"} /\ cst[s] = "open" /\ sst[s] # "closed"
  /\ out[s] # <<>>
  /\ LET m == Head(out[s]) IN
       \/ /\ ExpectsResponse(m)
          /\ \E ok \in (IF calm THEN {TRUE} ELSE BOOLEAN) :
               /\ in' = [in EXCEPT ![s] = Append(@,
                           Reply(m, Expected(m.type), NoData, 0,
                                 IF ok THEN "SUCCESS" ELSE "OUT_OF_BOUNDS"))]
               /\ hist' = IF m.type = "DMA_WRITE_REQ"
                          THEN [hist EXCEPT !.wr[s] = @ + 1, !.cpl[s] = IF ok THEN @ + 1 ELSE @]
                          ELSE hist
       \/ /\ m.type = "MSIX"
          /\ hist' = [hist EXCEPT !.msix[s] = @ + 1]
          /\ UNCHANGED in
  /\ out' = [out EXCEPT ![s] = Tail(@)]
  /\ UNCHANGED <<ioVars, tableVars, cst, sst, endVars, cpc, asked, modes>>

HangUp(s) ==
  /\ ~calm
  /\ ClientClose(s)
  /\ cpc' = [cpc EXCEPT ![s] = "left"]
  /\ UNCHANGED <<endVars, asked, hist, modes>>

Client(s) == Connect(s) \/ Hello(s) \/ Ask(s) \/ TakeResponse(s) \/ Serve(s) \/ HangUp(s)

\* The endpoint thread of the process.
Thread ==
  \/ kind = "software" /\ Endpoint /\ UNCHANGED <<dpiVars, seen>>
  \/ kind = "dpi" /\ Dpi /\ UNCHANGED seen
  \/ kind = "harness" /\ MainLoop /\ UNCHANGED dpiVars
  \/ CallSend /\ UNCHANGED endVars
  \/ WaitAnswered /\ UNCHANGED endVars
  \/ ~calm /\ WaitTimeout /\ UNCHANGED endVars

IoStep ==
  /\ calm /\ io = "hello" => in[sock] # <<>>
  /\ IoThread
  /\ UNCHANGED endVars

Next ==
  \/ (Thread \/ IoStep) /\ UNCHANGED clientVars
  \/ \E s \in Sessions : Client(s)

(***************************************************************************)
(* The server's threads keep running and their timed waits end.  Clients   *)
(* read what they are sent, but need not ask for anything.                 *)
(***************************************************************************)
Fairness ==
  /\ WF_vars(IoStep /\ UNCHANGED clientVars)
  /\ WF_vars(Thread /\ UNCHANGED clientVars)
  /\ \A s \in Sessions : WF_vars(Hello(s) \/ TakeResponse(s) \/ Serve(s))

Spec == Init /\ [][Next]_vars
FairSpec == Spec /\ Fairness

-----------------------------------------------------------------------------
(* Properties.                                                             *)

\* The server's variables have the types their declarations give them.
TypeOK ==
  /\ running \in BOOLEAN /\ hasClient \in BOOLEAN
  /\ io \in {"accept", "hello", "mark", "run", "exit"}
  /\ sock \in Sessions \cup {0}
  /\ inbound \in Seq(Message) /\ txnGen \in Nat
  /\ \A t \in DOMAIN ptab : t \in Nat /\ ptab[t] \in Message \cup {NoMsg}
  /\ call.st \in {"idle", "send", "wait"}
  /\ call.msg \in Message \cup {NoMsg} /\ call.res \in Message \cup {NoMsg}
  /\ \A s \in Sessions : in[s] \in Seq(Message) /\ out[s] \in Seq(Message)
  /\ stage \in {"poll", "answer", "doorbell", "read", "write", "stop", "join", "end", "access"}
  /\ rm.req \in Message \cup {NoMsg} /\ rm.rsp \in Message \cup {NoMsg}
  /\ rm.pulse \in BOOLEAN /\ simPass \in BOOLEAN /\ seen \in BOOLEAN

\* transaction.hpp: WaitFor removes "the pending entry unconditionally before
\* returning".  The table never holds anything but the call in progress, and
\* holds that one from before it is sent, whatever combination of timeout,
\* failed send, disconnect and late response occurred before.
OnlyOwnPending ==
  DOMAIN ptab = IF call.st # "idle" /\ ExpectsResponse(call.msg) THEN {call.msg.txn} ELSE {}

\* A DMA call that returns a response returns the one to its own request,
\* even when earlier requests timed out and were answered late, and across
\* sessions, because txn_gen_ never starts over.
DmaAnswerOwn ==
  call.res # NoMsg => call.res.txn = call.msg.txn /\ call.res.type = Expected(call.msg.type)

\* A session before s stored a completion and ended without its MSI-X.
CompletionBefore(s) == \E t \in Sessions : t < s /\ hist.cpl[t] > hist.msix[t]

\* RunDmaSequence and run_dma_sequence raise MSI-X only after the completion
\* has been stored in host memory: no client sees more interrupts than it has
\* stored completions, but for at most one whose completion a client before it
\* stored and left.  The harness does not look at the result of its completion
\* write, so with refusals and timeouts less holds of it: no interrupt
\* overtakes its write, and at most one follows a write of an earlier session.
MsixAfterCompletion ==
  \A s \in Sessions :
    IF kind = "harness" /\ ~calm
    THEN hist.msix[s] <= hist.wr[s] + (IF s > 1 THEN 1 ELSE 0)
    ELSE hist.msix[s] <= hist.cpl[s] + (IF CompletionBefore(s) THEN 1 ELSE 0)

\* mini_ics_tb.sv prints PASS on sim_pass: a completion has then been stored
\* in host memory, although the shim reports success of an MSI-X that could
\* not be sent, and although sim_pass is never taken back.
SimPassEarned == simPass => (\E s \in Sessions : hist.cpl[s] > 0)

\* A register read of the simulated endpoint is answered with the value the
\* register has when the answer is sent, cut to the length that was asked for:
\* reg_rsp_rdata belongs to this access, not to the one before, and nothing is
\* applied in between.
ReadAnswerExact ==
  kind = "dpi" /\ call.st = "send" /\ call.msg.type = "MMIO_READ_RSP" /\ call.msg.status = "SUCCESS"
    => call.msg.data = Truncate(SvValue(call.msg.arg), call.msg.plen)

\* nvme_register_model.sv: the address map matches "the software model in
\* src/server.cpp's --demo mode so the same host client / demo sequence works
\* against either".  Nothing failing, a doorbell sequence that has begun ends
\* in its MSI-X, on all three endpoints.
SequenceRaisesMsix == calm /\ stage = "doorbell" ~> Interrupted

\* Every response the server writes to a session answers a request made in
\* that session (protocol-v2.md: implementations must "correlate responses by
\* transaction ID, and reject a second connection after runtime disconnect").
OwnSessionAnswer ==
  \A s \in Sessions : \A i \in DOMAIN out[s] :
    IsResponse(out[s][i]) =>
      \E r \in DOMAIN asked[s] : /\ asked[s][r].txn = out[s][i].txn
                                 /\ Expected(asked[s][r].type) = out[s][i].type

\* Every reset and register access of a client that stays is answered, also
\* when DMA requests are refused or time out, unless the server process ends
\* or drops the connection first: no lost wakeup, and no response withheld by
\* the has_client_ check.  (A second HELLO is queued and never answered.)
RequestAnswered ==
  \A s \in Sessions :
    cpc[s] = "await" /\ asked[s][Len(asked[s])].type # "HELLO"
      ~> (cpc[s] # "await" \/ sst[s] = "closed")

\* SHUTDOWN ends the process: the endpoint thread sees it and joins the IO
\* thread without either waiting for the other forever.
ShutdownStops ==
  (\E i \in DOMAIN inbound : inbound[i].type = "SHUTDOWN") ~> stage = "end"
=============================================================================
