------------------------ MODULE ServerSessionsProofs ------------------------
(***************************************************************************)
(* Safety of the Mini-ICS server with each of its endpoints, for every     *)
(* number of sessions, every sequence of requests of its clients and every *)
(* value of the other constants.                                           *)
(***************************************************************************)
EXTENDS ServerStepProofs, FiniteSetTheorems

(* Requests and MSI-X messages, counted.                                   *)

\* Only finitely many messages are on the wires or have been sent.
LEMMA PairsFinite ==
  ASSUME NEW q \in [Sessions -> Seq(Message)]
  PROVE  IsFiniteSet(UNION {{s} \X DOMAIN q[s] : s \in Sessions})
<1> DEFINE T == {{s} \X DOMAIN q[s] : s \in Sessions}
           f == [s \in Sessions |-> {s} \X DOMAIN q[s]]
<1>1. IsFiniteSet(Sessions)
  BY ServerAssumption, FS_Interval DEF Sessions
<1>2. ASSUME NEW s \in Sessions PROVE IsFiniteSet({s} \X DOMAIN q[s])
  <2>1. DOMAIN q[s] = 1..Len(q[s]) /\ Len(q[s]) \in Nat
    OBVIOUS
  <2>2. IsFiniteSet(DOMAIN q[s])
    BY <2>1, FS_Interval
  <2>3. IsFiniteSet({s})
    BY FS_Singleton, Zenon
  <2> QED
    BY <2>2, <2>3, FS_Product, Zenon
<1>3. f \in Surjection(Sessions, T)
  BY Zenon DEF Surjection
<1>4. IsFiniteSet(T)
  BY <1>1, <1>3, FS_Surjection, Zenon
<1>5. \A t \in T : IsFiniteSet(t)
  BY <1>2, Zenon
<1> HIDE DEF T
<1>6. IsFiniteSet(UNION T)
  BY <1>4, <1>5, FS_UNION, Zenon
<1> QED
  BY <1>6, Zenon DEF T

\* There are finitely many MSI-X in a queue.
LEMMA MsixFinite ==
  ASSUME NEW q \in Seq(Message)
  PROVE  IsFiniteSet(MsixOn(q)) /\ Msixes(q) \in Nat /\ (q = <<>> => Msixes(q) = 0)
<1>1. DOMAIN q = 1..Len(q) /\ Len(q) \in Nat
  OBVIOUS
<1>2. IsFiniteSet(DOMAIN q)
  BY <1>1, FS_Interval
<1>3. MsixOn(q) \in SUBSET (DOMAIN q)
  BY Zenon DEF MsixOn
<1>4. q = <<>> => MsixOn(q) = {}
  BY <1>3
<1> QED
  BY <1>2, <1>3, <1>4, FS_Subset, FS_CardinalityType, FS_EmptySet, Zenon DEF Msixes

\* A message that is appended counts if it is an MSI-X.
LEMMA AppendCount ==
  ASSUME NEW q \in Seq(Message), NEW m \in Message, NEW w \in Seq(Message), w = Append(q, m)
  PROVE  Msixes(w) <= Msixes(q) + (IF m.type = "MSIX" THEN 1 ELSE 0)
<1> DEFINE e == Len(q) + 1
<1>1. \A i \in DOMAIN w : (i \in DOMAIN q /\ w[i] = q[i]) \/ (i = e /\ w[i] = m)
  OBVIOUS
<1>2. IsFiniteSet(MsixOn(q)) /\ Msixes(q) \in Nat /\ Msixes(w) \in Nat
  BY MsixFinite, Zenon
<1> HIDE DEF e
<1>3. CASE m.type # "MSIX"
  <2>1. MsixOn(w) \in SUBSET MsixOn(q)
    BY <1>1, <1>3, Zenon DEF MsixOn
  <2>2. Msixes(w) <= Msixes(q)
    BY <1>2, <2>1, FS_Subset, Zenon DEF Msixes
  <2> QED
    BY <1>2, <1>3, <2>2
<1>4. CASE m.type = "MSIX"
  <2>1. MsixOn(w) \in SUBSET (MsixOn(q) \cup {e})
    BY <1>1, Zenon DEF MsixOn
  <2>2. /\ IsFiniteSet(MsixOn(q) \cup {e})
        /\ Cardinality(MsixOn(q) \cup {e}) \in {Msixes(q), Msixes(q) + 1}
    BY <1>2, FS_AddElement, Zenon DEF Msixes
  <2>3. Msixes(w) <= Cardinality(MsixOn(q) \cup {e})
    BY <2>1, <2>2, FS_Subset, Zenon DEF Msixes
  <2> QED
    BY <1>2, <1>4, <2>2, <2>3
<1> QED
  BY <1>3, <1>4, Zenon

\* A message that is taken off no longer counts.
LEMMA TailCount ==
  ASSUME NEW q \in Seq(Message), q # <<>>, NEW w \in Seq(Message), w = Tail(q)
  PROVE  Msixes(w) + (IF Head(q).type = "MSIX" THEN 1 ELSE 0) <= Msixes(q)
<1> DEFINE T == MsixOn(q) \ {1}
           f == [i \in MsixOn(w) |-> i + 1]
<1>1. /\ \A i \in DOMAIN w : i \in Nat /\ i # 0 /\ i + 1 \in DOMAIN q /\ w[i] = q[i + 1]
      /\ 1 \in DOMAIN q /\ q[1] = Head(q)
  OBVIOUS
<1>2. IsFiniteSet(MsixOn(q)) /\ Msixes(q) \in Nat /\ Msixes(w) \in Nat
  BY MsixFinite, Zenon
<1>3. \A i \in MsixOn(w) : i \in Nat /\ i + 1 # 1 /\ i + 1 \in MsixOn(q)
  BY <1>1 DEF MsixOn
<1>4. f \in [MsixOn(w) -> T]
  BY <1>3
<1>5. ASSUME NEW i \in MsixOn(w), NEW j \in MsixOn(w), f[i] = f[j] PROVE i = j
  <2>1. i + 1 = j + 1
    BY <1>5, Zenon
  <2> QED
    BY <1>3, <2>1
<1>6. f \in Injection(MsixOn(w), T)
  BY <1>4, <1>5, Zenon DEF Injection, IsInjective
<1> HIDE DEF f
<1>7. /\ IsFiniteSet(T)
      /\ Cardinality(T) = IF 1 \in MsixOn(q) THEN Msixes(q) - 1 ELSE Msixes(q)
  BY <1>2, FS_RemoveElement, Zenon DEF Msixes
<1>8. Head(q).type = "MSIX" => 1 \in MsixOn(q)
  BY <1>1, Zenon DEF MsixOn
<1> HIDE DEF T
<1>9. Msixes(w) <= Cardinality(T)
  BY <1>6, <1>7, FS_Injection, Zenon DEF Msixes
<1> QED
  BY <1>2, <1>7, <1>8, <1>9, SMTT(20)

\* A step that sends no MSI-X.
OutQuiet == OutHeld /\ (sock # 0 => OutGrows(sock, 0))

\* No step without a send changes the number of MSI-X on the wires.
LEMMA OutSame == ASSUME TypeInv, out' = out PROVE OutQuiet
<1>1. sock # 0 => Msixes(out[sock]) \in Nat
  BY Zenon DEF TypeInv, WireType, Counted
<1>2. sock # 0 => Msixes(out[sock]) + 0 <= Msixes(out[sock])
  BY <1>1
<1> QED
  BY <1>2, Zenon DEF OutQuiet, OutHeld, OutGrows

\* Reading a message takes one MSI-X off, if it was one.
LEMMA OutTail ==
  ASSUME TypeInv, NEW s \in Sessions, OutTakes(s)
  PROVE  OutQuiet /\ (sock = s /\ Head(out[s]).type = "MSIX" => OutGrows(sock, 1))
<1>1. out \in [Sessions -> Seq(Message)] /\ (sock # 0 => sock \in Sessions) /\ out[s] # <<>>
  BY Zenon DEF TypeInv, WireType, OutTakes
<1>2. out'[s] = Tail(out[s]) /\ \A r \in Sessions : r # s => out'[r] = out[r]
  BY <1>1, Zenon DEF OutTakes
<1>3. Tail(out[s]) \in Seq(Message) /\ out[s] \in Seq(Message)
  BY <1>1, TailType, Zenon
<1>4. Msixes(out'[s]) + (IF Head(out[s]).type = "MSIX" THEN 1 ELSE 0) <= Msixes(out[s])
  BY <1>1, <1>2, <1>3, TailCount, Zenon
<1>5. Msixes(out'[s]) \in Nat /\ Msixes(out[s]) \in Nat
  BY <1>2, <1>3, MsixFinite, Zenon
<1>6. OutHeld
  BY <1>1, <1>2, Zenon DEF OutHeld
<1>7. CASE sock = s
  <2>1. Msixes(out'[s]) + 0 <= Msixes(out[s])
    BY <1>4, <1>5
  <2>2. Head(out[s]).type = "MSIX" => Msixes(out'[s]) + 1 <= Msixes(out[s])
    BY <1>4, Zenon
  <2> QED
    BY <1>6, <1>7, <2>1, <2>2, Zenon DEF OutQuiet, OutGrows
<1>8. CASE sock # s
  <2>1. sock # 0 => Msixes(out[sock]) \in Nat /\ out'[sock] = out[sock]
    BY <1>1, <1>2, <1>8, MsixFinite, Zenon
  <2>2. sock # 0 => Msixes(out'[sock]) + 0 <= Msixes(out[sock])
    BY <2>1
  <2> QED
    BY <1>6, <1>8, <2>2, Zenon DEF OutQuiet, OutGrows
<1> QED
  BY <1>7, <1>8, Zenon

\* Sending a message adds one MSI-X, if it is one.
LEMMA OutAppend ==
  ASSUME TypeInv, sock \in Sessions, NEW m \in Message, OutGets(sock, m)
  PROVE  (m.type # "MSIX" => OutQuiet) /\ OutHeld /\ OutGrows(sock, -1)
<1>1. out \in [Sessions -> Seq(Message)]
  BY Zenon DEF TypeInv, WireType
<1>2. out'[sock] = Append(out[sock], m) /\ \A r \in Sessions : r # sock => out'[r] = out[r]
  BY <1>1, Zenon DEF OutGets
<1>3. out[sock] \in Seq(Message)
  BY <1>1, Zenon
<1>4. Append(out[sock], m) \in Seq(Message)
  BY <1>3
<1>5. Msixes(out'[sock]) <= Msixes(out[sock]) + (IF m.type = "MSIX" THEN 1 ELSE 0)
  BY <1>2, <1>3, <1>4, AppendCount, Zenon
<1>6. Msixes(out'[sock]) \in Nat /\ Msixes(out[sock]) \in Nat
  BY <1>2, <1>3, <1>4, MsixFinite, Zenon
<1>7. OutHeld
  BY <1>2, Zenon DEF OutHeld
<1>8. /\ m.type # "MSIX" => Msixes(out'[sock]) + 0 <= Msixes(out[sock])
      /\ Msixes(out'[sock]) + (-1) <= Msixes(out[sock])
  BY <1>5, <1>6
<1> QED
  BY <1>7, <1>8, Zenon DEF OutQuiet, OutGrows

\* Nothing arrives where the inbound wires stay.
LEMMA InSame == ASSUME in' = in PROVE InOld
BY Zenon DEF InOld

\* A send puts on the wire what the call began.
LEMMA SendCount ==
  ASSUME TypeInv, CallSend PROVE OutQuiet \/ (OutHeld /\ (sock # 0 => OutGrows(sock, -MsixBegun)))
<1>1. call.st = "send" /\ call.msg \in Message /\ (sock # 0 => sock \in Sessions)
  BY Zenon DEF CallSend, TypeInv, TableType, WireType
<1>2. CASE sock # 0 /\ cst[sock] = "open"
  <2>1. OutGets(sock, call.msg)
    BY <1>2, Zenon DEF CallSend, OutGets
  <2>2. (call.msg.type # "MSIX" => OutQuiet) /\ OutHeld /\ OutGrows(sock, -1)
    BY <1>1, <1>2, <2>1, OutAppend, Zenon
  <2>3. call.msg.type = "MSIX" => MsixBegun = 1
    BY <1>1, Zenon DEF MsixBegun
  <2> QED
    BY <2>2, <2>3, Zenon
<1>3. CASE ~(sock # 0 /\ cst[sock] = "open")
  <2>1. out' = out
    BY <1>3, Zenon DEF CallSend
  <2> QED
    BY <2>1, OutSame, Zenon
<1> QED
  BY <1>2, <1>3, Zenon

\* A step that counts nothing and sends no MSI-X is plain.
LEMMA QuietPlain ==
  ASSUME hist'.msix = hist.msix, hist'.cpl = hist.cpl, InOld, OutQuiet PROVE PlainStep
BY Zenon DEF PlainStep, OutQuiet

\* The endpoint thread changes no history.
LEMMA ThreadPlain == ASSUME TypeInv, Thread, UNCHANGED clientVars PROVE PlainStep
<1>1. hist' = hist /\ InOld /\ (out' = out \/ CallSend)
  BY ThreadWires, InSame, Zenon DEF clientVars
<1>2. CASE OutQuiet
  BY <1>1, <1>2, QuietPlain, Zenon
<1>3. CASE CallSend /\ OutHeld /\ (sock # 0 => OutGrows(sock, -MsixBegun))
  BY <1>1, <1>3, Zenon DEF PlainStep
<1> QED
  BY <1>1, <1>2, <1>3, OutSame, SendCount, Zenon

\* Nor does the IO thread; its HELLO_ACK is no MSI-X.
LEMMA IoPlain == ASSUME TypeInv, IoStep, UNCHANGED clientVars PROVE PlainStep
<1>1. in \in [Sessions -> Seq(Message)] /\ (io \in {"hello", "run"} => sock \in Sessions)
  BY Zenon DEF TypeInv, WireType
<1>2. ASSUME io \in {"hello", "run"}, in[sock] # <<>>, in' = [in EXCEPT ![sock] = Tail(@)]
      PROVE  InOld /\ Head(in[sock]) \in Message
  <2>1. \A r \in Sessions : \A i \in DOMAIN in'[r] :
          LET j == IF r = sock THEN i + 1 ELSE i IN j \in DOMAIN in[r] /\ in'[r][i] = in[r][j]
    BY <1>1, <1>2, WireTail
  <2>2. InOld
    BY <2>1, Zenon DEF InOld
  <2> QED
    BY <1>1, <1>2, <2>2, WireTail, Zenon
<1>3. CASE IoHello
  <2>1. InOld /\ Head(in[sock]) \in Message /\ sock \in Sessions
    BY <1>1, <1>2, <1>3 DEF IoHello
  <2>2. CASE Head(in[sock]).type = "HELLO" /\ cst[sock] = "open"
    <3> DEFINE a == Reply(Head(in[sock]), "HELLO_ACK", NoData, 0, "SUCCESS")
    <3>1. OutGets(sock, a)
      BY <1>3, <2>2, Zenon DEF IoHello, OutGets
    <3>2. a \in Message /\ a.type # "MSIX"
      BY <2>1, HelloAckType, Zenon
    <3> HIDE DEF a
    <3>3. OutQuiet
      BY <2>1, <3>1, <3>2, OutAppend, Zenon
    <3> QED
      BY <2>1, <3>3, QuietPlain, Zenon DEF clientVars
  <2>3. CASE ~(Head(in[sock]).type = "HELLO" /\ cst[sock] = "open")
    <3>1. out' = out
      BY <1>3, <2>3, Zenon DEF IoHello
    <3> QED
      BY <2>1, <3>1, OutSame, QuietPlain, Zenon DEF clientVars
  <2> QED
    BY <2>2, <2>3, Zenon
<1>4. CASE IoRecv
  <2>1. InOld /\ out' = out
    BY <1>2, <1>4 DEF IoRecv
  <2> QED
    BY <2>1, OutSame, QuietPlain, Zenon DEF clientVars
<1>5. CASE \/ \E s \in Sessions : IoAccept(s)
           \/ IoHelloFails \/ IoMark \/ IoDisconnect \/ IoExit
  <2>1. in' = in /\ out' = out
    BY <1>5, Zenon DEF IoAccept, IoHelloFails, IoMark, IoDisconnect, IoExit, sessionVars
  <2> QED
    BY <2>1, InSame, OutSame, QuietPlain, Zenon DEF clientVars
<1> QED
  BY <1>3, <1>4, <1>5 DEF IoStep, IoThread

\* A client that answers serves the session the server holds, and what it
\* answers acknowledges a completion only if it stored one.
LEMMA ServeCounted ==
  ASSUME TypeInv, Ends, NEW s \in Sessions, Serve(s) PROVE PlainStep \/ MsixStep \/ StoreStep
<1> DEFINE m == Head(out[s])
<1>1. /\ in \in [Sessions -> Seq(Message)] /\ out \in [Sessions -> Seq(Message)]
      /\ hist \in HistRecord
  BY Zenon DEF TypeInv, WireType
<1>2. OutTakes(s) /\ UNCHANGED <<callVars, stage, sock, sst, io>>
  BY Zenon DEF Serve, OutTakes, ioVars, tableVars, callVars, endVars, epVars
<1>3. sock = s /\ sock # 0
  <2>1. sst[s] # "closed" /\ out[s] # <<>>
    BY Zenon DEF Serve
  <2>2. sst[s] \in {"pend", "open", "closed"}
    BY Zenon DEF Ends
  <2>3. sst[s] = "open"
    BY <2>1, <2>2, Zenon DEF Ends
  <2>4. s # 0
    BY ServerAssumption DEF Sessions
  <2> QED
    BY <2>3, <2>4, Zenon DEF Ends
<1>4. m \in Message
  BY <1>1, <1>2, WireTail, SMTT(20) DEF OutTakes
<1>5. OutQuiet /\ (m.type = "MSIX" => OutGrows(sock, 1))
  BY <1>2, <1>3, OutTail, Zenon
<1>6. CASE hist' = [hist EXCEPT !.msix[s] = @ + 1] /\ m.type = "MSIX" /\ in' = in
  <2>1. hist'.msix = [hist.msix EXCEPT ![s] = @ + 1] /\ hist'.cpl = hist.cpl
    BY <1>1, <1>6, Zenon DEF HistRecord
  <2> QED
    BY <1>2, <1>3, <1>5, <1>6, <2>1, InSame, Zenon DEF MsixStep, OutQuiet
<1>7. ASSUME NEW ok \in BOOLEAN, ExpectsResponse(m),
             in' = [in EXCEPT ![s] = Append(@,
                      Reply(m, Expected(m.type), NoData, 0, IF ok THEN "SUCCESS" ELSE "OUT_OF_BOUNDS"))],
             hist' = IF m.type = "DMA_WRITE_REQ"
                     THEN [hist EXCEPT !.wr[s] = @ + 1, !.cpl[s] = IF ok THEN @ + 1 ELSE @]
                     ELSE hist
      PROVE  PlainStep \/ StoreStep
  <2>1. CASE ok /\ m.type = "DMA_WRITE_REQ"
    <3>1. hist' = [hist EXCEPT !.wr[s] = @ + 1, !.cpl[s] = @ + 1]
      BY <1>7, <2>1, Zenon
    <3>2. hist'.cpl = [hist.cpl EXCEPT ![s] = @ + 1] /\ hist'.msix = hist.msix
      BY <1>1, <3>1, Zenon DEF HistRecord
    <3> QED
      BY <1>2, <1>3, <1>5, <3>2, Zenon DEF StoreStep, OutQuiet
  <2>2. CASE ~(ok /\ m.type = "DMA_WRITE_REQ")
    <3> DEFINE st == IF ok THEN "SUCCESS" ELSE "OUT_OF_BOUNDS"
               a == Reply(m, Expected(m.type), NoData, 0, st)
    <3>1. st \in Statuses
      BY Zenon DEF Statuses
    <3>2. a \in Message /\ a.type = Expected(m.type) /\ a.status = st
      BY <1>4, <1>7, <3>1, AnswerType, Zenon
    <3>3. m.type # "DMA_WRITE_REQ" => a.type # "DMA_WRITE_RSP"
      BY <1>7, <3>2, ExpectedTypes, SMTT(20) DEF ExpectsResponse
    <3>4. ~IsStored(a)
      BY <2>2, <3>2, <3>3, Zenon DEF IsStored
    <3>5. in' = [in EXCEPT ![s] = Append(@, a)]
      BY <1>7, Zenon
    <3>6. hist'.msix = hist.msix /\ hist'.cpl = hist.cpl
      <4>1. CASE m.type # "DMA_WRITE_REQ"
        BY <1>7, <4>1, Zenon
      <4>2. CASE ~ok /\ m.type = "DMA_WRITE_REQ"
        <5>1. hist' = [hist EXCEPT !.wr[s] = @ + 1, !.cpl[s] = @]
          BY <1>7, <4>2, Zenon
        <5>2. hist.cpl \in Counts
          BY <1>1, Zenon DEF HistRecord
        <5>3. [hist.cpl EXCEPT ![s] = @] = hist.cpl
          BY <5>2, Zenon DEF Counts
        <5> QED
          BY <1>1, <5>1, <5>3, Zenon DEF HistRecord
      <4> QED
        BY <2>2, <4>1, <4>2, Zenon
    <3> HIDE DEF a
    <3>7. \A r \in Sessions : \A i \in DOMAIN in'[r] :
            (i \in DOMAIN in[r] /\ in'[r][i] = in[r][i]) \/ in'[r][i] = a
      BY <1>1, <3>2, <3>5, Appended, SMTT(20)
    <3>8. InOld
      BY <3>4, <3>7, Zenon DEF InOld
    <3> QED
      BY <1>5, <3>6, <3>8, QuietPlain, Zenon
  <2> QED
    BY <2>1, <2>2, Zenon
<1> HIDE DEF m
<1>8. \/ m.type = "MSIX" /\ hist' = [hist EXCEPT !.msix[s] = @ + 1] /\ in' = in
      \/ \E ok \in BOOLEAN :
           /\ ExpectsResponse(m)
           /\ in' = [in EXCEPT ![s] = Append(@,
                       Reply(m, Expected(m.type), NoData, 0, IF ok THEN "SUCCESS" ELSE "OUT_OF_BOUNDS"))]
           /\ hist' = IF m.type = "DMA_WRITE_REQ"
                      THEN [hist EXCEPT !.wr[s] = @ + 1, !.cpl[s] = IF ok THEN @ + 1 ELSE @]
                      ELSE hist
  BY Zenon DEF Serve, m
<1> QED
  BY <1>6, <1>7, <1>8, Zenon

\* Every step is plain, takes an MSI-X or stores a completion.
LEMMA HistSteps == ASSUME TypeInv, Ends, [Next]_vars PROVE PlainStep \/ MsixStep \/ StoreStep
<1>1. CASE UNCHANGED vars
  BY <1>1, InSame, OutSame, QuietPlain, Zenon DEF vars, serverVars, sessionVars, clientVars
<1>2. ASSUME NEW s \in Sessions, Client(s) PROVE PlainStep \/ MsixStep \/ StoreStep
  <2>1. CASE Connect(s) \/ HangUp(s)
    BY <2>1, InSame, OutSame, QuietPlain, Zenon DEF Connect, HangUp, ClientConnect, ClientClose
  <2>2. CASE Hello(s) \/ Ask(s)
    <3>1. PICK m \in Message : m.type \in RequestTypes \cup {BadHeader} /\ ClientSend(s, m)
      BY <2>2, HelloType, AskedType, Zenon
    <3>2. in' = [in EXCEPT ![s] = Append(@, m)] /\ out' = out
      BY <3>1, Zenon DEF ClientSend
    <3>3. in \in [Sessions -> Seq(Message)] /\ ~IsStored(m)
      BY <3>1, Zenon DEF TypeInv, WireType, IsStored, RequestTypes, BadHeader
    <3>4. \A r \in Sessions : \A i \in DOMAIN in'[r] :
            (i \in DOMAIN in[r] /\ in'[r][i] = in[r][i]) \/ in'[r][i] = m
      BY <3>2, <3>3, Appended, SMTT(20)
    <3>5. InOld
      BY <3>3, <3>4, Zenon DEF InOld
    <3>6. hist' = hist
      BY <2>2, Zenon DEF Hello, Ask
    <3> QED
      BY <3>2, <3>5, <3>6, OutSame, QuietPlain, Zenon
  <2>3. CASE TakeResponse(s)
    <3>1. OutTakes(s) /\ in' = in /\ hist' = hist
      BY <2>3, Zenon DEF TakeResponse, ClientRecv, OutTakes
    <3> QED
      BY <3>1, OutTail, InSame, QuietPlain, Zenon
  <2> QED
    BY <1>2, <2>1, <2>2, <2>3, ServeCounted, Zenon DEF Client
<1> QED
  BY <1>1, <1>2, ThreadPlain, IoPlain, Zenon DEF Next

-----------------------------------------------------------------------------
(* What holds in every behaviour.                                          *)

\* Requests made and MSI-X on the wires can be counted.
LEMMA TypesCounted ==
  ASSUME NEW a \in [Sessions -> Seq(Message)], NEW q \in [Sessions -> Seq(Message)]
  PROVE  /\ Cardinality({x \in UNION {{s} \X DOMAIN a[s] : s \in Sessions} : x[2] > 1}) \in Nat
         /\ \A s \in Sessions : Msixes(q[s]) \in Nat /\ (q[s] = <<>> => Msixes(q[s]) = 0)
<1>1. IsFiniteSet(UNION {{s} \X DOMAIN a[s] : s \in Sessions})
  BY PairsFinite, Zenon
<1>2. {x \in UNION {{s} \X DOMAIN a[s] : s \in Sessions} : x[2] > 1}
        \in SUBSET (UNION {{s} \X DOMAIN a[s] : s \in Sessions})
  BY Zenon
<1> QED
  BY <1>1, <1>2, MsixFinite, FS_Subset, FS_CardinalityType, Zenon

\* TypeInv holds initially and is kept by every step.
LEMMA TypeInvInit == Init => TypeInv
<1> SUFFICES ASSUME Init PROVE TypeInv
  BY Zenon
<1>1. Types
  BY TypeInit, Zenon
<1>2. asked \in [Sessions -> Seq(Message)] /\ out \in [Sessions -> Seq(Message)]
  BY <1>1, Zenon DEF Types, WireType
<1>3. Counted
  BY <1>2, TypesCounted, Zenon DEF Counted, Made
<1> QED
  BY <1>1, <1>3, Zenon DEF Types, TypeInv

\* It is kept by the steps of the threads and of the clients.
LEMMA TypeInvStep == TypeInv /\ [Next]_vars => TypeInv'
<1> SUFFICES ASSUME TypeInv, [Next]_vars PROVE TypeInv'
  BY Zenon
<1>1. Types'
  BY TypeStep, Zenon
<1>2. asked' \in [Sessions -> Seq(Message)] /\ out' \in [Sessions -> Seq(Message)]
  BY <1>1, Zenon DEF Types, WireType
<1>3. Counted'
  BY <1>2, TypesCounted, Zenon DEF Counted, Made
<1> QED
  BY <1>1, <1>3, Zenon DEF Types, TypeInv

\* TypeInv is an invariant.
LEMMA TypeInvHolds == Spec => []TypeInv
BY TypeInvInit, TypeInvStep, PTL DEF Spec

\* The server's variables have the types their declarations give them, in
\* every interleaving of the IO thread, the endpoint thread and the clients.
THEOREM ServerTypes == Spec => []TypeOK
<1>1. TypeInv => TypeOK
  BY Zenon DEF TypeInv, WireType, TableType, EndType, CallRecord, MaybeMessage, PortRecord, Stages, TypeOK
<1> QED
  BY <1>1, TypeInvHolds, PTL

\* PendingRequestTable never holds anything but the call in progress: no
\* combination of timeout, failed send, disconnect and late response leaves an
\* entry behind, for any number of sessions.
THEOREM OnlyOwnPendingHolds == Spec => []OnlyOwnPending
<1>1. TypeInv => OnlyOwnPending
  BY Zenon DEF TypeInv, TableType
<1> QED
  BY <1>1, TypeInvHolds, PTL

\* The three are invariants.
LEMMA IdInvHolds == Spec => []IdInv
<1>1. Init => IdInv
  <2> SUFFICES ASSUME Init PROVE IdInv
    BY Zenon
  <2>1. /\ call.st = "idle" /\ call.res = NoMsg
        /\ \A s \in Sessions : in[s] = <<>> /\ out[s] = <<>>
    BY Zenon DEF Init, ServerInit
  <2>2. TypeInv
    BY TypeInvInit, Zenon
  <2> QED
    BY <2>1, <2>2, SMTT(20) DEF IdInv, IdsUsed, IdsOwn, DmaAnswerOwn
<1>2. IdInv /\ [Next]_vars => IdInv'
  <2> SUFFICES ASSUME IdInv, [Next]_vars PROVE IdInv'
    BY Zenon
  <2>1. TypeInv' /\ Move
    BY TypeInvStep, NextMove, Zenon DEF IdInv
  <2> QED
    BY <2>1, IdsUsedStep, IdsOwnStep, DmaAnswerOwnStep, Zenon DEF IdInv
<1> QED
  BY <1>1, <1>2, PTL DEF Spec

\* SendRequestToHost returns the response to its own request and of the type
\* it expects, or none: also when earlier requests timed out and are answered
\* late, and across sessions, because txn_gen_ never starts over.
THEOREM DmaAnswerOwnHolds == Spec => []DmaAnswerOwn
<1>1. IdInv => DmaAnswerOwn
  BY Zenon DEF IdInv
<1> QED
  BY <1>1, IdInvHolds, PTL

\* The invariants of the DMA sequence hold.
LEMMA SeqInvHolds == Spec => []SeqInv
<1>1. Init => SeqInv
  <2> SUFFICES ASSUME Init PROVE SeqInv
    BY Zenon
  <2>1. /\ call.st = "idle" /\ call.res = NoMsg /\ stage = "poll" /\ simPass = FALSE
        /\ \A s \in Sessions : in[s] = <<>> /\ out[s] = <<>>
        /\ DOMAIN ptab = {}
    BY DEF Init, ServerInit, EpInit, DpiInit
  <2>2. IdInv
    <3>1. TypeInv
      BY TypeInvInit, Zenon
    <3> QED
      BY <2>1, <3>1, SMTT(20) DEF IdInv, IdsUsed, IdsOwn, DmaAnswerOwn
  <2>3. Ends
    <3>1. /\ io = "accept" /\ sock = 0 /\ sst = [s \in Sessions |-> "pend"]
          /\ hist.msix = [s \in Sessions |-> 0]
      BY Zenon DEF Init, ServerInit
    <3>2. \A s \in Sessions : s # 0
      BY ServerAssumption DEF Sessions
    <3> QED
      BY <2>1, <3>1, <3>2, Zenon DEF Ends
  <2> QED
    <3>1. NoResultYet /\ WriteStage /\ StoredCounted /\ SimPassEarned
      BY <2>1, SMTT(20) DEF NoResultYet, WriteStage, StoredCounted, SimPassEarned, IsStored
    <3> QED
      BY <2>2, <2>3, <3>1, Zenon DEF SeqInv
<1>2. SeqInv /\ [Next]_vars => SeqInv'
  <2> SUFFICES ASSUME SeqInv, [Next]_vars PROVE SeqInv'
    BY Zenon
  <2>1. TypeInv /\ TypeInv' /\ Move
    BY TypeInvStep, NextMove, Zenon DEF SeqInv, IdInv
  <2>2. IdInv'
    BY <2>1, IdsUsedStep, IdsOwnStep, DmaAnswerOwnStep, SMTT(20) DEF SeqInv, IdInv
  <2>3. StageStep /\ (simPass' => simPass \/ (stage = "write" /\ Succeeded))
    BY <2>1, NextStage, Zenon
  <2>4. NoResultYet' /\ WriteStage'
    BY <2>1, <2>3, WriteStageStep, Zenon DEF SeqInv
  <2>5. (PlainStep \/ MsixStep \/ StoreStep) /\ Ends'
    BY <2>1, HistSteps, SessionSteps, EndsStep, Zenon DEF SeqInv
  <2>6. StoredCounted'
    BY <2>1, <2>5, StoredCountedStep, Zenon DEF SeqInv
  <2>7. SimPassEarned'
    <3>1. Stored => Stored'
      <4>1. CASE PlainStep \/ MsixStep
        BY <4>1, Zenon DEF PlainStep, MsixStep, Stored
      <4>2. CASE StoreStep
        <5>1. sock \in Sessions /\ hist.cpl \in Counts
          BY <2>1, <4>2, Zenon DEF StoreStep, TypeInv, WireType, HistRecord
        <5>2. hist'.cpl[sock] = hist.cpl[sock] + 1 /\ hist.cpl[sock] \in Nat
          BY <4>2, <5>1, Zenon DEF StoreStep, Counts
        <5>3. hist'.cpl[sock] > 0
          BY <5>2
        <5> QED
          BY <5>1, <5>3, Zenon DEF Stored
      <4> QED
        BY <2>5, <4>1, <4>2, Zenon
    <3>2. stage = "write" /\ Succeeded => Stored
      BY SucceededStored, Zenon DEF SeqInv, IdInv, StoredCounted
    <3>3. simPass' => Stored
      BY <2>3, <3>2, Zenon DEF SeqInv, SimPassEarned, Stored
    <3> QED
      BY <3>1, <3>3, Zenon DEF SimPassEarned, Stored
  <2> QED
    BY <2>2, <2>4, <2>5, <2>6, <2>7, Zenon DEF SeqInv
<1> QED
  BY <1>1, <1>2, PTL DEF Spec

\* The testbench's PASS: when sim_pass is set, a completion has been stored in
\* host memory, whatever was refused, lost or answered late before.
THEOREM SimPassEarnedHolds == Spec => []SimPassEarned
<1>1. SeqInv => SimPassEarned
  BY Zenon DEF SeqInv
<1> QED
  BY <1>1, SeqInvHolds, PTL

\* RunDmaSequence and run_dma_sequence raise MSI-X only after the completion
\* has been stored: in every behaviour of the software and of the simulated
\* endpoint, with any DMA refused, timed out or answered late and with any
\* client gone, no client receives more interrupts than it stored completions,
\* except for one whose completion was stored by a client before it that left.
THEOREM MsixAfterCompletionHolds == Spec => [](kind # "harness" => MsixAfterCompletion)
<1>1. Init => MsixCounted
  <2> SUFFICES ASSUME Init
               PROVE  (\A s \in Sessions : Load(s) <= hist.cpl[s] + Bonus(s)) /\ Due = 0
    BY Zenon DEF MsixCounted
  <2>1. call.st = "idle" /\ stage = "poll" /\ sock = 0
    BY Zenon DEF Init, ServerInit, EpInit
  <2>2. Due = 0
    BY <2>1, SMTT(20) DEF Due, MsixBegun, Owed, Acknowledged
  <2>3. ASSUME NEW s \in Sessions PROVE Load(s) <= hist.cpl[s] + Bonus(s)
    <3>1. hist.msix[s] = 0 /\ hist.cpl[s] = 0
      BY Zenon DEF Init
    <3>2. sock # s
      BY <2>1, ServerAssumption DEF Sessions
    <3>3. Load(s) = 0 + 0
      BY <3>1, <3>2, Zenon DEF Load
    <3>4. Bonus(s) \in 0..1
      BY DEF Bonus
    <3> QED
      BY <3>1, <3>3, <3>4
  <2> QED
    BY <2>2, <2>3, Zenon
<1>2. SeqInv /\ SeqInv' /\ MsixCounted /\ [Next]_vars => MsixCounted'
  <2> SUFFICES ASSUME SeqInv, SeqInv', MsixCounted, [Next]_vars PROVE MsixCounted'
    BY Zenon
  <2>1. TypeInv /\ Ends
    BY Zenon DEF SeqInv, IdInv
  <2> QED
    BY <2>1, NextMove, NextStage, HistSteps, SessionSteps, KindKept, MsixCountedStep, Zenon
<1>3. SeqInv /\ MsixCounted => (kind # "harness" => MsixAfterCompletion)
  <2> SUFFICES ASSUME SeqInv, MsixCounted, kind # "harness", NEW s \in Sessions
               PROVE  hist.msix[s] <= hist.cpl[s] + (IF CompletionBefore(s) THEN 1 ELSE 0)
    BY Zenon DEF MsixAfterCompletion
  <2>1. hist.cpl[s] \in Nat /\ hist.msix[s] \in Nat /\ Msixes(out[s]) \in Nat
    BY CountFacts, Zenon DEF SeqInv, IdInv
  <2>2. Due \in Nat
    BY DueType, Zenon
  <2>3. hist.msix[s] <= Load(s) /\ Load(s) \in Nat
    BY <2>1, <2>2 DEF Load
  <2>4. Load(s) <= hist.cpl[s] + Bonus(s)
    BY Zenon DEF MsixCounted
  <2>5. Bonus(s) \in 0..1
    BY DEF Bonus
  <2>6. hist.msix[s] <= hist.cpl[s] + Bonus(s)
    BY <2>1, <2>3, <2>4, <2>5
  <2> QED
    BY <2>6, Zenon DEF Bonus
<1> QED
  BY <1>1, <1>2, <1>3, SeqInvHolds, PTL DEF Spec

\* Whatever a client reads of the simulated endpoint, the answer put on the
\* wire holds the register's value of that moment, cut to the length asked
\* for: no write is applied between the register model's answer and the send,
\* and no answer is left over from the access before.
THEOREM ReadAnswerExactHolds == Spec => []ReadAnswerExact
<1>1. Init => PortExact
  BY DEF Init, ServerInit, EpInit, PortExact
<1>2. TypeInv /\ PortExact /\ [Next]_vars => PortExact'
  BY KindKept, PortSteps, PortExactStep, Zenon
<1>3. TypeInv /\ PortExact => ReadAnswerExact
  <2> SUFFICES ASSUME TypeInv, PortExact, kind = "dpi", call.st = "send", call.msg.type = "MMIO_READ_RSP",
                      call.msg.status = "SUCCESS"
               PROVE  call.msg.data = Truncate(SvValue(call.msg.arg), call.msg.plen)
    BY Zenon DEF ReadAnswerExact
  <2>1. call.msg # NoMsg
    BY NoMsgType, Zenon
  <2> QED
    BY <2>1, Zenon DEF PortExact, ReadExact
<1> QED
  BY <1>1, <1>2, <1>3, TypeInvHolds, PTL DEF Spec
=============================================================================
