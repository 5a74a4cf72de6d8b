----------------------------- MODULE MicsStream -----------------------------
(***************************************************************************)
(* The byte stream under a Mini-ICS connection: header codecs, SendAll and *)
(* RecvAll (socket.cpp), mics_send and mics_recv (the QEMU device), the    *)
(* send lock, the kernel's bounded buffer, and the server's IO thread      *)
(* replacing client_socket_ while another thread is sending on it.         *)
(*                                                                         *)
(* One direction is looked at in a behaviour: "toQemu" (the server sends,  *)
(* over the connections it accepts in turn) or "toServer" (QEMU sends, on  *)
(* its one connection).  Bytes travel in rows of 16: a header is four      *)
(* rows, a payload some more.  Rows after the first of a header are taken  *)
(* not to begin with the magic number.                                     *)
(***************************************************************************)
EXTENDS Naturals, Sequences

CONSTANTS
  Conns,     \* connections, 1..n
  Payload,   \* writer -> payload rows of the messages it sends, in order
  Cap,       \* rows the kernel buffers per connection
  NoWriter, Torn, Stray, Junk

\* A message: who sends it, and which of its sends it is.
Msgs == UNION {{w} \X DOMAIN Payload[w] : w \in DOMAIN Payload}

ASSUME StreamAssumption ==
  /\ Conns \subseteq Nat \ {0} /\ 1 \in Conns
  /\ Cap \in Nat \ {0}
  /\ DOMAIN Payload = {"ep", "io", "vcpu", "bh"}
  /\ \A w \in DOMAIN Payload : Payload[w] \in Seq(Nat)
  /\ NoWriter \notin DOMAIN Payload
  /\ Torn # Stray /\ {Torn, Stray, Junk} \cap Msgs = {}

VARIABLES
  dir, calm, \* the direction; whether nothing times out, closes or is dropped
  conn,      \* the descriptor that is sent on: a connection, or 0
  up,        \* has_client_, connected
  holder,    \* send_mutex_, send_lock
  wr,        \* each writer: [pc, k (its latest message), sent, at, fresh]
  pipe,      \* rows in the kernel, per connection
  peer,      \* the reader's end: "none", "open", "closed"
  rbuf,      \* rows of the message it is reading
  dlv,       \* messages it delivered
  log        \* history: messages in the order their first rows were written

vars == <<dir, calm, conn, up, holder, wr, pipe, peer, rbuf, dlv, log>>

Writers == IF dir = "toQemu" THEN {"ep", "io"} ELSE {"vcpu", "bh"}

Init ==
  /\ dir \in {"toQemu", "toServer"} /\ calm \in BOOLEAN
  /\ conn = (IF dir = "toServer" THEN 1 ELSE 0) /\ up = (dir = "toServer")
  /\ holder = NoWriter
  /\ wr = [w \in Writers |-> [pc |-> "idle", k |-> 0, sent |-> 0, at |-> 0, fresh |-> FALSE]]
  /\ pipe = [s \in Conns |-> <<>>] /\ rbuf = [s \in Conns |-> <<>>]
  /\ peer = [s \in Conns |-> IF s = conn THEN "open" ELSE "none"]
  /\ dlv = [s \in Conns |-> <<>>] /\ log = [s \in Conns |-> <<>>]

-----------------------------------------------------------------------------
(* The codecs: offset and size of every field in the 64 bytes.             *)

SerializeHeader ==
  [magic |-> <<0, 4>>, version |-> <<4, 2>>, type |-> <<6, 2>>, flags |-> <<8, 2>>,
   hlen |-> <<10, 2>>, plen |-> <<12, 4>>, txn |-> <<16, 8>>, time |-> <<24, 8>>,
   addr |-> <<32, 8>>, be |-> <<40, 8>>, status |-> <<48, 4>>, tlen |-> <<56, 4>>]

DeserializeHeader ==
  [magic |-> <<0, 4>>, version |-> <<4, 2>>, type |-> <<6, 2>>, flags |-> <<8, 2>>,
   hlen |-> <<10, 2>>, plen |-> <<12, 4>>, txn |-> <<16, 8>>, time |-> <<24, 8>>,
   addr |-> <<32, 8>>, be |-> <<40, 8>>, status |-> <<48, 4>>, tlen |-> <<56, 4>>]

mics_encode_header ==
  [magic |-> <<0, 4>>, version |-> <<4, 2>>, type |-> <<6, 2>>, flags |-> <<8, 2>>,
   hlen |-> <<10, 2>>, plen |-> <<12, 4>>, txn |-> <<16, 8>>, time |-> <<24, 8>>,
   addr |-> <<32, 8>>, be |-> <<40, 8>>, status |-> <<48, 4>>, tlen |-> <<56, 4>>]

mics_decode_header ==
  [magic |-> <<0, 4>>, version |-> <<4, 2>>, type |-> <<6, 2>>, flags |-> <<8, 2>>,
   hlen |-> <<10, 2>>, plen |-> <<12, 4>>, txn |-> <<16, 8>>, time |-> <<24, 8>>,
   addr |-> <<32, 8>>, be |-> <<40, 8>>, status |-> <<48, 4>>, tlen |-> <<56, 4>>]

Enc == IF dir = "toQemu" THEN SerializeHeader ELSE mics_encode_header
Dec == IF dir = "toQemu" THEN mics_decode_header ELSE DeserializeHeader

\* Byte i of four rows read as a header: whose, and which byte of its header.
ByteOf(rows, i) == LET u == rows[i \div 16 + 1] IN [msg |-> u.msg, pos |-> 16 * (u.row - 1) + (i % 16)]

\* The message whose field f the decoder finds in the rows.
Field(rows, f) ==
  LET m == ByteOf(rows, Dec[f][1]).msg IN
    IF /\ Enc[f][2] = Dec[f][2]
       /\ \A k \in 0..Dec[f][2] - 1 :
            ByteOf(rows, Dec[f][1] + k) = [msg |-> m, pos |-> Enc[f][1] + k]
    THEN m ELSE Junk

\* Mutant: only the length of the header is looked at.
HeaderOk_NoMagic(rows) == TRUE

\* The tests on magic, version and header_len (the length of the payload is
\* within bounds by what is sent).
HeaderOk(rows) == \A f \in {"magic", "version", "hlen"} : Field(rows, f) # Junk

Rows(m) == 4 + Payload[m[1]][m[2]]
RowsToRead(rows) == IF Field(rows, "plen") = Junk THEN 4 ELSE Rows(Field(rows, "plen"))

\* The message that was read: the one all its parts are from, or junk.
Decoded(rows) ==
  LET m == Field(rows, "type") IN
    IF /\ \A f \in DOMAIN Dec : Field(rows, f) = m
       /\ \A i \in DOMAIN rows : rows[i] = [msg |-> m, row |-> i]
    THEN m ELSE Junk
-----------------------------------------------------------------------------
(* Writers: SendResponse, SendRequestToHost and HandleHello of the server, *)
(* mics_send from a vCPU or the bottom half in QEMU.                       *)

Msg(w) == <<w, wr[w].k>>
Room(s) == Len(pipe[s]) < Cap
MarkTorn(l, s) == [l EXCEPT ![s][Len(l[s])] = Torn]

\* The IO thread sends only HELLO_ACK, before has_client_ is set; the others
\* look at has_client_ or connected before they take the lock.
Begin(w) ==
  /\ wr[w].pc = "idle" /\ wr[w].k < Len(Payload[w])
  /\ IF w = "io" THEN conn # 0 /\ ~up ELSE up
  /\ wr' = [wr EXCEPT ![w] = [pc |-> "lock", k |-> @.k + 1, sent |-> 0, at |-> 0, fresh |-> FALSE]]
  /\ UNCHANGED <<dir, calm, conn, up, holder, pipe, peer, rbuf, dlv, log>>

Acquire(w) ==
  /\ wr[w].pc = "lock" /\ holder = NoWriter
  /\ holder' = w
  /\ wr' = [wr EXCEPT ![w].pc = "poll"]
  /\ UNCHANGED <<dir, calm, conn, up, pipe, peer, rbuf, dlv, log>>

\* The send returns and the lock is released.  HandleHello's result decides
\* whether the IO thread publishes or closes the connection.  Any other caller
\* reports the failure and leaves the connection as it is.
Return(w, ok) ==
  /\ holder' = NoWriter
  /\ up' = IF w = "io" THEN ok ELSE up
  /\ conn' = IF w = "io" /\ ~ok THEN 0 ELSE conn

Fail(w) ==
  /\ Return(w, FALSE)
  /\ wr' = [wr EXCEPT ![w].pc = "idle"]
  /\ log' = IF wr[w].sent > 0 /\ ~wr[w].fresh THEN MarkTorn(log, wr[w].at) ELSE log
  /\ UNCHANGED <<dir, calm, pipe, peer, rbuf, dlv>>

Ready == conn # 0 /\ (Room(conn) \/ peer[conn] = "closed")

Poll(w) ==
  /\ wr[w].pc = "poll" /\ Ready
  /\ wr' = [wr EXCEPT ![w].pc = "enter"]
  /\ UNCHANGED <<dir, calm, conn, up, holder, pipe, peer, rbuf, dlv, log>>

\* Also what poll() does with descriptor -1.
PollTimeout(w) ==
  /\ ~calm /\ wr[w].pc = "poll" /\ ~Ready
  /\ Fail(w)

\* send() looks fd_ up once more: it may be another connection by now, also
\* one that was not there when the message was begun.
Enter(w) ==
  /\ wr[w].pc = "enter"
  /\ IF conn = 0 THEN Fail(w)
     ELSE /\ wr' = [wr EXCEPT ![w].pc = "send", ![w].at = conn,
                             ![w].fresh = wr[w].at # conn \/ @]
          /\ log' = IF wr[w].sent > 0 /\ ~wr[w].fresh /\ wr[w].at # conn
                    THEN MarkTorn(log, wr[w].at) ELSE log
          /\ UNCHANGED <<dir, calm, conn, up, holder, pipe, peer, rbuf, dlv>>

\* The kernel takes a row, sleeping until there is room; a signal may end the
\* call early.  QEMU sends header and payload with a poll() in between.
Send(w) ==
  LET s == wr[w].at
      n == wr[w].sent + 1
  IN
  /\ wr[w].pc = "send" /\ peer[s] = "open" /\ Room(s)
  /\ pipe' = [pipe EXCEPT ![s] = Append(@, [msg |-> Msg(w), row |-> n])]
  /\ log' = IF wr[w].fresh THEN [log EXCEPT ![s] = Append(@, IF n = 1 THEN Msg(w) ELSE Stray)] ELSE log
  /\ \E pc \in {"send", "poll", "idle"} :
       /\ pc = "idle" <=> n = Rows(Msg(w))
       /\ dir = "toServer" /\ n = 4 => pc # "send"
       /\ wr' = [wr EXCEPT ![w].pc = pc, ![w].sent = n, ![w].fresh = FALSE]
       /\ IF pc = "idle" THEN Return(w, TRUE) ELSE UNCHANGED <<holder, up, conn>>
  /\ UNCHANGED <<dir, calm, peer, rbuf, dlv>>

\* EPIPE or ECONNRESET.
SendBroken(w) ==
  /\ wr[w].pc = "send" /\ peer[wr[w].at] = "closed"
  /\ Fail(w)

Writer(w) ==
  Acquire(w) \/ Poll(w) \/ PollTimeout(w) \/ Enter(w) \/ Send(w) \/ SendBroken(w)

-----------------------------------------------------------------------------
(* The IO thread of the server replaces client_socket_ without the lock.   *)

IoAccept(s) ==
  /\ dir = "toQemu" /\ conn = 0 /\ wr["io"].pc = "idle"
  /\ peer[s] = "none" /\ \A r \in Conns : r < s => peer[r] # "none"
  /\ conn' = s
  /\ peer' = [peer EXCEPT ![s] = "open"]
  /\ UNCHANGED <<dir, calm, up, holder, wr, pipe, rbuf, dlv, log>>

\* The client is gone or sent something else than HELLO, before or after the
\* connection was published.
IoDrop ==
  /\ dir = "toQemu" /\ conn # 0 /\ wr["io"].pc = "idle" /\ ~calm
  /\ conn' = 0 /\ up' = FALSE
  /\ UNCHANGED <<dir, calm, holder, wr, pipe, peer, rbuf, dlv, log>>

\* The QEMU device sees that the server is gone; it does not connect again.
Eof ==
  /\ dir = "toServer" /\ up /\ peer[1] = "closed"
  /\ up' = FALSE
  /\ UNCHANGED <<dir, calm, conn, holder, wr, pipe, peer, rbuf, dlv, log>>

-----------------------------------------------------------------------------
(* Readers: RecvAll twice in IoThreadMain, mics_recv in the QEMU device.   *)

Hangup(s) ==
  /\ peer' = [peer EXCEPT ![s] = "closed"]
  /\ rbuf' = [rbuf EXCEPT ![s] = <<>>]
  /\ UNCHANGED dlv

Whole(rows) == Len(rows) >= 4 /\ Len(rows) >= RowsToRead(rows)

\* Mutant: the reader waits until the whole message is in the kernel's buffer.
Recv_WaitsForAll(s) ==
  /\ peer[s] = "open" /\ pipe[s] # <<>>
  /\ \E n \in DOMAIN pipe[s] : n = Rows(Head(pipe[s]).msg)
  /\ dlv' = [dlv EXCEPT ![s] = Append(@, Head(pipe[s]).msg)]
  /\ pipe' = [pipe EXCEPT ![s] = SubSeq(@, Rows(Head(@).msg) + 1, Len(@))]
  /\ UNCHANGED <<dir, calm, conn, up, holder, wr, peer, rbuf, log>>

Recv(s) ==
  /\ peer[s] = "open" /\ pipe[s] # <<>>
  /\ pipe' = [pipe EXCEPT ![s] = Tail(@)]
  /\ LET rows == Append(rbuf[s], Head(pipe[s])) IN
       IF Len(rows) = 4 /\ ~HeaderOk(rows) THEN Hangup(s)
       ELSE IF Whole(rows)
       THEN /\ dlv' = [dlv EXCEPT ![s] = Append(@, Decoded(rows))]
            /\ rbuf' = [rbuf EXCEPT ![s] = <<>>]
            /\ UNCHANGED peer
       ELSE rbuf' = [rbuf EXCEPT ![s] = rows] /\ UNCHANGED <<peer, dlv>>
  /\ UNCHANGED <<dir, calm, conn, up, holder, wr, log>>

\* The server gives up in the middle of a message, QEMU never does; either
\* may go away for another reason.
Leave(s) ==
  /\ ~calm /\ peer[s] = "open"
  /\ Hangup(s)
  /\ UNCHANGED <<dir, calm, conn, up, holder, wr, pipe, log>>

Next ==
  \/ \E w \in Writers : Begin(w) \/ Writer(w)
  \/ \E s \in Conns : IoAccept(s) \/ Recv(s) \/ Leave(s)
  \/ IoDrop \/ Eof

Spec == Init /\ [][Next]_vars

\* Threads run on, and readers read.  (Only finitely much is sent, so that
\* fairness to all writers together is fairness to each.)
FairSpec ==
  /\ Spec
  /\ WF_vars((\E w \in Writers : Writer(w)) \/ ("io" \in Writers /\ Begin("io")))
  /\ WF_vars(\E s \in Conns : Recv(s))

-----------------------------------------------------------------------------
(* Properties.                                                             *)

\* The queue of MicsChannel: the messages begun and not yet delivered, from the
\* first torn one on for good (l: the log of a connection, d: its deliveries).
Bad(l) == {i \in DOMAIN l : l[i] \in {Torn, Stray}}
Gone(l, d) == {i \in DOMAIN l : i <= Len(d) /\ \A j \in Bad(l) : i < j}
Left(l, d) == SubSeq(l, (CHOOSE n \in 0..Len(l) : Gone(l, d) = 1..n) + 1, Len(l))
Queue == [s \in Conns |-> Left(log[s], dlv[s])]
Channel == INSTANCE MicsChannel WITH q <- Queue

\* protocol-v2.md: "Implementations must use exact socket reads/writes".  The
\* stream carries whole messages, each field where the other codec looks for
\* it, in the order their sends began, whatever the pieces, however small the
\* kernel's buffer and whichever thread sends.  A send cut short spoils only
\* what comes after it on that connection, and a thread that goes on sending
\* after the IO thread has replaced client_socket_ makes the new client hang
\* up without taking anything for a message.
IsChannel == Channel!Spec

Begun == UNION {{w} \X (1..wr[w].k) : w \in Writers}
Arrived == UNION {{dlv[s][i] : i \in DOMAIN dlv[s]} : s \in Conns}

\* With both sides running every message whose send began arrives, also when it
\* is larger than the kernel's buffer: the reader takes the header while the
\* rest is still being sent.
MessageArrives == calm /\ Begun # Arrived ~> Begun = Arrived
=============================================================================
