-------------------------- MODULE MicsStreamProofs --------------------------
(***************************************************************************)
(* The byte stream implements the queue of messages, for any number of     *)
(* connections, any payloads and any size of the kernel's buffer.          *)
(***************************************************************************)
EXTENDS MicsStream, TLAPS

\* A row of a message, and an entry of the log.
RowSet == {u \in [msg : Msgs, row : Nat \ {0}] : u.row <= Rows(u.msg)}
Entries == Msgs \cup {Torn, Stray}

Sending == {"poll", "enter", "send"}

StreamType ==
  /\ dir \in {"toQemu", "toServer"} /\ conn \in Conns \cup {0} /\ up \in BOOLEAN
  /\ wr \in [Writers -> [pc : {"idle", "lock"} \cup Sending, k : Nat, sent : Nat,
                         at : Conns \cup {0}, fresh : BOOLEAN]]
  /\ pipe \in [Conns -> Seq(RowSet)] /\ rbuf \in [Conns -> Seq(RowSet)]
  /\ peer \in [Conns -> {"none", "open", "closed"}]
  /\ dlv \in [Conns -> Seq(Msgs \cup {Junk})] /\ log \in [Conns -> Seq(Entries)]

\* send_mutex_ (send_lock) is held from the first poll() of a message to its
\* end, and inside a send the writer knows its connection and is not through.
LockedAt(w) ==
  /\ wr[w].pc \in Sending <=> holder = w
  /\ wr[w].k <= Len(Payload[w])
  /\ wr[w].pc # "idle" => wr[w].k > 0
  /\ wr[w].pc = "lock" => wr[w].sent = 0 /\ wr[w].at = 0
  /\ holder = w =>
       /\ wr[w].sent < Rows(Msg(w))
       /\ wr[w].pc = "send" => wr[w].at # 0
       /\ wr[w].at # 0 /\ ~wr[w].fresh => wr[w].sent > 0
       /\ wr[w].sent > 0 => wr[w].at # 0

Locked == \A w \in Writers : LockedAt(w)

\* Writer w has sent some rows of a message on s, and not yet all.
Mid(w, s) == holder = w /\ wr[w].sent > 0 /\ ~wr[w].fresh /\ wr[w].at = s

\* The first c messages of the log l are gone: all of what was delivered (n
\* messages), or all before a torn one with which the reader lost its step.
Place(l, n, c) ==
  /\ c \in Nat /\ c <= Len(l)
  /\ \A i \in 1..c : l[i] \in Msgs
  /\ c # n => c < n /\ c < Len(l) /\ l[c + 1] = Torn

Placed(s) == \E c \in Nat : Place(log[s], Len(dlv[s]), c)

InStep(l, n) == Place(l, n, n)

\* A message that is being sent is the last of the log and not delivered.
Unfinished(s) ==
  \A w \in Writers : Mid(w, s) =>
    /\ log[s] # <<>> /\ log[s][Len(log[s])] \in {Msg(w), Stray}
    /\ InStep(log[s], Len(dlv[s])) => Len(dlv[s]) < Len(log[s])

\* What the reader has of a message, and what the kernel holds.
Flow(a, b) ==
  [i \in 1..Len(a) + Len(b) |-> IF i <= Len(a) THEN a[i] ELSE b[i - Len(a)]]

\* A row u that is the first of entry x.
Starts(u, x) == (x \in Msgs => u.row = 1) /\ (x = Stray => u.row > 1)

\* Row v after row u, of entries number b and a, which are y and x: the next row
\* of the same message, or the first one of the next message.
Joined(u, v, a, b, x, y) ==
  \/ b = a /\ v = [msg |-> u.msg, row |-> u.row + 1]
  \/ b = a + 1 /\ Starts(v, y) /\ (x \in Msgs => u.row = Rows(u.msg))

\* Row i of the flow f belongs to entry e[i] of the log l: entry after entry,
\* row after row, from the first message that is not delivered to the last one.
Tracks(e, f, l, n) ==
  /\ e \in [DOMAIN f -> DOMAIN l]
  /\ f = <<>> => Len(l) = n
  /\ f # <<>> => e[1] = n + 1 /\ e[Len(f)] = Len(l) /\ Starts(f[1], l[n + 1])
  /\ \A i \in DOMAIN f :
       /\ l[e[i]] \in Msgs => f[i].msg = l[e[i]]
       /\ i > 1 => Joined(f[i - 1], f[i], e[i - 1], e[i], l[e[i - 1]], l[e[i]])

\* The r rows the reader has taken are the first ones of that message.
Reads(e, f, l, n, r) ==
  r > 0 => /\ l[n + 1] \in Msgs =>
                r < Rows(l[n + 1]) /\ \A i \in 1..r : e[i] = n + 1 /\ f[i].row = i
           /\ l[n + 1] = Stray => r < 4

\* The last row is the one its sender has just sent, or completes its message.
Ends(f, s) ==
  f # <<>> =>
    /\ \A w \in Writers : Mid(w, s) => f[Len(f)] = [msg |-> Msg(w), row |-> wr[w].sent]
    /\ (\A w \in Writers : ~Mid(w, s)) /\ log[s][Len(log[s])] \in Msgs =>
         f[Len(f)].row = Rows(f[Len(f)].msg)

Tracked(s) ==
  LET f == Flow(rbuf[s], pipe[s])
  IN  /\ \E e \in [DOMAIN f -> DOMAIN log[s]] :
           /\ Tracks(e, f, log[s], Len(dlv[s]))
           /\ Reads(e, f, log[s], Len(dlv[s]), Len(rbuf[s]))
      /\ Ends(f, s)

ConnInv(s) ==
  /\ Placed(s) /\ Unfinished(s)
  /\ peer[s] # "closed" /\ InStep(log[s], Len(dlv[s])) => Tracked(s)

StreamInv == StreamType /\ Locked /\ \A s \in Conns : ConnInv(s)

-----------------------------------------------------------------------------
(* Sequences, and a count from one place to another.                       *)

\* The places of a sequence.
LEMMA Places ==
  ASSUME NEW S, NEW q \in Seq(S)
  PROVE  Len(q) \in Nat /\ DOMAIN q = 1..Len(q)
OBVIOUS

\* What stands in them.
LEMMA PlaceType ==
  ASSUME NEW S, NEW q \in Seq(S), NEW i \in 1..Len(q)
  PROVE  q[i] \in S
OBVIOUS

\* A sequence without its first element.
LEMMA TailFacts ==
  ASSUME NEW S, NEW q \in Seq(S), q # <<>>
  PROVE  /\ Tail(q) \in Seq(S) /\ Len(Tail(q)) = Len(q) - 1
         /\ \A i \in 1..Len(Tail(q)) : Tail(q)[i] = q[i + 1]
OBVIOUS

\* Sequences with the same elements in the same places are the same.
LEMMA SamePlaces ==
  ASSUME NEW S, NEW p \in Seq(S), NEW q \in Seq(S), Len(p) = Len(q),
         \A i \in 1..Len(p) : p[i] = q[i]
  PROVE  p = q
OBVIOUS

\* Place k of what follows a + 1 elements is place c, and has one before it.
LEMMA PlaceBefore ==
  ASSUME NEW a \in Nat, NEW b \in Nat, NEW k \in 1..b, k > 1, NEW c \in Nat, c = a + 1 + k
  PROVE  k - 1 \in 1..b /\ a + 1 + (k - 1) = c - 1 /\ c > 1
OBVIOUS

-----------------------------------------------------------------------------
(* Messages, rows and the codecs.                                          *)

\* The marks of the log and of the reader are no messages.
LEMMA Marks == Torn \notin Msgs /\ Stray \notin Msgs /\ Junk \notin Msgs /\ Torn # Stray
BY StreamAssumption, Zenon

\* A connection is never the descriptor 0 (no connection).
LEMMA ConnFacts == 0 \notin Conns /\ 1 \in Conns
BY StreamAssumption

\* The messages are those the writers send, and each begins with a header.
LEMMA MsgOf ==
  ASSUME NEW w \in DOMAIN Payload, NEW k \in Nat, k > 0, k <= Len(Payload[w])
  PROVE  <<w, k>> \in Msgs
<1>1. Payload[w] \in Seq(Nat)
  BY StreamAssumption, Zenon
<1>2. Len(Payload[w]) \in Nat /\ DOMAIN Payload[w] = 1..Len(Payload[w])
  BY <1>1, Places, Zenon
<1>3. k \in 1..Len(Payload[w])
  BY <1>2
<1>4. <<w, k>> \in {w} \X DOMAIN Payload[w]
  BY <1>2, <1>3, Zenon
<1> QED  BY <1>4, Zenon DEF Msgs

\* A message is a header of four rows and its payload.
LEMMA RowsFacts ==
  ASSUME NEW m \in Msgs
  PROVE  Rows(m) \in Nat /\ Rows(m) >= 4
<1>1. PICK w \in DOMAIN Payload : m \in {w} \X DOMAIN Payload[w]
  BY Zenon DEF Msgs
<1>2. PICK k \in DOMAIN Payload[w] : m = <<w, k>>
  BY <1>1
<1>3. Payload[w] \in Seq(Nat)
  BY StreamAssumption, Zenon
<1>4. Payload[w][k] \in Nat
  BY <1>2, <1>3
<1>5. Rows(m) = 4 + Payload[w][k]
  BY <1>2, Zenon DEF Rows
<1> QED  BY <1>4, <1>5

\* The two codecs of a direction agree, and a field lies within the header.
LEMMA CodecFacts ==
  ASSUME NEW f \in DOMAIN Dec
  PROVE  /\ Enc[f] = Dec[f]
         /\ Dec[f][1] \in 0..63 /\ Dec[f][2] \in 1..64 /\ Dec[f][1] + Dec[f][2] <= 64
<1>1. /\ Enc = SerializeHeader /\ Dec = SerializeHeader
  BY Zenon DEF Enc, Dec, SerializeHeader, DeserializeHeader, mics_encode_header, mics_decode_header
<1>2. f \in {"magic", "version", "type", "flags", "hlen", "plen", "txn", "time", "addr", "be",
             "status", "tlen"}
  BY <1>1, Zenon DEF SerializeHeader
<1> QED  BY <1>1, <1>2 DEF SerializeHeader

\* A byte of the header read from rows of one message is that byte of its header.
LEMMA ByteRight ==
  ASSUME NEW rows, NEW m, NEW i \in 0..63,
         \A j \in 1..4 : rows[j].msg = m /\ rows[j].row = j
  PROVE  ByteOf(rows, i) = [msg |-> m, pos |-> i]
<1>1. i \div 16 + 1 \in 1..4 /\ 16 * (i \div 16) + (i % 16) = i
  OBVIOUS
<1>2. PICK j \in 1..4 : j = i \div 16 + 1
  BY <1>1, Zenon
<1>3. 16 * (j - 1) + (i % 16) = i
  BY <1>1, <1>2
<1> QED  BY <1>2, <1>3, Zenon DEF ByteOf

\* Whatever the field, the decoder finds the message the rows are of.
LEMMA FieldRight ==
  ASSUME NEW rows, NEW m, NEW f \in DOMAIN Dec,
         \A j \in 1..4 : rows[j].msg = m /\ rows[j].row = j
  PROVE  Field(rows, f) = m
<1>1. \A k \in 0..Dec[f][2] - 1 : Dec[f][1] + k \in 0..63
  BY CodecFacts, SMTT(20)
<1>2. \A k \in 0..Dec[f][2] - 1 :
        ByteOf(rows, Dec[f][1] + k) = [msg |-> m, pos |-> Dec[f][1] + k]
  BY <1>1, ByteRight, Zenon
<1>3. ByteOf(rows, Dec[f][1]) = [msg |-> m, pos |-> Dec[f][1]]
  <2>1. Dec[f][1] \in 0..63
    BY CodecFacts, Zenon
  <2> QED  BY <2>1, ByteRight, ZenonT(30)
<1>4. ByteOf(rows, Dec[f][1]).msg = m
  BY <1>3
<1> QED  BY <1>2, <1>4, CodecFacts, Zenon DEF Field

\* A row that is not the first of its message does not hold the magic number.
LEMMA MagicOff ==
  ASSUME NEW rows, rows[1].row \in Nat, rows[1].row > 1
  PROVE  Field(rows, "magic") = Junk
<1>1. "magic" \in DOMAIN Dec /\ Dec["magic"] = <<0, 4>> /\ Enc["magic"] = <<0, 4>>
  BY Zenon DEF Enc, Dec, SerializeHeader, DeserializeHeader, mics_encode_header, mics_decode_header
<1>2. ByteOf(rows, 0).pos # 0
  <2>1. 0 \div 16 + 1 = 1 /\ 0 % 16 = 0
    OBVIOUS
  <2>2. ByteOf(rows, 0).pos = 16 * (rows[1].row - 1) + 0
    BY <2>1, Zenon DEF ByteOf
  <2> QED  BY <2>2
<1>3. 0 \in 0..Dec["magic"][2] - 1 /\ Dec["magic"][1] + 0 = 0 /\ Enc["magic"][1] + 0 = 0
  BY <1>1
<1>4. ASSUME NEW m PROVE ByteOf(rows, 0) # [msg |-> m, pos |-> 0]
  BY <1>2
<1> QED  BY <1>3, <1>4, Zenon DEF Field

\* A field of rows of messages is from one of them, or junk.
LEMMA FieldType ==
  ASSUME NEW rows \in Seq(RowSet), Len(rows) >= 4, NEW f \in DOMAIN Dec
  PROVE  Field(rows, f) \in Msgs \cup {Junk}
<1>1. Dec[f][1] \in 0..63
  BY CodecFacts, Zenon
<1>2. Dec[f][1] \div 16 + 1 \in 1..4
  <2>1. \A i \in 0..63 : i \div 16 + 1 \in 1..4
    OBVIOUS
  <2> QED  BY <1>1, <2>1, Zenon
<1>3. rows[Dec[f][1] \div 16 + 1] \in RowSet
  BY <1>2
<1>4. ByteOf(rows, Dec[f][1]).msg \in Msgs
  BY <1>3 DEF ByteOf, RowSet
<1> QED  BY <1>4, Zenon DEF Field

-----------------------------------------------------------------------------
(* What is left of a log: the queue of MicsChannel.                        *)

\* The messages that are gone are the first c of the log.
LEMMA GoneIs ==
  ASSUME NEW l \in Seq(Entries), NEW d, Len(d) \in Nat, NEW c, Place(l, Len(d), c)
  PROVE  Left(l, d) = SubSeq(l, c + 1, Len(l))
<1>1. Gone(l, d) = 1..c
  <2>1. Len(l) \in Nat /\ DOMAIN l = 1..Len(l)
    BY Places, Zenon
  <2>2. c \in Nat /\ c <= Len(l) /\ c <= Len(d)
    BY DEF Place
  <2>3. ASSUME NEW i \in 1..c PROVE i \in Gone(l, d)
    <3>1. i \in DOMAIN l /\ i <= Len(d)
      BY <2>1, <2>2
    <3>2. ASSUME NEW j \in Bad(l) PROVE i < j
      <4>1. j \in 1..Len(l) /\ j \notin 1..c
        BY <2>1, Marks, Zenon DEF Place, Bad
      <4> QED  BY <4>1, <2>1, <2>2
    <3> QED  BY <3>1, <3>2, Zenon DEF Gone
  <2>4. ASSUME NEW i \in Gone(l, d) PROVE i \in 1..c
    <3>1. i \in 1..Len(l) /\ i <= Len(d) /\ \A j \in Bad(l) : i < j
      BY <2>1, Zenon DEF Gone
    <3>2. CASE c = Len(d)
      BY <2>1, <2>2, <3>1, <3>2
    <3>3. CASE c # Len(d)
      <4>1. c < Len(l) /\ l[c + 1] = Torn
        BY <3>3, Zenon DEF Place
      <4>2. c + 1 \in 1..Len(l)
        BY <2>1, <2>2, <4>1
      <4>3. c + 1 \in Bad(l)
        BY <2>1, <4>1, <4>2, Zenon DEF Bad
      <4>4. i < c + 1
        BY <3>1, <4>3, Zenon
      <4> QED  BY <2>1, <2>2, <3>1, <4>4
    <3> QED  BY <3>2, <3>3, Zenon
  <2> QED  BY <2>3, <2>4, Zenon
<1>2. c \in 0..Len(l)
  BY DEF Place
<1>3. \A n \in 0..Len(l) : 1..n = 1..c => n = c
  BY <1>2
<1>4. (CHOOSE n \in 0..Len(l) : Gone(l, d) = 1..n) = c
  BY <1>1, <1>2, <1>3, Zenon
<1> QED  BY <1>4, Zenon DEF Left

\* The part of a log that follows its first c entries.
LEMMA PartFacts ==
  ASSUME NEW l \in Seq(Entries), NEW c \in Nat, c <= Len(l)
  PROVE  /\ SubSeq(l, c + 1, Len(l)) \in Seq(Entries)
         /\ Len(SubSeq(l, c + 1, Len(l))) = Len(l) - c
         /\ \A i \in 1..Len(l) - c : SubSeq(l, c + 1, Len(l))[i] = l[c + i]
         /\ c < Len(l) => SubSeq(l, c + 1, Len(l)) # <<>>
<1>1. Len(l) \in Nat
  OBVIOUS
<1>2. ASSUME NEW a \in Nat, a = c + 1
      PROVE  /\ SubSeq(l, a, Len(l)) \in Seq(Entries)
             /\ Len(SubSeq(l, a, Len(l))) = Len(l) - c
             /\ \A i \in 1..Len(l) - c : SubSeq(l, a, Len(l))[i] = l[c + i]
             /\ c < Len(l) => SubSeq(l, a, Len(l)) # <<>>
  <2>1. ASSUME NEW b \in Nat, b = Len(l)
        PROVE  /\ SubSeq(l, a, b) \in Seq(Entries)
               /\ Len(SubSeq(l, a, b)) = b - c
               /\ \A i \in 1..b - c : SubSeq(l, a, b)[i] = l[c + i]
               /\ c < b => SubSeq(l, a, b) # <<>>
    <3>1. SubSeq(l, a, b) \in Seq(Entries)
      BY <1>1, <1>2, <2>1
    <3>2. Len(SubSeq(l, a, b)) = b - c
      BY <1>1, <1>2, <2>1
    <3>3. \A i \in 1..b - c : SubSeq(l, a, b)[i] = l[c + i]
      BY <1>1, <1>2, <2>1
    <3>4. c < b => SubSeq(l, a, b) # <<>>
      <4>1. Len(<<>>) = 0 /\ (c < b => b - c # 0)
        BY <2>1
      <4> QED  BY <3>2, <4>1, Zenon
    <3> QED  BY <3>1, <3>2, <3>3, <3>4, Zenon
  <2> QED  BY <1>1, <2>1, Zenon
<1>3. c + 1 \in Nat
  OBVIOUS
<1> QED  BY <1>2, <1>3, Zenon

\* The first entry of such a part, and the others.
LEMMA PartHead ==
  ASSUME NEW l \in Seq(Entries), NEW c \in Nat, c < Len(l)
  PROVE  /\ Head(SubSeq(l, c + 1, Len(l))) = l[c + 1]
         /\ Tail(SubSeq(l, c + 1, Len(l))) = SubSeq(l, c + 1 + 1, Len(l))
<1>1. c + 1 \in 1..Len(l) /\ Len(l) \in c + 1..Len(l)
  OBVIOUS
<1>2. ASSUME NEW a \in 1..Len(l), NEW b \in a..Len(l)
      PROVE  Head(SubSeq(l, a, b)) = l[a] /\ Tail(SubSeq(l, a, b)) = SubSeq(l, a + 1, b)
  OBVIOUS
<1> QED  BY <1>1, <1>2, Zenon

\* A message that is begun is put at the end of the queue.
LEMMA LeftPut ==
  ASSUME NEW l \in Seq(Entries), NEW d, Len(d) \in Nat, NEW c, Place(l, Len(d), c),
         NEW x \in Entries
  PROVE  /\ Place(Append(l, x), Len(d), c)
         /\ Left(Append(l, x), d) = Append(Left(l, d), x)
<1>1. Append(l, x) \in Seq(Entries) /\ Len(Append(l, x)) = Len(l) + 1 /\ Len(l) \in Nat
  OBVIOUS
<1>2. \A i \in 1..Len(l) : Append(l, x)[i] = l[i]
  OBVIOUS
<1>3. Place(Append(l, x), Len(d), c)
  BY <1>1, <1>2 DEF Place
<1> DEFINE a == Append(l, x)
<1>4. Left(a, d) = SubSeq(a, c + 1, Len(a))
  BY <1>1, <1>3, GoneIs, Zenon
<1>5. Left(l, d) = SubSeq(l, c + 1, Len(l))
  BY GoneIs, Zenon
<1>6. c \in Nat /\ c <= Len(l) /\ c <= Len(a)
  BY <1>1 DEF Place
<1>7. Len(a) = Len(l) + 1 /\ a[Len(l) + 1] = x /\ \A i \in 1..Len(l) : a[i] = l[i]
  OBVIOUS
<1>8. a \in Seq(Entries)
  BY <1>1, Zenon
<1> HIDE DEF a
<1>9. SubSeq(a, c + 1, Len(a)) = Append(SubSeq(l, c + 1, Len(l)), x)
  <2> DEFINE p == SubSeq(l, c + 1, Len(l))
  <2> DEFINE u == SubSeq(a, c + 1, Len(a))
  <2>1. /\ p \in Seq(Entries) /\ Len(p) = Len(l) - c
        /\ \A i \in 1..Len(l) - c : p[i] = l[c + i]
    BY <1>6, PartFacts, Zenon
  <2>2. /\ u \in Seq(Entries) /\ Len(u) = Len(a) - c
        /\ \A i \in 1..Len(a) - c : u[i] = a[c + i]
    BY <1>6, <1>8, PartFacts, Zenon
  <2> HIDE DEF p, u
  <2> DEFINE v == Append(p, x)
  <2>3. /\ v \in Seq(Entries) /\ Len(v) = Len(p) + 1
        /\ \A i \in 1..Len(p) : v[i] = p[i]
        /\ v[Len(p) + 1] = x
    BY <2>1
  <2> HIDE DEF v
  <2>5. ASSUME NEW i \in 1..Len(u) PROVE u[i] = v[i]
    <3>1. i \in 1..Len(a) - c /\ u[i] = a[c + i]
      BY <2>2, Zenon
    <3>2. CASE i \in 1..Len(p)
      <4>1. i \in 1..Len(l) - c /\ c + i \in 1..Len(l)
        BY <1>1, <1>6, <2>1, <3>2
      <4> QED  BY <1>7, <2>1, <2>3, <3>1, <3>2, <4>1, Zenon
    <3>3. CASE i \notin 1..Len(p)
      <4>1. i = Len(p) + 1 /\ c + i = Len(l) + 1
        BY <1>1, <1>6, <1>7, <2>1, <3>1, <3>3
      <4> QED  BY <1>7, <2>3, <3>1, <4>1, Zenon
    <3> QED  BY <3>2, <3>3, Zenon
  <2>6. Len(u) = Len(v)
    BY <1>1, <1>6, <1>7, <2>1, <2>2, <2>3
  <2>7. u = v
    BY <2>2, <2>3, <2>5, <2>6, SamePlaces, Zenon
  <2> QED  BY <2>7, Zenon DEF u, v, p
<1> QED  BY <1>3, <1>4, <1>5, <1>9, Zenon DEF a

\* A message cut short is marked where it is in the queue.
LEMMA LeftTear ==
  ASSUME NEW l \in Seq(Entries), NEW d, Len(d) \in Nat, NEW c, Place(l, Len(d), c),
         c < Len(l)
  PROVE  /\ Place([l EXCEPT ![Len(l)] = Torn], Len(d), c)
         /\ Left(l, d) # <<>>
         /\ Left([l EXCEPT ![Len(l)] = Torn], d)
              = [Left(l, d) EXCEPT ![Len(Left(l, d))] = Torn]
<1> DEFINE t == [l EXCEPT ![Len(l)] = Torn]
<1>0. Len(l) \in Nat /\ c \in Nat /\ Len(l) \in 1..Len(l) /\ Torn \in Entries
  BY DEF Place, Entries
<1>1. t \in Seq(Entries) /\ Len(t) = Len(l)
  BY <1>0
<1>2. \A i \in 1..Len(l) : t[i] = IF i = Len(l) THEN Torn ELSE l[i]
  BY <1>0
<1>3. c \in Nat /\ c <= Len(l) - 1
  BY <1>0
<1> HIDE DEF t
<1>4. Place(t, Len(d), c)
  BY <1>0, <1>1, <1>2, <1>3 DEF Place
<1>5. Left(t, d) = SubSeq(t, c + 1, Len(l))
  BY <1>1, <1>4, GoneIs, Zenon
<1>6. Left(l, d) = SubSeq(l, c + 1, Len(l))
  BY GoneIs, Zenon
<1>7. /\ Left(l, d) # <<>> /\ Len(Left(l, d)) = Len(l) - c
  BY <1>0, <1>3, <1>6, PartFacts
<1>8. SubSeq(t, c + 1, Len(l)) = [SubSeq(l, c + 1, Len(l)) EXCEPT ![Len(l) - c] = Torn]
  <2> DEFINE p == SubSeq(l, c + 1, Len(l))
  <2> DEFINE u == SubSeq(t, c + 1, Len(l))
  <2>1. p \in Seq(Entries) /\ u \in Seq(Entries) /\ Len(p) = Len(l) - c /\ Len(u) = Len(l) - c
    BY <1>0, <1>1, <1>3, PartFacts
  <2>2. \A i \in 1..Len(l) - c : p[i] = l[c + i] /\ u[i] = t[c + i]
    BY <1>0, <1>1, <1>3, PartFacts, SMTT(20)
  <2>3. Len(l) - c \in 1..Len(p)
    BY <1>0, <1>3, <2>1
  <2> HIDE DEF p, u
  <2> DEFINE v == [p EXCEPT ![Len(l) - c] = Torn]
  <2>4. /\ v \in Seq(Entries) /\ Len(v) = Len(p)
        /\ \A i \in 1..Len(p) : v[i] = IF i = Len(l) - c THEN Torn ELSE p[i]
    BY <1>0, <2>1, <2>3
  <2> HIDE DEF v
  <2>5. \A i \in 1..Len(u) : u[i] = v[i]
    BY <1>0, <1>2, <1>3, <2>1, <2>2, <2>4, SMTT(20)
  <2>6. u = v
    BY <2>1, <2>4, <2>5, SamePlaces, Zenon
  <2> QED  BY <2>6, Zenon DEF u, v, p
<1> QED  BY <1>4, <1>5, <1>6, <1>7, <1>8, Zenon DEF t

\* The message at the head of the queue is delivered.
LEMMA LeftGet ==
  ASSUME NEW l \in Seq(Entries), NEW d \in Seq(Msgs \cup {Junk}), InStep(l, Len(d)),
         Len(d) < Len(l), l[Len(d) + 1] \in Msgs, NEW m \in Msgs \cup {Junk}
  PROVE  /\ Place(l, Len(Append(d, m)), Len(d) + 1)
         /\ Left(l, d) # <<>> /\ Head(Left(l, d)) = l[Len(d) + 1]
         /\ Left(l, Append(d, m)) = Tail(Left(l, d))
<1>1. Len(Append(d, m)) = Len(d) + 1 /\ Len(d) \in Nat /\ Len(l) \in Nat
  OBVIOUS
<1>2. Place(l, Len(Append(d, m)), Len(d) + 1)
  BY <1>1 DEF Place, InStep
<1>3. Left(l, d) = SubSeq(l, Len(d) + 1, Len(l))
  BY <1>1, GoneIs, Zenon DEF InStep
<1>4. Left(l, Append(d, m)) = SubSeq(l, Len(d) + 1 + 1, Len(l))
  <2>1. Len(Append(d, m)) \in Nat
    BY <1>1
  <2> QED  BY <2>1, <1>2, GoneIs, Zenon
<1>5. /\ SubSeq(l, Len(d) + 1, Len(l)) # <<>>
      /\ Head(SubSeq(l, Len(d) + 1, Len(l))) = l[Len(d) + 1]
      /\ Tail(SubSeq(l, Len(d) + 1, Len(l))) = SubSeq(l, Len(d) + 1 + 1, Len(l))
  <2>1. Len(d) <= Len(l)
    BY <1>1
  <2> QED  BY <1>1, <2>1, PartFacts, PartHead, Zenon
<1> QED  BY <1>2, <1>3, <1>4, <1>5, Zenon

\* With a torn message at the head the queue stays as it is.
LEMMA LeftMisread ==
  ASSUME NEW l \in Seq(Entries), NEW d \in Seq(Msgs \cup {Junk}), NEW c,
         Place(l, Len(d), c), c < Len(l), l[c + 1] = Torn, NEW m \in Msgs \cup {Junk}
  PROVE  /\ Place(l, Len(Append(d, m)), c)
         /\ Left(l, d) # <<>> /\ Head(Left(l, d)) = Torn
         /\ Left(l, Append(d, m)) = Left(l, d)
<1>1. Len(Append(d, m)) = Len(d) + 1 /\ Len(d) \in Nat /\ Len(l) \in Nat
  OBVIOUS
<1>2. c \in Nat /\ c <= Len(d)
  BY <1>1 DEF Place
<1>3. Place(l, Len(Append(d, m)), c)
  BY <1>1, <1>2 DEF Place
<1>4. Left(l, d) = SubSeq(l, c + 1, Len(l))
  BY <1>1, GoneIs, Zenon
<1>5. Left(l, Append(d, m)) = SubSeq(l, c + 1, Len(l))
  <2>1. Len(Append(d, m)) \in Nat
    BY <1>1
  <2> QED  BY <2>1, <1>3, GoneIs, Zenon
<1>6. SubSeq(l, c + 1, Len(l)) # <<>> /\ Head(SubSeq(l, c + 1, Len(l))) = l[c + 1]
  <2>1. c <= Len(l)
    BY <1>1, <1>2
  <2> QED  BY <1>1, <1>2, <2>1, PartFacts, PartHead, Zenon
<1> QED  BY <1>3, <1>4, <1>5, <1>6, Zenon

-----------------------------------------------------------------------------
(* The rows between a writer and its reader.                               *)

\* The flow is a sequence of rows, first those of the reader, then the kernel's.
LEMMA FlowFacts ==
  ASSUME NEW a \in Seq(RowSet), NEW b \in Seq(RowSet)
  PROVE  /\ Flow(a, b) \in Seq(RowSet) /\ Len(Flow(a, b)) = Len(a) + Len(b)
         /\ \A i \in 1..Len(a) : Flow(a, b)[i] = a[i]
         /\ \A i \in 1..Len(b) : Flow(a, b)[Len(a) + i] = b[i]
<1> DEFINE n == Len(a) + Len(b)
<1>1. Len(a) \in Nat /\ Len(b) \in Nat /\ n \in Nat
  OBVIOUS
<1>2. \A i \in 1..n : (IF i <= Len(a) THEN a[i] ELSE b[i - Len(a)]) \in RowSet
  OBVIOUS
<1>3. Flow(a, b) \in [1..n -> RowSet]
  BY <1>2, Zenon DEF Flow
<1>4. Flow(a, b) \in Seq(RowSet)
  BY <1>1, <1>3, SMTT(20)
<1>5. Len(Flow(a, b)) = n
  BY <1>1, <1>3, <1>4
<1>6. \A i \in 1..n : Flow(a, b)[i] = IF i <= Len(a) THEN a[i] ELSE b[i - Len(a)]
  BY Zenon DEF Flow
<1> HIDE DEF n
<1>7. ASSUME NEW i \in 1..Len(a) PROVE Flow(a, b)[i] = a[i]
  <2>1. i \in 1..n /\ i <= Len(a)
    BY <1>1 DEF n
  <2> QED  BY <1>6, <2>1, Zenon
<1>8. ASSUME NEW i \in 1..Len(b) PROVE Flow(a, b)[Len(a) + i] = b[i]
  <2>1. PICK j \in 1..n : j = Len(a) + i /\ ~(j <= Len(a)) /\ j - Len(a) = i
    BY <1>1 DEF n
  <2> QED  BY <1>6, <2>1, Zenon
<1> QED  BY <1>4, <1>5, <1>7, <1>8, Zenon DEF n

\* A row that is sent comes last.
LEMMA FlowSend ==
  ASSUME NEW a \in Seq(RowSet), NEW b \in Seq(RowSet), NEW u \in RowSet
  PROVE  Flow(a, Append(b, u)) = Append(Flow(a, b), u)
<1> DEFINE f == Flow(a, b)
<1> DEFINE c == Append(b, u)
<1> DEFINE h == Flow(a, c)
<1>1. Len(a) \in Nat /\ Len(b) \in Nat
  OBVIOUS
<1>2. /\ c \in Seq(RowSet) /\ Len(c) = Len(b) + 1
      /\ \A i \in 1..Len(b) : c[i] = b[i]
      /\ c[Len(b) + 1] = u
  OBVIOUS
<1> HIDE DEF c
<1>3. /\ f \in Seq(RowSet) /\ Len(f) = Len(a) + Len(b)
      /\ \A i \in 1..Len(a) : f[i] = a[i]
      /\ \A i \in 1..Len(b) : f[Len(a) + i] = b[i]
  BY FlowFacts, Zenon
<1>4. /\ h \in Seq(RowSet) /\ Len(h) = Len(a) + Len(c)
      /\ \A i \in 1..Len(a) : h[i] = a[i]
      /\ \A i \in 1..Len(c) : h[Len(a) + i] = c[i]
  BY <1>2, FlowFacts, Zenon
<1> HIDE DEF f, h
<1> DEFINE g == Append(f, u)
<1>5. /\ g \in Seq(RowSet) /\ Len(g) = Len(f) + 1
      /\ \A i \in 1..Len(f) : g[i] = f[i]
      /\ g[Len(f) + 1] = u
  BY <1>3
<1> HIDE DEF g
<1>6. Len(h) = Len(g)
  BY <1>1, <1>2, <1>3, <1>4, <1>5
<1>7. ASSUME NEW i \in 1..Len(h) PROVE h[i] = g[i]
  <2>1. CASE i \in 1..Len(a)
    <3>1. i \in 1..Len(f)
      BY <1>1, <1>3, <2>1
    <3> QED  BY <1>3, <1>4, <1>5, <2>1, <3>1, Zenon
  <2>2. CASE i \notin 1..Len(a)
    <3>1. PICK j \in Nat : i = Len(a) + j /\ j > 0
      <4>1. i - Len(a) \in Nat /\ i = Len(a) + (i - Len(a)) /\ i - Len(a) > 0
        BY <1>1, <1>2, <1>4, <2>2
      <4> QED  BY <4>1, Zenon
    <3>2. CASE j = Len(b) + 1
      <4>1. j \in 1..Len(c) /\ i = Len(f) + 1
        BY <1>1, <1>2, <1>3, <3>1, <3>2
      <4> QED  BY <1>2, <1>4, <1>5, <3>1, <3>2, <4>1, Zenon
    <3>3. CASE j # Len(b) + 1
      <4>1. j \in 1..Len(c) /\ j \in 1..Len(b) /\ i \in 1..Len(f)
        BY <1>1, <1>2, <1>3, <1>4, <3>1, <3>3
      <4> QED  BY <1>2, <1>3, <1>4, <1>5, <3>1, <4>1, Zenon
    <3> QED  BY <3>2, <3>3, Zenon
  <2> QED  BY <2>1, <2>2, Zenon
<1>8. h = g
  BY <1>4, <1>5, <1>6, <1>7, SamePlaces, Zenon
<1> QED  BY <1>8, Zenon DEF h, g, f, c

\* What the reader takes over from the kernel stays in its place.
LEMMA FlowTake ==
  ASSUME NEW a \in Seq(RowSet), NEW b \in Seq(RowSet), b # <<>>
  PROVE  /\ Append(a, Head(b)) \in Seq(RowSet) /\ Tail(b) \in Seq(RowSet)
         /\ Len(Append(a, Head(b))) = Len(a) + 1
         /\ Flow(Append(a, Head(b)), Tail(b)) = Flow(a, b)
<1> DEFINE c == Append(a, Head(b))
<1> DEFINE t == Tail(b)
<1>1. Len(a) \in Nat /\ Len(b) \in Nat /\ Len(b) > 0
  OBVIOUS
<1>2. t \in Seq(RowSet) /\ Len(t) = Len(b) - 1 /\ \A i \in 1..Len(t) : t[i] = b[i + 1]
  BY TailFacts, Zenon
<1>3. Head(b) = b[1] /\ Head(b) \in RowSet
  OBVIOUS
<1>4. /\ c \in Seq(RowSet) /\ Len(c) = Len(a) + 1
      /\ \A i \in 1..Len(a) : c[i] = a[i]
      /\ c[Len(a) + 1] = b[1]
  <2> HIDE DEF t
  <2> QED  BY <1>3
<1> HIDE DEF c, t
<1> DEFINE f == Flow(a, b)
<1> DEFINE h == Flow(c, t)
<1>5. /\ f \in Seq(RowSet) /\ Len(f) = Len(a) + Len(b)
      /\ \A i \in 1..Len(a) : f[i] = a[i]
      /\ \A i \in 1..Len(b) : f[Len(a) + i] = b[i]
  BY FlowFacts, Zenon
<1>6. /\ h \in Seq(RowSet) /\ Len(h) = Len(c) + Len(t)
      /\ \A i \in 1..Len(c) : h[i] = c[i]
      /\ \A i \in 1..Len(t) : h[Len(c) + i] = t[i]
  BY <1>2, <1>4, FlowFacts, Zenon
<1> HIDE DEF f, h
<1>7. Len(h) = Len(f)
  BY <1>1, <1>2, <1>4, <1>5, <1>6
<1>8. ASSUME NEW i \in 1..Len(h) PROVE h[i] = f[i]
  <2>1. CASE i \in 1..Len(a)
    <3>1. i \in 1..Len(c)
      BY <1>1, <1>4, <2>1
    <3> QED  BY <1>4, <1>5, <1>6, <2>1, <3>1, Zenon
  <2>2. CASE i = Len(a) + 1
    <3>1. i \in 1..Len(c) /\ 1 \in 1..Len(b)
      BY <1>1, <1>4, <2>2
    <3> QED  BY <1>4, <1>5, <1>6, <2>2, <3>1, Zenon
  <2>3. CASE i \notin 1..Len(a) /\ i # Len(a) + 1
    <3>1. PICK j \in Nat : i = Len(c) + j /\ j > 0
      <4>1. i - Len(c) \in Nat /\ i = Len(c) + (i - Len(c)) /\ i - Len(c) > 0
        BY <1>1, <1>2, <1>4, <1>6, <2>3
      <4> QED  BY <4>1, Zenon
    <3>2. j \in 1..Len(t) /\ j + 1 \in 1..Len(b) /\ i = Len(a) + (j + 1)
      BY <1>1, <1>2, <1>4, <1>6, <3>1
    <3>3. h[i] = b[j + 1]
      BY <1>2, <1>6, <3>1, <3>2, Zenon
    <3>4. f[i] = b[j + 1]
      BY <1>5, <3>2, Zenon
    <3> QED  BY <3>3, <3>4, Zenon
  <2> QED  BY <2>1, <2>2, <2>3, Zenon
<1>9. h = f
  BY <1>5, <1>6, <1>7, <1>8, SamePlaces, Zenon
<1> QED  BY <1>2, <1>4, <1>9, Zenon DEF h, f, c, t

\* What is left when the reader has taken a row and is done with its message.
LEMMA FlowRest ==
  ASSUME NEW a \in Seq(RowSet), NEW b \in Seq(RowSet), b # <<>>
  PROVE  /\ Flow(<<>>, Tail(b)) \in Seq(RowSet)
         /\ Len(Flow(a, b)) = Len(a) + 1 + Len(Flow(<<>>, Tail(b)))
         /\ \A i \in 1..Len(Flow(<<>>, Tail(b))) :
              Flow(<<>>, Tail(b))[i] = Flow(a, b)[Len(a) + 1 + i]
<1> DEFINE t == Tail(b)
<1>1. Len(a) \in Nat /\ Len(b) \in Nat /\ Len(b) > 0
  OBVIOUS
<1>2. t \in Seq(RowSet) /\ Len(t) = Len(b) - 1 /\ \A i \in 1..Len(t) : t[i] = b[i + 1]
  BY TailFacts, Zenon
<1>3. <<>> \in Seq(RowSet) /\ Len(<<>>) = 0
  OBVIOUS
<1> HIDE DEF t
<1> DEFINE f == Flow(a, b)
<1> DEFINE h == Flow(<<>>, t)
<1>4. /\ f \in Seq(RowSet) /\ Len(f) = Len(a) + Len(b)
      /\ \A i \in 1..Len(b) : f[Len(a) + i] = b[i]
  BY FlowFacts, Zenon
<1>5. /\ h \in Seq(RowSet) /\ Len(h) = Len(<<>>) + Len(t)
      /\ \A i \in 1..Len(t) : h[Len(<<>>) + i] = t[i]
  BY <1>2, <1>3, FlowFacts, Zenon
<1> HIDE DEF f, h
<1>6. Len(h) = Len(t) /\ Len(f) = Len(a) + 1 + Len(h)
  BY <1>1, <1>2, <1>3, <1>4, <1>5
<1>7. ASSUME NEW i \in 1..Len(h) PROVE h[i] = f[Len(a) + 1 + i]
  <2>1. Len(<<>>) + i = i /\ i + 1 \in 1..Len(b) /\ Len(a) + (i + 1) = Len(a) + 1 + i
    BY <1>1, <1>2, <1>3, <1>6
  <2>2. h[i] = b[i + 1]
    BY <1>2, <1>5, <1>6, <2>1, Zenon
  <2> QED  BY <1>4, <2>1, <2>2, Zenon
<1> QED  BY <1>5, <1>6, <1>7, Zenon DEF h, f, t

-----------------------------------------------------------------------------
(* Following the rows through the log.                                     *)

\* Types of what Tracks relates.
LEMMA TracksFacts ==
  ASSUME NEW f \in Seq(RowSet), NEW l \in Seq(Entries), NEW n \in Nat, NEW e,
         Tracks(e, f, l, n)
  PROVE  /\ Len(f) \in Nat /\ DOMAIN f = 1..Len(f) /\ Len(l) \in Nat /\ DOMAIN l = 1..Len(l)
         /\ \A i \in 1..Len(f) :
              /\ e[i] \in 1..Len(l) /\ l[e[i]] \in Entries
              /\ f[i].msg \in Msgs /\ f[i].row \in Nat /\ f[i].row > 0
              /\ Rows(f[i].msg) \in Nat /\ f[i].row <= Rows(f[i].msg)
         /\ f = <<>> <=> Len(f) = 0
<1>1. Len(f) \in Nat /\ DOMAIN f = 1..Len(f) /\ Len(l) \in Nat /\ DOMAIN l = 1..Len(l)
  BY Places, Zenon
<1>2. ASSUME NEW i \in 1..Len(f)
      PROVE  /\ e[i] \in 1..Len(l) /\ l[e[i]] \in Entries
             /\ f[i].msg \in Msgs /\ f[i].row \in Nat /\ f[i].row > 0
             /\ Rows(f[i].msg) \in Nat /\ f[i].row <= Rows(f[i].msg)
  <2>1. e \in [1..Len(f) -> 1..Len(l)]
    BY <1>1, Zenon DEF Tracks
  <2>2. e[i] \in 1..Len(l)
    BY <2>1, Zenon
  <2>3. l[e[i]] \in Entries /\ f[i] \in RowSet
    BY <2>2, PlaceType, Zenon
  <2>4. f[i].msg \in Msgs /\ f[i].row \in Nat \ {0} /\ f[i].row <= Rows(f[i].msg)
    BY <2>3, Zenon DEF RowSet
  <2>5. Rows(f[i].msg) \in Nat
    BY <2>4, RowsFacts, Zenon
  <2>6. f[i].row \in Nat /\ f[i].row > 0
    BY <2>4
  <2> QED  BY <2>2, <2>3, <2>4, <2>5, <2>6, Zenon
<1>3. f = <<>> <=> Len(f) = 0
  OBVIOUS
<1> QED  BY <1>1, <1>2, <1>3, Zenon

\* The entry of a row that is appended to the others.
Extended(e, k, x) == [i \in 1..k + 1 |-> IF i = k + 1 THEN x ELSE e[i]]

\* The next row of a message that is being sent.
LEMMA TracksMore ==
  ASSUME NEW f \in Seq(RowSet), NEW l \in Seq(Entries), NEW n \in Nat, NEW e,
         Tracks(e, f, l, n), f # <<>>, NEW u \in RowSet,
         u = [msg |-> f[Len(f)].msg, row |-> f[Len(f)].row + 1]
  PROVE  Tracks(Extended(e, Len(f), Len(l)), Append(f, u), l, n)
<1> DEFINE k == Len(f)
<1> DEFINE g == Append(f, u)
<1> DEFINE d == Extended(e, k, Len(l))
<1>1. k \in Nat /\ k > 0 /\ DOMAIN f = 1..k /\ Len(l) \in Nat /\ DOMAIN l = 1..Len(l)
  BY TracksFacts
<1>2. /\ g \in Seq(RowSet) /\ Len(g) = k + 1 /\ DOMAIN g = 1..k + 1 /\ g # <<>>
      /\ \A i \in 1..k : g[i] = f[i]
      /\ g[k + 1] = u
  OBVIOUS
<1> HIDE DEF g
<1>3. \A i \in 1..k : e[i] \in 1..Len(l)
  BY TracksFacts, Zenon
<1>4. e[k] = Len(l) /\ e[1] = n + 1 /\ Starts(f[1], l[n + 1])
  BY Zenon DEF Tracks
<1>5. d[k + 1] = Len(l) /\ \A i \in 1..k : d[i] = e[i] /\ i \in 1..k + 1 /\ i # k + 1
  <2>1. k + 1 \in 1..k + 1 /\ \A i \in 1..k : i \in 1..k + 1 /\ i # k + 1
    BY <1>1
  <2> HIDE DEF k
  <2> QED  BY <2>1, Zenon DEF Extended
<1>6. d \in [1..k + 1 -> 1..Len(l)]
  <2>1. \A i \in 1..k + 1 : i # k + 1 => i \in 1..k
    BY <1>1
  <2>2. Len(l) \in 1..Len(l)
    <3>1. 1 \in 1..k
      BY <1>1
    <3> QED  BY <1>1, <1>3, <3>1
  <2> HIDE DEF k
  <2> QED  BY <1>3, <2>1, <2>2, Zenon DEF Extended
<1>7. 1 \in 1..k /\ k \in 1..k
  BY <1>1
<1> HIDE DEF d
<1>8. ASSUME NEW i \in 1..k + 1
      PROVE  /\ l[d[i]] \in Msgs => g[i].msg = l[d[i]]
             /\ i > 1 => Joined(g[i - 1], g[i], d[i - 1], d[i], l[d[i - 1]], l[d[i]])
  <2>1. CASE i \in 1..k
    <3>1. g[i] = f[i] /\ d[i] = e[i]
      BY <1>2, <1>5, <2>1, Zenon
    <3>2. i > 1 => i - 1 \in 1..k
      BY <1>1, <2>1
    <3>3. i > 1 => g[i - 1] = f[i - 1] /\ d[i - 1] = e[i - 1]
      BY <1>2, <1>5, <3>2, Zenon
    <3>4. /\ l[e[i]] \in Msgs => f[i].msg = l[e[i]]
          /\ i > 1 => Joined(f[i - 1], f[i], e[i - 1], e[i], l[e[i - 1]], l[e[i]])
      BY <1>1, <2>1, Zenon DEF Tracks
    <3> QED  BY <3>1, <3>3, <3>4, Zenon
  <2>2. CASE i = k + 1
    <3>1. i - 1 = k
      BY <1>1, <2>2
    <3>2. g[i] = u /\ d[i] = Len(l) /\ g[i - 1] = f[k] /\ d[i - 1] = Len(l)
      BY <1>2, <1>4, <1>5, <1>7, <2>2, <3>1, Zenon
    <3>3. l[Len(l)] \in Msgs => f[k].msg = l[Len(l)]
      BY <1>1, <1>4, <1>7, Zenon DEF Tracks
    <3>4. u.msg = f[k].msg
      OBVIOUS
    <3>5. Joined(g[i - 1], g[i], d[i - 1], d[i], l[d[i - 1]], l[d[i]])
      BY <3>2, Zenon DEF Joined
    <3> QED  BY <3>2, <3>3, <3>4, <3>5, Zenon
  <2>3. i \in 1..k \/ i = k + 1
    BY <1>1
  <2> QED  BY <2>1, <2>2, <2>3, Zenon
<1>9. d[1] = n + 1 /\ d[Len(g)] = Len(l) /\ Starts(g[1], l[n + 1])
  BY <1>2, <1>4, <1>5, <1>7, Zenon
<1> QED  BY <1>1, <1>2, <1>6, <1>8, <1>9, Zenon DEF Tracks, d, g

\* The first row of a message, or of a stray tail: what was there is complete,
\* or its entry is marked.
LEMMA TracksBegin ==
  ASSUME NEW f \in Seq(RowSet), NEW l \in Seq(Entries), NEW n \in Nat, NEW e,
         Tracks(e, f, l, n), n <= Len(l), NEW u \in RowSet, NEW x \in Entries,
         Starts(u, x), x \in Msgs => u.msg = x,
         f # <<>> /\ l[Len(l)] \in Msgs => f[Len(f)].row = Rows(f[Len(f)].msg)
  PROVE  Tracks(Extended(e, Len(f), Len(l) + 1), Append(f, u), Append(l, x), n)
<1> DEFINE k == Len(f)
<1> DEFINE g == Append(f, u)
<1> DEFINE h == Append(l, x)
<1> DEFINE d == Extended(e, k, Len(l) + 1)
<1>1. k \in Nat /\ DOMAIN f = 1..k /\ Len(l) \in Nat /\ DOMAIN l = 1..Len(l)
  BY TracksFacts, Zenon
<1>2. /\ g \in Seq(RowSet) /\ Len(g) = k + 1 /\ DOMAIN g = 1..k + 1 /\ g # <<>>
      /\ \A i \in 1..k : g[i] = f[i]
      /\ g[k + 1] = u
  OBVIOUS
<1>3. /\ Len(h) = Len(l) + 1 /\ DOMAIN h = 1..Len(l) + 1
      /\ \A i \in 1..Len(l) : h[i] = l[i] /\ i \in 1..Len(l) + 1
      /\ h[Len(l) + 1] = x
  OBVIOUS
<1> HIDE DEF g, h
<1>4. \A i \in 1..k : e[i] \in 1..Len(l)
  BY TracksFacts, Zenon
<1>5. d[k + 1] = Len(l) + 1 /\ \A i \in 1..k : d[i] = e[i] /\ i \in 1..k + 1 /\ i # k + 1
  <2>1. k + 1 \in 1..k + 1 /\ \A i \in 1..k : i \in 1..k + 1 /\ i # k + 1
    BY <1>1
  <2> HIDE DEF k
  <2> QED  BY <2>1, Zenon DEF Extended
<1>6. d \in [1..k + 1 -> 1..Len(l) + 1]
  <2>1. \A i \in 1..k + 1 : i # k + 1 => i \in 1..k
    BY <1>1
  <2>2. Len(l) + 1 \in 1..Len(l) + 1
    BY <1>1
  <2> HIDE DEF k
  <2> QED  BY <1>3, <1>4, <2>1, <2>2, Zenon DEF Extended
<1> HIDE DEF d
<1>7. \A i \in 1..k : d[i] = e[i] /\ h[d[i]] = l[e[i]]
  BY <1>3, <1>4, <1>5, Zenon
<1>8. ASSUME NEW i \in 1..k + 1
      PROVE  /\ h[d[i]] \in Msgs => g[i].msg = h[d[i]]
             /\ i > 1 => Joined(g[i - 1], g[i], d[i - 1], d[i], h[d[i - 1]], h[d[i]])
  <2>1. CASE i \in 1..k
    <3>1. g[i] = f[i] /\ d[i] = e[i] /\ h[d[i]] = l[e[i]]
      BY <1>2, <1>7, <2>1, Zenon
    <3>2. i > 1 => i - 1 \in 1..k
      BY <1>1, <2>1
    <3>3. i > 1 => g[i - 1] = f[i - 1] /\ d[i - 1] = e[i - 1] /\ h[d[i - 1]] = l[e[i - 1]]
      BY <1>2, <1>7, <3>2, Zenon
    <3>4. /\ l[e[i]] \in Msgs => f[i].msg = l[e[i]]
          /\ i > 1 => Joined(f[i - 1], f[i], e[i - 1], e[i], l[e[i - 1]], l[e[i]])
      BY <1>1, <2>1, Zenon DEF Tracks
    <3> QED  BY <3>1, <3>3, <3>4, Zenon
  <2>2. CASE i = k + 1
    <3>1. i - 1 = k /\ (i > 1 => k \in 1..k /\ f # <<>>)
      BY <1>1, <2>2
    <3>2. g[i] = u /\ d[i] = Len(l) + 1 /\ h[d[i]] = x
      BY <1>2, <1>3, <1>5, <2>2, Zenon
    <3>3. ASSUME i > 1
          PROVE  Joined(g[i - 1], g[i], d[i - 1], d[i], h[d[i - 1]], h[d[i]])
      <4>1. k \in 1..k /\ f # <<>> /\ i - 1 = k
        BY <3>1, <3>3, Zenon
      <4>2. e[k] = Len(l)
        BY <4>1, Zenon DEF Tracks
      <4>3. g[i - 1] = f[k] /\ d[i - 1] = Len(l) /\ h[d[i - 1]] = l[Len(l)]
        BY <1>2, <1>7, <4>1, <4>2, Zenon
      <4> QED  BY <3>2, <4>1, <4>3, Zenon DEF Joined
    <3> QED  BY <3>2, <3>3, Zenon
  <2>3. i \in 1..k \/ i = k + 1
    BY <1>1
  <2> QED  BY <2>1, <2>2, <2>3, Zenon
<1>9. d[1] = n + 1 /\ Starts(g[1], h[n + 1])
  <2>1. CASE f = <<>>
    <3>1. k = 0 /\ Len(l) = n /\ k + 1 = 1
      BY <2>1 DEF Tracks
    <3> QED  BY <1>2, <1>3, <1>5, <3>1, Zenon
  <2>2. CASE f # <<>>
    <3>1. 1 \in 1..k
      BY <1>1, <2>2
    <3>2. e[1] = n + 1 /\ Starts(f[1], l[n + 1])
      BY <2>2, Zenon DEF Tracks
    <3>3. g[1] = f[1] /\ d[1] = n + 1
      BY <1>2, <1>7, <3>1, <3>2, Zenon
    <3>4. h[n + 1] = l[n + 1]
      BY <1>7, <3>1, <3>2, Zenon
    <3> QED  BY <3>2, <3>3, <3>4, Zenon
  <2> QED  BY <2>1, <2>2, Zenon
<1>10. d[Len(g)] = Len(h)
  BY <1>2, <1>3, <1>5, Zenon
<1> QED  BY <1>2, <1>3, <1>6, <1>8, <1>9, <1>10, Zenon DEF Tracks, d, g, h

\* What the reader has is not concerned when a row is sent.
LEMMA ReadsSend ==
  ASSUME NEW f \in Seq(RowSet), NEW l \in Seq(Entries), NEW n \in Nat, NEW e, NEW r \in Nat,
         Tracks(e, f, l, n), Reads(e, f, l, n, r), r <= Len(f), NEW u \in RowSet, NEW x,
         NEW h, h = l \/ \E y : h = Append(l, y)
  PROVE  Reads(Extended(e, Len(f), x), Append(f, u), h, n, r)
<1> DEFINE k == Len(f)
<1> DEFINE g == Append(f, u)
<1> DEFINE d == Extended(e, k, x)
<1>1. k \in Nat /\ DOMAIN f = 1..k /\ Len(l) \in Nat /\ DOMAIN l = 1..Len(l)
  BY TracksFacts, Zenon
<1>2. \A i \in 1..k : g[i] = f[i]
  OBVIOUS
<1>3. \A i \in 1..k : d[i] = e[i]
  <2>1. \A i \in 1..k : i \in 1..k + 1 /\ i # k + 1
    BY <1>1
  <2> HIDE DEF k
  <2> QED  BY <2>1, Zenon DEF Extended
<1> HIDE DEF g, d
<1>4. ASSUME r > 0 PROVE h[n + 1] = l[n + 1]
  <2>1. 1 \in 1..k /\ f # <<>>
    BY <1>1, <1>4
  <2>2. e[1] = n + 1 /\ e[1] \in 1..Len(l)
    BY <2>1, TracksFacts, Zenon DEF Tracks
  <2>3. n + 1 \in 1..Len(l)
    BY <2>2, Zenon
  <2>4. ASSUME NEW y, NEW j \in 1..Len(l) PROVE Append(l, y)[j] = l[j]
    OBVIOUS
  <2> QED  BY <2>3, <2>4, Zenon
<1>5. \A i \in 1..r : i \in 1..k
  BY <1>1
<1> QED  BY <1>2, <1>3, <1>4, <1>5, Zenon DEF Reads, g, d

\* The last entry is marked torn.
LEMMA TracksTear ==
  ASSUME NEW f \in Seq(RowSet), NEW l \in Seq(Entries), NEW n \in Nat, NEW e, NEW r \in Nat,
         Tracks(e, f, l, n), Reads(e, f, l, n, r), r <= Len(f), Len(l) > 0
  PROVE  /\ Tracks(e, f, [l EXCEPT ![Len(l)] = Torn], n)
         /\ Reads(e, f, [l EXCEPT ![Len(l)] = Torn], n, r)
<1> DEFINE h == [l EXCEPT ![Len(l)] = Torn]
<1>1. DOMAIN f = 1..Len(f) /\ Len(l) \in Nat /\ DOMAIN l = 1..Len(l) /\ Len(f) \in Nat
  BY TracksFacts, Zenon
<1>2. Len(h) = Len(l) /\ DOMAIN h = DOMAIN l /\ \A i \in 1..Len(l) : h[i] = l[i] \/ h[i] = Torn
  BY <1>1
<1>3. \A i \in 1..Len(f) : e[i] \in 1..Len(l)
  BY TracksFacts, Zenon
<1> HIDE DEF h
<1>4. \A i \in 1..Len(f) : h[e[i]] = l[e[i]] \/ h[e[i]] = Torn
  BY <1>2, <1>3, Zenon
<1>5. ASSUME NEW i \in 1..Len(f)
      PROVE  /\ h[e[i]] \in Msgs => f[i].msg = h[e[i]]
             /\ i > 1 => Joined(f[i - 1], f[i], e[i - 1], e[i], h[e[i - 1]], h[e[i]])
  <2>1. /\ l[e[i]] \in Msgs => f[i].msg = l[e[i]]
        /\ i > 1 => Joined(f[i - 1], f[i], e[i - 1], e[i], l[e[i - 1]], l[e[i]])
    BY <1>1, Zenon DEF Tracks
  <2>2. h[e[i]] \in Msgs => f[i].msg = h[e[i]]
    BY <1>4, <2>1, Marks, Zenon
  <2>3. ASSUME i > 1
        PROVE  Joined(f[i - 1], f[i], e[i - 1], e[i], h[e[i - 1]], h[e[i]])
    <3>1. i - 1 \in 1..Len(f)
      BY <1>1, <2>3
    <3>2. h[e[i - 1]] \in Msgs => h[e[i - 1]] = l[e[i - 1]]
      BY <1>4, <3>1, Marks, Zenon
    <3>3. \A v : Starts(v, l[e[i]]) => Starts(v, h[e[i]])
      BY <1>4, Marks, Zenon DEF Starts
    <3> QED  BY <2>1, <2>3, <3>2, <3>3, Zenon DEF Joined
  <2> QED  BY <2>2, <2>3, Zenon
<1>6. ASSUME f # <<>> PROVE /\ e[1] = n + 1 /\ e[Len(f)] = Len(h)
                            /\ h[n + 1] = l[n + 1] \/ h[n + 1] = Torn
                            /\ Starts(f[1], h[n + 1])
  <2>1. 1 \in 1..Len(f)
    BY <1>1, <1>6
  <2>2. e[1] = n + 1 /\ e[Len(f)] = Len(l) /\ Starts(f[1], l[n + 1])
    BY <1>6, Zenon DEF Tracks
  <2>3. h[n + 1] = l[n + 1] \/ h[n + 1] = Torn
    BY <1>4, <2>1, <2>2, Zenon
  <2> QED  BY <1>2, <2>2, <2>3, Marks, Zenon DEF Starts
<1>7. Tracks(e, f, h, n)
  BY <1>1, <1>2, <1>5, <1>6, Zenon DEF Tracks
<1>8. Reads(e, f, h, n, r)
  <2>1. CASE f # <<>>
    BY <1>6, <2>1, Marks, Zenon DEF Reads
  <2>2. CASE f = <<>>
    <3>1. ~(r > 0)
      BY <2>2
    <3> QED  BY <3>1, Zenon DEF Reads
  <2> QED  BY <2>1, <2>2, Zenon
<1> QED  BY <1>7, <1>8, Zenon DEF h

\* The reader takes one more row: while it reads a message this is the next row
\* of that message, and of a stray tail the first one is not a first row.
LEMMA ReadsTake ==
  ASSUME NEW f \in Seq(RowSet), NEW l \in Seq(Entries), NEW n \in Nat, NEW e, NEW r \in Nat,
         Tracks(e, f, l, n), Reads(e, f, l, n, r), r < Len(f)
  PROVE  /\ n < Len(l)
         /\ l[n + 1] \in Msgs =>
              /\ r < Rows(l[n + 1])
              /\ \A i \in 1..r + 1 : e[i] = n + 1 /\ f[i].row = i /\ f[i].msg = l[n + 1]
         /\ l[n + 1] = Stray => f[1].row > 1
<1>1. Len(f) \in Nat /\ DOMAIN f = 1..Len(f) /\ Len(l) \in Nat /\ 1 \in 1..Len(f) /\ f # <<>>
  BY TracksFacts
<1>2. e[1] = n + 1 /\ Starts(f[1], l[n + 1]) /\ e[1] \in 1..Len(l)
  BY <1>1, TracksFacts, Zenon DEF Tracks
<1>3. n < Len(l)
  BY <1>1, <1>2
<1>4. ASSUME l[n + 1] \in Msgs
      PROVE  r < Rows(l[n + 1]) /\ \A i \in 1..r + 1 : e[i] = n + 1 /\ f[i].row = i
  <2>1. CASE r = 0
    <3>1. Rows(l[n + 1]) \in Nat /\ Rows(l[n + 1]) >= 4
      BY <1>4, RowsFacts, Zenon
    <3>2. \A i \in 1..r + 1 : i = 1
      BY <2>1
    <3>3. e[1] = n + 1 /\ f[1].row = 1
      BY <1>2, <1>4, Zenon DEF Starts
    <3>4. r < Rows(l[n + 1])
      BY <2>1, <3>1
    <3> QED  BY <3>2, <3>3, <3>4, Zenon
  <2>2. CASE r > 0
    <3>1. r < Rows(l[n + 1]) /\ \A i \in 1..r : e[i] = n + 1 /\ f[i].row = i
      BY <1>4, <2>2, Zenon DEF Reads
    <3>2. r + 1 \in 1..Len(f) /\ r + 1 > 1 /\ r + 1 - 1 = r /\ r \in 1..r /\ r \in 1..Len(f)
      BY <1>1, <2>2
    <3>3. PICK j \in 1..Len(f) : j = r + 1 /\ j > 1 /\ j - 1 = r
      BY <3>2
    <3>4. Joined(f[r], f[r + 1], n + 1, e[r + 1], l[n + 1], l[e[r + 1]])
      <4>1. Joined(f[j - 1], f[j], e[j - 1], e[j], l[e[j - 1]], l[e[j]])
        BY <1>1, <3>3, Zenon DEF Tracks
      <4> QED  BY <3>1, <3>2, <3>3, <4>1, Zenon
    <3>5. f[r].row = r /\ f[r].msg = l[n + 1]
      BY <1>1, <1>4, <3>1, <3>2, Zenon DEF Tracks
    <3>6. f[r].row # Rows(f[r].msg)
      BY <3>1, <3>5
    <3>7. e[r + 1] = n + 1 /\ f[r + 1] = [msg |-> f[r].msg, row |-> f[r].row + 1]
      BY <1>4, <3>4, <3>6, Zenon DEF Joined
    <3>8. f[r + 1].row = r + 1
      BY <3>5, <3>7
    <3>9. \A i \in 1..r + 1 : i \in 1..r \/ i = r + 1
      OBVIOUS
    <3> QED  BY <3>1, <3>7, <3>8, <3>9, Zenon
  <2>3. r = 0 \/ r > 0
    OBVIOUS
  <2> QED  BY <2>1, <2>2, <2>3, Zenon
<1>5. \A i \in 1..r + 1 : i \in 1..Len(f)
  BY <1>1
<1>6. l[n + 1] \in Msgs => \A i \in 1..r + 1 : f[i].msg = l[n + 1]
  BY <1>1, <1>4, <1>5, Zenon DEF Tracks
<1>7. l[n + 1] = Stray => f[1].row > 1
  BY <1>2, Zenon DEF Starts
<1> QED  BY <1>3, <1>4, <1>6, <1>7, Zenon

\* When the last row of a message is taken, the next one begins.
LEMMA TracksRest ==
  ASSUME NEW f \in Seq(RowSet), NEW l \in Seq(Entries), NEW n \in Nat, NEW e, NEW r \in Nat,
         Tracks(e, f, l, n), Reads(e, f, l, n, r), r < Len(f), l[n + 1] \in Msgs,
         r + 1 = Rows(l[n + 1]), NEW g \in Seq(RowSet), Len(f) = r + 1 + Len(g),
         \A i \in 1..Len(g) : g[i] = f[r + 1 + i]
  PROVE  Tracks([i \in 1..Len(g) |-> e[r + 1 + i]], g, l, n + 1)
<1> DEFINE d == [i \in 1..Len(g) |-> e[r + 1 + i]]
<1>1. /\ Len(f) \in Nat /\ DOMAIN f = 1..Len(f) /\ Len(l) \in Nat /\ DOMAIN l = 1..Len(l)
      /\ Len(g) \in Nat /\ DOMAIN g = 1..Len(g)
  BY TracksFacts, Places, Zenon
<1>2. \A i \in 1..Len(g) : d[i] = e[r + 1 + i] /\ g[i] = f[r + 1 + i]
  BY Zenon
<1>3. d \in [DOMAIN g -> DOMAIN l]
  <2>1. \A i \in 1..Len(g) : r + 1 + i \in 1..Len(f)
    BY <1>1
  <2>2. \A i \in 1..Len(f) : e[i] \in 1..Len(l)
    BY TracksFacts, Zenon
  <2> QED  BY <1>1, <2>1, <2>2, Zenon
<1> HIDE DEF d
<1>4. e[r + 1] = n + 1 /\ f[r + 1].row = r + 1 /\ f[r + 1].msg = l[n + 1]
  <2>1. r + 1 \in 1..r + 1
    OBVIOUS
  <2>2. \A i \in 1..r + 1 : e[i] = n + 1 /\ f[i].row = i /\ f[i].msg = l[n + 1]
    BY ReadsTake
  <2> QED  BY <2>1, <2>2, Zenon
<1>5. ASSUME NEW i \in 1..Len(g)
      PROVE  /\ l[d[i]] \in Msgs => g[i].msg = l[d[i]]
             /\ i > 1 => Joined(g[i - 1], g[i], d[i - 1], d[i], l[d[i - 1]], l[d[i]])
  <2>1. PICK j \in 1..Len(f) : j = r + 1 + i
    BY <1>1
  <2>2. g[i] = f[j] /\ d[i] = e[j]
    BY <1>2, <2>1, Zenon
  <2>3. l[e[j]] \in Msgs => f[j].msg = l[e[j]]
    BY <1>1, <2>1, Zenon DEF Tracks
  <2>4. ASSUME i > 1
        PROVE  Joined(g[i - 1], g[i], d[i - 1], d[i], l[d[i - 1]], l[d[i]])
    <3>0. j \in Nat /\ Len(g) \in Nat
      BY <1>1
    <3>1. i - 1 \in 1..Len(g) /\ r + 1 + (i - 1) = j - 1 /\ j > 1
      BY <2>1, <2>4, <3>0, PlaceBefore
    <3>2. g[i - 1] = f[j - 1] /\ d[i - 1] = e[j - 1]
      BY <1>2, <3>1, Zenon
    <3>3. Joined(f[j - 1], f[j], e[j - 1], e[j], l[e[j - 1]], l[e[j]])
      BY <1>1, <2>1, <3>1, Zenon DEF Tracks
    <3> QED  BY <2>2, <3>2, <3>3, Zenon
  <2> QED  BY <2>2, <2>3, <2>4, Zenon
<1>6. ASSUME g = <<>> PROVE Len(l) = n + 1
  <2>1. Len(f) = r + 1 /\ f # <<>>
    BY <1>1, <1>6
  <2> QED  BY <1>4, <2>1, Zenon DEF Tracks
<1>7. ASSUME g # <<>>
      PROVE  d[1] = n + 1 + 1 /\ d[Len(g)] = Len(l) /\ Starts(g[1], l[n + 1 + 1])
  <2>1. /\ 1 \in 1..Len(g) /\ Len(g) \in 1..Len(g) /\ r + 1 + Len(g) = Len(f) /\ f # <<>>
    BY <1>1, <1>7
  <2>2. d[Len(g)] = Len(l)
    BY <1>2, <2>1, Zenon DEF Tracks
  <2>3. PICK j \in 1..Len(f) : j = r + 1 + 1 /\ j > 1 /\ j - 1 = r + 1
    BY <1>1, <2>1
  <2>4. g[1] = f[j] /\ d[1] = e[j]
    BY <1>2, <2>1, <2>3, Zenon
  <2>5. Joined(f[j - 1], f[j], e[j - 1], e[j], l[e[j - 1]], l[e[j]])
    BY <1>1, <2>3, Zenon DEF Tracks
  <2>6. Joined(f[r + 1], f[j], n + 1, e[j], l[n + 1], l[e[j]])
    BY <1>4, <2>3, <2>5, Zenon
  <2>7. f[j] # [msg |-> f[r + 1].msg, row |-> f[r + 1].row + 1]
    <3>1. f[j].row \in Nat /\ f[j].row <= Rows(f[j].msg)
      BY <2>3, TracksFacts, Zenon
    <3> QED  BY <1>4, <3>1
  <2>8. e[j] = n + 1 + 1 /\ Starts(f[j], l[e[j]])
    BY <2>6, <2>7, Zenon DEF Joined
  <2> QED  BY <2>2, <2>4, <2>8, Zenon
<1> QED  BY <1>1, <1>3, <1>5, <1>6, <1>7, Zenon DEF Tracks, d

-----------------------------------------------------------------------------
(* What the reader makes of the rows it has.                               *)

\* The fields that the reader looks at before it has the whole message.
LEMMA DecFields == {"magic", "version", "hlen", "plen", "type"} \subseteq DOMAIN Dec
BY DEF Dec, DeserializeHeader, mics_decode_header

\* Rows of one message, from its first one on, are accepted as its header, make
\* a whole message when they are all there, and decode to it.
LEMMA ReadsMessage ==
  ASSUME NEW rows \in Seq(RowSet), NEW m \in Msgs,
         \A i \in 1..Len(rows) : rows[i].row = i /\ rows[i].msg = m
  PROVE  /\ Len(rows) = 4 => HeaderOk(rows)
         /\ Whole(rows) <=> Len(rows) >= Rows(m)
         /\ Whole(rows) => Decoded(rows) = m
<1>1. Len(rows) \in Nat /\ DOMAIN rows = 1..Len(rows) /\ Rows(m) \in Nat /\ Rows(m) >= 4
  BY Places, RowsFacts, Zenon
<1>2. ASSUME Len(rows) >= 4 PROVE \A f \in DOMAIN Dec : Field(rows, f) = m
  <2>1. \A j \in 1..4 : rows[j].msg = m /\ rows[j].row = j
    BY <1>1, <1>2
  <2> QED  BY <2>1, FieldRight, Zenon
<1>3. Len(rows) >= 4 => HeaderOk(rows)
  BY <1>2, DecFields, Marks, Zenon DEF HeaderOk
<1>4. Len(rows) >= 4 => RowsToRead(rows) = Rows(m)
  BY <1>2, DecFields, Marks, Zenon DEF RowsToRead
<1>5. Whole(rows) <=> Len(rows) >= Rows(m)
  BY <1>1, <1>4 DEF Whole
<1>6. ASSUME Len(rows) >= 4 PROVE Decoded(rows) = m
  <2>1. ASSUME NEW i \in 1..Len(rows) PROVE rows[i] = [msg |-> m, row |-> i]
    <3>0. rows[i] \in RowSet
      BY PlaceType, Zenon
    <3>1. rows[i] \in [msg : Msgs, row : Nat \ {0}]
      BY <3>0, Zenon DEF RowSet
    <3>2. rows[i].row = i /\ rows[i].msg = m
      BY Zenon
    <3> QED  BY <3>1, <3>2, Zenon
  <2> QED  BY <1>1, <1>2, <1>6, <2>1, DecFields, Zenon DEF Decoded
<1>7. Len(rows) = 4 => Len(rows) >= 4
  OBVIOUS
<1>8. Whole(rows) => Len(rows) >= 4
  BY Zenon DEF Whole
<1> QED  BY <1>3, <1>5, <1>6, <1>7, <1>8, Zenon

\* A stray tail is refused at its fourth row.
LEMMA ReadsStray ==
  ASSUME NEW rows \in Seq(RowSet), Len(rows) > 0, Len(rows) <= 4, rows[1].row > 1
  PROVE  /\ Len(rows) = 4 => ~HeaderOk(rows)
         /\ Len(rows) # 4 => ~Whole(rows) /\ Len(rows) < 4
<1>1. rows[1].row \in Nat
  <2>1. 1 \in 1..Len(rows)
    OBVIOUS
  <2>2. rows[1] \in RowSet
    BY <2>1, PlaceType, Zenon
  <2>3. rows[1] \in [msg : Msgs, row : Nat \ {0}]
    BY <2>2, Zenon DEF RowSet
  <2> QED  BY <2>3, Zenon
<1>2. ~HeaderOk(rows)
  BY <1>1, MagicOff, Zenon DEF HeaderOk
<1>3. Len(rows) # 4 => Len(rows) < 4 /\ ~(Len(rows) >= 4)
  <2>1. Len(rows) \in Nat
    BY Places, Zenon
  <2>2. \A k \in Nat : k <= 4 /\ k # 4 => k < 4 /\ ~(k >= 4)
    OBVIOUS
  <2> QED  BY <2>1, <2>2, Zenon
<1> QED  BY <1>2, <1>3, Zenon DEF Whole

\* Whatever is read is taken for some message, or is junk.
LEMMA ReadsAny ==
  ASSUME NEW rows \in Seq(RowSet), Whole(rows)
  PROVE  Decoded(rows) \in Msgs \cup {Junk}
<1>1. Len(rows) >= 4
  BY Zenon DEF Whole
<1>2. Field(rows, "type") \in Msgs \cup {Junk}
  BY <1>1, DecFields, FieldType, Zenon
<1> QED  BY <1>2, Zenon DEF Decoded

-----------------------------------------------------------------------------
(* One connection in a step.                                               *)

\* The same message is being sent on s before and after.
MidSame(s) ==
  \A w \in Writers :
    /\ Mid(w, s)' <=> Mid(w, s)
    /\ Mid(w, s) => Msg(w)' = Msg(w) /\ wr'[w].sent = wr[w].sent

\* Nothing is sent, torn or delivered on s; the reader may hang up.
Still(s) ==
  /\ log'[s] = log[s] /\ dlv'[s] = dlv[s] /\ MidSame(s)
  /\ peer'[s] # "closed" => peer[s] # "closed" /\ rbuf'[s] = rbuf[s] /\ pipe'[s] = pipe[s]

\* What is known of a connection on which nothing happens stays.
LEMMA StillConn ==
  ASSUME NEW s \in Conns, UNCHANGED dir, ConnInv(s), Still(s)
  PROVE  ConnInv(s)'
<1>1. Writers' = Writers
  BY Zenon DEF Writers
<1>2. Placed(s)'
  BY Zenon DEF ConnInv, Still, Placed
<1>3. Unfinished(s)'
  BY <1>1, Zenon DEF ConnInv, Still, MidSame, Unfinished
<1>4. ASSUME peer'[s] # "closed", InStep(log'[s], Len(dlv'[s])) PROVE Tracked(s)'
  <2> DEFINE f == Flow(rbuf[s], pipe[s])
  <2>1. /\ log'[s] = log[s] /\ dlv'[s] = dlv[s] /\ rbuf'[s] = rbuf[s] /\ pipe'[s] = pipe[s]
        /\ MidSame(s)
    BY <1>4, Zenon DEF Still
  <2>2. /\ Ends(f, s)
        /\ \E e \in [DOMAIN f -> DOMAIN log[s]] :
             /\ Tracks(e, f, log[s], Len(dlv[s]))
             /\ Reads(e, f, log[s], Len(dlv[s]), Len(rbuf[s]))
    BY <1>4, <2>1, Zenon DEF ConnInv, Still, Tracked
  <2>3. Flow(rbuf'[s], pipe'[s]) = f
    BY <2>1, Zenon
  <2> HIDE DEF f
  <2>4. /\ f # <<>> => /\ \A w \in Writers : Mid(w, s)' =>
                            f[Len(f)] = [msg |-> Msg(w)', row |-> wr'[w].sent]
                       /\ (\A w \in Writers : ~Mid(w, s)') /\ log'[s][Len(log'[s])] \in Msgs =>
                            f[Len(f)].row = Rows(f[Len(f)].msg)
    BY <2>1, <2>2, Zenon DEF MidSame, Ends
  <2> QED  BY <1>1, <2>1, <2>2, <2>3, <2>4, Zenon DEF Tracked, Ends
<1> QED  BY <1>2, <1>3, <1>4, Zenon DEF ConnInv

\* What is known of a connection by its type.
LEMMA ConnTypes ==
  ASSUME StreamType, NEW s \in Conns
  PROVE  /\ log[s] \in Seq(Entries) /\ Len(log[s]) \in Nat /\ DOMAIN log[s] = 1..Len(log[s])
         /\ dlv[s] \in Seq(Msgs \cup {Junk}) /\ Len(dlv[s]) \in Nat
         /\ rbuf[s] \in Seq(RowSet) /\ pipe[s] \in Seq(RowSet)
         /\ Len(rbuf[s]) \in Nat /\ Len(pipe[s]) \in Nat
         /\ Flow(rbuf[s], pipe[s]) \in Seq(RowSet)
         /\ Len(Flow(rbuf[s], pipe[s])) = Len(rbuf[s]) + Len(pipe[s])
         /\ Len(rbuf[s]) <= Len(Flow(rbuf[s], pipe[s]))
<1>1. /\ log[s] \in Seq(Entries) /\ dlv[s] \in Seq(Msgs \cup {Junk})
      /\ rbuf[s] \in Seq(RowSet) /\ pipe[s] \in Seq(RowSet)
  BY Zenon DEF StreamType
<1>2. /\ Len(log[s]) \in Nat /\ DOMAIN log[s] = 1..Len(log[s]) /\ Len(dlv[s]) \in Nat
      /\ Len(rbuf[s]) \in Nat /\ Len(pipe[s]) \in Nat
  BY <1>1, Places, Zenon
<1>3. /\ Flow(rbuf[s], pipe[s]) \in Seq(RowSet)
      /\ Len(Flow(rbuf[s], pipe[s])) = Len(rbuf[s]) + Len(pipe[s])
  BY <1>1, FlowFacts, Zenon
<1>4. Len(rbuf[s]) <= Len(rbuf[s]) + Len(pipe[s])
  <2>1. \A x, y \in Nat : x <= x + y
    OBVIOUS
  <2> QED  BY <1>2, <2>1, Zenon
<1> QED  BY <1>1, <1>2, <1>3, <1>4, Zenon

\* The send of w on s is given up: the last entry of s is torn, and nobody is in
\* the middle of a message any more.
Tears(w, s) ==
  /\ Mid(w, s) /\ log' = MarkTorn(log, s)
  /\ \A v \in Writers, t \in Conns : ~Mid(v, t)'
  /\ UNCHANGED <<dlv, rbuf, pipe, peer>>

\* A send that is given up (poll() times out, the peer is gone, the socket is
\* replaced) marks the last message of the queue.
LEMMA TornConn ==
  ASSUME NEW s \in Conns, NEW w \in Writers, StreamType, UNCHANGED dir, ConnInv(s), Tears(w, s)
  PROVE  /\ ConnInv(s)'
         /\ Left(log[s], dlv[s]) # <<>>
         /\ Left(log'[s], dlv'[s])
              = [Left(log[s], dlv[s]) EXCEPT ![Len(Left(log[s], dlv[s]))] = Torn]
<1> DEFINE l == log[s]
<1> DEFINE h == [l EXCEPT ![Len(l)] = Torn]
<1> DEFINE n == Len(dlv[s])
<1>0. Writers' = Writers
  BY Zenon DEF Writers
<1>1. l \in Seq(Entries) /\ Len(l) \in Nat /\ n \in Nat /\ DOMAIN l = 1..Len(l)
  BY ConnTypes, Zenon
<1>2. log'[s] = h
  <2>1. log \in [Conns -> Seq(Entries)]
    BY Zenon DEF StreamType
  <2> QED  BY <2>1, Zenon DEF Tears, MarkTorn
<1>3. l # <<>> /\ (InStep(l, n) => n < Len(l))
  BY Zenon DEF ConnInv, Unfinished, Tears
<1>4. PICK c \in Nat : Place(l, n, c)
  BY Zenon DEF ConnInv, Placed
<1>5. c < Len(l)
  BY <1>3, <1>4, Zenon DEF InStep, Place
<1>6. /\ Place(h, n, c) /\ Left(l, dlv[s]) # <<>>
      /\ Left(h, dlv[s]) = [Left(l, dlv[s]) EXCEPT ![Len(Left(l, dlv[s]))] = Torn]
  BY <1>1, <1>4, <1>5, LeftTear, Zenon
<1>7. dlv'[s] = dlv[s] /\ rbuf'[s] = rbuf[s] /\ pipe'[s] = pipe[s] /\ peer'[s] = peer[s]
  BY Zenon DEF Tears
<1>8. Len(l) > 0 /\ Len(l) \in 1..Len(l)
  BY <1>1, <1>3
<1>9. Len(h) = Len(l) /\ h[Len(l)] = Torn /\ \A i \in 1..Len(l) : i # Len(l) => h[i] = l[i]
  BY <1>1, <1>8
<1> HIDE DEF h
<1>10. Placed(s)'
  BY <1>2, <1>6, <1>7, Zenon DEF Placed
<1>11. Unfinished(s)'
  BY <1>0, Zenon DEF Unfinished, Tears
<1>12. ASSUME peer'[s] # "closed", InStep(log'[s], Len(dlv'[s])) PROVE Tracked(s)'
  <2> DEFINE f == Flow(rbuf[s], pipe[s])
  <2>1. InStep(h, n)
    BY <1>2, <1>7, <1>12, Zenon
  <2>2. InStep(l, n)
    <3>1. n <= Len(h) /\ \A i \in 1..n : h[i] \in Msgs
      BY <2>1, Zenon DEF InStep, Place
    <3>2. n # Len(l)
      <4>1. n = Len(l) => Len(l) \in 1..n
        BY <1>8
      <4> QED  BY <1>9, <3>1, <4>1, Marks, Zenon
    <3>3. \A i \in 1..n : i \in 1..Len(l) /\ i # Len(l)
      BY <1>1, <1>9, <3>1, <3>2
    <3>4. \A i \in 1..n : l[i] \in Msgs
      BY <1>9, <3>1, <3>3, Zenon
    <3> QED  BY <1>1, <1>9, <3>1, <3>4, Zenon DEF InStep, Place
  <2>3. PICK e \in [DOMAIN f -> DOMAIN l] :
          Tracks(e, f, l, n) /\ Reads(e, f, l, n, Len(rbuf[s]))
    BY <1>7, <1>12, <2>2, Zenon DEF ConnInv, Tracked
  <2>4. f \in Seq(RowSet) /\ Len(rbuf[s]) \in Nat /\ Len(rbuf[s]) <= Len(f)
    BY ConnTypes, Zenon
  <2> HIDE DEF f
  <2>5. Tracks(e, f, h, n) /\ Reads(e, f, h, n, Len(rbuf[s]))
    BY <1>1, <1>8, <2>3, <2>4, TracksTear, Zenon DEF h
  <2>6. e \in [DOMAIN f -> DOMAIN h]
    BY <2>5, Zenon DEF Tracks
  <2>7. Flow(rbuf'[s], pipe'[s]) = f
    BY <1>7, Zenon DEF f
  <2>8. Ends(f, s)'
    <3>1. h[Len(h)] \notin Msgs
      BY <1>9, Marks, Zenon
    <3> QED  BY <1>0, <1>2, <2>7, <3>1, Zenon DEF Ends, Tears, f
  <2> QED  BY <1>2, <1>7, <2>5, <2>6, <2>7, <2>8, Zenon DEF Tracked, f
<1> QED  BY <1>2, <1>6, <1>7, <1>10, <1>11, <1>12, Zenon DEF ConnInv

\* The message of a writer that has begun one.
LEMMA BegunMsg ==
  ASSUME StreamType, NEW w \in Writers, LockedAt(w), wr[w].pc # "idle"
  PROVE  Msg(w) \in Msgs /\ Rows(Msg(w)) \in Nat /\ Rows(Msg(w)) >= 4
<1>1. wr[w].k \in Nat
  BY DEF StreamType
<1>2. wr[w].k <= Len(Payload[w]) /\ wr[w].k > 0
  BY Zenon DEF LockedAt
<1>3. w \in DOMAIN Payload
  BY StreamAssumption, Zenon DEF Writers
<1>4. Msg(w) \in Msgs
  BY <1>1, <1>2, <1>3, MsgOf, Zenon DEF Msg
<1> QED  BY <1>4, RowsFacts, Zenon

\* Whoever holds the lock is sending one of its messages and is not through.
LEMMA HolderMsg ==
  ASSUME StreamType, Locked, NEW w \in Writers, holder = w
  PROVE  /\ Msg(w) \in Msgs /\ Rows(Msg(w)) \in Nat /\ Rows(Msg(w)) >= 4
         /\ wr[w].sent \in Nat /\ wr[w].sent < Rows(Msg(w)) /\ wr[w].fresh \in BOOLEAN
         /\ [msg |-> Msg(w), row |-> wr[w].sent + 1] \in RowSet
<1>1. wr[w].sent \in Nat /\ wr[w].fresh \in BOOLEAN
  BY Zenon DEF StreamType
<1>2. LockedAt(w) /\ wr[w].pc \in Sending /\ wr[w].sent < Rows(Msg(w))
  BY Zenon DEF Locked, LockedAt
<1>3. wr[w].pc # "idle"
  BY <1>2, Zenon DEF Sending
<1>4. Msg(w) \in Msgs /\ Rows(Msg(w)) \in Nat /\ Rows(Msg(w)) >= 4
  BY <1>2, <1>3, BegunMsg, Zenon
<1>5. wr[w].sent + 1 \in Nat \ {0} /\ wr[w].sent + 1 <= Rows(Msg(w))
  BY <1>1, <1>2, <1>4
<1>6. [msg |-> Msg(w), row |-> wr[w].sent + 1] \in RowSet
  BY <1>4, <1>5 DEF RowSet
<1> QED  BY <1>1, <1>2, <1>4, <1>6, Zenon

\* Writer w sends its next row on s.
NextRow(w) == [msg |-> Msg(w), row |-> wr[w].sent + 1]
NewEntry(w) == IF wr[w].sent = 0 THEN Msg(w) ELSE Stray

Sends(w, s) ==
  /\ holder = w /\ wr[w].pc = "send" /\ wr[w].at = s
  /\ pipe'[s] = Append(pipe[s], NextRow(w))
  /\ log'[s] = IF wr[w].fresh THEN Append(log[s], NewEntry(w)) ELSE log[s]
  /\ dlv'[s] = dlv[s] /\ rbuf'[s] = rbuf[s] /\ peer'[s] = peer[s]
  /\ Msg(w)' = Msg(w) /\ wr'[w].sent = wr[w].sent + 1
  /\ \A v \in Writers : Mid(v, s)' <=> v = w /\ wr[w].sent + 1 # Rows(Msg(w))

\* The row is followed through the log as the ones before it, and is the last.
LEMMA SendTracked ==
  ASSUME NEW s \in Conns, NEW w \in Writers, StreamType, Locked, UNCHANGED dir, Sends(w, s),
         NEW d,
         Tracks(d, Append(Flow(rbuf[s], pipe[s]), NextRow(w)), log'[s], Len(dlv[s])),
         Reads(d, Append(Flow(rbuf[s], pipe[s]), NextRow(w)), log'[s], Len(dlv[s]), Len(rbuf[s]))
  PROVE  Tracked(s)'
<1> DEFINE u == NextRow(w)
<1> DEFINE g == Append(Flow(rbuf[s], pipe[s]), u)
<1>0. Writers' = Writers
  BY Zenon DEF Writers
<1>1. u \in RowSet
  BY HolderMsg, Zenon DEF Sends, NextRow
<1>2. rbuf[s] \in Seq(RowSet) /\ pipe[s] \in Seq(RowSet) /\ Flow(rbuf[s], pipe[s]) \in Seq(RowSet)
  BY ConnTypes, Zenon
<1>3. Flow(rbuf'[s], pipe'[s]) = g
  <2>1. rbuf'[s] = rbuf[s] /\ pipe'[s] = Append(pipe[s], u)
    BY Zenon DEF Sends
  <2>2. Flow(rbuf[s], Append(pipe[s], u)) = g
    BY <1>1, <1>2, FlowSend, Zenon
  <2> QED  BY <2>1, <2>2, Zenon
<1>4. g[Len(g)] = u
  BY <1>1, <1>2
<1>5. dlv'[s] = dlv[s] /\ rbuf'[s] = rbuf[s]
  BY Zenon DEF Sends
<1>6. d \in [DOMAIN g -> DOMAIN log'[s]]
  BY Zenon DEF Tracks
<1>7. u.row = wr[w].sent + 1 /\ u.msg = Msg(w)
  BY Zenon DEF NextRow
<1>8. u = [msg |-> Msg(w), row |-> wr[w].sent + 1]
  BY Zenon DEF NextRow
<1> HIDE DEF g, u
<1>9. /\ \A v \in Writers : Mid(v, s)' => g[Len(g)] = [msg |-> Msg(v)', row |-> wr'[v].sent]
      /\ (\A v \in Writers : ~Mid(v, s)') => g[Len(g)].row = Rows(g[Len(g)].msg)
  BY <1>4, <1>7, <1>8, Zenon DEF Sends
<1>10. Tracks(d, g, log'[s], Len(dlv[s])) /\ Reads(d, g, log'[s], Len(dlv[s]), Len(rbuf[s]))
  BY Zenon DEF g, u
<1> QED  BY <1>0, <1>3, <1>5, <1>6, <1>9, <1>10, Zenon DEF Tracked, Ends

\* A row that is sent is the next one of its message, or begins a new entry.
LEMMA SendConn ==
  ASSUME NEW s \in Conns, NEW w \in Writers, StreamType, Locked, UNCHANGED dir, ConnInv(s),
         Sends(w, s)
  PROVE  /\ ConnInv(s)'
         /\ wr[w].fresh => /\ NewEntry(w) \in Msgs \cup {Stray}
                           /\ Left(log'[s], dlv'[s]) = Append(Left(log[s], dlv[s]), NewEntry(w))
         /\ ~wr[w].fresh => Left(log'[s], dlv'[s]) = Left(log[s], dlv[s])
<1> DEFINE l == log[s]
<1> DEFINE n == Len(dlv[s])
<1> DEFINE f == Flow(rbuf[s], pipe[s])
<1> DEFINE u == NextRow(w)
<1> DEFINE x == NewEntry(w)
<1>0. Writers' = Writers
  BY Zenon DEF Writers
<1>1. /\ l \in Seq(Entries) /\ Len(l) \in Nat /\ n \in Nat
      /\ f \in Seq(RowSet) /\ Len(rbuf[s]) \in Nat /\ Len(rbuf[s]) <= Len(f)
  BY ConnTypes, Zenon
<1>2. /\ Msg(w) \in Msgs /\ Rows(Msg(w)) \in Nat /\ wr[w].sent \in Nat
      /\ wr[w].fresh \in BOOLEAN /\ u \in RowSet
  BY HolderMsg, Zenon DEF Sends, NextRow
<1>3. PICK c \in Nat : Place(l, n, c)
  BY Zenon DEF ConnInv, Placed
<1>4. dlv'[s] = dlv[s] /\ rbuf'[s] = rbuf[s] /\ peer'[s] = peer[s]
  BY Zenon DEF Sends
<1>5. CASE ~wr[w].fresh
  <2>1. Mid(w, s)
    <3>1. wr[w].at # 0
      BY ConnFacts, Zenon DEF Sends
    <3> QED  BY <1>5, <3>1, Zenon DEF Sends, Locked, LockedAt, Mid
  <2>2. log'[s] = l
    BY <1>5, Zenon DEF Sends
  <2>3. Placed(s)'
    BY <1>3, <1>4, <2>2, Zenon DEF Placed
  <2>4. l # <<>> /\ l[Len(l)] \in {Msg(w), Stray} /\ (InStep(l, n) => n < Len(l))
    BY <2>1, Zenon DEF ConnInv, Unfinished
  <2>5. Unfinished(s)'
    BY <1>0, <1>4, <2>2, <2>4, Zenon DEF Unfinished, Sends
  <2>6. ASSUME peer'[s] # "closed", InStep(log'[s], Len(dlv'[s])) PROVE Tracked(s)'
    <3>1. InStep(l, n) /\ peer[s] # "closed"
      BY <1>4, <2>2, <2>6, Zenon
    <3>2. PICK e \in [DOMAIN f -> DOMAIN l] :
            Tracks(e, f, l, n) /\ Reads(e, f, l, n, Len(rbuf[s]))
      BY <3>1, Zenon DEF ConnInv, Tracked
    <3>3. f # <<>>
      <4>1. n # Len(l)
        BY <1>1, <2>4, <3>1
      <4> QED  BY <3>2, <4>1, Zenon DEF Tracks
    <3>4. f[Len(f)] = [msg |-> Msg(w), row |-> wr[w].sent]
      BY <2>1, <3>1, <3>3, Zenon DEF ConnInv, Tracked, Ends
    <3>5. u = [msg |-> f[Len(f)].msg, row |-> f[Len(f)].row + 1]
      <4> HIDE DEF f
      <4> QED  BY <3>4 DEF NextRow
    <3> HIDE DEF f
    <3>6. Tracks(Extended(e, Len(f), Len(l)), Append(f, u), l, n)
      BY <1>1, <1>2, <3>2, <3>3, <3>5, TracksMore, Zenon
    <3>7. Reads(Extended(e, Len(f), Len(l)), Append(f, u), l, n, Len(rbuf[s]))
      BY <1>1, <1>2, <3>2, ReadsSend, Zenon
    <3> QED  BY <2>2, <3>6, <3>7, SendTracked, Zenon DEF f
  <2>7. Left(log'[s], dlv'[s]) = Left(log[s], dlv[s])
    BY <1>4, <2>2, Zenon
  <2> QED  BY <1>5, <2>3, <2>5, <2>6, <2>7, Zenon DEF ConnInv
<1>6. CASE wr[w].fresh
  <2>1. x \in Msgs \cup {Stray} /\ x \in Entries /\ x \in {Msg(w), Stray}
    BY <1>2, Zenon DEF NewEntry, Entries
  <2>2. log'[s] = Append(l, x)
    BY <1>6, Zenon DEF Sends
  <2>3. Place(Append(l, x), n, c) /\ Left(Append(l, x), dlv[s]) = Append(Left(l, dlv[s]), x)
    BY <1>1, <1>3, <2>1, LeftPut, Zenon
  <2>4. Placed(s)'
    BY <1>4, <2>2, <2>3, Zenon DEF Placed
  <2>5. /\ Append(l, x)[Len(l) + 1] = x /\ Len(Append(l, x)) = Len(l) + 1
        /\ Append(l, x) # <<>> /\ \A i \in 1..Len(l) : Append(l, x)[i] = l[i]
    BY <1>1, <2>1
  <2>6. ASSUME InStep(Append(l, x), n) PROVE InStep(l, n) /\ n <= Len(l) /\ n < Len(l) + 1
    <3>1. c = n
      <4>1. SUFFICES ASSUME c # n PROVE FALSE
        BY Zenon
      <4>2. c < n /\ c < Len(l) /\ l[c + 1] = Torn
        BY <1>3, <4>1, Zenon DEF Place
      <4>3. c + 1 \in 1..n /\ c + 1 \in 1..Len(l)
        BY <1>1, <4>2
      <4> QED  BY <2>5, <2>6, <4>2, <4>3, Marks, Zenon DEF InStep, Place
    <3>2. n <= Len(l)
      BY <1>3, <3>1, Zenon DEF Place
    <3>3. n < Len(l) + 1
      BY <1>1, <3>2
    <3> QED  BY <1>3, <3>1, <3>2, <3>3, Zenon DEF InStep
  <2>7. Unfinished(s)'
    BY <1>0, <1>4, <2>1, <2>2, <2>5, <2>6, Zenon DEF Unfinished, Sends
  <2>8. ASSUME peer'[s] # "closed", InStep(log'[s], Len(dlv'[s])) PROVE Tracked(s)'
    <3>1. InStep(l, n) /\ n <= Len(l) /\ peer[s] # "closed"
      BY <1>4, <2>2, <2>6, <2>8, Zenon
    <3>2. PICK e \in [DOMAIN f -> DOMAIN l] :
            Tracks(e, f, l, n) /\ Reads(e, f, l, n, Len(rbuf[s]))
      BY <3>1, Zenon DEF ConnInv, Tracked
    <3>3. Starts(u, x) /\ (x \in Msgs => u.msg = x)
      <4>1. u.row = wr[w].sent + 1 /\ u.msg = Msg(w)
        BY Zenon DEF NextRow
      <4>2. x \in Msgs => wr[w].sent = 0 /\ x = Msg(w)
        BY Marks, Zenon DEF NewEntry
      <4>3. x = Stray => wr[w].sent # 0
        BY <1>2, Marks, Zenon DEF NewEntry
      <4>4. (wr[w].sent = 0 => u.row = 1) /\ (wr[w].sent # 0 => u.row > 1)
        BY <1>2, <4>1
      <4> QED  BY <4>1, <4>2, <4>3, <4>4, Zenon DEF Starts
    <3>4. f # <<>> /\ l[Len(l)] \in Msgs => f[Len(f)].row = Rows(f[Len(f)].msg)
      <4>1. \A v \in Writers : ~Mid(v, s)
        BY <1>6, Zenon DEF Mid, Sends
      <4> QED  BY <3>1, <4>1, Zenon DEF ConnInv, Tracked, Ends
    <3> HIDE DEF f
    <3>5. Tracks(Extended(e, Len(f), Len(l) + 1), Append(f, u), Append(l, x), n)
      BY <1>1, <1>2, <2>1, <3>1, <3>2, <3>3, <3>4, TracksBegin, Zenon
    <3>6. Reads(Extended(e, Len(f), Len(l) + 1), Append(f, u), Append(l, x), n, Len(rbuf[s]))
      BY <1>1, <1>2, <3>2, ReadsSend, Zenon
    <3> QED  BY <2>2, <3>5, <3>6, SendTracked, Zenon DEF f
  <2> QED  BY <1>4, <1>6, <2>1, <2>2, <2>3, <2>4, <2>7, <2>8, Zenon DEF ConnInv
<1> QED  BY <1>5, <1>6, Zenon

\* The reader takes a row.
Taken(s) == Append(rbuf[s], Head(pipe[s]))

Takes(s) ==
  /\ peer[s] = "open" /\ peer'[s] = "open" /\ pipe[s] # <<>>
  /\ pipe'[s] = Tail(pipe[s]) /\ log'[s] = log[s] /\ MidSame(s)
  /\ ~(Len(Taken(s)) = 4 /\ ~HeaderOk(Taken(s)))

\* The rows it then has, and what they are when it is in step.
LEMMA TakenFacts ==
  ASSUME NEW s \in Conns, StreamType, Takes(s)
  PROVE  /\ Taken(s) \in Seq(RowSet) /\ Len(Taken(s)) = Len(rbuf[s]) + 1
         /\ Len(rbuf[s]) < Len(Flow(rbuf[s], pipe[s]))
         /\ Flow(Taken(s), Tail(pipe[s])) = Flow(rbuf[s], pipe[s])
         /\ \A i \in 1..Len(rbuf[s]) + 1 : Taken(s)[i] = Flow(rbuf[s], pipe[s])[i]
<1>1. /\ rbuf[s] \in Seq(RowSet) /\ pipe[s] \in Seq(RowSet) /\ pipe[s] # <<>>
      /\ Len(rbuf[s]) \in Nat
  BY ConnTypes, Zenon DEF Takes
<1>2. /\ Taken(s) \in Seq(RowSet) /\ Tail(pipe[s]) \in Seq(RowSet)
      /\ Len(Taken(s)) = Len(rbuf[s]) + 1
      /\ Flow(Taken(s), Tail(pipe[s])) = Flow(rbuf[s], pipe[s])
  BY <1>1, FlowTake, Zenon DEF Taken
<1>3. \A i \in 1..Len(Taken(s)) : Taken(s)[i] = Flow(rbuf[s], pipe[s])[i]
  <2>1. \A i \in 1..Len(Taken(s)) : Flow(Taken(s), Tail(pipe[s]))[i] = Taken(s)[i]
    BY <1>2, FlowFacts, Zenon
  <2> QED  BY <1>2, <2>1, Zenon
<1>4. Len(pipe[s]) \in Nat /\ Len(pipe[s]) > 0
  BY <1>1
<1>5. Len(Flow(rbuf[s], pipe[s])) = Len(rbuf[s]) + Len(pipe[s])
  BY ConnTypes, Zenon
<1>6. \A x \in Nat, y \in Nat : y > 0 => x < x + y
  OBVIOUS
<1> QED  BY <1>1, <1>2, <1>3, <1>4, <1>5, <1>6, Zenon

\* In step, what the reader has is the beginning of the message at the head of
\* the queue: it is whole exactly when all its rows are there.
LEMMA TakenInStep ==
  ASSUME NEW s \in Conns, StreamType, Takes(s), NEW e,
         Tracks(e, Flow(rbuf[s], pipe[s]), log[s], Len(dlv[s])),
         Reads(e, Flow(rbuf[s], pipe[s]), log[s], Len(dlv[s]), Len(rbuf[s]))
  PROVE  LET m == log[s][Len(dlv[s]) + 1]
         IN  /\ Len(dlv[s]) < Len(log[s])
             /\ m \in Msgs =>
                  /\ Len(rbuf[s]) < Rows(m)
                  /\ Whole(Taken(s)) <=> Len(rbuf[s]) + 1 >= Rows(m)
                  /\ Whole(Taken(s)) => Decoded(Taken(s)) = m
             /\ m = Stray => ~Whole(Taken(s)) /\ Len(rbuf[s]) + 1 < 4
<1> DEFINE f == Flow(rbuf[s], pipe[s])
<1> DEFINE l == log[s]
<1> DEFINE n == Len(dlv[s])
<1> DEFINE r == Len(rbuf[s])
<1> DEFINE rows == Taken(s)
<1>1. f \in Seq(RowSet) /\ l \in Seq(Entries) /\ n \in Nat /\ r \in Nat
  BY ConnTypes, Zenon
<1>2. /\ rows \in Seq(RowSet) /\ Len(rows) = r + 1 /\ r < Len(f)
      /\ \A i \in 1..r + 1 : rows[i] = f[i]
  BY TakenFacts, Zenon
<1>3. /\ n < Len(l)
      /\ l[n + 1] \in Msgs =>
           /\ r < Rows(l[n + 1])
           /\ \A i \in 1..r + 1 : e[i] = n + 1 /\ f[i].row = i /\ f[i].msg = l[n + 1]
      /\ l[n + 1] = Stray => f[1].row > 1
  BY <1>1, <1>2, ReadsTake, Zenon
<1>4. Reads(e, f, l, n, r)
  BY Zenon
<1>5. ~(Len(rows) = 4 /\ ~HeaderOk(rows))
  BY Zenon DEF Takes
<1> HIDE DEF f, l, n, r, rows
<1>6. ASSUME l[n + 1] \in Msgs
      PROVE  /\ Whole(rows) <=> r + 1 >= Rows(l[n + 1])
             /\ Whole(rows) => Decoded(rows) = l[n + 1]
  <2>1. \A i \in 1..Len(rows) : rows[i].row = i /\ rows[i].msg = l[n + 1]
    <3>1. ASSUME NEW i \in 1..r + 1 PROVE rows[i].row = i /\ rows[i].msg = l[n + 1]
      <4>1. rows[i] = f[i]
        BY <1>2, Zenon
      <4>2. f[i].row = i /\ f[i].msg = l[n + 1]
        BY <1>3, <1>6, Zenon
      <4> QED  BY <4>1, <4>2, Zenon
    <3>2. Len(rows) = r + 1
      BY <1>2, Zenon
    <3> QED  BY <3>1, <3>2, Zenon
  <2>2. /\ Whole(rows) <=> Len(rows) >= Rows(l[n + 1])
        /\ Whole(rows) => Decoded(rows) = l[n + 1]
    BY <1>2, <1>6, <2>1, ReadsMessage, Zenon
  <2> QED  BY <1>2, <2>2, Zenon
<1>7. ASSUME l[n + 1] = Stray PROVE ~Whole(rows) /\ r + 1 < 4
  <2>1. r > 0 => r < 4
    BY <1>4, <1>7, Zenon DEF Reads
  <2>2. Len(rows) > 0 /\ Len(rows) <= 4 /\ 1 \in 1..r + 1
    BY <1>1, <1>2, <2>1
  <2>3. rows[1].row > 1
    BY <1>2, <1>3, <1>7, <2>2, Zenon
  <2>4. Len(rows) # 4 /\ ~Whole(rows) /\ Len(rows) < 4
    BY <1>2, <1>5, <2>2, <2>3, ReadsStray, Zenon
  <2> QED  BY <1>2, <2>4, Zenon
<1> QED  BY <1>3, <1>6, <1>7, Zenon DEF f, l, n, r, rows

\* A row that does not complete a message.
LEMMA TakeConn ==
  ASSUME NEW s \in Conns, StreamType, UNCHANGED dir, ConnInv(s), Takes(s),
         ~Whole(Taken(s)), dlv'[s] = dlv[s], rbuf'[s] = Taken(s)
  PROVE  ConnInv(s)'
<1> DEFINE f == Flow(rbuf[s], pipe[s])
<1> DEFINE l == log[s]
<1> DEFINE n == Len(dlv[s])
<1> DEFINE r == Len(rbuf[s])
<1>0. Writers' = Writers
  BY Zenon DEF Writers
<1>1. log'[s] = l /\ MidSame(s) /\ peer[s] # "closed"
  BY Zenon DEF Takes
<1>2. Placed(s)'
  BY <1>1, Zenon DEF ConnInv, Placed
<1>3. Unfinished(s)'
  BY <1>0, <1>1, Zenon DEF ConnInv, MidSame, Unfinished
<1>4. ASSUME InStep(log'[s], Len(dlv'[s])) PROVE Tracked(s)'
  <2>1. InStep(l, n)
    BY <1>1, <1>4, Zenon
  <2>2. Ends(f, s)
    BY <1>1, <2>1, Zenon DEF ConnInv, Tracked
  <2>3. PICK e \in [DOMAIN f -> DOMAIN l] : Tracks(e, f, l, n) /\ Reads(e, f, l, n, r)
    BY <1>1, <2>1, Zenon DEF ConnInv, Tracked
  <2>4. /\ l[n + 1] \in Msgs => r < Rows(l[n + 1]) /\ ~(r + 1 >= Rows(l[n + 1]))
        /\ l[n + 1] = Stray => r + 1 < 4
    BY <2>3, TakenInStep, Zenon
  <2>5. f \in Seq(RowSet) /\ l \in Seq(Entries) /\ n \in Nat /\ r \in Nat
    BY ConnTypes, Zenon
  <2>6. r < Len(f) /\ Len(Taken(s)) = r + 1 /\ Flow(Taken(s), Tail(pipe[s])) = f
    BY TakenFacts, Zenon
  <2>7. l[n + 1] \in Msgs => /\ r + 1 < Rows(l[n + 1])
                             /\ \A i \in 1..r + 1 : e[i] = n + 1 /\ f[i].row = i
    <3> HIDE DEF f, l, n, r
    <3>1. l[n + 1] \in Msgs => Rows(l[n + 1]) \in Nat
      BY RowsFacts, Zenon
    <3>2. l[n + 1] \in Msgs => \A i \in 1..r + 1 : e[i] = n + 1 /\ f[i].row = i
      BY <2>3, <2>5, <2>6, ReadsTake
    <3>3. \A x, y \in Nat : ~(x + 1 >= y) => x + 1 < y
      OBVIOUS
    <3> QED  BY <2>4, <2>5, <3>1, <3>2, <3>3, Zenon
  <2>8. Reads(e, f, l, n, r + 1)
    BY <2>4, <2>7, Zenon DEF Reads
  <2>9. Flow(rbuf'[s], pipe'[s]) = f /\ Len(rbuf'[s]) = r + 1
    BY <2>6, Zenon DEF Takes
  <2> HIDE DEF f
  <2>10. f # <<>> => /\ \A w \in Writers : Mid(w, s)' =>
                          f[Len(f)] = [msg |-> Msg(w)', row |-> wr'[w].sent]
                     /\ (\A w \in Writers : ~Mid(w, s)') /\ log'[s][Len(log'[s])] \in Msgs =>
                          f[Len(f)].row = Rows(f[Len(f)].msg)
    BY <1>1, <2>2, Zenon DEF MidSame, Ends
  <2> QED  BY <1>0, <1>1, <2>3, <2>8, <2>9, <2>10, Zenon DEF Tracked, Ends
<1> QED  BY <1>2, <1>3, <1>4, Zenon DEF ConnInv

\* The reader delivers what it has read.
Delivers(s) ==
  /\ Takes(s) /\ Whole(Taken(s))
  /\ dlv'[s] = Append(dlv[s], Decoded(Taken(s))) /\ rbuf'[s] = <<>>

Gets(s) ==
  /\ Left(log[s], dlv[s]) # <<>> /\ Head(Left(log[s], dlv[s])) \in Msgs
  /\ dlv'[s] = Append(dlv[s], Head(Left(log[s], dlv[s])))
  /\ Left(log'[s], dlv'[s]) = Tail(Left(log[s], dlv[s]))

Misreads(s) ==
  /\ Left(log[s], dlv[s]) # <<>> /\ Head(Left(log[s], dlv[s])) = Torn
  /\ \E m \in Msgs \cup {Junk} : dlv'[s] = Append(dlv[s], m)
  /\ Left(log'[s], dlv'[s]) = Left(log[s], dlv[s])

\* With a torn message at the head of the queue anything may be read, and the
\* reader is out of step from then on.
LEMMA MisreadConn ==
  ASSUME NEW s \in Conns, StreamType, UNCHANGED dir, ConnInv(s), Delivers(s),
         NEW c \in Nat, Place(log[s], Len(dlv[s]), c), c < Len(log[s]), log[s][c + 1] = Torn
  PROVE  ConnInv(s)' /\ Misreads(s)
<1> DEFINE l == log[s]
<1> DEFINE d == dlv[s]
<1> DEFINE m == Decoded(Taken(s))
<1>0. Writers' = Writers
  BY Zenon DEF Writers
<1>1. l \in Seq(Entries) /\ d \in Seq(Msgs \cup {Junk}) /\ Len(l) \in Nat /\ Len(d) \in Nat
  BY ConnTypes, Zenon
<1>2. m \in Msgs \cup {Junk}
  <2>1. Taken(s) \in Seq(RowSet)
    BY TakenFacts, Zenon DEF Delivers
  <2> QED  BY <2>1, ReadsAny, Zenon DEF Delivers
<1>3. log'[s] = l /\ dlv'[s] = Append(d, m) /\ MidSame(s)
  BY Zenon DEF Delivers, Takes
<1> HIDE DEF m
<1>4. /\ Place(l, Len(Append(d, m)), c)
      /\ Left(l, d) # <<>> /\ Head(Left(l, d)) = Torn
      /\ Left(l, Append(d, m)) = Left(l, d)
  BY <1>1, <1>2, LeftMisread, Zenon
<1>5. ~InStep(l, Len(Append(d, m)))
  <2>1. c <= Len(d) /\ Len(Append(d, m)) = Len(d) + 1
    BY <1>1, <1>2 DEF Place
  <2>2. c + 1 \in 1..Len(Append(d, m))
    BY <1>1, <2>1
  <2> QED  BY <2>2, Marks, Zenon DEF InStep, Place
<1>6. Placed(s)'
  BY <1>3, <1>4, Zenon DEF Placed
<1>7. Unfinished(s)'
  BY <1>0, <1>3, <1>5, Zenon DEF ConnInv, Unfinished, MidSame
<1>8. ConnInv(s)'
  BY <1>3, <1>5, <1>6, <1>7, Zenon DEF ConnInv
<1>9. Misreads(s)
  BY <1>2, <1>3, <1>4, Zenon DEF Misreads
<1> QED  BY <1>8, <1>9, Zenon

\* In step, it is the message at the head of the queue that is delivered.
LEMMA GetConn ==
  ASSUME NEW s \in Conns, StreamType, Locked, UNCHANGED dir, ConnInv(s), Delivers(s),
         InStep(log[s], Len(dlv[s])), Len(dlv[s]) < Len(log[s]),
         log[s][Len(dlv[s]) + 1] \in Msgs
  PROVE  ConnInv(s)' /\ Gets(s)
<1> DEFINE f == Flow(rbuf[s], pipe[s])
<1> DEFINE g == Flow(<<>>, Tail(pipe[s]))
<1> DEFINE l == log[s]
<1> DEFINE d == dlv[s]
<1> DEFINE n == Len(dlv[s])
<1> DEFINE r == Len(rbuf[s])
<1> DEFINE m == l[n + 1]
<1>0. Writers' = Writers
  BY Zenon DEF Writers
<1>1. /\ l \in Seq(Entries) /\ d \in Seq(Msgs \cup {Junk}) /\ Len(l) \in Nat /\ n \in Nat
      /\ DOMAIN l = 1..Len(l) /\ f \in Seq(RowSet) /\ r \in Nat
      /\ rbuf[s] \in Seq(RowSet) /\ pipe[s] \in Seq(RowSet)
  BY ConnTypes, Zenon
<1>2. /\ Takes(s) /\ log'[s] = l /\ MidSame(s) /\ peer[s] # "closed" /\ pipe[s] # <<>>
      /\ pipe'[s] = Tail(pipe[s]) /\ rbuf'[s] = <<>> /\ Whole(Taken(s))
      /\ dlv'[s] = Append(d, Decoded(Taken(s)))
  BY Zenon DEF Delivers, Takes
<1>3. /\ Ends(f, s)
      /\ \E e \in [DOMAIN f -> DOMAIN l] : Tracks(e, f, l, n) /\ Reads(e, f, l, n, r)
  BY <1>2, Zenon DEF ConnInv, Tracked
<1>4. PICK e \in [DOMAIN f -> DOMAIN l] : Tracks(e, f, l, n) /\ Reads(e, f, l, n, r)
  BY <1>3, Zenon
<1>5. r < Rows(m) /\ r + 1 >= Rows(m) /\ Decoded(Taken(s)) = m
  BY <1>2, <1>4, TakenInStep, Zenon
<1>6. r < Len(f)
  BY <1>2, TakenFacts, Zenon
<1>7. /\ g \in Seq(RowSet) /\ Len(f) = r + 1 + Len(g)
      /\ \A i \in 1..Len(g) : g[i] = f[r + 1 + i]
  BY <1>1, <1>2, FlowRest, Zenon
<1>8. m \in Msgs /\ n < Len(l) /\ InStep(l, n)
  BY Zenon
<1> HIDE DEF f, g, l, n, r
<1>9. Rows(m) \in Nat /\ r + 1 = Rows(m)
  <2>1. Rows(m) \in Nat
    BY <1>8, RowsFacts, Zenon
  <2>2. \A x, y \in Nat : x < y /\ x + 1 >= y => x + 1 = y
    OBVIOUS
  <2> QED  BY <1>1, <1>5, <2>1, <2>2, Zenon
<1>10. Tracks([i \in 1..Len(g) |-> e[r + 1 + i]], g, l, n + 1)
  BY <1>1, <1>4, <1>6, <1>7, <1>8, <1>9, TracksRest, ZenonT(30)
<1>11. /\ Place(l, Len(Append(d, m)), n + 1)
       /\ Left(l, d) # <<>> /\ Head(Left(l, d)) = m
       /\ Left(l, Append(d, m)) = Tail(Left(l, d))
  <2>1. m \in Msgs \cup {Junk} /\ l[Len(d) + 1] \in Msgs /\ InStep(l, Len(d)) /\ Len(d) < Len(l)
    BY <1>8, Zenon DEF n
  <2>2. /\ Place(l, Len(Append(d, m)), Len(d) + 1)
        /\ Left(l, d) # <<>> /\ Head(Left(l, d)) = l[Len(d) + 1]
        /\ Left(l, Append(d, m)) = Tail(Left(l, d))
    BY <1>1, <2>1, LeftGet, Zenon
  <2> QED  BY <2>2, Zenon DEF n
<1>12. Len(dlv'[s]) = n + 1 /\ dlv'[s] = Append(d, m) /\ n + 1 \in Nat
  <2>1. Len(Append(d, m)) = Len(d) + 1 /\ n + 1 \in Nat
    <3>1. \A x : Len(Append(d, x)) = Len(d) + 1
      BY <1>1
    <3>2. n + 1 \in Nat
      BY <1>1
    <3> QED  BY <3>1, <3>2, Zenon
  <2> QED  BY <1>2, <1>5, <2>1, Zenon DEF n
<1>13. Placed(s)'
  BY <1>2, <1>11, <1>12, Zenon DEF Placed, l
<1>14. ASSUME NEW w \in Writers, Mid(w, s) PROVE n + 1 < Len(l)
  <2>0. \A x, y \in Nat : x < y /\ x + 1 # y => x + 1 < y
    OBVIOUS
  <2>1. SUFFICES ASSUME n + 1 = Len(l) PROVE FALSE
    BY <1>1, <1>8, <2>0, Zenon
  <2>2. g = <<>>
    <3>1. SUFFICES ASSUME g # <<>> PROVE FALSE
      BY Zenon
    <3>2. 1 \in 1..Len(g) /\ DOMAIN g = 1..Len(g)
      BY <1>7, <3>1
    <3> DEFINE h == [i \in 1..Len(g) |-> e[r + 1 + i]]
    <3>3. Tracks(h, g, l, n + 1)
      BY <1>10, Zenon
    <3> HIDE DEF h
    <3>4. h[1] = n + 1 + 1 /\ h[1] \in DOMAIN l
      BY <3>1, <3>2, <3>3, Zenon DEF Tracks
    <3>5. n + 1 + 1 \in 1..Len(l)
      BY <1>1, <3>4, Zenon
    <3> QED  BY <1>1, <2>1, <3>5
  <2>3. Len(f) = r + 1 /\ f # <<>>
    BY <1>1, <1>6, <1>7, <2>2
  <2>4. f[Len(f)] = [msg |-> Msg(w), row |-> wr[w].sent]
    BY <1>3, <1>14, <2>3, Zenon DEF Ends
  <2>5. f[r + 1].row = r + 1 /\ f[r + 1].msg = m
    <3>1. r + 1 \in 1..r + 1
      BY <1>1
    <3>2. \A i \in 1..r + 1 : f[i].row = i /\ f[i].msg = m
      BY <1>1, <1>4, <1>6, <1>8, ReadsTake, SMTT(20)
    <3> QED  BY <3>1, <3>2, Zenon
  <2>6. wr[w].sent = r + 1 /\ Msg(w) = m
    BY <2>3, <2>4, <2>5
  <2>7. wr[w].sent < Rows(Msg(w)) /\ wr[w].sent \in Nat
    BY <1>14, HolderMsg, Zenon DEF Mid
  <2> QED  BY <1>9, <2>6, <2>7
<1>15. Unfinished(s)'
  BY <1>0, <1>2, <1>12, <1>14, Zenon DEF ConnInv, Unfinished, MidSame, l
<1>16. Tracked(s)'
  <2> DEFINE h == [i \in 1..Len(g) |-> e[r + 1 + i]]
  <2>1. Tracks(h, g, l, n + 1)
    BY <1>10, Zenon
  <2> HIDE DEF h
  <2>2. Len(rbuf'[s]) = 0 /\ ~(0 > 0)
    BY <1>2
  <2>3. Reads(h, g, l, n + 1, 0)
    BY <2>2, Zenon DEF Reads
  <2>4. h \in [DOMAIN g -> DOMAIN l]
    BY <2>1, Zenon DEF Tracks
  <2>5. g # <<>> => f # <<>> /\ g[Len(g)] = f[Len(f)]
    <3>1. g # <<>> => Len(g) \in 1..Len(g) /\ f # <<>>
      BY <1>1, <1>6, <1>7
    <3> QED  BY <1>7, <3>1, Zenon
  <2>6. g # <<>> => /\ \A w \in Writers : Mid(w, s)' =>
                         g[Len(g)] = [msg |-> Msg(w)', row |-> wr'[w].sent]
                    /\ (\A w \in Writers : ~Mid(w, s)') /\ l[Len(l)] \in Msgs =>
                         g[Len(g)].row = Rows(g[Len(g)].msg)
    BY <1>2, <1>3, <2>5, Zenon DEF MidSame, Ends, l
  <2>7. Flow(rbuf'[s], pipe'[s]) = g
    BY <1>2, Zenon DEF g
  <2> QED  BY <1>0, <1>2, <1>12, <2>1, <2>2, <2>3, <2>4, <2>6, <2>7, Zenon DEF Tracked, Ends
<1>17. Gets(s)
  BY <1>2, <1>8, <1>11, <1>12, Zenon DEF Gets, l
<1> QED  BY <1>13, <1>15, <1>16, <1>17, Zenon DEF ConnInv

\* What the reader delivers is the head of the queue, or it is out of step.
LEMMA DeliverConn ==
  ASSUME NEW s \in Conns, StreamType, Locked, UNCHANGED dir, ConnInv(s), Delivers(s)
  PROVE  ConnInv(s)' /\ (Gets(s) \/ Misreads(s))
<1> DEFINE l == log[s]
<1> DEFINE n == Len(dlv[s])
<1>1. l \in Seq(Entries) /\ Len(l) \in Nat /\ n \in Nat
  BY ConnTypes, Zenon
<1>2. CASE InStep(l, n)
  <2>1. peer[s] # "closed" /\ Takes(s) /\ Whole(Taken(s))
    BY Zenon DEF Delivers, Takes
  <2>2. /\ n < Len(l)
        /\ l[n + 1] # Stray
    BY <1>2, <2>1, TakenInStep, Zenon DEF ConnInv, Tracked
  <2>3. n + 1 \in 1..Len(l)
    BY <1>1, <2>2
  <2>4. l[n + 1] \in Msgs \/ l[n + 1] = Torn
    <3>1. l[n + 1] \in Entries
      BY <1>1, <2>3, PlaceType, Zenon
    <3> QED  BY <2>2, <3>1, Zenon DEF Entries
  <2> QED  BY <1>1, <1>2, <2>2, <2>4, MisreadConn, GetConn, Zenon DEF InStep
<1>3. CASE ~InStep(l, n)
  <2>1. PICK c \in Nat : Place(l, n, c)
    BY Zenon DEF ConnInv, Placed
  <2>2. c < Len(l) /\ l[c + 1] = Torn
    BY <1>3, <2>1, Zenon DEF InStep, Place
  <2> QED  BY <2>1, <2>2, MisreadConn, Zenon
<1> QED  BY <1>2, <1>3, Zenon

-----------------------------------------------------------------------------
(* What the steps of the threads and of the readers amount to.             *)

\* No thread is called like the free lock.
LEMMA NoWriterFacts == NoWriter \notin Writers
BY StreamAssumption, Zenon DEF Writers

\* A step in which all connections stay as they are, but for readers that hang
\* up, one in which a message is torn, one in which a row is sent, and one in
\* which a reader takes a row.
Idles == UNCHANGED <<log, dlv>> /\ \A s \in Conns : Still(s)

Torn1(w, s) == Tears(w, s) /\ \A t \in Conns \ {s} : Still(t) /\ log'[t] = log[t]

Sent1(w, s) ==
  /\ Sends(w, s) /\ log' = [log EXCEPT ![s] = log'[s]] /\ UNCHANGED dlv
  /\ \A t \in Conns \ {s} : Still(t)

Took1(s) ==
  /\ UNCHANGED log /\ \A t \in Conns \ {s} : Still(t)
  /\ \/ Takes(s) /\ ~Whole(Taken(s)) /\ UNCHANGED dlv /\ rbuf'[s] = Taken(s)
     \/ Delivers(s) /\ dlv' = [dlv EXCEPT ![s] = dlv'[s]]

StreamStep ==
  \/ Idles
  \/ \E w \in Writers, s \in Conns : Torn1(w, s) \/ Sent1(w, s)
  \/ \E s \in Conns : Took1(s)

\* With log, dlv, pipe and rbuf as they were, and the same one sending.
LEMMA IdleStep ==
  ASSUME UNCHANGED <<log, dlv, pipe, rbuf>>, \A s \in Conns : MidSame(s),
         \A s \in Conns : peer[s] = "closed" => peer'[s] = "closed"
  PROVE  StreamStep
BY Zenon DEF StreamStep, Idles, Still

\* Nobody is in the middle of a message, before and after.
LEMMA NobodySame ==
  ASSUME NEW s, \A v \in Writers : ~Mid(v, s) /\ ~Mid(v, s)'
  PROVE  MidSame(s)
BY Zenon DEF MidSame

\* The fields of a writer.
LEMMA WriterType ==
  ASSUME StreamType, NEW w \in Writers
  PROVE  /\ wr[w].pc \in {"idle", "lock"} \cup Sending /\ wr[w].k \in Nat /\ wr[w].sent \in Nat
         /\ wr[w].at \in Conns \cup {0} /\ wr[w].fresh \in BOOLEAN
BY Zenon DEF StreamType

\* A writer that a step does not concern keeps its part of the lock's invariant.
LEMMA KeepLocked ==
  ASSUME NEW v, LockedAt(v), wr'[v] = wr[v], holder' = v <=> holder = v
  PROVE  LockedAt(v)'
<1>1. /\ wr'[v].pc = wr[v].pc /\ wr'[v].k = wr[v].k /\ wr'[v].sent = wr[v].sent
      /\ wr'[v].at = wr[v].at /\ wr'[v].fresh = wr[v].fresh
  BY Zenon
<1>2. Msg(v)' = Msg(v)
  BY <1>1, Zenon DEF Msg
<1> QED  BY <1>1, <1>2, Zenon DEF LockedAt

\* The state of one writer is replaced by another one.
LEMMA WriterSet ==
  ASSUME StreamType, NEW w \in Writers, NEW x, wr' = [wr EXCEPT ![w] = x],
         x \in [pc : {"idle", "lock"} \cup Sending, k : Nat, sent : Nat,
                at : Conns \cup {0}, fresh : BOOLEAN]
  PROVE  /\ wr'[w] = x /\ \A v \in Writers : v # w => wr'[v] = wr[v]
         /\ wr' \in [Writers -> [pc : {"idle", "lock"} \cup Sending, k : Nat, sent : Nat,
                                 at : Conns \cup {0}, fresh : BOOLEAN]]
BY Zenon DEF StreamType

\* The types of all but wr, when it is only wr that changes.
LEMMA OthersType ==
  ASSUME StreamType, UNCHANGED <<dir, conn, up, pipe, rbuf, peer, dlv, log>>,
         wr' \in [Writers -> [pc : {"idle", "lock"} \cup Sending, k : Nat, sent : Nat,
                              at : Conns \cup {0}, fresh : BOOLEAN]]
  PROVE  StreamType'
BY Zenon DEF StreamType, Writers

\* Begin: a thread wants to send its next message.
LEMMA BeginStep ==
  ASSUME StreamInv, NEW w \in Writers, Begin(w)
  PROVE  StreamType' /\ Locked' /\ UNCHANGED dir /\ StreamStep
<1> DEFINE x == [pc |-> "lock", k |-> wr[w].k + 1, sent |-> 0, at |-> 0, fresh |-> FALSE]
<1>0. StreamType /\ Locked
  BY Zenon DEF StreamInv
<1>1. holder # w /\ wr[w].k < Len(Payload[w])
  BY <1>0, Zenon DEF Begin, Locked, LockedAt, Sending
<1>2. wr[w].k \in Nat /\ Len(Payload[w]) \in Nat
  <2>1. w \in DOMAIN Payload
    BY StreamAssumption, Zenon DEF Writers
  <2> QED  BY <1>0, <2>1, WriterType, StreamAssumption, Places, Zenon
<1>3. wr' = [wr EXCEPT ![w] = x]
  BY <1>0 DEF Begin, StreamType
<1>4. x \in [pc : {"idle", "lock"} \cup Sending, k : Nat, sent : Nat,
             at : Conns \cup {0}, fresh : BOOLEAN]
  BY <1>2
<1>5. x.pc = "lock" /\ x.k = wr[w].k + 1 /\ x.sent = 0 /\ x.at = 0
  BY Zenon
<1> HIDE DEF x
<1>6. /\ wr'[w] = x /\ \A v \in Writers : v # w => wr'[v] = wr[v]
      /\ wr' \in [Writers -> [pc : {"idle", "lock"} \cup Sending, k : Nat, sent : Nat,
                              at : Conns \cup {0}, fresh : BOOLEAN]]
  BY <1>0, <1>3, <1>4, WriterSet, Zenon
<1>7. /\ UNCHANGED dir /\ UNCHANGED <<conn, up, pipe, rbuf, peer, dlv, log>> /\ UNCHANGED holder
  BY Zenon DEF Begin
<1>8. Writers' = Writers
  BY <1>7, Zenon DEF Writers
<1>9. StreamType'
  BY <1>0, <1>6, <1>7, OthersType, Zenon
<1>10. LockedAt(w)'
  <2>1. x.k <= Len(Payload[w]) /\ x.k > 0
    BY <1>1, <1>2, <1>5, SMTT(20)
  <2> QED  BY <1>1, <1>5, <1>6, <1>7, <2>1, Zenon DEF LockedAt, Sending
<1>11. Locked'
  BY <1>0, <1>6, <1>7, <1>8, <1>10, KeepLocked, Zenon DEF Locked
<1>12. \A s \in Conns : MidSame(s)
  BY <1>1, <1>6, <1>7, Zenon DEF MidSame, Mid, Msg
<1>13. StreamStep
  BY <1>7, <1>12, IdleStep, Zenon
<1> QED  BY <1>7, <1>9, <1>11, <1>13, Zenon

\* Acquire: it takes send_mutex_ (send_lock).
LEMMA AcquireStep ==
  ASSUME StreamInv, NEW w \in Writers, Acquire(w)
  PROVE  StreamType' /\ Locked' /\ UNCHANGED dir /\ StreamStep
<1> DEFINE x == [wr[w] EXCEPT !.pc = "poll"]
<1>0. StreamType /\ Locked /\ LockedAt(w)
  BY Zenon DEF StreamInv, Locked
<1>1. wr[w].pc = "lock" /\ holder = NoWriter /\ holder' = w
  BY Zenon DEF Acquire
<1>2. wr' = [wr EXCEPT ![w] = x]
  BY <1>0, Zenon DEF Acquire, StreamType
<1>3. x \in [pc : {"idle", "lock"} \cup Sending, k : Nat, sent : Nat,
             at : Conns \cup {0}, fresh : BOOLEAN]
  BY <1>0, Zenon DEF StreamType, Sending
<1>4. x.pc = "poll" /\ x.k = wr[w].k /\ x.sent = wr[w].sent /\ x.at = wr[w].at
  BY <1>0, Zenon DEF StreamType
<1> HIDE DEF x
<1>5. /\ wr'[w] = x /\ \A v \in Writers : v # w => wr'[v] = wr[v]
      /\ wr' \in [Writers -> [pc : {"idle", "lock"} \cup Sending, k : Nat, sent : Nat,
                              at : Conns \cup {0}, fresh : BOOLEAN]]
  BY <1>0, <1>2, <1>3, WriterSet, Zenon
<1>6. UNCHANGED dir /\ UNCHANGED <<conn, up, pipe, rbuf, peer, dlv, log>>
  BY Zenon DEF Acquire
<1>7. Writers' = Writers
  BY <1>6, Zenon DEF Writers
<1>8. StreamType'
  BY <1>0, <1>5, <1>6, OthersType, Zenon
<1>9. wr[w].sent = 0 /\ wr[w].at = 0 /\ wr[w].k > 0 /\ wr[w].k <= Len(Payload[w])
  BY <1>0, <1>1, Zenon DEF LockedAt
<1>10. 0 < Rows(Msg(w)) /\ ~(0 > 0)
  <2>1. Rows(Msg(w)) \in Nat /\ Rows(Msg(w)) >= 4
    BY <1>0, <1>1, BegunMsg, Zenon
  <2> QED  BY <2>1
<1>11. Msg(w)' = Msg(w)
  BY <1>4, <1>5, Zenon DEF Msg
<1>12. LockedAt(w)'
  BY <1>1, <1>4, <1>5, <1>9, <1>10, <1>11, Zenon DEF LockedAt, Sending
<1>13. Locked'
  BY <1>0, <1>1, <1>5, <1>7, <1>12, KeepLocked, NoWriterFacts, Zenon DEF Locked
<1>14. \A s \in Conns : MidSame(s)
  <2>1. \A v \in Writers, s \in Conns : ~Mid(v, s)
    BY <1>1, NoWriterFacts, Zenon DEF Mid
  <2>2. \A v \in Writers, s \in Conns : ~Mid(v, s)'
    BY <1>1, <1>4, <1>5, <1>9, <1>10, Zenon DEF Mid
  <2> QED  BY <2>1, <2>2, NobodySame, Zenon
<1>15. StreamStep
  BY <1>6, <1>14, IdleStep, Zenon
<1> QED  BY <1>6, <1>8, <1>13, <1>15, Zenon

\* Poll: poll() says that the socket is ready.
LEMMA PollStep ==
  ASSUME StreamInv, NEW w \in Writers, Poll(w)
  PROVE  StreamType' /\ Locked' /\ UNCHANGED dir /\ StreamStep
<1> DEFINE x == [wr[w] EXCEPT !.pc = "enter"]
<1>0. StreamType /\ Locked /\ LockedAt(w)
  BY Zenon DEF StreamInv, Locked
<1>1. wr[w].pc = "poll"
  BY Zenon DEF Poll
<1>2. wr' = [wr EXCEPT ![w] = x]
  BY <1>0 DEF Poll, StreamType
<1>3. x \in [pc : {"idle", "lock"} \cup Sending, k : Nat, sent : Nat,
             at : Conns \cup {0}, fresh : BOOLEAN]
  BY <1>0, Zenon DEF StreamType, Sending
<1>4. /\ x.pc = "enter" /\ x.k = wr[w].k /\ x.sent = wr[w].sent /\ x.at = wr[w].at
      /\ x.fresh = wr[w].fresh
  BY <1>0 DEF StreamType
<1> HIDE DEF x
<1>5. /\ wr'[w] = x /\ \A v \in Writers : v # w => wr'[v] = wr[v]
      /\ wr' \in [Writers -> [pc : {"idle", "lock"} \cup Sending, k : Nat, sent : Nat,
                              at : Conns \cup {0}, fresh : BOOLEAN]]
  BY <1>0, <1>2, <1>3, WriterSet, Zenon
<1>6. UNCHANGED dir /\ UNCHANGED <<conn, up, pipe, rbuf, peer, dlv, log>> /\ UNCHANGED holder
  BY Zenon DEF Poll
<1>7. Writers' = Writers
  BY <1>6, Zenon DEF Writers
<1>8. StreamType'
  BY <1>0, <1>5, <1>6, OthersType, Zenon
<1>9. Msg(w)' = Msg(w)
  BY <1>4, <1>5, Zenon DEF Msg
<1>10. LockedAt(w)'
  BY <1>0, <1>1, <1>4, <1>5, <1>6, <1>9, Zenon DEF LockedAt, Sending
<1>11. Locked'
  BY <1>0, <1>5, <1>6, <1>7, <1>10, KeepLocked, Zenon DEF Locked
<1>12. \A s \in Conns : MidSame(s)
  BY <1>4, <1>5, <1>6, Zenon DEF MidSame, Mid, Msg
<1>13. StreamStep
  BY <1>6, <1>12, IdleStep, Zenon
<1> QED  BY <1>6, <1>8, <1>11, <1>13, Zenon

\* The log with its last entry on s marked.
LEMMA TearType ==
  ASSUME StreamInv, NEW w \in Writers, NEW s \in Conns, Mid(w, s)
  PROVE  /\ MarkTorn(log, s) \in [Conns -> Seq(Entries)]
         /\ \A t \in Conns \ {s} : MarkTorn(log, s)[t] = log[t]
<1>1. log \in [Conns -> Seq(Entries)] /\ log[s] # <<>>
  BY Zenon DEF StreamInv, StreamType, ConnInv, Unfinished
<1>2. log[s] \in Seq(Entries) /\ Torn \in Entries
  BY <1>1, Zenon DEF Entries
<1>3. [log[s] EXCEPT ![Len(log[s])] = Torn] \in Seq(Entries)
  <2>1. ASSUME NEW l \in Seq(Entries), l # <<>> PROVE [l EXCEPT ![Len(l)] = Torn] \in Seq(Entries)
    BY <1>2, <2>1
  <2> QED  BY <1>1, <1>2, <2>1, Zenon
<1>4. MarkTorn(log, s) = [log EXCEPT ![s] = [log[s] EXCEPT ![Len(log[s])] = Torn]]
  BY <1>1, Zenon DEF MarkTorn
<1> QED  BY <1>1, <1>3, <1>4, Zenon

\* The log is marked where its writer leaves off, if it has sent something of the
\* message on that connection, and then it is nowhere in a message.
LEMMA LeavesOff ==
  ASSUME StreamInv, NEW w \in Writers, holder = w,
         UNCHANGED <<dir, dlv, rbuf, pipe, peer>>,
         \A v \in Writers, t \in Conns : ~Mid(v, t)',
         log' = IF wr[w].sent > 0 /\ ~wr[w].fresh THEN MarkTorn(log, wr[w].at) ELSE log
  PROVE  StreamStep /\ log' \in [Conns -> Seq(Entries)]
<1>1. log \in [Conns -> Seq(Entries)] /\ wr[w].at \in Conns \cup {0} /\ LockedAt(w)
  BY WriterType, Zenon DEF StreamInv, StreamType, Locked
<1>2. CASE wr[w].sent > 0 /\ ~wr[w].fresh
  <2> DEFINE s == wr[w].at
  <2>1. s \in Conns
    BY <1>1, <1>2, Zenon DEF LockedAt
  <2>2. Mid(w, s) /\ log' = MarkTorn(log, s)
    BY <1>2, Zenon DEF Mid
  <2>3. \A v \in Writers, t \in Conns \ {s} : ~Mid(v, t)
    BY Zenon DEF Mid
  <2> HIDE DEF s
  <2>4. /\ log' \in [Conns -> Seq(Entries)]
        /\ \A t \in Conns \ {s} : log'[t] = log[t]
    BY <2>1, <2>2, TearType, Zenon
  <2>5. Tears(w, s)
    BY <2>2, Zenon DEF Tears
  <2>6. \A t \in Conns \ {s} : Still(t)
    BY <2>3, <2>4, NobodySame, Zenon DEF Still
  <2> QED  BY <2>1, <2>4, <2>5, <2>6, Zenon DEF StreamStep, Torn1
<1>3. CASE ~(wr[w].sent > 0 /\ ~wr[w].fresh)
  <2>1. log' = log
    BY <1>3, Zenon
  <2>2. \A v \in Writers, t \in Conns : ~Mid(v, t)
    BY <1>3, Zenon DEF Mid
  <2>3. \A t \in Conns : MidSame(t)
    BY <2>2, NobodySame, Zenon
  <2> QED  BY <1>1, <2>1, <2>3, IdleStep, Zenon
<1> QED  BY <1>2, <1>3, Zenon

\* Fail: the send returns an error and the lock is released.
LEMMA FailStep ==
  ASSUME StreamInv, NEW w \in Writers, wr[w].pc \in Sending, Fail(w)
  PROVE  StreamType' /\ Locked' /\ UNCHANGED dir /\ StreamStep
<1> DEFINE x == [wr[w] EXCEPT !.pc = "idle"]
<1>0. StreamType /\ Locked /\ LockedAt(w) /\ holder = w
  BY Zenon DEF StreamInv, Locked, LockedAt
<1>1. holder' = NoWriter
  BY Zenon DEF Fail, Return
<1>2. wr' = [wr EXCEPT ![w] = x]
  BY <1>0, Zenon DEF Fail, StreamType
<1>3. x \in [pc : {"idle", "lock"} \cup Sending, k : Nat, sent : Nat,
             at : Conns \cup {0}, fresh : BOOLEAN]
  BY <1>0, Zenon DEF StreamType, Sending
<1>4. x.pc = "idle" /\ x.k = wr[w].k
  BY <1>0, Zenon DEF StreamType
<1> HIDE DEF x
<1>5. /\ wr'[w] = x /\ \A v \in Writers : v # w => wr'[v] = wr[v]
      /\ wr' \in [Writers -> [pc : {"idle", "lock"} \cup Sending, k : Nat, sent : Nat,
                              at : Conns \cup {0}, fresh : BOOLEAN]]
  BY <1>0, <1>2, <1>3, WriterSet, Zenon
<1>6. UNCHANGED dir /\ UNCHANGED <<pipe, rbuf, peer, dlv>>
  BY Zenon DEF Fail
<1>7. Writers' = Writers
  BY <1>6, Zenon DEF Writers
<1>8. conn' \in Conns \cup {0} /\ up' \in BOOLEAN
  BY <1>0, Zenon DEF Fail, Return, StreamType
<1>9. \A v \in Writers, t \in Conns : ~Mid(v, t)'
  BY <1>1, NoWriterFacts, Zenon DEF Mid
<1>10. StreamStep /\ log' \in [Conns -> Seq(Entries)]
  BY <1>0, <1>6, <1>9, LeavesOff, Zenon DEF Fail
<1>11. StreamType'
  BY <1>0, <1>5, <1>6, <1>7, <1>8, <1>10, Zenon DEF StreamType
<1>12. LockedAt(w)'
  BY <1>0, <1>1, <1>4, <1>5, NoWriterFacts, Zenon DEF LockedAt, Sending
<1>13. Locked'
  BY <1>0, <1>1, <1>5, <1>7, <1>12, KeepLocked, NoWriterFacts, Zenon DEF Locked
<1> QED  BY <1>6, <1>10, <1>11, <1>13, Zenon

\* Enter: send() looks the socket up, which may be another one by now.
LEMMA EnterStep ==
  ASSUME StreamInv, NEW w \in Writers, Enter(w)
  PROVE  StreamType' /\ Locked' /\ UNCHANGED dir /\ StreamStep
<1>0. StreamType /\ Locked /\ LockedAt(w) /\ wr[w].pc = "enter" /\ conn \in Conns \cup {0}
  BY Zenon DEF StreamInv, Locked, StreamType, Enter
<1>1. wr[w].pc \in Sending /\ holder = w
  BY <1>0, Zenon DEF Sending, LockedAt
<1>2. CASE conn = 0
  BY <1>1, <1>2, FailStep, Zenon DEF Enter
<1>3. CASE conn # 0
  <2> DEFINE x == [wr[w] EXCEPT !.pc = "send", !.at = conn, !.fresh = wr[w].at # conn \/ @]
  <2>1. wr' = [wr EXCEPT ![w] = x]
    BY <1>0, <1>3, Zenon DEF Enter, StreamType
  <2>2. x \in [pc : {"idle", "lock"} \cup Sending, k : Nat, sent : Nat,
               at : Conns \cup {0}, fresh : BOOLEAN]
    BY <1>0, ZenonT(30) DEF StreamType, Sending
  <2>3. /\ x.pc = "send" /\ x.k = wr[w].k /\ x.sent = wr[w].sent /\ x.at = conn
        /\ x.fresh = (wr[w].at # conn \/ wr[w].fresh)
    BY <1>0 DEF StreamType
  <2> HIDE DEF x
  <2>4. /\ wr'[w] = x /\ \A v \in Writers : v # w => wr'[v] = wr[v]
        /\ wr' \in [Writers -> [pc : {"idle", "lock"} \cup Sending, k : Nat, sent : Nat,
                                at : Conns \cup {0}, fresh : BOOLEAN]]
    BY <1>0, <2>1, <2>2, WriterSet, Zenon
  <2>5. UNCHANGED dir /\ UNCHANGED <<pipe, rbuf, peer, dlv>> /\ UNCHANGED <<conn, up, holder>>
    BY <1>3, Zenon DEF Enter
  <2>6. Writers' = Writers
    BY <2>5, Zenon DEF Writers
  <2>7. Msg(w)' = Msg(w)
    BY <2>3, <2>4, Zenon DEF Msg
  <2>8. StreamStep /\ log' \in [Conns -> Seq(Entries)]
    <3>1. CASE wr[w].at # conn \/ ~(wr[w].sent > 0 /\ ~wr[w].fresh)
      <4>1. \A v \in Writers, t \in Conns : ~Mid(v, t)'
        BY <1>1, <2>3, <2>4, <2>5, <3>1, Zenon DEF Mid
      <4>2. log' = IF wr[w].sent > 0 /\ ~wr[w].fresh THEN MarkTorn(log, wr[w].at) ELSE log
        BY <1>3, <3>1, Zenon DEF Enter
      <4> QED  BY <1>1, <2>5, <4>1, <4>2, LeavesOff, Zenon
    <3>2. CASE wr[w].at = conn
      <4>1. log' = log /\ log \in [Conns -> Seq(Entries)]
        BY <1>0, <1>3, <3>2, Zenon DEF Enter, StreamType
      <4>2. \A t \in Conns : MidSame(t)
        BY <2>3, <2>4, <2>5, <2>7, <3>2, Zenon DEF MidSame, Mid, Msg
      <4> QED  BY <2>5, <4>1, <4>2, IdleStep, Zenon
    <3> QED  BY <3>1, <3>2, Zenon
  <2>9. StreamType'
    BY <1>0, <2>4, <2>5, <2>6, <2>8, Zenon DEF StreamType
  <2>10. LockedAt(w)'
    BY <1>0, <1>1, <1>3, <2>3, <2>4, <2>5, <2>7, Zenon DEF LockedAt, Sending
  <2>11. Locked'
    BY <1>0, <2>4, <2>5, <2>6, <2>10, KeepLocked, Zenon DEF Locked
  <2> QED  BY <2>5, <2>8, <2>9, <2>11, Zenon
<1> QED  BY <1>2, <1>3, Zenon

\* Send: the kernel takes a row.
LEMMA SendStep ==
  ASSUME StreamInv, NEW w \in Writers, Send(w)
  PROVE  StreamType' /\ Locked' /\ UNCHANGED dir /\ StreamStep
<1> DEFINE s == wr[w].at
<1> DEFINE n == wr[w].sent + 1
<1>0. StreamType /\ Locked /\ LockedAt(w) /\ wr[w].pc = "send"
  BY Zenon DEF StreamInv, Locked, Send
<1>1. holder = w /\ s \in Conns
  BY <1>0, WriterType, Zenon DEF LockedAt, Sending
<1>2. /\ Msg(w) \in Msgs /\ Rows(Msg(w)) \in Nat
      /\ wr[w].sent \in Nat /\ wr[w].sent < Rows(Msg(w)) /\ NextRow(w) \in RowSet
  BY <1>0, <1>1, HolderMsg, Zenon DEF NextRow
<1>3. n \in Nat /\ n > 0 /\ (n = 1 <=> wr[w].sent = 0) /\ (n # Rows(Msg(w)) => n < Rows(Msg(w)))
  <2>1. \A a, b \in Nat : a < b => a + 1 \in Nat /\ a + 1 > 0 /\ (a + 1 = 1 <=> a = 0)
                                   /\ (a + 1 # b => a + 1 < b)
    OBVIOUS
  <2> QED  BY <1>2, <2>1, Zenon
<1>4. PICK p \in {"send", "poll", "idle"} :
        /\ p = "idle" <=> n = Rows(Msg(w))
        /\ wr' = [wr EXCEPT ![w].pc = p, ![w].sent = n, ![w].fresh = FALSE]
        /\ IF p = "idle" THEN Return(w, TRUE) ELSE UNCHANGED <<holder, up, conn>>
  BY Zenon DEF Send
<1>5. /\ UNCHANGED dir /\ UNCHANGED <<peer, rbuf, dlv>>
      /\ pipe' = [pipe EXCEPT ![s] = Append(pipe[s], NextRow(w))]
  BY <1>0, Zenon DEF Send, NextRow, StreamType
<1>6. /\ wr[w].fresh => log' = [log EXCEPT ![s] = Append(log[s], NewEntry(w))]
      /\ ~wr[w].fresh => log' = log
  BY <1>0, <1>3, Zenon DEF Send, NewEntry, StreamType
<1> DEFINE x == [wr[w] EXCEPT !.pc = p, !.sent = n, !.fresh = FALSE]
<1>7. x \in [pc : {"idle", "lock"} \cup Sending, k : Nat, sent : Nat,
             at : Conns \cup {0}, fresh : BOOLEAN]
  BY <1>0, <1>3, ZenonT(30) DEF StreamType, Sending
<1>8. x.pc = p /\ x.k = wr[w].k /\ x.sent = n /\ x.at = s /\ x.fresh = FALSE
  BY <1>0, Zenon DEF StreamType
<1>9. wr' = [wr EXCEPT ![w] = x]
  BY <1>0, <1>4, Zenon DEF StreamType
<1> HIDE DEF x
<1>10. /\ wr'[w] = x /\ \A v \in Writers : v # w => wr'[v] = wr[v]
       /\ wr' \in [Writers -> [pc : {"idle", "lock"} \cup Sending, k : Nat, sent : Nat,
                               at : Conns \cup {0}, fresh : BOOLEAN]]
  BY <1>0, <1>7, <1>9, WriterSet, Zenon
<1>11. Writers' = Writers /\ Msg(w)' = Msg(w)
  BY <1>5, <1>8, <1>10, Zenon DEF Writers, Msg
<1>12. /\ holder' = (IF p = "idle" THEN NoWriter ELSE w)
       /\ conn' \in Conns \cup {0} /\ up' \in BOOLEAN
  BY <1>0, <1>1, <1>4, Zenon DEF Return, StreamType
<1>13. pipe' \in [Conns -> Seq(RowSet)] /\ log' \in [Conns -> Seq(Entries)]
  <2>1. pipe \in [Conns -> Seq(RowSet)] /\ log \in [Conns -> Seq(Entries)]
    BY <1>0, Zenon DEF StreamType
  <2>2. NewEntry(w) \in Entries
    BY <1>2, Zenon DEF NewEntry, Entries
  <2>3. Append(pipe[s], NextRow(w)) \in Seq(RowSet) /\ Append(log[s], NewEntry(w)) \in Seq(Entries)
    <3>1. \A a \in Seq(RowSet), u \in RowSet : Append(a, u) \in Seq(RowSet)
      OBVIOUS
    <3>2. \A a \in Seq(Entries), u \in Entries : Append(a, u) \in Seq(Entries)
      OBVIOUS
    <3> QED  BY <1>1, <1>2, <2>1, <2>2, <3>1, <3>2, Zenon
  <2> QED  BY <1>1, <1>5, <1>6, <2>1, <2>3, Zenon
<1>14. StreamType'
  BY <1>0, <1>5, <1>10, <1>11, <1>12, <1>13, Zenon DEF StreamType
<1>15. LockedAt(w)'
  <2>1. CASE p = "idle"
    BY <1>0, <1>8, <1>10, <1>12, <2>1, NoWriterFacts, Zenon DEF LockedAt, Sending
  <2>2. CASE p # "idle"
    <3>1. /\ wr'[w].pc \in Sending /\ wr'[w].pc # "lock" /\ holder' = w
          /\ wr'[w].sent < Rows(Msg(w)) /\ wr'[w].sent > 0
      BY <1>3, <1>4, <1>8, <1>10, <1>12, <2>2, Zenon DEF Sending
    <3>2. wr'[w].at # 0 /\ wr'[w].k = wr[w].k
      BY <1>1, <1>8, <1>10, ConnFacts, Zenon
    <3> QED  BY <1>0, <1>11, <3>1, <3>2, Zenon DEF LockedAt
  <2> QED  BY <2>1, <2>2, Zenon
<1>16. Locked'
  <2>1. \A v \in Writers : v # w => (holder' = v <=> holder = v)
    BY <1>1, <1>12, NoWriterFacts, Zenon
  <2> QED  BY <1>0, <1>10, <1>11, <1>15, <2>1, KeepLocked, Zenon DEF Locked
<1>17. Sends(w, s)
  <2>1. pipe'[s] = Append(pipe[s], NextRow(w))
    BY <1>0, <1>1, <1>5, Zenon DEF StreamType
  <2>2. log'[s] = IF wr[w].fresh THEN Append(log[s], NewEntry(w)) ELSE log[s]
    BY <1>0, <1>1, <1>6, Zenon DEF StreamType
  <2>3. \A v \in Writers : Mid(v, s)' <=> v = w /\ n # Rows(Msg(w))
    BY <1>3, <1>4, <1>8, <1>10, <1>12, NoWriterFacts, Zenon DEF Mid
  <2> QED  BY <1>0, <1>1, <1>5, <1>8, <1>10, <1>11, <2>1, <2>2, <2>3, Zenon DEF Sends
<1>18. log' = [log EXCEPT ![s] = log'[s]]
  BY <1>0, <1>1, <1>6, Zenon DEF StreamType
<1>19. ASSUME NEW t \in Conns \ {s} PROVE Still(t)
  <2>1. log'[t] = log[t] /\ pipe'[t] = pipe[t]
    BY <1>0, <1>5, <1>6, <1>19, Zenon DEF StreamType
  <2>2. \A v \in Writers : ~Mid(v, t) /\ ~Mid(v, t)'
    BY <1>1, <1>8, <1>10, <1>12, <1>19, NoWriterFacts, Zenon DEF Mid
  <2> QED  BY <1>5, <2>1, <2>2, NobodySame, Zenon DEF Still
<1> HIDE DEF s
<1>20. Sent1(w, s)
  BY <1>5, <1>17, <1>18, <1>19, Zenon DEF Sent1
<1> QED  BY <1>1, <1>5, <1>14, <1>16, <1>20, Zenon DEF StreamStep

\* With the writers, the lock and the direction as they were the lock's
\* invariant is kept and every writer is where it was.
LEMMA SameWriters ==
  ASSUME Locked, UNCHANGED <<dir, holder, wr>>
  PROVE  Locked' /\ Writers' = Writers /\ \A s \in Conns : MidSame(s)
<1>1. Writers' = Writers
  BY Zenon DEF Writers
<1>2. Locked'
  BY <1>1, KeepLocked, Zenon DEF Locked
<1>3. \A s \in Conns : MidSame(s)
  BY Zenon DEF MidSame, Mid, Msg
<1> QED  BY <1>1, <1>2, <1>3, Zenon

\* The IO thread and the device change only what they know of the connection.
LEMMA IoStep ==
  ASSUME StreamInv, (\E s \in Conns : IoAccept(s)) \/ IoDrop \/ Eof
  PROVE  StreamType' /\ Locked' /\ UNCHANGED dir /\ StreamStep
<1>0. StreamType /\ Locked
  BY Zenon DEF StreamInv
<1>1. UNCHANGED dir /\ UNCHANGED <<holder, wr>> /\ UNCHANGED <<pipe, rbuf, dlv, log>>
  BY Zenon DEF IoAccept, IoDrop, Eof
<1>2. conn' \in Conns \cup {0} /\ up' \in BOOLEAN
  BY <1>0, Zenon DEF IoAccept, IoDrop, Eof, StreamType
<1>3. /\ peer' \in [Conns -> {"none", "open", "closed"}]
      /\ \A s \in Conns : peer[s] = "closed" => peer'[s] = "closed"
  <2>1. peer \in [Conns -> {"none", "open", "closed"}]
    BY <1>0, Zenon DEF StreamType
  <2>2. ASSUME NEW r \in Conns, IoAccept(r)
        PROVE  /\ peer' \in [Conns -> {"none", "open", "closed"}]
               /\ \A s \in Conns : peer[s] = "closed" => peer'[s] = "closed"
    BY <2>1, <2>2, Zenon DEF IoAccept
  <2>3. CASE IoDrop \/ Eof
    BY <2>1, <2>3, Zenon DEF IoDrop, Eof
  <2> QED  BY <2>2, <2>3, Zenon
<1>4. Locked' /\ Writers' = Writers /\ \A s \in Conns : MidSame(s)
  BY <1>0, <1>1, SameWriters, Zenon
<1>5. StreamType'
  BY <1>0, <1>1, <1>2, <1>3, <1>4, Zenon DEF StreamType
<1>6. StreamStep
  BY <1>1, <1>3, <1>4, IdleStep, Zenon
<1> QED  BY <1>1, <1>4, <1>5, <1>6, Zenon

\* A reader that hangs up: its connection is of no account any more.
LEMMA HangupStep ==
  ASSUME StreamInv, NEW s \in Conns, Hangup(s), UNCHANGED <<dir, conn, up, holder, wr, log>>,
         pipe' \in [Conns -> Seq(RowSet)], \A t \in Conns \ {s} : pipe'[t] = pipe[t]
  PROVE  StreamType' /\ Locked' /\ UNCHANGED dir /\ StreamStep
<1>0. StreamType /\ Locked /\ <<>> \in Seq(RowSet)
  <2>1. <<>> \in Seq(RowSet)
    OBVIOUS
  <2> QED  BY <2>1, Zenon DEF StreamInv
<1>1. Locked' /\ Writers' = Writers /\ \A t \in Conns : MidSame(t)
  BY <1>0, SameWriters, Zenon
<1>2. /\ peer' \in [Conns -> {"none", "open", "closed"}] /\ rbuf' \in [Conns -> Seq(RowSet)]
      /\ peer'[s] = "closed" /\ \A t \in Conns \ {s} : peer'[t] = peer[t] /\ rbuf'[t] = rbuf[t]
      /\ UNCHANGED dlv
  BY <1>0, Zenon DEF Hangup, StreamType
<1>3. StreamType'
  BY <1>0, <1>1, <1>2, Zenon DEF StreamType
<1>4. \A t \in Conns : Still(t)
  BY <1>1, <1>2, Zenon DEF Still
<1> QED  BY <1>1, <1>2, <1>3, <1>4, Zenon DEF StreamStep, Idles

\* Leave.
LEMMA LeaveStep ==
  ASSUME StreamInv, NEW s \in Conns, Leave(s)
  PROVE  StreamType' /\ Locked' /\ UNCHANGED dir /\ StreamStep
BY HangupStep, Zenon DEF Leave, StreamInv, StreamType

\* Recv: the reader takes a row, and hangs up, delivers or reads on.
LEMMA RecvStep ==
  ASSUME StreamInv, NEW s \in Conns, Recv(s)
  PROVE  StreamType' /\ Locked' /\ UNCHANGED dir /\ StreamStep
<1>0. StreamType /\ Locked /\ peer[s] = "open" /\ pipe[s] # <<>>
  BY Zenon DEF StreamInv, Recv
<1>1. UNCHANGED <<dir, conn, up, holder, wr, log>>
  BY Zenon DEF Recv
<1>2. Locked' /\ Writers' = Writers /\ \A t \in Conns : MidSame(t)
  BY <1>0, <1>1, SameWriters, Zenon
<1>3. /\ pipe[s] \in Seq(RowSet) /\ rbuf[s] \in Seq(RowSet) /\ dlv[s] \in Seq(Msgs \cup {Junk})
      /\ Tail(pipe[s]) \in Seq(RowSet) /\ Taken(s) \in Seq(RowSet) /\ <<>> \in Seq(RowSet)
  <2>1. pipe[s] \in Seq(RowSet) /\ rbuf[s] \in Seq(RowSet) /\ dlv[s] \in Seq(Msgs \cup {Junk})
    BY <1>0, Zenon DEF StreamType
  <2>2. \A a, b \in Seq(RowSet) : b # <<>> => /\ Tail(b) \in Seq(RowSet)
                                             /\ Append(a, Head(b)) \in Seq(RowSet)
    OBVIOUS
  <2>3. <<>> \in Seq(RowSet)
    OBVIOUS
  <2> QED  BY <1>0, <2>1, <2>2, <2>3, Zenon DEF Taken
<1>4. /\ pipe' = [pipe EXCEPT ![s] = Tail(pipe[s])]
      /\ pipe' \in [Conns -> Seq(RowSet)] /\ pipe'[s] = Tail(pipe[s])
      /\ \A t \in Conns \ {s} : pipe'[t] = pipe[t]
  BY <1>0, <1>3, Zenon DEF Recv, StreamType
<1>5. CASE Len(Taken(s)) = 4 /\ ~HeaderOk(Taken(s))
  <2>1. Hangup(s)
    BY <1>5, Zenon DEF Recv, Taken
  <2> QED  BY <1>1, <1>4, <2>1, HangupStep, Zenon
<1>6. CASE ~(Len(Taken(s)) = 4 /\ ~HeaderOk(Taken(s))) /\ Whole(Taken(s))
  <2> DEFINE m == Decoded(Taken(s))
  <2>1. /\ dlv' = [dlv EXCEPT ![s] = Append(dlv[s], m)]
        /\ rbuf' = [rbuf EXCEPT ![s] = <<>>] /\ UNCHANGED peer
    BY <1>0, <1>6, Zenon DEF Recv, Taken, StreamType
  <2>2. Append(dlv[s], m) \in Seq(Msgs \cup {Junk})
    <3>1. m \in Msgs \cup {Junk}
      BY <1>3, <1>6, ReadsAny, Zenon
    <3>2. \A a \in Seq(Msgs \cup {Junk}), u \in Msgs \cup {Junk} :
            Append(a, u) \in Seq(Msgs \cup {Junk})
      OBVIOUS
    <3> QED  BY <1>3, <3>1, <3>2, Zenon
  <2> HIDE DEF m
  <2>3. /\ dlv' \in [Conns -> Seq(Msgs \cup {Junk})] /\ rbuf' \in [Conns -> Seq(RowSet)]
        /\ dlv'[s] = Append(dlv[s], m) /\ rbuf'[s] = <<>>
        /\ \A t \in Conns \ {s} : dlv'[t] = dlv[t] /\ rbuf'[t] = rbuf[t]
    BY <1>0, <1>3, <2>1, <2>2, Zenon DEF StreamType
  <2>4. dlv' = [dlv EXCEPT ![s] = dlv'[s]]
    BY <2>1, <2>3, Zenon
  <2>5. StreamType'
    BY <1>0, <1>1, <1>2, <1>4, <2>1, <2>3, Zenon DEF StreamType
  <2>6. Delivers(s)
    BY <1>0, <1>1, <1>2, <1>4, <1>6, <2>1, <2>3, Zenon DEF Delivers, Takes, m
  <2>7. \A t \in Conns \ {s} : Still(t)
    BY <1>1, <1>2, <1>4, <2>1, <2>3, Zenon DEF Still
  <2>8. Took1(s)
    BY <1>1, <2>4, <2>6, <2>7, Zenon DEF Took1
  <2> QED  BY <1>1, <1>2, <2>5, <2>8, Zenon DEF StreamStep
<1>7. CASE ~(Len(Taken(s)) = 4 /\ ~HeaderOk(Taken(s))) /\ ~Whole(Taken(s))
  <2>1. rbuf' = [rbuf EXCEPT ![s] = Taken(s)] /\ UNCHANGED <<peer, dlv>>
    BY <1>7, Zenon DEF Recv, Taken
  <2>2. /\ rbuf' \in [Conns -> Seq(RowSet)] /\ rbuf'[s] = Taken(s)
        /\ \A t \in Conns \ {s} : rbuf'[t] = rbuf[t]
    BY <1>0, <1>3, <2>1, Zenon DEF StreamType
  <2>3. StreamType'
    BY <1>0, <1>1, <1>2, <1>4, <2>1, <2>2, Zenon DEF StreamType
  <2>4. Takes(s)
    BY <1>0, <1>1, <1>2, <1>4, <1>7, <2>1, Zenon DEF Takes
  <2>5. \A t \in Conns \ {s} : Still(t)
    BY <1>1, <1>2, <1>4, <2>1, <2>2, Zenon DEF Still
  <2>6. Took1(s)
    BY <1>1, <1>7, <2>1, <2>2, <2>4, <2>5, Zenon DEF Took1
  <2> QED  BY <1>1, <1>2, <2>3, <2>6, Zenon DEF StreamStep
<1> QED  BY <1>5, <1>6, <1>7, Zenon

-----------------------------------------------------------------------------
(* The invariant.                                                          *)

\* Every step of the stream, and a stuttering one, is one of the four kinds.
LEMMA NextStep ==
  ASSUME StreamInv, [Next]_vars
  PROVE  StreamType' /\ Locked' /\ UNCHANGED dir /\ StreamStep
<1>1. ASSUME NEW w \in Writers, Begin(w) \/ Writer(w)
      PROVE  StreamType' /\ Locked' /\ UNCHANGED dir /\ StreamStep
  <2>1. CASE Begin(w)  BY <2>1, BeginStep, Zenon
  <2>2. CASE Acquire(w)  BY <2>2, AcquireStep, Zenon
  <2>3. CASE Poll(w)  BY <2>3, PollStep, Zenon
  <2>4. CASE PollTimeout(w)  BY <2>4, FailStep, Zenon DEF PollTimeout, Sending
  <2>5. CASE Enter(w)  BY <2>5, EnterStep, Zenon
  <2>6. CASE Send(w)  BY <2>6, SendStep, Zenon
  <2>7. CASE SendBroken(w)  BY <2>7, FailStep, Zenon DEF SendBroken, Sending
  <2> QED  BY <1>1, <2>1, <2>2, <2>3, <2>4, <2>5, <2>6, <2>7, Zenon DEF Writer
<1>2. ASSUME NEW s \in Conns, Recv(s) \/ Leave(s)
      PROVE  StreamType' /\ Locked' /\ UNCHANGED dir /\ StreamStep
  BY <1>2, RecvStep, LeaveStep, Zenon
<1>3. CASE (\E s \in Conns : IoAccept(s)) \/ IoDrop \/ Eof
  BY <1>3, IoStep, Zenon
<1>4. CASE UNCHANGED vars
  <2>1. /\ UNCHANGED dir /\ UNCHANGED <<holder, wr>> /\ UNCHANGED <<conn, up>>
        /\ UNCHANGED <<pipe, rbuf, peer, dlv, log>> /\ StreamType /\ Locked
    BY <1>4, Zenon DEF vars, StreamInv
  <2>2. Locked' /\ Writers' = Writers /\ \A s \in Conns : MidSame(s)
    BY <2>1, SameWriters, Zenon
  <2>3. StreamType'
    BY <2>1, <2>2, Zenon DEF StreamType
  <2> QED  BY <2>1, <2>2, <2>3, IdleStep, Zenon
<1> QED  BY <1>1, <1>2, <1>3, <1>4, Zenon DEF Next

\* A step of one of the four kinds keeps what is known of each connection.
LEMMA ConnStep ==
  ASSUME StreamInv, UNCHANGED dir, StreamStep, NEW t \in Conns
  PROVE  ConnInv(t)'
<1>0. StreamType /\ Locked /\ ConnInv(t)
  BY Zenon DEF StreamInv
<1>1. CASE Idles
  BY <1>0, <1>1, StillConn, Zenon DEF Idles
<1>2. ASSUME NEW w \in Writers, NEW s \in Conns, Torn1(w, s) PROVE ConnInv(t)'
  BY <1>0, <1>2, StillConn, TornConn, Zenon DEF Torn1
<1>3. ASSUME NEW w \in Writers, NEW s \in Conns, Sent1(w, s) PROVE ConnInv(t)'
  BY <1>0, <1>3, StillConn, SendConn, Zenon DEF Sent1
<1>4. ASSUME NEW s \in Conns, Took1(s) PROVE ConnInv(t)'
  <2>1. CASE t # s
    BY <1>0, <1>4, <2>1, StillConn, Zenon DEF Took1
  <2>2. CASE t = s
    BY <1>0, <1>4, <2>2, TakeConn, DeliverConn, Zenon DEF Took1
  <2> QED  BY <2>1, <2>2, Zenon
<1> QED  BY <1>1, <1>2, <1>3, <1>4, Zenon DEF StreamStep

\* At the start nothing is sent.
LEMMA StreamInit == Init => StreamInv
<1> SUFFICES ASSUME Init PROVE StreamInv
  OBVIOUS
<1>1. holder = NoWriter /\ \A w \in Writers : wr[w] =
        [pc |-> "idle", k |-> 0, sent |-> 0, at |-> 0, fresh |-> FALSE]
  BY Zenon DEF Init
<1>2. StreamType
  <2>1. [pc |-> "idle", k |-> 0, sent |-> 0, at |-> 0, fresh |-> FALSE]
          \in [pc : {"idle", "lock"} \cup Sending, k : Nat, sent : Nat,
               at : Conns \cup {0}, fresh : BOOLEAN]
    BY Zenon
  <2>2. wr \in [Writers -> [pc : {"idle", "lock"} \cup Sending, k : Nat, sent : Nat,
                            at : Conns \cup {0}, fresh : BOOLEAN]]
    BY <2>1, Zenon DEF Init
  <2>3. /\ <<>> \in Seq(RowSet) /\ <<>> \in Seq(Msgs \cup {Junk}) /\ <<>> \in Seq(Entries)
    OBVIOUS
  <2>4. dir \in {"toQemu", "toServer"} /\ conn \in Conns \cup {0} /\ up \in BOOLEAN
    BY ConnFacts, Zenon DEF Init
  <2>5. /\ pipe \in [Conns -> Seq(RowSet)] /\ rbuf \in [Conns -> Seq(RowSet)]
        /\ dlv \in [Conns -> Seq(Msgs \cup {Junk})] /\ log \in [Conns -> Seq(Entries)]
    BY <2>3, Zenon DEF Init
  <2>6. peer \in [Conns -> {"none", "open", "closed"}]
    BY Zenon DEF Init
  <2> QED  BY <2>2, <2>4, <2>5, <2>6, Zenon DEF StreamType
<1>3. ASSUME NEW w \in Writers PROVE LockedAt(w)
  <2>1. wr[w].pc = "idle" /\ wr[w].k = 0
    BY <1>1
  <2>a. holder # w
    BY <1>1, <1>3, NoWriterFacts, Zenon
  <2>2. 0 <= Len(Payload[w])
    <3>1. w \in DOMAIN Payload
      BY StreamAssumption, Zenon DEF Writers
    <3>2. Payload[w] \in Seq(Nat)
      BY <3>1, StreamAssumption, Zenon
    <3> QED  BY <3>2
  <2> QED  BY <2>1, <2>a, <2>2, Zenon DEF LockedAt, Sending
<1>4. ASSUME NEW s \in Conns PROVE ConnInv(s)
  <2>1. log[s] = <<>> /\ dlv[s] = <<>> /\ rbuf[s] = <<>> /\ pipe[s] = <<>>
    BY Zenon DEF Init
  <2>2. \A w \in Writers : ~Mid(w, s)
    BY <1>1, NoWriterFacts, Zenon DEF Mid
  <2>3. Place(<<>>, 0, 0) /\ Len(<<>>) = 0
    BY DEF Place
  <2>4. Placed(s)
    BY <2>1, <2>3, Zenon DEF Placed, Place
  <2>5. Flow(<<>>, <<>>) = <<>> /\ DOMAIN <<>> = {}
    BY DEF Flow
  <2>6. Tracks(<<>>, <<>>, <<>>, 0) /\ Reads(<<>>, <<>>, <<>>, 0, 0)
    BY DEF Tracks, Reads
  <2>7. <<>> \in [DOMAIN <<>> -> DOMAIN <<>>]
    BY <2>6, Zenon DEF Tracks
  <2>8. Tracked(s)
    BY <2>1, <2>3, <2>5, <2>6, <2>7, Zenon DEF Tracked, Ends
  <2> QED  BY <2>2, <2>4, <2>8, Zenon DEF ConnInv, Unfinished
<1> QED  BY <1>2, <1>3, <1>4, Zenon DEF StreamInv, Locked

\* The lock is held for the length of a message, and what the reader has and the
\* kernel holds are the rows of the messages still to be delivered, in order, on
\* every connection whose reader is in step (mics_send, SendAll, RecvAll).
THEOREM StreamInvHolds == Spec => []StreamInv
<1>1. Init => StreamInv
  BY StreamInit, Zenon
<1>2. StreamInv /\ [Next]_vars => StreamInv'
  <2> SUFFICES ASSUME StreamInv, [Next]_vars PROVE StreamInv'
    BY Zenon
  <2>1. StreamType' /\ Locked' /\ UNCHANGED dir /\ StreamStep
    BY NextStep, Zenon
  <2>2. \A t \in Conns : ConnInv(t)'
    BY <2>1, ConnStep, Zenon
  <2> QED  BY <2>1, <2>2, Zenon DEF StreamInv
<1> QED  BY <1>1, <1>2, PTL DEF Spec

-----------------------------------------------------------------------------
(* The refinement.                                                         *)

\* The queue of one connection is replaced by another one.
LEMMA QueueSet ==
  ASSUME NEW s \in Conns, NEW y, Left(log'[s], dlv'[s]) = y,
         \A t \in Conns \ {s} : Left(log'[t], dlv'[t]) = Left(log[t], dlv[t])
  PROVE  Queue' = [Queue EXCEPT ![s] = y]
<1>1. Queue' = [t \in Conns |-> Left(log'[t], dlv'[t])]
  BY Zenon DEF Queue
<1>2. Queue = [t \in Conns |-> Left(log[t], dlv[t])]
  BY Zenon DEF Queue
<1> QED  BY <1>1, <1>2, Zenon

\* A step of one of the four kinds is a step of the channel, or none.
LEMMA ChannelStep ==
  ASSUME StreamInv, UNCHANGED dir, StreamStep
  PROVE  [Channel!Next]_<<Queue, dlv>>
<1>0. StreamType /\ Locked /\ \A s \in Conns : ConnInv(s)
  BY Zenon DEF StreamInv
<1>1. Queue = [t \in Conns |-> Left(log[t], dlv[t])]
  BY Zenon DEF Queue
<1>2. CASE Idles
  BY <1>2, Zenon DEF Idles, Queue
<1>3. ASSUME NEW w \in Writers, NEW s \in Conns, Torn1(w, s) PROVE Channel!Tear(s)
  <2> DEFINE b == Left(log[s], dlv[s])
  <2>1. b # <<>> /\ Left(log'[s], dlv'[s]) = [b EXCEPT ![Len(b)] = Torn] /\ UNCHANGED dlv
    BY <1>0, <1>3, TornConn, Zenon DEF Torn1, Tears
  <2>2. \A t \in Conns \ {s} : Left(log'[t], dlv'[t]) = Left(log[t], dlv[t])
    BY <1>3, Zenon DEF Torn1, Still
  <2>3. Queue' = [Queue EXCEPT ![s] = [b EXCEPT ![Len(b)] = Torn]]
    BY <2>1, <2>2, QueueSet, Zenon
  <2>4. Queue[s] = b
    BY <1>1, Zenon
  <2> HIDE DEF b
  <2>5. Queue' = [Queue EXCEPT ![s][Len(Queue[s])] = Torn]
    BY <2>3, <2>4, Zenon
  <2> QED  BY <2>1, <2>4, <2>5, Zenon DEF Channel!Tear
<1>4. ASSUME NEW w \in Writers, NEW s \in Conns, Sent1(w, s)
      PROVE  Channel!Put(s) \/ UNCHANGED <<Queue, dlv>>
  <2> DEFINE b == Left(log[s], dlv[s])
  <2>1. \A t \in Conns \ {s} : Left(log'[t], dlv'[t]) = Left(log[t], dlv[t])
    BY <1>4, Zenon DEF Sent1, Still
  <2>2. UNCHANGED dlv
    BY <1>4, Zenon DEF Sent1
  <2>3. Queue[s] = b
    BY <1>1, Zenon
  <2>4. CASE wr[w].fresh
    <3>1. NewEntry(w) \in Msgs \cup {Stray} /\ Left(log'[s], dlv'[s]) = Append(b, NewEntry(w))
      BY <1>0, <1>4, <2>4, SendConn, Zenon DEF Sent1
    <3>2. Queue' = [Queue EXCEPT ![s] = Append(b, NewEntry(w))]
      BY <2>1, <3>1, QueueSet, Zenon
    <3> QED  BY <2>2, <2>3, <3>1, <3>2, Zenon DEF Channel!Put
  <2>5. CASE ~wr[w].fresh
    <3>1. Left(log'[s], dlv'[s]) = b
      BY <1>0, <1>4, <2>5, SendConn, Zenon DEF Sent1
    <3>2. \A t \in Conns : Left(log'[t], dlv'[t]) = Left(log[t], dlv[t])
      BY <2>1, <3>1, Zenon
    <3> QED  BY <2>2, <3>2, Zenon DEF Queue
  <2> QED  BY <2>4, <2>5, Zenon
<1>5. ASSUME NEW s \in Conns, Took1(s)
      PROVE  Channel!Get(s) \/ Channel!Misread(s) \/ UNCHANGED <<Queue, dlv>>
  <2> DEFINE b == Left(log[s], dlv[s])
  <2>1. \A t \in Conns \ {s} : Left(log'[t], dlv'[t]) = Left(log[t], dlv[t])
    BY <1>5, Zenon DEF Took1, Still
  <2>2. Queue[s] = b
    BY <1>1, Zenon
  <2>3. CASE UNCHANGED dlv
    BY <1>5, <2>3, Zenon DEF Took1, Queue
  <2>4. CASE Delivers(s) /\ dlv' = [dlv EXCEPT ![s] = dlv'[s]]
    <3>1. Gets(s) \/ Misreads(s)
      BY <1>0, <2>4, DeliverConn, Zenon
    <3>2. CASE Gets(s)
      <4>1. /\ b # <<>> /\ Head(b) \in Msgs /\ dlv'[s] = Append(dlv[s], Head(b))
            /\ Left(log'[s], dlv'[s]) = Tail(b)
        BY <3>2, Zenon DEF Gets
      <4>2. Queue' = [Queue EXCEPT ![s] = Tail(b)]
        BY <2>1, <4>1, QueueSet, Zenon
      <4>3. dlv' = [dlv EXCEPT ![s] = Append(dlv[s], Head(b))]
        BY <2>4, <4>1, Zenon
      <4> HIDE DEF b
      <4> QED  BY <2>2, <4>1, <4>2, <4>3, Zenon DEF Channel!Get
    <3>3. CASE Misreads(s)
      <4>1. b # <<>> /\ Head(b) = Torn /\ Left(log'[s], dlv'[s]) = b
        BY <3>3, Zenon DEF Misreads
      <4>2. PICK m \in Msgs \cup {Junk} : dlv'[s] = Append(dlv[s], m)
        BY <3>3, Zenon DEF Misreads
      <4>3. dlv' = [dlv EXCEPT ![s] = Append(dlv[s], m)]
        BY <2>4, <4>2, Zenon
      <4>4. \A t \in Conns : Left(log'[t], dlv'[t]) = Left(log[t], dlv[t])
        BY <2>1, <4>1, Zenon
      <4>5. Queue' = Queue
        BY <4>4, Zenon DEF Queue
      <4> HIDE DEF b
      <4> QED  BY <2>2, <4>1, <4>3, <4>5, Zenon DEF Channel!Misread
    <3> QED  BY <3>1, <3>2, <3>3, Zenon
  <2> QED  BY <1>5, <2>3, <2>4, Zenon DEF Took1
<1> QED  BY <1>2, <1>3, <1>4, <1>5, Zenon DEF StreamStep, Channel!Next

\* The stream of rows is the channel of whole messages that the other modules
\* take a connection to be, for every number of connections, every kernel buffer
\* and every length of the messages (protocol-v2.md: "exact socket reads/writes").
THEOREM IsChannelHolds == Spec => IsChannel
<1>1. Init => Channel!Init
  <2> SUFFICES ASSUME Init PROVE Channel!Init
    BY Zenon
  <2>1. \A s \in Conns : Left(log[s], dlv[s]) = <<>>
    <3>1. Left(<<>>, <<>>) = <<>>
      <4>1. Place(<<>>, Len(<<>>), 0) /\ Len(<<>>) = 0 /\ <<>> \in Seq(Entries)
        BY DEF Place
      <4>2. Left(<<>>, <<>>) = SubSeq(<<>>, 0 + 1, Len(<<>>))
        BY <4>1, GoneIs, Zenon
      <4> QED  BY <4>1, <4>2
    <3> QED  BY <3>1, Zenon DEF Init
  <2> QED  BY <2>1, Zenon DEF Init, Channel!Init, Queue
<1>2. StreamInv /\ [Next]_vars => [Channel!Next]_<<Queue, dlv>>
  BY NextStep, ChannelStep, Zenon
<1> QED  BY <1>1, <1>2, StreamInvHolds, PTL DEF Spec, IsChannel, Channel!Spec
=============================================================================
