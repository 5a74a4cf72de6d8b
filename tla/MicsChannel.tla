---------------------------- MODULE MicsChannel ----------------------------
(***************************************************************************)
(* What the other modules take a Mini-ICS connection to be: a queue of     *)
(* whole messages.  A message whose send was cut short is torn: what was   *)
(* sent before it still arrives, of what follows nothing is promised.  The *)
(* tail of a message whose beginning went to an earlier connection stops   *)
(* the reader.  MicsStream implements this.                                *)
(***************************************************************************)
EXTENDS Sequences, Naturals

CONSTANTS Conns, Msgs, Torn, Stray, Junk

VARIABLES q, dlv   \* per connection: under way, and delivered

Init == q = [s \in Conns |-> <<>>] /\ dlv = [s \in Conns |-> <<>>]

\* A message, or a stray tail, is put on the connection.
Put(s) ==
  /\ \E m \in Msgs \cup {Stray} : q' = [q EXCEPT ![s] = Append(@, m)]
  /\ UNCHANGED dlv

Tear(s) ==
  /\ q[s] # <<>>
  /\ q' = [q EXCEPT ![s][Len(q[s])] = Torn]
  /\ UNCHANGED dlv

Get(s) ==
  /\ q[s] # <<>> /\ Head(q[s]) \in Msgs
  /\ dlv' = [dlv EXCEPT ![s] = Append(@, Head(q[s]))]
  /\ q' = [q EXCEPT ![s] = Tail(@)]

\* The reader is out of step and takes anything for a message.
Misread(s) ==
  /\ q[s] # <<>> /\ Head(q[s]) = Torn
  /\ \E m \in Msgs \cup {Junk} : dlv' = [dlv EXCEPT ![s] = Append(@, m)]
  /\ UNCHANGED q

Next == \E s \in Conns : Put(s) \/ Tear(s) \/ Get(s) \/ Misread(s)

Spec == Init /\ [][Next]_<<q, dlv>>
=============================================================================
