-------------------------- MODULE LogicalChannels --------------------------
(***************************************************************************)
(* What a set of logical connections promises, whatever socket, lock,      *)
(* buffers and threads lie below: one reliable byte stream per connection. *)
(* A receive takes exactly as many bytes as it asked for, the next ones of *)
(* its own stream; a receive that ends in an exception takes none.         *)
(***************************************************************************)
EXTENDS Naturals, Sequences

CONSTANTS Conn, Requests

VARIABLES
  sent,      \* the bytes addressed to each connection, in order
  got,       \* the bytes its receives have taken
  receiving, \* a receive is in progress
  want       \* the size it, or the last one, asked for

vars == <<sent, got, receiving, want>>

Init ==
  /\ sent = [c \in Conn |-> <<>>]
  /\ got = [c \in Conn |-> <<>>]
  /\ receiving = [c \in Conn |-> FALSE]
  /\ want = [c \in Conn |-> 0]

Extends(new, old) ==
  Len(new) >= Len(old) /\ SubSeq(new, 1, Len(old)) = old

\* One connection is sent some bytes.
Send(c) ==
  /\ Extends(sent'[c], sent[c])
  /\ sent' = [sent EXCEPT ![c] = sent'[c]]
  /\ UNCHANGED <<got, receiving, want>>

Ask(c, n) ==
  /\ ~receiving[c]
  /\ receiving' = [receiving EXCEPT ![c] = TRUE]
  /\ want' = [want EXCEPT ![c] = n]
  /\ UNCHANGED <<sent, got>>

\* The receive ends, with an exception or ...
GiveUp(c) ==
  /\ receiving[c]
  /\ receiving' = [receiving EXCEPT ![c] = FALSE]
  /\ UNCHANGED <<sent, got, want>>

\* ... with the next bytes of the stream.
Deliver(c) ==
  /\ receiving[c]
  /\ Len(got[c]) + want[c] <= Len(sent[c])
  /\ got' = [got EXCEPT ![c] =
               @ \o SubSeq(sent[c], Len(@) + 1, Len(@) + want[c])]
  /\ receiving' = [receiving EXCEPT ![c] = FALSE]
  /\ UNCHANGED <<sent, want>>

Next == \E c \in Conn :
          Send(c) \/ (\E n \in Requests : Ask(c, n)) \/ GiveUp(c) \/ Deliver(c)

Spec == Init /\ [][Next]_vars
=============================================================================
