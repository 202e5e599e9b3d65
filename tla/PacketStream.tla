---------------------------- MODULE PacketStream ----------------------------
(***************************************************************************)
(* What libnet promises an application over one connection: the packets a  *)
(* peer hands to SocketCore::send come out of the receive callback whole,  *)
(* once each, in the order they were sent, and through the callback of the *)
(* connection they were sent on.  How the bytes are cut up on the way, and *)
(* how the receiver buffers them, is not visible here.                     *)
(***************************************************************************)
EXTENDS Naturals, Sequences

CONSTANT Sessions       \* connections

VARIABLES sent,         \* sent[s]: packets handed to send on s, oldest first
          received      \* received[s]: packets given to the callback of s

vars == <<sent, received>>

Init == /\ sent     = [s \in Sessions |-> << >>]
        /\ received = [s \in Sessions |-> << >>]

\* One more packet, whatever it contains, and none of the earlier ones changed.
Send(s) == LET n == Len(sent[s]) + 1
           IN  /\ Len(sent'[s]) = n
               /\ sent' = [sent EXCEPT ![s] = Append(@, sent'[s][n])]
               /\ UNCHANGED received

\* The callback gets the oldest packet it has not had yet.
Receive(s) == /\ Len(received[s]) < Len(sent[s])
              /\ received' = [received EXCEPT
                                ![s] = Append(@, sent[s][Len(@) + 1])]
              /\ UNCHANGED sent

Next == \E s \in Sessions : Send(s) \/ Receive(s)

Spec == Init /\ [][Next]_vars
=============================================================================
