--------------------------- MODULE MessageChannel ---------------------------
(***************************************************************************)
(* What a channel of SimpleMessageQueue promises its users: the messages   *)
(* pushed are delivered in the order they were pushed, each one once, and  *)
(* nothing else is delivered.                                              *)
(***************************************************************************)
EXTENDS Sequences

CONSTANT Messages

VARIABLES pending,     \* pushed and not delivered, oldest first
          delivered    \* everything delivered so far

channelVars == <<pending, delivered>>

ChannelInit == pending = << >> /\ delivered = << >>

Push(m) == /\ pending' = Append(pending, m)
           /\ UNCHANGED delivered

Deliver == /\ pending # << >>
           /\ delivered' = Append(delivered, Head(pending))
           /\ pending' = Tail(pending)

ChannelNext == Deliver \/ \E m \in Messages : Push(m)

ChannelSpec == ChannelInit /\ [][ChannelNext]_channelVars
=============================================================================
