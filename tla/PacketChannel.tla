--------------------------- MODULE PacketChannel ---------------------------
(***************************************************************************)
(* What either direction of the serial link promises the layers above it:  *)
(* a datagram channel that may drop a packet, but repeats and reorders     *)
(* none, and that invents packets only after bytes were lost on the line:  *)
(* there is no checksum to tell them by.                                   *)
(***************************************************************************)
EXTENDS Integers

CONSTANT MaxId     \* bound: identity of the last packet

VARIABLES
  sent,       \* identities of the packets sent
  delivered,  \* identities of those the receiver acted on
  lossy,      \* a byte is missing from what the receiver has looked at
  forged      \* the receiver acted on something nobody sent

vars == <<sent, delivered, lossy, forged>>

Init == sent = {} /\ delivered = {} /\ ~lossy /\ ~forged

Send(n) ==
  /\ \A m \in sent : m < n
  /\ sent' = sent \cup {n}
  /\ UNCHANGED <<delivered, lossy, forged>>

Deliver(n) ==
  /\ n \in sent
  /\ \A m \in delivered : m < n
  /\ delivered' = delivered \cup {n}
  /\ UNCHANGED <<sent, lossy, forged>>

Spoil ==
  /\ lossy' = TRUE
  /\ UNCHANGED <<sent, delivered, forged>>

Forge ==
  /\ lossy
  /\ forged' = TRUE
  /\ UNCHANGED <<sent, delivered, lossy>>

Next == (\E n \in 0..MaxId : Send(n) \/ Deliver(n)) \/ Spoil \/ Forge

Spec == Init /\ [][Next]_vars
=============================================================================
