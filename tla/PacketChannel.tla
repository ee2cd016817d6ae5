---------------------------- MODULE PacketChannel ----------------------------
(***************************************************************************)
(* What Send and the receiving loop promise together, without sockets,     *)
(* bytes, headers or locks: packets reach the peer whole, once and in the  *)
(* order in which their sends were begun.  Packets under way may be lost,  *)
(* the last ones first, if the connection ends.  A packet may be torn by a *)
(* failing or partial system call; only then may the peer be given         *)
(* something that nobody sent, and from there on nothing that was.         *)
(***************************************************************************)
EXTENDS Naturals, Sequences

CONSTANTS Packets, Garbage

VARIABLES
  accepted,   (* the packets in the order their sends began                *)
  torn,       (* one of them was left incomplete                           *)
  delivered   (* the packets the peer got                                  *)

Init == accepted = <<>> /\ torn = FALSE /\ delivered = <<>>

Accept ==
  /\ \E p \in Packets : accepted' = Append(accepted, p)
  /\ torn' \in {torn, TRUE}
  /\ UNCHANGED delivered

Tear ==
  /\ torn' = TRUE
  /\ UNCHANGED <<accepted, delivered>>

Deliver ==
  /\ \A i \in 1..Len(delivered) : delivered[i] # Garbage
  /\ Len(delivered) < Len(accepted)
  /\ delivered' = Append(delivered, accepted[Len(delivered) + 1])
  /\ UNCHANGED <<accepted, torn>>

DeliverGarbage ==
  /\ torn
  /\ delivered' = Append(delivered, Garbage)
  /\ UNCHANGED <<accepted, torn>>

Next == Accept \/ Tear \/ Deliver \/ DeliverGarbage

Spec == Init /\ [][Next]_<<accepted, torn, delivered>>
=============================================================================
