--------------------------- MODULE MCSyncUdpSocket ---------------------------
(* An instance of SyncUdpSocket for TLC. *)
EXTENDS SyncUdpSocket

(* Both ways to wait, and both kinds of lock. *)
Uses == [forever : BOOLEAN, critical : BOOLEAN]

=============================================================================
