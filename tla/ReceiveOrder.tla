---------------------------- MODULE ReceiveOrder ----------------------------
(***************************************************************************)
(* The state of a SyncUdpSocket with the loop of its server and the        *)
(* threads that use it (epSyncUdpSocket.h, epBaseUdpSocket.h), and what    *)
(* its Receive promises in terms of that state alone.  SyncUdpSocket has   *)
(* the steps.                                                              *)
(***************************************************************************)
EXTENDS Naturals, Sequences

CONSTANTS
  Users,          (* the threads of the application                        *)
  MaxDatagrams,   (* bound: datagrams of the client, the first included    *)
  Options         (* the ways to use the socket that are checked           *)

ASSUME SyncUdpSocketAssumption ==
  /\ Users \cap {"loop", "nobody", "broken"} = {}
  /\ MaxDatagrams \in Nat \ {0}
  /\ Options \subseteq [forever : BOOLEAN, critical : BOOLEAN]

VARIABLES
  options,      (* forever: Receive is called with WAITTIME_INFINITE;      *)
                (* critical: m_listLock is a critical section, not a mutex *)
  arrived,      (* datagrams received so far                               *)
  lpc,          (* where the loop is                                       *)
  datagram,     (* the one in its hands: a number, 0 if it is empty        *)
  added,        (* packets with data that were queued so far               *)
  announced,    (* the thread of the socket has called OnNewConnection     *)
  connected,    (* m_isConnected                                           *)
  listed,       (* in m_socketList of the server                           *)
  packets,      (* m_packetList                                            *)
  event,        (* m_packetReceivedEvent is set                            *)
  sockLock,     (* holder of m_baseSocketLock                              *)
  packetLock,   (* holder of m_listLock; Broken: it is never granted again *)
  upc,          (* where each thread of the application is                 *)
  packet,       (* the packet each Receive has read from the front         *)
  got,          (* history: packets that Receive returned, until raced     *)
  ended,        (* history: calls of OnDisconnect                          *)
  skipped,      (* history: some Receive found its packet without waiting  *)
  raced,        (* history: the queue was used in the middle of a push     *)
  crashed       (* the front of an empty queue was read                    *)

-----------------------------------------------------------------------------
(* Receive waits beside a queued packet only while the loop is about to    *)
(* set the event: no order of addPacket, Receive and its time-out leaves a *)
(* receiver asleep while there is something to receive.                    *)
NoSleepBesidePacket ==
  \A u \in Users :
    upc[u] = "wait" /\ packets # <<>> => event \/ lpc \in {"store", "signal"}

(* Until the connection ends, what Receive returned and what is queued are *)
(* the packets that were added, all of them, once and in their order:      *)
(* although a receiver that had to wait takes its packet without           *)
(* m_listLock, as long as it never does so in the middle of a push, where  *)
(* the queue itself is damaged (epSyncUdpSocket.cpp 106, 141-151).         *)
NothingLostOrRepeated ==
  connected /\ ~raced =>
    /\ Len(got) <= added
    /\ got = [i \in 1..Len(got) |-> i]
    /\ {packets[i] : i \in DOMAIN packets} \ {0} = (Len(got) + 1)..added
    /\ \A i, j \in DOMAIN packets : i < j /\ packets[j] # 0 => packets[i] < packets[j]

(* The front of an empty queue is read (epSyncUdpSocket.cpp:141) only      *)
(* after some Receive found its packet at once and left the event set, or  *)
(* after the queue was used in the middle of a push: a receiver that       *)
(* always came before its packet, and was done before the next one, never  *)
(* does it.                                                                *)
EmptyFrontIsStale == crashed => skipped \/ raced
=============================================================================
