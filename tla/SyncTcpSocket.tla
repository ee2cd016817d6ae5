---------------------------- MODULE SyncTcpSocket ----------------------------
(***************************************************************************)
(* One accepted connection of a SyncTcpServer (epSyncTcpSocket.cpp).  Its  *)
(* thread only calls OnNewConnection, in which the application usually     *)
(* loops over Receive; other threads of the application, and the server    *)
(* that shuts its clients down, call Send, Receive and KillConnection on   *)
(* the raw pointer.  Every operation runs under m_baseSocketLock from      *)
(* beginning to end, blocking system calls and callbacks included.         *)
(***************************************************************************)
EXTENDS Naturals, SequencesExt, FiniteSetsExt

CONSTANTS
  MaxPackets,      (* bound: packets the peer may send                     *)
  Users,           (* other threads that use the socket                    *)
  Free, Thread, Acceptor, Remover,
  Patient,         (* Receive is called with WAITTIME_INFINITE             *)
  MayClear         (* the server may clear its list under a live connection *)

Actors == Users \cup {Thread, Acceptor, Remover}

ASSUME SyncSocketAssumption ==
  /\ MaxPackets \in Nat
  /\ Cardinality({Free, Thread, Acceptor, Remover}) = 4
  /\ Users \cap {Free, Thread, Acceptor, Remover} = {}
  /\ {Patient, MayClear} \subseteq BOOLEAN

VARIABLES
  sent, partial, peerClosed, peerReads,  (* the peer: packets sent, a part *)
                 (* of one more, and whether it closed and whether it reads *)
  rcvd,          (* packets read from the descriptor                       *)
  connected,     (* m_isConnected                                          *)
  sockOpen,      (* m_clientSocket # INVALID_SOCKET                        *)
  closes,        (* closesocket calls                                      *)
  refCount, life, destroyer,    (* SmartObject                             *)
  container,     (* the server's reference: listed, retired, gone          *)
  sockLock,      (* holder of m_baseSocketLock                             *)
  tpc,           (* the thread: unstarted, new, callback, ended            *)
  upc,           (* each actor in an operation of the socket               *)
  calls          (* history: callbacks begun and packets returned          *)

netVars == <<sent, partial, peerClosed, peerReads>>
sockVars == <<rcvd, connected, sockOpen, closes>>
objectVars == <<refCount, life, destroyer>>
vars == <<netVars, sockVars, objectVars, container, sockLock, tpc, upc, calls>>

Callbacks == INSTANCE ConnectionCallbacks

TypeOK ==
  /\ sent \in 0..MaxPackets
  /\ rcvd \in 0..sent
  /\ {partial, peerClosed, peerReads, connected, sockOpen} \subseteq BOOLEAN
  /\ closes \in 0..1
  /\ refCount \in 0..2
  /\ life \in {"alive", "dying", "dead"}
  /\ destroyer \in Actors \cup {Free}
  /\ container \in {"listed", "retired", "gone"}
  /\ sockLock \in Actors \cup {Free}
  /\ tpc \in {"unstarted", "new", "callback", "ended"}
  /\ upc \in [Actors -> {"idle", "start", "release", "receive", "select", "recv",
                         "send", "sending", "writing", "kill", "remove", "notify",
                         "leave", "free", "crashed"}]
  /\ calls \in Seq({"new", "received", "disconnect"} \X Nat)

(* Pushed into the server's list and about to be started (epSyncTcpServer). *)
Init ==
  /\ sent = 0 /\ partial = FALSE /\ peerClosed = FALSE /\ peerReads = TRUE
  /\ rcvd = 0 /\ connected = TRUE /\ sockOpen = TRUE /\ closes = 0
  /\ refCount = 2 /\ life = "alive" /\ destroyer = Free
  /\ container = "listed"
  /\ sockLock = Free
  /\ tpc = "unstarted"
  /\ upc = [a \in Actors |-> IF a = Acceptor THEN "start" ELSE "idle"]
  /\ calls = <<>>

Go(a, where) == upc' = [upc EXCEPT ![a] = where]

-----------------------------------------------------------------------------
(* The accept loop, the server and the remover of its list.                *)

(* ReleaseObj; the last reference runs the destructor, which begins with   *)
(* KillConnection and holds one reference itself.                          *)
ReleaseRef(a) ==
  IF refCount = 1
  THEN life' = "dying" /\ destroyer' = a /\ Go(a, "kill") /\ UNCHANGED refCount
  ELSE refCount' = refCount - 1 /\ Go(a, "idle") /\ UNCHANGED <<life, destroyer>>

AcceptorStart ==
  /\ upc[Acceptor] = "start"
  /\ tpc' = "new"
  /\ Go(Acceptor, "release")
  /\ UNCHANGED <<netVars, sockVars, objectVars, container, sockLock, calls>>

AcceptorRelease ==
  /\ upc[Acceptor] = "release"
  /\ ReleaseRef(Acceptor)
  /\ UNCHANGED <<netVars, sockVars, container, sockLock, tpc, calls>>

ServerClear ==
  /\ MayClear
  /\ container = "listed"
  /\ container' = "retired"
  /\ UNCHANGED <<netVars, sockVars, objectVars, sockLock, tpc, upc, calls>>

RemoverRelease ==
  /\ container = "retired"
  /\ upc[Remover] = "idle"
  /\ container' = "gone"
  /\ ReleaseRef(Remover)
  /\ UNCHANGED <<netVars, sockVars, sockLock, tpc, calls>>

-----------------------------------------------------------------------------
(* The peer sends a packet, or a part of one and the rest of it later,     *)
(* stops reading and reads again, closes.                                  *)

Peer ==
  /\ ~peerClosed
  /\ \/ /\ sent < MaxPackets /\ sent' = sent + 1 /\ partial' = FALSE
        /\ UNCHANGED <<peerClosed, peerReads>>
     \/ /\ sent < MaxPackets /\ ~partial /\ partial' = TRUE
        /\ UNCHANGED <<sent, peerClosed, peerReads>>
     \/ peerClosed' = TRUE /\ UNCHANGED <<sent, partial, peerReads>>
     \/ peerReads' = ~peerReads /\ UNCHANGED <<sent, partial, peerClosed>>
  /\ UNCHANGED <<sockVars, objectVars, container, sockLock, tpc, upc, calls>>

-----------------------------------------------------------------------------
(* The thread of the socket.                                               *)

ThreadNew ==
  /\ tpc = "new"
  /\ life # "dead"
  /\ calls' = Append(calls, Callbacks!OnNewConnection)
  /\ tpc' = "callback"
  /\ UNCHANGED <<netVars, sockVars, objectVars, container, sockLock, upc>>

ThreadReturn ==
  /\ tpc = "callback"
  /\ upc[Thread] \in {"idle", "crashed"}
  /\ tpc' = "ended"
  /\ UNCHANGED <<netVars, sockVars, objectVars, container, sockLock, upc, calls>>

-----------------------------------------------------------------------------
(* The operations.                                                         *)

MayUse(a) ==
  \/ a \in Users
  \/ a = Thread /\ tpc = "callback"

(* A user calls while it has not been told of the end of the connection;   *)
(* before OnNewConnection only the server has the pointer, to shut it down. *)
Call(a) ==
  /\ MayUse(a)
  /\ upc[a] = "idle"
  /\ Callbacks!OnDisconnect \notin Range(calls)
  /\ \/ Go(a, "kill")
     \/ calls # <<>> /\ \E op \in {"receive", "send"} : Go(a, op)
  /\ UNCHANGED <<netVars, sockVars, objectVars, container, sockLock, tpc, calls>>

Lock(a) == sockLock = Free /\ life # "dead" /\ sockLock' = a

Return(a) == sockLock' = Free /\ Go(a, "idle")

(* Mutant: Receive does not take the lock. *)
ReceiveEnterUnlocked(a) ==
  /\ upc[a] = "receive"
  /\ \/ connected /\ Go(a, "select")
     \/ ~connected /\ Go(a, "idle")
  /\ UNCHANGED <<netVars, sockVars, objectVars, container, sockLock, tpc, calls>>

(* Receive: not connected, or wait for the peer under the lock. *)
ReceiveEnter(a) ==
  /\ upc[a] = "receive"
  /\ \/ Lock(a) /\ connected /\ Go(a, "select")
     \/ sockLock = Free /\ life # "dead" /\ ~connected /\ Return(a)
  /\ UNCHANGED <<netVars, sockVars, objectVars, container, tpc, calls>>

(* select answers as soon as there is something to read, ...               *)
ReceiveSelect(a) ==
  /\ upc[a] = "select"
  /\ rcvd < sent \/ partial \/ peerClosed
  /\ Go(a, "recv")
  /\ UNCHANGED <<netVars, sockVars, objectVars, container, sockLock, tpc, calls>>

(* ... or when its time is over; then recv waits for the whole packet,     *)
(* however long that takes.                                                *)
ReceivePacket(a) ==
  /\ upc[a] = "recv"
  /\ rcvd < sent
  /\ rcvd' = rcvd + 1
  /\ calls' = Append(calls, Callbacks!OnReceived(rcvd + 1))
  /\ Return(a)
  /\ UNCHANGED <<netVars, connected, sockOpen, closes, objectVars, container, tpc>>


ReceiveTimeout(a) ==
  /\ upc[a] = "select"
  /\ ~Patient
  /\ Return(a)
  /\ UNCHANGED <<netVars, sockVars, objectVars, container, tpc, calls>>

Disconnected ==
  /\ connected' = FALSE
  /\ sockOpen' = FALSE
  /\ closes' = IF sockOpen THEN closes + 1 ELSE closes

(* select or recv fail, or the peer closed: killConnection. *)
ReceiveFail(a) ==
  /\ upc[a] \in {"select", "recv"}
  /\ peerClosed
  /\ Disconnected
  /\ Go(a, "remove")
  /\ UNCHANGED <<netVars, rcvd, objectVars, container, sockLock, tpc, calls>>

(* Send waits for the descriptor to become writable. *)
SendEnter(a) ==
  /\ upc[a] = "send"
  /\ \/ Lock(a) /\ sockOpen /\ Go(a, "sending")
     \/ sockLock = Free /\ life # "dead" /\ ~sockOpen /\ Return(a)
  /\ UNCHANGED <<netVars, sockVars, objectVars, container, tpc, calls>>

(* It is writable as long as there is room for a part of the packet, also  *)
(* if the peer does not read; ...                                          *)
SendSelect(a) ==
  /\ upc[a] = "sending"
  /\ Go(a, "writing")
  /\ UNCHANGED <<netVars, sockVars, objectVars, container, sockLock, tpc, calls>>

SendTimeout(a) ==
  /\ upc[a] = "sending"
  /\ ~Patient
  /\ Return(a)
  /\ UNCHANGED <<netVars, sockVars, objectVars, container, tpc, calls>>

(* ... send waits for room for the rest, or fails.                         *)
SendEnd(a) ==
  /\ upc[a] = "writing"
  /\ peerReads \/ peerClosed
  /\ Return(a)
  /\ UNCHANGED <<netVars, sockVars, objectVars, container, tpc, calls>>

(* KillConnection: nothing for a dead connection, else shut down and close. *)
KillEnter(a) ==
  /\ upc[a] = "kill"
  /\ Lock(a)
  /\ \/ connected /\ Disconnected /\ Go(a, "remove")
     \/ ~connected /\ Go(a, "leave") /\ UNCHANGED <<connected, sockOpen, closes>>
  /\ UNCHANGED <<netVars, rcvd, objectVars, container, tpc, calls>>

(* Mutant: the socket stays in the server's list. *)
LeaveContainerForgets(a) ==
  /\ upc[a] = "remove"
  /\ Go(a, "notify")
  /\ UNCHANGED <<netVars, sockVars, objectVars, container, sockLock, tpc, calls>>

(* removeSelfFromContainer *)
LeaveContainer(a) ==
  /\ upc[a] = "remove"
  /\ container' = IF container = "listed" THEN "retired" ELSE container
  /\ Go(a, "notify")
  /\ UNCHANGED <<netVars, sockVars, objectVars, sockLock, tpc, calls>>

(* OnDisconnect, under the lock. *)
Notify(a) ==
  /\ upc[a] = "notify"
  /\ calls' = Append(calls, Callbacks!OnDisconnect)
  /\ Go(a, "leave")
  /\ UNCHANGED <<netVars, sockVars, objectVars, container, sockLock, tpc>>

Leave(a) ==
  /\ upc[a] = "leave"
  /\ sockLock' = Free
  /\ Go(a, IF destroyer = a THEN "free" ELSE "idle")
  /\ UNCHANGED <<netVars, sockVars, objectVars, container, tpc, calls>>

(* The rest of the destructor deletes the lock and frees the object.       *)
Destroy(a) ==
  /\ upc[a] = "free"
  /\ life' = "dead"
  /\ refCount' = refCount - 1
  /\ Go(a, "idle")
  /\ UNCHANGED <<netVars, sockVars, destroyer, container, sockLock, tpc, calls>>

(* A call on the freed object, whose lock is gone: undefined behaviour.    *)
Crash(a) ==
  /\ life = "dead"
  /\ upc[a] \in {"receive", "send", "kill"}
  /\ Go(a, "crashed")
  /\ UNCHANGED <<netVars, sockVars, objectVars, container, sockLock, tpc, calls>>

ThreadCrash ==
  /\ life = "dead"
  /\ tpc \in {"new", "callback"}
  /\ tpc' = "ended"
  /\ Go(Thread, "crashed")
  /\ UNCHANGED <<netVars, sockVars, objectVars, container, sockLock, calls>>

(* What an actor does with the lock in its hand.                           *)
Inside(a) ==
  \/ ReceiveSelect(a) \/ ReceivePacket(a) \/ ReceiveTimeout(a) \/ ReceiveFail(a)
  \/ SendSelect(a) \/ SendTimeout(a) \/ SendEnd(a)
  \/ LeaveContainer(a) \/ Notify(a) \/ Leave(a) \/ Destroy(a)

Enter(a) == ReceiveEnter(a) \/ SendEnter(a) \/ KillEnter(a) \/ Crash(a)

Next ==
  \/ AcceptorStart
  \/ AcceptorRelease
  \/ ServerClear
  \/ RemoverRelease
  \/ Peer
  \/ ThreadNew
  \/ ThreadReturn
  \/ ThreadCrash
  \/ \E a \in Actors : Call(a)
  \/ \E a \in Actors : Enter(a)
  \/ \E a \in Actors : Inside(a)

Spec == Init /\ [][Next]_vars

(* Threads keep running, nobody is starved at the lock, and a recv or send *)
(* that is given bytes or room again and again gets to its end.  Neither   *)
(* the peer nor the application has to do anything.  The remover is not    *)
(* fair: it may suspend itself beside an object it was given               *)
(* (ServerObjectRemover).                                                  *)
Fairness ==
  /\ WF_vars(AcceptorStart \/ AcceptorRelease)
  /\ \A a \in Actors : SF_vars(Enter(a)) /\ SF_vars(Inside(a))

FairSpec == Spec /\ Fairness

-----------------------------------------------------------------------------
(* The application is told once that the client is gone, and the descriptor *)
(* is closed once, although a failing Receive, any number of KillConnections *)
(* and the destructor all end the connection (51-96).                      *)
DisconnectAtMostOnce ==
  /\ Cardinality({i \in DOMAIN calls : calls[i] = Callbacks!OnDisconnect}) <= 1
  /\ closes <= 1

(* Whichever threads call Receive, together they get the packets in order, *)
(* and none after OnDisconnect.                                            *)
ReceivesInOrder ==
  /\ \A i \in DOMAIN calls :
       calls[i][1] = "received" =>
         calls[i][2] = Cardinality({k \in 1..i : calls[k][1] = "received"})
  /\ \A i, j \in DOMAIN calls :
       i < j /\ calls[i] = Callbacks!OnDisconnect => calls[j][1] # "received"

(* An open descriptor and a live connection are the same thing whenever the *)
(* lock is free, and a dead connection is on its way out of the server.    *)
StateAgrees ==
  sockLock = Free =>
    /\ connected <=> sockOpen
    /\ connected \/ container # "listed"

(* All of it, for any number of threads in Receive and KillConnection: one *)
(* end, packets in order before it, and flags that agree.                  *)
ConnectionIsSound == TypeOK /\ DisconnectAtMostOnce /\ ReceivesInOrder /\ StateAgrees

(* No thread is in a function of a deleted socket or about to call one.    *)
(* It fails: the thread of the connection owns no reference                *)
(* (epSyncTcpServer.cpp 85-87, epSyncTcpSocket.cpp 189).                   *)
NoUseAfterFree ==
  life = "dead" =>
    /\ tpc \notin {"new", "callback"}
    /\ \A a \in Actors : upc[a] \notin {"receive", "send", "kill"}

(* OnNewConnection comes before everything else about a connection. *)
KeepsCallbackOrder == Callbacks!Spec

(* A finite wait bounds select alone.  A recv or send waits for the peer,  *)
(* with m_baseSocketLock: for the rest of a packet, for room.              *)
Stalled ==
  /\ ~peerClosed
  /\ \E a \in Actors :
       \/ upc[a] = "recv" /\ rcvd = sent
       \/ upc[a] = "writing" /\ ~peerReads
       \/ upc[a] = "select" /\ Patient /\ rcvd = sent /\ ~partial


=============================================================================
