--------------------------- MODULE AsyncTcpSocket ---------------------------
(***************************************************************************)
(* One accepted connection of an AsyncTcpServer: the socket object         *)
(* (epAsyncTcpSocket.cpp), its receiving thread, the packet processors it  *)
(* spawns (epBasePacketProcessor.cpp, epServerPacketProcessor.cpp) and     *)
(* everybody who may end it:                                               *)
(*   - the peer, which sends packets and closes;                           *)
(*   - the application and the server, which call KillConnection on a raw  *)
(*     pointer: SocketInterface has no RetainObj;                          *)
(*   - the application inside a callback, on the socket's own thread;      *)
(*   - the destructor, run by whoever drops the last reference.            *)
(* The server's list and the socket's list of processors are taken at      *)
(* their promise (ServerObjectRegistry): an object is taken out once and   *)
(* is then released by the list's remover.                                 *)
(***************************************************************************)
EXTENDS Naturals, SequencesExt, FiniteSetsExt

CONSTANTS
  MaxPackets,      (* bound: packets the peer may send                     *)
  Killers,         (* threads that call KillConnection from outside        *)
  Free, Thread, Acceptor, Remover, ProcRemover,  (* the other actors; no one *)
  Options          (* the settings a connection may be made with           *)

Actors == Killers \cup {Thread, Acceptor, Remover, ProcRemover}
Packets == 1..MaxPackets

ASSUME SocketAssumption ==
  /\ MaxPackets \in Nat
  /\ Cardinality({Free, Thread, Acceptor, Remover, ProcRemover}) = 5
  /\ Killers \cap {Free, Thread, Acceptor, Remover, ProcRemover} = {}
  /\ Options \subseteq [async : BOOLEAN, max : Nat, forever : BOOLEAN,
                       killInCallback : BOOLEAN, graceful : BOOLEAN]

(* async is m_isAsynchronousReceive; max is m_maxProcessorCount, where 0 is *)
(* PROCESSOR_LIMIT_INFINITE; forever says m_waitTime is infinite.  Then the *)
(* environment: killInCallback, whether the application calls              *)
(* KillConnection in OnReceived; graceful, what TerminateAfter answers for *)
(* a thread that ended by itself: GRACEFULLY_TERMINATED or NOT_ON_RUNNING. *)
VARIABLES
  options,           (* the settings of this connection                    *)
  (* the connection *)
  sent, peerClosed,  (* what the peer has done                             *)
  rcvd,              (* packets the thread has read                        *)
  sock,              (* m_clientSocket: open, shut (SD_SEND), closing: closed but not yet INVALID_SOCKET, invalid *)
  closes,            (* closesocket calls on the descriptor                *)
  (* the object *)
  refCount, life,    (* SmartObject                                        *)
  container,         (* where the server's reference is: listed, retired (its remover has it), gone *)
  contLock,          (* holder of m_containerLock                          *)
  sockLock,          (* holder of m_baseSocketLock                         *)
  (* the processors, one per packet *)
  proc,              (* none, listed, retired, destroyed                   *)
  pth,               (* its thread: none, started, incall, ended           *)
  (* control *)
  tpc,               (* the socket's thread                                *)
  kpc,               (* each actor in KillConnection or in the destructor  *)
  destroyer,         (* the actor that runs the destructor, or Free        *)
  calls              (* history: the callbacks begun                       *)

netVars == <<options, sent, peerClosed>>
sockVars == <<rcvd, sock, closes>>
objectVars == <<refCount, life, destroyer>>
listVars == <<container, contLock>>
procVars == <<proc, pth>>
vars == <<netVars, sockVars, objectVars, listVars, sockLock, procVars, tpc, kpc, calls>>

(* Connections that are never cut short by force and whose packets are not *)
(* handed to threads of their own keep the order of the callbacks; about   *)
(* the others nothing is promised.                                         *)
Ordered == options.forever /\ options.graceful /\ ~options.async

Callbacks == INSTANCE ConnectionCallbacks WITH
  calls <- IF Ordered THEN calls ELSE <<>>

TypeOK ==
  /\ options \in Options
  /\ sent \in 0..MaxPackets
  /\ rcvd \in 0..sent
  /\ peerClosed \in BOOLEAN
  /\ sock \in {"open", "shut", "closing", "invalid"}
  /\ closes \in 0..2
  /\ refCount \in 0..(2 + MaxPackets)
  /\ life \in {"alive", "dying", "dead"}
  /\ destroyer \in Actors \cup {Free}
  /\ container \in {"listed", "retired", "gone"}
  /\ contLock \in Actors \cup {Free}
  /\ sockLock \in Actors \cup {Free}
  /\ proc \in [Packets -> {"none", "listed", "retired", "destroyed"}]
  /\ pth \in [Packets -> {"none", "started", "incall", "ended"}]
  /\ tpc \in {"unstarted", "new", "recv", "callback", "limit", "ending", "closing",
              "clear", "lock", "remove", "notify", "ended", "killed", "crashed"}
  /\ kpc \in [Actors -> {"idle", "enter", "join", "close", "clear", "lock",
                         "remove", "notify", "leave", "free", "start", "release"}]
  /\ calls \in Seq({"new", "received", "disconnect"} \X Nat)

(* The accept loop made the object, gave it the descriptor and pushed it   *)
(* into the list of the server; it is about to start it.                   *)
Init ==
  /\ options \in Options
  /\ sent = 0 /\ peerClosed = FALSE
  /\ rcvd = 0 /\ sock = "open" /\ closes = 0
  /\ refCount = 2 /\ life = "alive" /\ destroyer = Free
  /\ container = "listed" /\ contLock = Free
  /\ sockLock = Free
  /\ proc = [p \in Packets |-> "none"]
  /\ pth = [p \in Packets |-> "none"]
  /\ tpc = "unstarted"
  /\ kpc = [a \in Actors |-> IF a = Acceptor THEN "start" ELSE "idle"]
  /\ calls = <<>>

ThreadGone == tpc \in {"ended", "killed", "crashed"}
Begun(c) == c \in Range(calls)

-----------------------------------------------------------------------------
(* References.                                                             *)

(* Drop a reference on behalf of actor a; with the last one a runs the     *)
(* destructor, which begins with KillConnection.  ReleaseObj puts one      *)
(* reference back before it deletes: a processor the running thread makes  *)
(* meanwhile can retain and release without a second delete.               *)
ReleaseRef(a) ==
  IF refCount = 1
  THEN /\ life' = "dying"
       /\ destroyer' = a
       /\ kpc' = [kpc EXCEPT ![a] = "enter"]
       /\ UNCHANGED refCount
  ELSE /\ refCount' = refCount - 1
       /\ kpc' = [kpc EXCEPT ![a] = "idle"]
       /\ UNCHANGED <<life, destroyer>>

(* accWorker->Start(); accWorker->ReleaseObj(). *)
AcceptorStart ==
  /\ kpc[Acceptor] = "start"
  /\ tpc' = "new"
  /\ kpc' = [kpc EXCEPT ![Acceptor] = "release"]
  /\ UNCHANGED <<netVars, sockVars, objectVars, listVars, sockLock, procVars, calls>>

(* Mutant: the accept loop keeps its reference. *)
AcceptorReleaseForgets ==
  /\ kpc[Acceptor] = "release"
  /\ kpc' = [kpc EXCEPT ![Acceptor] = "idle"]
  /\ UNCHANGED <<netVars, sockVars, objectVars, listVars, sockLock, procVars, tpc, calls>>

AcceptorRelease ==
  /\ kpc[Acceptor] = "release"
  /\ ReleaseRef(Acceptor)
  /\ UNCHANGED <<netVars, sockVars, listVars, sockLock, procVars, tpc, calls>>

(* shutdownAllClient ends with a Clear of the server's list. *)
ServerClear ==
  /\ container = "listed"
  /\ contLock = Free
  /\ container' = "retired"
  /\ UNCHANGED <<netVars, sockVars, objectVars, contLock, sockLock, procVars, tpc, kpc, calls>>

(* The remover of the server's list. *)
RemoverRelease ==
  /\ container = "retired"
  /\ kpc[Remover] = "idle"
  /\ container' = "gone"
  /\ ReleaseRef(Remover)
  /\ UNCHANGED <<netVars, sockVars, contLock, sockLock, procVars, tpc, calls>>

-----------------------------------------------------------------------------
(* The peer.                                                               *)

PeerSend ==
  /\ ~peerClosed
  /\ sent < MaxPackets
  /\ sent' = sent + 1
  /\ UNCHANGED <<options, peerClosed, sockVars, objectVars, listVars, sockLock, procVars,
                 tpc, kpc, calls>>

PeerClose ==
  /\ ~peerClosed
  /\ peerClosed' = TRUE
  /\ UNCHANGED <<options, sent, sockVars, objectVars, listVars, sockLock, procVars,
                 tpc, kpc, calls>>

-----------------------------------------------------------------------------
(* The thread of the socket, execute().                                    *)

ThreadNew ==
  /\ tpc = "new"
  /\ calls' = Append(calls, Callbacks!OnNewConnection)
  /\ tpc' = "recv"
  /\ UNCHANGED <<netVars, sockVars, objectVars, listVars, sockLock, procVars, kpc>>

(* A whole packet was read and isAsynchronousReceive is off: OnReceived on *)
(* this thread.                                                            *)
ThreadReceive ==
  /\ ~options.async
  /\ tpc = "recv"
  /\ rcvd < sent
  /\ rcvd' = rcvd + 1
  /\ calls' = Append(calls, Callbacks!OnReceived(rcvd + 1))
  /\ tpc' = "callback"
  /\ UNCHANGED <<netVars, sock, closes, objectVars, listVars, sockLock, procVars, kpc>>

(* OnReceived returns, at once or after a KillConnection of its own.       *)
ThreadReturn ==
  /\ tpc = "callback"
  /\ kpc[Thread] = "idle"
  /\ tpc' = "recv"
  /\ UNCHANGED <<netVars, sockVars, objectVars, listVars, sockLock, procVars, kpc, calls>>

(* Mutant: the processor does not retain its owner. *)
ThreadSpawnNoRetain ==
  /\ options.async
  /\ tpc = "recv"
  /\ rcvd < sent
  /\ rcvd' = rcvd + 1
  /\ proc' = [proc EXCEPT ![rcvd + 1] = "listed"]
  /\ pth' = [pth EXCEPT ![rcvd + 1] = "started"]
  /\ tpc' = "limit"
  /\ UNCHANGED <<netVars, sock, closes, objectVars, listVars, sockLock, kpc, calls>>

(* Otherwise: a processor that retains the socket, pushed and started.     *)
ThreadSpawn ==
  /\ options.async
  /\ tpc = "recv"
  /\ rcvd < sent
  /\ rcvd' = rcvd + 1
  /\ refCount' = refCount + 1
  /\ proc' = [proc EXCEPT ![rcvd + 1] = "listed"]
  /\ pth' = [pth EXCEPT ![rcvd + 1] = "started"]
  /\ tpc' = "limit"
  /\ UNCHANGED <<netVars, sock, closes, life, destroyer, listVars, sockLock, kpc, calls>>

Listed == {p \in Packets : proc[p] = "listed"}

BelowLimit == options.max = 0 \/ Cardinality(Listed) < options.max

(* GetMaximumProcessorCount needs the socket's lock; the wait for room is  *)
(* the one of ServerObjectList.                                            *)
ThreadLimit ==
  /\ tpc = "limit"
  /\ sockLock = Free
  /\ BelowLimit
  /\ tpc' = "recv"
  /\ UNCHANGED <<netVars, sockVars, objectVars, listVars, sockLock, procVars, kpc, calls>>

(* recv answers 0 or an error, also with packets of the peer unread or in   *)
(* the middle of one: killConnection.                                      *)
ThreadEnd ==
  /\ tpc = "recv"
  /\ peerClosed
  /\ tpc' = "ending"
  /\ UNCHANGED <<netVars, sockVars, objectVars, listVars, sockLock, procVars, kpc, calls>>

(* killConnection without any lock of the socket: closesocket ...          *)
ThreadClose ==
  /\ tpc = "ending"
  /\ closes' = closes + 1
  /\ sock' = "closing"
  /\ tpc' = "closing"
  /\ UNCHANGED <<netVars, rcvd, objectVars, listVars, sockLock, procVars, kpc, calls>>

ThreadInvalidate ==
  /\ tpc = "closing"
  /\ sock' = "invalid"
  /\ tpc' = "clear"
  /\ UNCHANGED <<netVars, rcvd, closes, objectVars, listVars, sockLock, procVars, kpc, calls>>

(* m_processorList.Clear() hands every processor to the list's remover.    *)
Retired == [p \in Packets |-> IF proc[p] = "listed" THEN "retired" ELSE proc[p]]

ThreadClear ==
  /\ tpc = "clear"
  /\ proc' = Retired
  /\ tpc' = "lock"
  /\ UNCHANGED <<netVars, sockVars, objectVars, listVars, sockLock, pth, kpc, calls>>

(* removeSelfFromContainer, under m_containerLock. *)
ThreadLockContainer ==
  /\ tpc = "lock"
  /\ contLock = Free
  /\ contLock' = Thread
  /\ tpc' = "remove"
  /\ UNCHANGED <<netVars, sockVars, objectVars, container, sockLock, procVars, kpc, calls>>

LeaveContainer ==
  /\ container' = IF container = "listed" THEN "retired" ELSE container
  /\ contLock' = Free

ThreadRemove ==
  /\ tpc = "remove"
  /\ LeaveContainer
  /\ tpc' = "notify"
  /\ UNCHANGED <<netVars, sockVars, objectVars, sockLock, procVars, kpc, calls>>

ThreadNotify ==
  /\ tpc = "notify"
  /\ calls' = Append(calls, Callbacks!OnDisconnect)
  /\ tpc' = "ended"
  /\ UNCHANGED <<netVars, sockVars, objectVars, listVars, sockLock, procVars, kpc>>

(* The object was deleted under its running thread: undefined behaviour,   *)
(* modelled as the thread stopping anywhere or going on as if nothing      *)
(* happened.                                                               *)
ThreadCrash ==
  /\ life = "dead"
  /\ ~ThreadGone
  /\ tpc' = "crashed"
  /\ UNCHANGED <<netVars, sockVars, objectVars, listVars, sockLock, procVars, kpc, calls>>

ThreadStep ==
  \/ ThreadNew \/ ThreadReceive \/ ThreadReturn \/ ThreadSpawn \/ ThreadLimit
  \/ ThreadEnd \/ ThreadClose \/ ThreadInvalidate \/ ThreadClear
  \/ ThreadLockContainer \/ ThreadRemove \/ ThreadNotify

-----------------------------------------------------------------------------
(* A packet processor: OnReceived on its own thread, then out of the list. *)

ProcReceive(p) ==
  /\ pth[p] = "started"
  /\ calls' = Append(calls, Callbacks!OnReceived(p))
  /\ pth' = [pth EXCEPT ![p] = "incall"]
  /\ UNCHANGED <<netVars, sockVars, objectVars, listVars, sockLock, proc, tpc, kpc>>

ProcReturn(p) ==
  /\ pth[p] = "incall"
  /\ pth' = [pth EXCEPT ![p] = "ended"]
  /\ proc' = [proc EXCEPT ![p] = IF @ = "listed" THEN "retired" ELSE @]
  /\ UNCHANGED <<netVars, sockVars, objectVars, listVars, sockLock, tpc, kpc, calls>>

(* The remover of the processor list destroys it: the destructor waits for *)
(* the thread, or kills it, and drops its reference to the socket.         *)
ProcDestroy(p) ==
  /\ kpc[ProcRemover] = "idle"
  /\ proc[p] = "retired"
  /\ \/ pth[p] = "ended" /\ UNCHANGED pth
     \/ ~options.forever /\ pth[p] # "ended" /\ pth' = [pth EXCEPT ![p] = "ended"]
  /\ proc' = [proc EXCEPT ![p] = "destroyed"]
  /\ ReleaseRef(ProcRemover)
  /\ UNCHANGED <<netVars, sockVars, listVars, sockLock, tpc, calls>>

ProcThread(p) == ProcReceive(p) \/ ProcReturn(p)

-----------------------------------------------------------------------------
(* KillConnection by actor a.                                              *)

(* The application or the server calls it on a connection whose end it has *)
(* not been told of; inside OnReceived it runs on the socket's own thread. *)
Kill(a) ==
  /\ kpc[a] = "idle"
  /\ \/ a \in Killers /\ ~Begun(Callbacks!OnDisconnect)
     \/ a = Thread /\ options.killInCallback /\ tpc = "callback"
  /\ kpc' = [kpc EXCEPT ![a] = "enter"]
  /\ UNCHANGED <<netVars, sockVars, objectVars, listVars, sockLock, procVars, tpc, calls>>

(* Under m_baseSocketLock: nothing to do for a thread that does not run or *)
(* a socket that is closed, else shutdown(SD_SEND).                        *)
KillEnter(a) ==
  /\ kpc[a] = "enter"
  /\ sockLock = Free
  /\ sockLock' = a
  /\ \/ /\ tpc = "unstarted" \/ ThreadGone \/ sock = "invalid"
        /\ kpc' = [kpc EXCEPT ![a] = "leave"]
        /\ UNCHANGED sock
     \/ /\ tpc # "unstarted" /\ ~ThreadGone /\ sock # "invalid"
        /\ sock' = IF sock = "open" THEN "shut" ELSE sock
        /\ kpc' = [kpc EXCEPT ![a] = "join"]
  /\ UNCHANGED <<netVars, rcvd, closes, objectVars, listVars, procVars, tpc, calls>>

(* Mutant: the thread is not waited for. *)
KillJoinAtOnce(a) ==
  /\ kpc[a] = "join"
  /\ kpc' = [kpc EXCEPT ![a] = "close"]
  /\ UNCHANGED <<netVars, sockVars, objectVars, listVars, sockLock, procVars, tpc, calls>>

(* TerminateAfter(m_waitTime): return if the thread has ended by itself,   *)
(* else, with a finite wait, kill it.  A thread waits for itself forever,  *)
(* or kills itself and leaves the rest undone.                             *)
KillJoin(a) ==
  /\ kpc[a] = "join"
  /\ \/ /\ tpc \in {"ended", "crashed"}
        /\ \/ kpc' = [kpc EXCEPT ![a] = "leave"]
           \/ ~options.graceful /\ kpc' = [kpc EXCEPT ![a] = "close"]
        /\ UNCHANGED tpc
     \/ /\ ~options.forever
        /\ ~ThreadGone
        /\ tpc' = "killed"
        /\ kpc' = IF a = Thread THEN kpc ELSE [kpc EXCEPT ![a] = "close"]
  /\ UNCHANGED <<netVars, sockVars, objectVars, listVars, sockLock, procVars, calls>>

KillClose(a) ==
  /\ kpc[a] = "close"
  /\ closes' = IF sock = "invalid" THEN closes ELSE closes + 1
  /\ sock' = "invalid"
  /\ kpc' = [kpc EXCEPT ![a] = "clear"]
  /\ UNCHANGED <<netVars, rcvd, objectVars, listVars, sockLock, procVars, tpc, calls>>

KillClear(a) ==
  /\ kpc[a] = "clear"
  /\ proc' = Retired
  /\ kpc' = [kpc EXCEPT ![a] = "lock"]
  /\ UNCHANGED <<netVars, sockVars, objectVars, listVars, sockLock, pth, tpc, calls>>

(* A thread killed inside removeSelfFromContainer keeps m_containerLock.   *)
KillLockContainer(a) ==
  /\ kpc[a] = "lock"
  /\ contLock = Free
  /\ contLock' = a
  /\ kpc' = [kpc EXCEPT ![a] = "remove"]
  /\ UNCHANGED <<netVars, sockVars, objectVars, container, sockLock, procVars, tpc, calls>>

KillRemove(a) ==
  /\ kpc[a] = "remove"
  /\ LeaveContainer
  /\ kpc' = [kpc EXCEPT ![a] = "notify"]
  /\ UNCHANGED <<netVars, sockVars, objectVars, sockLock, procVars, tpc, calls>>

KillNotify(a) ==
  /\ kpc[a] = "notify"
  /\ calls' = Append(calls, Callbacks!OnDisconnect)
  /\ kpc' = [kpc EXCEPT ![a] = "leave"]
  /\ UNCHANGED <<netVars, sockVars, objectVars, listVars, sockLock, procVars, tpc>>

(* Drop the lock; a destructor goes on to the members. *)
KillLeave(a) ==
  /\ kpc[a] = "leave"
  /\ sockLock' = Free
  /\ kpc' = [kpc EXCEPT ![a] = IF destroyer = a THEN "free" ELSE "idle"]
  /\ UNCHANGED <<netVars, sockVars, objectVars, listVars, procVars, tpc, calls>>

(* The members: m_processorList waits for its remover's worker and         *)
(* destroys what is left; on that worker's own thread the wait never ends, *)
(* or kills the worker here.                                               *)
DrainProcessor(a, p) ==
  /\ kpc[a] = "free"
  /\ kpc[ProcRemover] = "idle"
  /\ proc[p] \in {"listed", "retired"}
  /\ pth[p] = "ended" \/ ~options.forever
  /\ pth' = [pth EXCEPT ![p] = "ended"]
  /\ proc' = [proc EXCEPT ![p] = "destroyed"]
  /\ refCount' = refCount - 1
  /\ UNCHANGED <<netVars, sockVars, life, destroyer, listVars, sockLock, tpc, kpc, calls>>

Destroy(a) ==
  /\ kpc[a] = "free"
  /\ kpc[ProcRemover] = "idle"
  /\ \A p \in Packets : proc[p] \in {"none", "destroyed"}
  /\ life' = "dead"
  /\ refCount' = refCount - 1
  /\ kpc' = [kpc EXCEPT ![a] = "idle"]
  /\ UNCHANGED <<netVars, sockVars, destroyer, listVars, sockLock,
                 procVars, tpc, calls>>

KillStep(a) ==
  /\ a = Thread => ~ThreadGone
  /\ \/ KillEnter(a) \/ KillJoin(a) \/ KillClose(a) \/ KillClear(a)
     \/ KillLockContainer(a) \/ KillRemove(a) \/ KillNotify(a) \/ KillLeave(a)
     \/ Destroy(a) \/ \E p \in Packets : DrainProcessor(a, p)

-----------------------------------------------------------------------------
Next ==
  \/ AcceptorStart
  \/ AcceptorRelease
  \/ ServerClear
  \/ RemoverRelease
  \/ PeerSend
  \/ PeerClose
  \/ ThreadStep
  \/ ThreadCrash
  \/ \E p \in Packets : ProcThread(p)
  \/ \E p \in Packets : ProcDestroy(p)
  \/ \E a \in Actors : Kill(a)
  \/ \E a \in Actors : KillStep(a)

Spec == Init /\ [][Next]_vars

(* The threads of the socket and of the callers keep running.  The peer    *)
(* closes at the latest when it sees our end of stream: without that a     *)
(* receive may wait for ever.  A remover is not fair: it may suspend       *)
(* itself beside an object it was given (ServerObjectRemover).             *)
Fairness ==
  /\ WF_vars(AcceptorStart \/ AcceptorRelease)
  /\ WF_vars(ThreadStep)
  /\ \A p \in Packets : WF_vars(ProcThread(p))
  /\ \A a \in Actors : SF_vars(KillStep(a))
  /\ WF_vars(sock = "shut" /\ PeerClose)

FairSpec == Spec /\ Fairness

-----------------------------------------------------------------------------
(* For Ordered connections the callbacks come in the promised order,       *)
(* whoever ends the connection and when.                                   *)
KeepsCallbackOrder == Callbacks!Spec

(* Nobody tells the application twice that a client is gone, and the       *)
(* descriptor is closed once: KillConnection and the thread may both be at *)
(* it (epAsyncTcpSocket.cpp 77-127).  A finite wait breaks it: the thread is *)
(* killed after it did either, and KillConnection does it again.           *)
DisconnectAtMostOnce ==
  options.forever /\ options.graceful =>
  /\ Cardinality({i \in DOMAIN calls : calls[i] = Callbacks!OnDisconnect}) <= 1
  /\ closes <= 1

(* OnReceived is handed a pointer to the socket on a processor's thread:   *)
(* while it runs the socket is not deleted, whatever became of the         *)
(* connection.                                                             *)
OwnerOutlivesProcessors ==
  \A p \in Packets : pth[p] \in {"started", "incall"} => life # "dead"

(* The number of OnReceived calls in progress never passes the maximum.    *)
CallbacksBounded ==
  options.max > 0 =>
    Cardinality({p \in Packets : pth[p] = "incall"}) <= options.max

(* The count is the number of holders, and the destructor, which holds one *)
(* itself, runs once nobody else had one.  The receiving thread holds      *)
(* none, so a processor it makes may retain an object that is dying.       *)
RefCountExact ==
  refCount = (IF life = "dying" THEN 1 ELSE 0)
             + (IF kpc[Acceptor] \in {"start", "release"} THEN 1 ELSE 0)
             + (IF container \in {"listed", "retired"} THEN 1 ELSE 0)
             + Cardinality({p \in Packets : proc[p] \in {"listed", "retired"}})

(* The count is right, it protects whoever relies on it, and the           *)
(* application sees an end that is told once and no more calls at a time   *)
(* than it allows.                                                         *)
SocketIsSound ==
  /\ TypeOK
  /\ RefCountExact /\ OwnerOutlivesProcessors
  /\ DisconnectAtMostOnce /\ CallbacksBounded

(* A socket is not deleted while its thread is in one of its functions or  *)
(* another thread is in its KillConnection.                                *)
NoUseAfterFree ==
  life = "dead" =>
    /\ ThreadGone
    /\ \A a \in Actors : kpc[a] = "idle"


(* The object of a connection that is out of the list gets destroyed.  It  *)
(* fails: the remover may miss the object, and the destructor may wait for *)
(* the thread it runs on.                                                  *)
RemovedIsDestroyed == container = "retired" ~> life = "dead"

(* It is destroyed once the remover has released it, without packet        *)
(* processors and with an infinite wait, if the application does not kill  *)
(* the connection on its own thread: nobody else keeps a reference, and    *)
(* the destructor finds nobody to wait for that waits for it.              *)
Unshared == options.forever /\ ~options.async /\ ~options.killInCallback

UnsharedIsDestroyed == (Unshared /\ container = "gone") ~> life = "dead"
=============================================================================
