------------------------------ MODULE TcpServer ------------------------------
(***************************************************************************)
(* AsyncTcpServer and SyncTcpServer with their bases: the thread that      *)
(* accepts connections, and the application's threads that call            *)
(* StartServer, StopServer, ShutdownAllClient and                          *)
(* SetMaximumConnectionCount.                                              *)
(*                                                                         *)
(* The application's calls hold m_baseServerLock from beginning to end, so *)
(* at most one is in progress: pc[User] is where it is, and the lock is    *)
(* free when it is nowhere.  The accept thread takes the lock only to read *)
(* the limit.  A connection is how far its socket has got: its descriptor  *)
(* is closed, then it leaves the list, then OnDisconnect runs              *)
(* (AsyncTcpSocket and SyncTcpSocket have the rest).  m_socketList is the  *)
(* set of connections ServerObjectRegistry promises.                       *)
(***************************************************************************)
EXTENDS ServedClients

Acceptor == "acceptor"

serverVars == <<limit, listen, result, winsock, starts>>
listVars == <<listed, sizeEvent>>
connVars == <<handle, stage, holder, told, taken>>
vars == <<options, pc, stopping, serverVars, connVars, listVars, cur, targets>>

Places == {"idle", "accept", "accepted", "onaccept", "push", "start", "limit", "count",
           "wait", "stop", "resolve", "listen", "thread", "invalidate", "join", "kill",
           "close", "free", "cleanup", "crashed"}

TypeOK ==
  /\ options \in Options
  /\ pc \in [Threads -> Places]
  /\ stopping \in BOOLEAN
  /\ limit \in Limits
  /\ listen \in {"invalid", "open", "closed"}
  /\ result \in BOOLEAN
  /\ winsock \in 0..(MaxStarts + 1)
  /\ starts \in 0..MaxStarts
  /\ handle \in [Clients -> {"none", "backlog", "open", "closed"}]
  /\ stage \in [Clients -> {"none", "new", "running", "closed", "left", "ended"}]
  /\ holder \in [Clients -> Threads \cup {"free", "dead"}]
  /\ told \subseteq Clients
  /\ taken \subseteq Clients
  /\ listed \subseteq Clients
  /\ sizeEvent \in BOOLEAN
  /\ cur \in Clients \cup {NoClient}
  /\ targets \in [Threads -> SUBSET Clients]

Init ==
  /\ options \in Options
  /\ pc = [t \in Threads |-> "idle"]
  /\ stopping = FALSE
  /\ limit \in Limits
  /\ listen = "invalid" /\ result = FALSE
  /\ winsock = 1 /\ starts = 0
  /\ handle = [c \in Clients |-> "none"]
  /\ stage = [c \in Clients |-> "none"]
  /\ holder = [c \in Clients |-> "free"]
  /\ told = {} /\ taken = {}
  /\ listed = {} /\ sizeEvent = FALSE
  /\ cur = NoClient
  /\ targets = [t \in Threads |-> {}]

Go(t, where) == pc' = [pc EXCEPT ![t] = where]

LockFree == pc[User] = "idle"

(* WSACleanup; without a matching WSAStartup it fails. *)
WSACleanup == winsock' = IF winsock > 0 THEN winsock - 1 ELSE 0

-----------------------------------------------------------------------------
(* The peers and the threads of the connections.                           *)

Connect(c) ==
  /\ listen = "open"
  /\ handle[c] = "none"
  /\ handle' = [handle EXCEPT ![c] = "backlog"]
  /\ UNCHANGED <<options, pc, stopping, serverVars, stage, holder, told, taken, listVars,
                 cur, targets>>

(* Mutant: Remove does not set the event. *)
LeaveListSilently(c) ==
  /\ listed' = listed \ {c}
  /\ UNCHANGED sizeEvent

(* Remove: the event is set only if the connection is found. *)
LeaveList(c) ==
  /\ listed' = listed \ {c}
  /\ sizeEvent' = (sizeEvent \/ c \in listed)

(* The peer is gone, or the application kills the connection: the thread   *)
(* of an asynchronous one, the Send, Receive or KillConnection of a        *)
(* synchronous one under its lock, closes the descriptor ...               *)
SocketClose(c) ==
  /\ stage[c] = "running"
  /\ options.sync => holder[c] = "free"
  /\ stage' = [stage EXCEPT ![c] = "closed"]
  /\ handle' = [handle EXCEPT ![c] = "closed"]
  /\ UNCHANGED <<options, pc, stopping, serverVars, holder, told, taken, listVars,
                 cur, targets>>

(* Who goes through the end of c still runs. *)
CanEnd(c) == c \in taken => holder[c] \in Threads

(* ... leaves the list, which a waiting accept thread may see at once ...  *)
SocketLeave(c) ==
  /\ stage[c] = "closed"
  /\ CanEnd(c)
  /\ stage' = [stage EXCEPT ![c] = "left"]
  /\ LeaveList(c)
  /\ UNCHANGED <<options, pc, stopping, serverVars, handle, holder, told, taken,
                 cur, targets>>

(* ... and has run OnDisconnect. *)
SocketEnd(c) ==
  /\ stage[c] = "left"
  /\ CanEnd(c)
  /\ stage' = [stage EXCEPT ![c] = "ended"]
  /\ UNCHANGED <<options, pc, stopping, serverVars, handle, holder, told, taken,
                 listVars, cur, targets>>

-----------------------------------------------------------------------------
(* shutdownAllClient and cleanUpServer, run by the accept thread when it   *)
(* ends (stopServer) and by the application's calls.                       *)

(* t can enter KillConnection of c, the next of its snapshot. *)
CanKill(t, c) ==
  /\ pc[t] = "kill"
  /\ c \in targets[t]
  /\ holder[c] = "free"
  /\ \A d \in Clients : holder[d] # t

(* AsyncTcpSocket: the descriptor is shut, so that the peer closes and the *)
(* thread ends, and TerminateAfter waits for it.                           *)
KillTell(t, c) ==
  /\ ~options.sync
  /\ CanKill(t, c)
  /\ stage[c] = "running"
  /\ holder' = [holder EXCEPT ![c] = t]
  /\ told' = told \cup {c}
  /\ UNCHANGED <<options, pc, stopping, serverVars, handle, stage, taken, listVars,
                 cur, targets>>

(* A finite wait is over: the thread is killed wherever it is, and the     *)
(* caller closes the descriptor and goes through the rest of the end.      *)
KillThread(t, c) ==
  /\ ~options.forever
  /\ holder[c] = t
  /\ c \notin taken
  /\ stage[c] \in {"running", "closed", "left"}
  /\ stage' = [stage EXCEPT ![c] = "closed"]
  /\ handle' = [handle EXCEPT ![c] = "closed"]
  /\ taken' = taken \cup {c}
  /\ UNCHANGED <<options, pc, stopping, serverVars, holder, told, listVars, cur, targets>>

(* SyncTcpSocket: the caller closes the descriptor and goes through the    *)
(* end; it waits for no thread.                                            *)
KillClose(t, c) ==
  /\ options.sync
  /\ CanKill(t, c)
  /\ stage[c] = "running"
  /\ holder' = [holder EXCEPT ![c] = t]
  /\ stage' = [stage EXCEPT ![c] = "closed"]
  /\ handle' = [handle EXCEPT ![c] = "closed"]
  /\ taken' = taken \cup {c}
  /\ UNCHANGED <<options, pc, stopping, serverVars, told, listVars, cur, targets>>

(* There is nothing to do: the thread has not been started or has ended,   *)
(* the connection is over; or the thread of an asynchronous one has closed *)
(* the descriptor, and is not waited for.  The Send or Receive that ends a *)
(* synchronous one has the lock until it has ended.                        *)
KillNothing(t, c) ==
  /\ CanKill(t, c)
  /\ stage[c] # "running"
  /\ options.sync => stage[c] \notin {"closed", "left"}
  /\ targets' = [targets EXCEPT ![t] = @ \ {c}]
  /\ UNCHANGED <<options, pc, stopping, serverVars, connVars, listVars, cur>>

(* Mutant: the thread is not waited for. *)
KillDoneAtOnce(t, c) ==
  /\ pc[t] = "kill"
  /\ holder[c] = t
  /\ holder' = [holder EXCEPT ![c] = "free"]
  /\ targets' = [targets EXCEPT ![t] = @ \ {c}]
  /\ UNCHANGED <<options, pc, stopping, serverVars, handle, stage, told, taken,
                 listVars, cur>>

(* The connection has ended, and KillConnection returns. *)
KillDone(t, c) ==
  /\ pc[t] = "kill"
  /\ holder[c] = t
  /\ stage[c] = "ended"
  /\ holder' = [holder EXCEPT ![c] = "free"]
  /\ targets' = [targets EXCEPT ![t] = @ \ {c}]
  /\ UNCHANGED <<options, pc, stopping, serverVars, handle, stage, told, taken,
                 listVars, cur>>

(* Clear, after the last one. *)
Clear(t) ==
  /\ pc[t] = "kill"
  /\ targets[t] = {}
  /\ listed' = {}
  /\ sizeEvent' = TRUE
  /\ Go(t, IF t = User /\ ~stopping THEN "idle" ELSE "close")
  /\ UNCHANGED <<options, stopping, serverVars, connVars, cur, targets>>

(* cleanUpServer: the listening socket, the address, Winsock. *)
CloseListen(t) ==
  /\ pc[t] = "close"
  /\ listen' = "invalid"
  /\ Go(t, "free")
  /\ UNCHANGED <<options, stopping, limit, result, winsock, starts, connVars,
                 listVars, cur, targets>>

FreeResult(t) ==
  /\ pc[t] = "free"
  /\ result' = FALSE
  /\ Go(t, "cleanup")
  /\ UNCHANGED <<options, stopping, limit, listen, winsock, starts, connVars,
                 listVars, cur, targets>>

CleanUp(t) ==
  /\ pc[t] = "cleanup"
  /\ WSACleanup
  /\ Go(t, "idle")
  /\ UNCHANGED <<options, stopping, limit, listen, result, starts, connVars,
                 listVars, cur, targets>>

ShutdownStep(t) ==
  \/ \E c \in Clients :
       KillTell(t, c) \/ KillThread(t, c) \/ KillClose(t, c) \/ KillNothing(t, c) \/ KillDone(t, c)
  \/ Clear(t)
  \/ CloseListen(t)
  \/ FreeResult(t)
  \/ CleanUp(t)

-----------------------------------------------------------------------------
(* execute.                                                                *)

(* accept: a connection from the backlog, or INVALID_SOCKET once the       *)
(* listening socket is closed or by itself.                                *)
Accept ==
  /\ pc[Acceptor] = "accept"
  /\ \/ /\ listen = "open"
        /\ \E c \in Clients :
             /\ handle[c] = "backlog"
             /\ handle' = [handle EXCEPT ![c] = "open"]
             /\ cur' = c
        /\ Go(Acceptor, "accepted")
     \/ /\ listen # "open" \/ options.faults
        /\ Go(Acceptor, "stop")
        /\ UNCHANGED <<handle, cur>>
  /\ UNCHANGED <<options, stopping, serverVars, stage, holder, told, taken, listVars, targets>>

(* A connection accepted just before StopServer sets m_listenSocket to     *)
(* INVALID_SOCKET is dropped as it is.                                     *)
Accepted ==
  /\ pc[Acceptor] = "accepted"
  /\ Go(Acceptor, IF IsServerStarted THEN "onaccept" ELSE "stop")
  /\ UNCHANGED <<options, stopping, serverVars, connVars, listVars, cur, targets>>

OnAccept ==
  /\ pc[Acceptor] = "onaccept"
  /\ \/ Go(Acceptor, "push") /\ UNCHANGED handle
     \/ /\ handle' = [handle EXCEPT ![cur] = "closed"]
        /\ Go(Acceptor, "accept")
  /\ UNCHANGED <<options, stopping, serverVars, stage, holder, told, taken, listVars,
                 cur, targets>>

(* The new socket goes into the list, and is started.  A synchronous one   *)
(* is alive from its constructor on; its thread only runs OnNewConnection. *)
Push ==
  /\ pc[Acceptor] = "push"
  /\ listed' = listed \cup {cur}
  /\ stage' = [stage EXCEPT ![cur] = IF options.sync THEN "running" ELSE "new"]
  /\ Go(Acceptor, "start")
  /\ UNCHANGED <<options, stopping, serverVars, handle, holder, told, taken, sizeEvent,
                 cur, targets>>

StartSocket ==
  /\ pc[Acceptor] = "start"
  /\ stage' = [stage EXCEPT ![cur] = IF options.sync THEN @ ELSE "running"]
  /\ Go(Acceptor, "limit")
  /\ UNCHANGED <<options, stopping, serverVars, handle, holder, told, taken, listVars,
                 cur, targets>>

(* GetMaximumConnectionCount, once to see whether there is a limit ...     *)
Limit ==
  /\ pc[Acceptor] = "limit"
  /\ LockFree
  /\ Go(Acceptor, IF limit = 0 THEN "accept" ELSE "count")
  /\ UNCHANGED <<options, stopping, serverVars, connVars, listVars, cur, targets>>

(* ... and again for every turn of the loop, 0 or not.                     *)
Count ==
  /\ pc[Acceptor] = "count"
  /\ LockFree
  /\ Go(Acceptor, IF Cardinality(listed) >= limit THEN "wait" ELSE "accept")
  /\ UNCHANGED <<options, stopping, serverVars, connVars, listVars, cur, targets>>

Wait ==
  /\ pc[Acceptor] = "wait"
  /\ sizeEvent
  /\ sizeEvent' = FALSE
  /\ Go(Acceptor, "count")
  /\ UNCHANGED <<options, stopping, serverVars, connVars, listed, cur, targets>>

(* stopServer: shutdownAllClient only if the socket is not INVALID. *)
StopSelf ==
  /\ pc[Acceptor] = "stop"
  /\ \/ /\ IsServerStarted
        /\ targets' = [targets EXCEPT ![Acceptor] = listed]
        /\ Go(Acceptor, "kill")
     \/ /\ ~IsServerStarted
        /\ Go(Acceptor, "close")
        /\ UNCHANGED targets
  /\ UNCHANGED <<options, stopping, serverVars, connVars, listVars, cur>>

AcceptorStep ==
  \/ Accept \/ Accepted \/ OnAccept \/ Push \/ StartSocket
  \/ Limit \/ Count \/ Wait \/ StopSelf
  \/ ShutdownStep(Acceptor)

-----------------------------------------------------------------------------
(* StartServer.  Of a server that is started, it returns at once.          *)

StartServer ==
  /\ pc[User] = "idle"
  /\ ~IsServerStarted
  /\ starts < MaxStarts
  /\ starts' = starts + 1
  /\ limit' \in IF options.setLimit THEN Limits ELSE {limit}
  /\ listen' = "invalid"
  /\ \/ /\ winsock' = winsock + 1            (* WSAStartup *)
        /\ result' = FALSE
        /\ stopping' = FALSE
        /\ Go(User, "resolve")
     \/ /\ result' = FALSE
        /\ UNCHANGED <<pc, stopping, winsock>>
  /\ UNCHANGED <<options, connVars, listVars, cur, targets>>

(* getaddrinfo; WSACleanup if it fails. *)
Resolve ==
  /\ pc[User] = "resolve"
  /\ \/ /\ result' = TRUE
        /\ Go(User, "listen")
        /\ UNCHANGED winsock
     \/ /\ WSACleanup
        /\ Go(User, "idle")
        /\ UNCHANGED result
  /\ UNCHANGED <<options, stopping, limit, listen, starts, connVars, listVars, cur, targets>>

(* socket, bind and listen use m_result; a failure of any of them ends in  *)
(* cleanUpServer.                                                          *)
Listen ==
  /\ pc[User] = "listen"
  /\ \/ /\ result
        /\ listen' = "open"
        /\ Go(User, "thread")
     \/ /\ result
        /\ Go(User, "close")
        /\ UNCHANGED listen
     \/ /\ ~result
        /\ Go(User, "crashed")
        /\ UNCHANGED listen
  /\ UNCHANGED <<options, stopping, limit, result, winsock, starts, connVars,
                 listVars, cur, targets>>

(* Start refuses while the thread of an earlier start runs. *)
StartThread ==
  /\ pc[User] = "thread"
  /\ \/ /\ pc[Acceptor] = "idle"
        /\ pc' = [t \in Threads |-> IF t = Acceptor THEN "accept" ELSE "idle"]
     \/ Go(User, "close")
  /\ UNCHANGED <<options, stopping, serverVars, connVars, listVars, cur, targets>>

-----------------------------------------------------------------------------
(* StopServer.                                                             *)

StopServer ==
  /\ pc[User] = "idle"
  /\ IsServerStarted
  /\ stopping' = TRUE
  /\ listen' = "closed"
  /\ Go(User, "invalidate")
  /\ UNCHANGED <<options, limit, result, winsock, starts, connVars, listVars, cur, targets>>

Invalidate ==
  /\ pc[User] = "invalidate"
  /\ listen' = "invalid"
  /\ Go(User, "join")
  /\ UNCHANGED <<options, stopping, limit, result, winsock, starts, connVars,
                 listVars, cur, targets>>

(* Mutant: TerminateAfter is left out. *)
JoinNot ==
  /\ pc[User] = "join"
  /\ Go(User, "kill")
  /\ targets' = [targets EXCEPT ![User] = listed]
  /\ UNCHANGED <<options, stopping, serverVars, connVars, listVars, cur>>

(* TerminateAfter(m_waitTime) under m_baseServerLock: an infinite wait for *)
(* the accept thread, or the thread is killed wherever it is, with the     *)
(* m_baseSocketLock it may have.  Then the snapshot of the list.           *)
Join ==
  /\ pc[User] = "join"
  /\ pc[Acceptor] = "idle" \/ ~options.forever
  /\ pc' = [t \in Threads |-> IF t = User THEN "kill" ELSE "idle"]
  /\ targets' = [t \in Threads |-> IF t = User THEN listed ELSE {}]
  /\ holder' = [c \in Clients |-> IF holder[c] = Acceptor THEN "dead" ELSE holder[c]]
  /\ UNCHANGED <<options, stopping, serverVars, handle, stage, told, taken, listVars, cur>>

ShutdownAllClient ==
  /\ options.shutdowns
  /\ pc[User] = "idle"
  /\ stopping' = FALSE
  /\ targets' = [targets EXCEPT ![User] = listed]
  /\ Go(User, "kill")
  /\ UNCHANGED <<options, serverVars, connVars, listVars, cur>>

SetMaximumConnectionCount ==
  /\ options.setLimit
  /\ LockFree
  /\ limit' \in Limits
  /\ UNCHANGED <<options, pc, stopping, listen, result, winsock, starts, connVars,
                 listVars, cur, targets>>

(* The call in progress goes on. *)
UserStep ==
  \/ Resolve \/ Listen \/ StartThread \/ Invalidate \/ Join
  \/ ShutdownStep(User)

Next ==
  \/ \E c \in Clients : Connect(c) \/ SocketClose(c) \/ SocketLeave(c) \/ SocketEnd(c)
  \/ AcceptorStep
  \/ StartServer \/ StopServer \/ ShutdownAllClient \/ SetMaximumConnectionCount
  \/ UserStep

Spec == Init /\ [][Next]_vars

(* The threads run and OnDisconnect returns.  A peer whose connection was  *)
(* shut closes it: without that the wait for its thread need not end.  The *)
(* accept thread gets m_baseServerLock in the end if it is free again and  *)
(* again.                                                                  *)
Fairness ==
  /\ SF_vars(AcceptorStep)
  /\ WF_vars(UserStep)
  /\ \A c \in Clients : /\ WF_vars(c \in told /\ SocketClose(c))
                        /\ WF_vars(SocketLeave(c)) /\ WF_vars(SocketEnd(c))

FairSpec == Spec /\ Fairness

-----------------------------------------------------------------------------
(* The accept thread sees that a connection has left, unless the limit is  *)
(* moved or StopServer holds the lock it needs and waits for it; or, in a  *)
(* SyncTcpServer, ShutdownAllClient holds it behind a Receive that does    *)
(* not give its m_baseSocketLock back (SyncTcpSocket has it).              *)
AcceptGoesOn ==
  (/\ pc[Acceptor] = "wait" /\ Cardinality(listed) < limit
   /\ ~options.setLimit /\ ~(options.sync /\ options.shutdowns))
    ~> (pc[Acceptor] \notin {"count", "wait"} \/ pc[User] = "join")

(* A connection that is still in its callbacks counts for the limit, and   *)
(* none of them is, once the server has stopped.  They are not counted and *)
(* not waited for: OnDisconnect runs after the connection has left the     *)
(* list (epAsyncTcpSocket.cpp 124-125), so the next one is accepted beside *)
(* it, and StopServer returns.                                             *)
Busy == {c \in Clients : stage[c] \in {"running", "closed", "left"}}
BusyWithinLimit ==
  ~options.setLimit /\ ~options.shutdowns /\ limit > 0 => Cardinality(Busy) <= limit
StoppedIsQuiet ==
  ~options.shutdowns /\ ~IsServerStarted /\ (\A t \in Threads : pc[t] = "idle") => Busy = {}

(* StopServer always returns.  It does not: Limit and Count need the lock  *)
(* that Join waits under; and an accept thread that was killed in          *)
(* KillConnection keeps the lock of the connection.                        *)
StopReturns == (pc[User] = "invalidate") ~> pc[User] = "idle"

(* "0 means there is no limit": the accept thread does not stay in the     *)
(* loop that waits for the limit when there is none, unless StopServer     *)
(* waits for it.  It does: Count compares with 0, and setting the limit    *)
(* sets no event.                                                          *)
NoLimitAccepts ==
  (limit = 0 /\ pc[Acceptor] = "wait")
    ~> (limit # 0 \/ pc[Acceptor] \notin {"count", "wait"} \/ pc[User] = "join")

(* The server leaves the other objects of the process their Winsock.  It   *)
(* does not: after a StopServer cleanUpServer has run twice, on the accept *)
(* thread and in the call, for one WSAStartup.                             *)
OthersKeepWinsock == winsock >= 1
=============================================================================
