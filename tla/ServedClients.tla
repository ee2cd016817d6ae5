---------------------------- MODULE ServedClients ----------------------------
(***************************************************************************)
(* The state of an AsyncTcpServer or a SyncTcpServer with its connections  *)
(* (epBaseTcpServer.h, epBaseServer.h), and what it promises in terms of   *)
(* that state alone: whom it serves, and what a StartServer finds.         *)
(* TcpServer has the steps.                                                *)
(***************************************************************************)
EXTENDS Integers, FiniteSets

CONSTANTS
  Clients,      (* the peers, each connects at most once                   *)
  NoClient,
  Limits,       (* values of m_maxConnectionCount; 0 is no limit           *)
  MaxStarts,    (* bound: how often the server is started                  *)
  Options       (* the ways to use the server that are checked             *)

User == "user"
Threads == {"acceptor", User}

ASSUME TcpServerAssumption ==
  /\ NoClient \notin Clients
  /\ Limits \subseteq Nat
  /\ MaxStarts \in Nat
  /\ Options \subseteq [sync : BOOLEAN, forever : BOOLEAN, shutdowns : BOOLEAN,
                        setLimit : BOOLEAN, faults : BOOLEAN]

VARIABLES
  options,      (* sync: a SyncTcpServer; forever: m_waitTime is           *)
                (* WAITTIME_INIFINITE; shutdowns: ShutdownAllClient is     *)
                (* called; setLimit: the limit is set while the server     *)
                (* runs; faults: accept fails by itself                    *)
  pc,           (* where the accept thread and the application's call are  *)
  stopping,     (* the application's call is StopServer                    *)
  limit,        (* m_maxConnectionCount                                    *)
  listen,       (* m_listenSocket: INVALID, open, closed but not INVALID   *)
  result,       (* m_result is allocated                                   *)
  winsock,      (* the process's count of WSAStartup, 1 of them elsewhere  *)
  starts,       (* bound: calls of StartServer that began                  *)
  handle,       (* each peer: none, backlog, then its descriptor           *)
  stage,        (* how far its socket got: none, new (not started),        *)
                (* running, closed (the descriptor is), left (the list, it *)
                (* is in OnDisconnect), ended                              *)
  holder,       (* who is in KillConnection of it, under m_baseSocketLock: *)
                (* a thread, one that was killed there (dead), free        *)
  told,         (* connections with shutdown(SD_SEND)                      *)
  taken,        (* those whose end KillConnection goes through itself      *)
  listed,       (* m_socketList                                            *)
  sizeEvent,    (* its m_sizeEvent                                         *)
  cur,          (* the connection the accept thread deals with             *)
  targets       (* of each shutdownAllClient in progress: still to kill    *)

IsServerStarted == listen # "invalid"

-----------------------------------------------------------------------------
(* Served: the descriptor is open and used. *)
Served == {c \in Clients : stage[c] = "running"}

(* No more connections than the limit have an open descriptor that is used *)
(* at a time, as long as the application neither moves the limit nor calls *)
(* ShutdownAllClient: the accept loop looks at the list only, after every  *)
(* Push, a connection leaves the list in three steps, and one that ran     *)
(* outside of the list would not count (epAsyncTcpServer.cpp 107-116).     *)
(* Their OnDisconnect may still run: that is after they left the list.     *)
ServedWithinLimit ==
  ~options.setLimit /\ ~options.shutdowns /\ limit > 0 => Cardinality(Served) <= limit

(* After the server has stopped, by StopServer or by itself, the           *)
(* descriptor of every connection it has started is closed: none was       *)
(* pushed after the snapshot and before the Clear of shutdownAllClient,    *)
(* and KillConnection returns only after it was closed. With               *)
(* ShutdownAllClient, which runs beside the accept thread, this fails:     *)
(* such a connection is out of the list and nobody ever kills it.          *)
StoppedServesNobody ==
  ~options.shutdowns /\ ~IsServerStarted /\ (\A t \in Threads : pc[t] = "idle") =>
    Served = {}

(* Who is served is in the list, which the limit and StopServer go by.     *)
ServesAsAllowed == ServedWithinLimit /\ StoppedServesNobody

(* StartServer gets the address it has resolved: no accept thread of an    *)
(* earlier start frees m_result under it.  It holds because StopServer     *)
(* waits for the thread, and fails if the thread ended by itself: it sets  *)
(* m_listenSocket to INVALID_SOCKET first and m_result to NULL later       *)
(* (BaseServer::cleanUpServer 234-243), without m_baseServerLock.          *)
StartHasAddress == pc[User] = "listen" /\ ~options.faults => result
=============================================================================
