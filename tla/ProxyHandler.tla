---------------------------- MODULE ProxyHandler ----------------------------
(***************************************************************************)
(* One connection of a ProxyTcpServer: the accepted socket, whose thread   *)
(* builds a handler (epBaseProxyHandler.cpp, epProxyTcpHandler.cpp), the   *)
(* handler's client of the forward server, and StopServer of the proxy     *)
(* (epBaseProxyServer.cpp).  The end of one side ends the other: the       *)
(* socket's thread calls Disconnect, the client's calls KillConnection,    *)
(* and both wait for the other thread without limit.                       *)
(*                                                                         *)
(* The client is AsyncTcpClient, instantiated; of the socket there is what *)
(* the proxy meets of AsyncTcpSocket without processors.  The application  *)
(* only listens.                                                           *)
(***************************************************************************)
EXTENDS Naturals, SequencesExt

CONSTANTS
  Socket,        (* the thread of the accepted socket                      *)
  Thread,        (* the thread of the forward client                       *)
  Stopper,       (* the thread in StopServer                               *)
  Free,
  MaxSessions,   (* bound: threads that the forward client starts          *)
  MaxPackets     (* bound: packets of each side                            *)

ASSUME ProxyAssumption ==
  /\ Socket # Thread /\ Socket # Stopper /\ Thread # Stopper
  /\ Free \notin {Socket, Thread, Stopper}

Users == {Socket, Stopper}
Waiting == [forever |-> TRUE, graceful |-> TRUE, inside |-> FALSE]
Options == {Waiting}

VARIABLES
  options, lock, cpc, killed, tpc, sock, result, winsock, peer, inbound, sessions, calls,
               (* the forward client: see AsyncTcpClient                   *)
  stops,       (* StopServer may be called                                 *)
  spc,         (* the thread of the socket                                 *)
  client,      (* m_clientSocket: open, shut for sending, invalid          *)
  remote, arriving,    (* the proxy's client: its end, its packets         *)
  sockLock,    (* m_baseSocketLock                                         *)
  listed,      (* the server's list refers to the socket                   *)
  freed,       (* the socket was destroyed                                 *)
  kpc,         (* Thread and Stopper in KillConnection, Thread in OnReceived *)
  stopPc,      (* StopServer of the proxy                                  *)
  handler,     (* none, built or deleted                                   *)
  handlerLock, (* m_baseProxyHandlerLock                                   *)
  proxyLock,   (* m_baseProxyServerLock                                    *)
  told         (* history: the application's callbacks, oldest first       *)

Forward == INSTANCE AsyncTcpClient

setting == <<options, stops>>
clientVars == <<lock, cpc, killed, tpc, sock, result, winsock, peer, inbound, sessions, calls>>
socketVars == <<spc, client, sockLock, listed, freed, kpc>>
proxyVars == <<stopPc, handler, handlerLock, proxyLock, told>>
vars == <<clientVars, setting, socketVars, remote, arriving, proxyVars>>

TypeOK ==
  /\ Forward!TypeOK
  /\ {stops, listed, freed} \subseteq BOOLEAN
  /\ spc \in {"new", "connect", "receive", "lock", "callback", "close", "remove", "end",
              "wait", "tell", "told", "ended"}
  /\ client \in {"open", "shut", "invalid"}
  /\ remote \in {"open", "closed"}
  /\ arriving \in 0..MaxPackets
  /\ sockLock \in {Free, Thread, Stopper}
  /\ kpc \in [{Thread, Stopper} -> {"idle", "kill", "join", "received", "callback"}]
  /\ stopPc \in {"idle", "kill", "delete", "wait", "done"}
  /\ handler \in {"none", "built", "deleted"}
  /\ handlerLock \in {Free, Socket, Thread}
  /\ proxyLock \in {Free, Socket, Stopper}
  /\ told \in Seq({"client", "server", "end"})

(* A socket was accepted and its thread starts. *)
Init ==
  /\ Forward!Init
  /\ stops \in BOOLEAN
  /\ spc = "new"
  /\ client = "open" /\ remote = "open" /\ arriving = 0
  /\ sockLock = Free
  /\ listed = TRUE /\ freed = FALSE
  /\ kpc = [a \in {Thread, Stopper} |-> "idle"]
  /\ stopPc = "idle"
  /\ handler = "none" /\ handlerLock = Free /\ proxyLock = Free
  /\ told = <<>>

Enter(a, operation) ==
  /\ cpc' = [cpc EXCEPT ![a] = operation]
  /\ UNCHANGED <<lock, killed, tpc, sock, result, winsock, peer, inbound, sessions, calls>>
Back(a) == cpc[a] = "idle" /\ UNCHANGED clientVars

-----------------------------------------------------------------------------
(* The thread of the socket.                                               *)

(* OnNewConnection builds the handler under the lock of the proxy; its     *)
(* constructor connects to the forward server.                             *)
SocketNew ==
  /\ spc = "new"
  /\ proxyLock = Free
  /\ proxyLock' = Socket
  /\ handler' = "built"
  /\ Enter(Socket, "connect")
  /\ spc' = "connect"
  /\ UNCHANGED <<client, listed, arriving, handlerLock, told>>

(* Whether the client is connected is not looked at. *)
SocketBuilt ==
  /\ spc = "connect"
  /\ Back(Socket)
  /\ proxyLock' = Free
  /\ spc' = "receive"
  /\ UNCHANGED <<client, listed, arriving, handler, handlerLock, told>>

SocketReceive ==
  /\ spc = "receive"
  /\ \/ arriving > 0 /\ arriving' = arriving - 1 /\ spc' = "lock"
     \/ arriving = 0 /\ remote = "closed" /\ spc' = "close" /\ UNCHANGED arriving
  /\ UNCHANGED <<clientVars, client, listed, handler, handlerLock, proxyLock, told>>

(* OnReceived. *)
SocketCallback ==
  /\ spc = "lock"
  /\ handlerLock = Free
  /\ handlerLock' = Socket
  /\ told' = Append(told, "client")
  /\ spc' = "callback"
  /\ UNCHANGED <<clientVars, client, listed, arriving, handler, proxyLock>>

SocketReturn ==
  /\ spc = "callback"
  /\ handlerLock' = Free
  /\ spc' = "receive"
  /\ UNCHANGED <<clientVars, client, listed, arriving, handler, proxyLock, told>>

(* Mutant: the descriptor is closed last. *)
SocketCloseLate ==
  /\ spc = "close"
  /\ spc' = "remove"
  /\ UNCHANGED <<clientVars, client, listed, arriving, handler, handlerLock, proxyLock, told>>

(* killConnection. *)
SocketClose ==
  /\ spc = "close"
  /\ client' = "invalid"
  /\ spc' = "remove"
  /\ UNCHANGED <<clientVars, listed, arriving, handler, handlerLock, proxyLock, told>>

SocketRemove ==
  /\ spc = "remove"
  /\ listed' = FALSE
  /\ spc' = "end"
  /\ UNCHANGED <<clientVars, client, arriving, handler, handlerLock, proxyLock, told>>

(* Mutant: the application is told before the client is disconnected. *)
SocketEndAtOnce ==
  /\ spc = "end"
  /\ spc' = "tell"
  /\ UNCHANGED <<clientVars, client, listed, arriving, handler, handlerLock, proxyLock, told>>

(* Mutant: OnDisconnect takes the lock of the handler first. *)
SocketEndLocked ==
  /\ spc = "end"
  /\ handlerLock = Free
  /\ handlerLock' = Socket
  /\ Enter(Socket, "disconnect")
  /\ spc' = "wait"
  /\ UNCHANGED <<client, listed, arriving, handler, proxyLock, told>>

(* OnDisconnect: Disconnect of the client ... *)
SocketEnd ==
  /\ spc = "end"
  /\ Enter(Socket, "disconnect")
  /\ spc' = "wait"
  /\ UNCHANGED <<client, listed, arriving, handler, handlerLock, proxyLock, told>>

SocketEndBack ==
  /\ spc = "wait"
  /\ Back(Socket)
  /\ spc' = "tell"
  /\ UNCHANGED <<client, listed, arriving, handler, handlerLock, proxyLock, told>>

(* ... and then the lock and the application. *)
SocketTell ==
  /\ spc = "tell"
  /\ handlerLock \in {Free, Socket}
  /\ handlerLock' = Socket
  /\ told' = Append(told, "end")
  /\ spc' = "told"
  /\ UNCHANGED <<clientVars, client, listed, arriving, handler, proxyLock>>

SocketEnded ==
  /\ spc = "told"
  /\ handlerLock' = Free
  /\ spc' = "ended"
  /\ UNCHANGED <<clientVars, client, listed, arriving, handler, proxyLock, told>>

SocketStep ==
  /\ handler # "deleted"
  /\ \/ SocketNew \/ SocketBuilt \/ SocketReceive \/ SocketCallback \/ SocketReturn
     \/ SocketClose \/ SocketRemove \/ SocketEnd \/ SocketEndBack \/ SocketTell
     \/ SocketEnded
  /\ UNCHANGED <<setting, sockLock, freed, kpc, remote, stopPc>>

-----------------------------------------------------------------------------
(* KillConnection of the socket.                                           *)

KillEnter(a) ==
  /\ kpc[a] = "kill"
  /\ sockLock = Free
  /\ \/ /\ spc = "ended" \/ client = "invalid"
        /\ kpc' = [kpc EXCEPT ![a] = "idle"]
        /\ UNCHANGED <<sockLock, client>>
     \/ /\ spc # "ended" /\ client # "invalid"
        /\ kpc' = [kpc EXCEPT ![a] = "join"]
        /\ sockLock' = a
        /\ client' = "shut"
  /\ UNCHANGED <<clientVars, setting, spc, listed, freed, remote, arriving, proxyVars>>

KillJoin(a) ==
  /\ kpc[a] = "join"
  /\ spc = "ended"
  /\ kpc' = [kpc EXCEPT ![a] = "idle"]
  /\ sockLock' = Free
  /\ UNCHANGED <<clientVars, setting, spc, client, listed, freed, remote, arriving, proxyVars>>

(* The remover of the server's list destroys the socket; its destructor    *)
(* finds the descriptor invalid and waits for nobody.                      *)
Destroy ==
  /\ ~listed /\ ~freed
  /\ sockLock = Free
  /\ freed' = TRUE
  /\ UNCHANGED <<clientVars, setting, spc, client, sockLock, listed, kpc, remote, arriving,
                 proxyVars>>

-----------------------------------------------------------------------------
(* The thread of the forward client: what it does in the handler.          *)

ClientReceive ==
  /\ Forward!ThreadReceive
  /\ kpc' = [kpc EXCEPT ![Thread] = "received"]
  /\ UNCHANGED <<client, sockLock, handlerLock, told>>

ClientCallback ==
  /\ kpc[Thread] = "received"
  /\ handlerLock = Free
  /\ handlerLock' = Thread
  /\ told' = Append(told, "server")
  /\ kpc' = [kpc EXCEPT ![Thread] = "callback"]
  /\ UNCHANGED <<clientVars, client, sockLock>>

ClientReturn ==
  /\ kpc[Thread] = "callback"
  /\ handlerLock' = Free
  /\ Forward!ThreadReturn
  /\ kpc' = [kpc EXCEPT ![Thread] = "idle"]
  /\ UNCHANGED <<client, sockLock, told>>

(* OnDisconnect of the client is KillConnection of the socket. *)
ClientNotify ==
  /\ Forward!ThreadNotify
  /\ kpc' = [kpc EXCEPT ![Thread] = "kill"]
  /\ UNCHANGED <<client, sockLock, handlerLock, told>>

ClientStep ==
  /\ handler # "deleted"
  /\ \/ /\ \/ ClientReceive \/ ClientCallback \/ ClientReturn \/ ClientNotify
        /\ UNCHANGED <<setting, spc, listed, freed, remote, arriving, stopPc, handler, proxyLock>>
     \/ /\ \/ Forward!ReceiveEnds
           \/ Forward!ThreadCleanUp
           \/ kpc[Thread] = "idle" /\ Forward!ThreadEnd
        /\ UNCHANGED <<setting, socketVars, remote, arriving, proxyVars>>
     \/ KillEnter(Thread) \/ KillJoin(Thread)

-----------------------------------------------------------------------------
(* StopServer of the proxy: StopServer of its server kills the connections *)
(* in its list, then the handlers are deleted, with their clients.         *)

StopServer ==
  /\ stops
  /\ stopPc = "idle"
  /\ stopPc' = "kill"
  /\ kpc' = [kpc EXCEPT ![Stopper] = IF listed THEN "kill" ELSE "idle"]
  /\ UNCHANGED <<clientVars, setting, spc, client, sockLock, listed, freed, remote, arriving,
                 handler, handlerLock, proxyLock, told>>

StopDelete ==
  /\ stopPc = "kill"
  /\ kpc[Stopper] = "idle"
  /\ proxyLock = Free
  /\ proxyLock' = Stopper
  /\ listed' = FALSE
  /\ \/ handler = "none" /\ UNCHANGED clientVars
     \/ handler = "built" /\ Enter(Stopper, "disconnect")
  /\ stopPc' = "wait"
  /\ UNCHANGED <<kpc, client, sockLock, handler>>

StopDone ==
  /\ stopPc = "wait"
  /\ Back(Stopper)
  /\ handler' = IF handler = "built" THEN "deleted" ELSE handler
  /\ proxyLock' = Free
  /\ stopPc' = "done"
  /\ UNCHANGED <<kpc, client, sockLock, listed>>

StopStep ==
  \/ /\ StopDelete \/ StopDone
     /\ UNCHANGED <<setting, spc, freed, remote, arriving, handlerLock, told>>
  \/ KillEnter(Stopper) \/ KillJoin(Stopper)

-----------------------------------------------------------------------------
(* The client of the proxy, and the forward server.                        *)

RemoteSend ==
  /\ remote = "open"
  /\ Len(SelectSeq(told, LAMBDA t : t = "client")) + arriving < MaxPackets
  /\ spc \in {"receive", "callback"}
  /\ arriving' = arriving + 1
  /\ UNCHANGED <<clientVars, setting, socketVars, remote, proxyVars>>

RemoteClose ==
  /\ remote = "open"
  /\ remote' = "closed"
  /\ UNCHANGED <<clientVars, setting, socketVars, arriving, proxyVars>>

ServerStep ==
  /\ Forward!PeerSend \/ Forward!PeerClose
  /\ UNCHANGED <<setting, socketVars, remote, arriving, proxyVars>>

CallStep(a) ==
  /\ Forward!CallStep(a)
  /\ UNCHANGED <<setting, socketVars, remote, arriving, proxyVars>>

-----------------------------------------------------------------------------
Next ==
  \/ SocketStep \/ ClientStep \/ StopServer \/ StopStep \/ Destroy
  \/ \E a \in Users : CallStep(a)
  \/ RemoteSend \/ RemoteClose \/ ServerStep

Spec == Init /\ [][Next]_vars

(* Threads run and get locks that are free again and again; whoever sees a *)
(* shutdown closes.                                                        *)
Fairness ==
  /\ SF_vars(SocketStep) /\ SF_vars(ClientStep) /\ SF_vars(StopStep)
  /\ \A a \in Users : SF_vars(CallStep(a))
  /\ WF_vars(client # "open" /\ RemoteClose)
  /\ WF_vars(sock # "open" /\ ServerStep)

FairSpec == Spec /\ Fairness

-----------------------------------------------------------------------------
(* The application is told the end of a connection once, and nothing of it *)
(* after that, from either thread: OnDisconnect waits for the client's     *)
(* thread, or finds that it no longer receives (epBaseProxyHandler.cpp     *)
(* 78-84, epAsyncTcpClient.cpp 265-292).                                   *)
ToldOnceAndLast ==
  \A i \in 1..Len(told) : told[i] = "end" => i = Len(told)

(* The two threads never wait for each other: each invalidates its own     *)
(* descriptor before it looks at the other's.                              *)
NoMutualWait ==
  ~(cpc[Socket] = "join" /\ kpc[Thread] = "join")

(* The end of one side is the end of the other, if the proxy is not        *)
(* stopped.                                                                *)
EndsTogether ==
  /\ (spc = "close" /\ ~stops) ~> (spc = "ended" /\ tpc = "none")
  /\ (tpc = "close" /\ ~stops) ~> (spc = "ended" /\ tpc = "none")

(* StopServer comes back.  It fails: it holds m_baseSocketLock and waits   *)
(* for the socket's thread, which waits for the client's thread, which     *)
(* wants m_baseSocketLock for KillConnection.                              *)
StopReturns == (stopPc # "idle") ~> (stopPc = "done")

(* KillConnection is called on a socket that exists.  It fails: the        *)
(* handler holds no reference to m_client.                                 *)
NoUseAfterFree == kpc[Thread] \in {"kill", "join"} => ~freed

(* A handler is deleted when no thread is in it any more.  It fails.       *)
DeletedUnused ==
  handler = "deleted" => spc \in {"new", "ended"} /\ tpc = "none"
=============================================================================
