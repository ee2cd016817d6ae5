--------------------------- MODULE AsyncTcpClient ---------------------------
(***************************************************************************)
(* A client (epAsyncTcpClient.cpp, epBaseClient.cpp) that receives without *)
(* packet processors: Connect and Disconnect of several threads, which are *)
(* serialised by m_generalLock, against the receiving thread, which cleans *)
(* up and tells the application without that lock.                         *)
(*                                                                         *)
(* Send is that of TcpFraming; the processors of an asynchronous receive   *)
(* are those of AsyncTcpSocket.  One look at m_connectSocket and the       *)
(* shutdown after it are one step.                                         *)
(***************************************************************************)
EXTENDS Naturals, SequencesExt

CONSTANTS
  Users,         (* threads of the application                             *)
  Thread,        (* the receiving thread, inside of its callbacks          *)
  Free,
  MaxSessions,   (* bound: threads that are started                        *)
  MaxPackets,    (* bound: packets of one session                          *)
  Options        (* the ways to use the client that are checked            *)

ASSUME AsyncTcpClientAssumption ==
  /\ Thread \notin Users /\ Free \notin Users \cup {Thread}
  /\ MaxSessions \in Nat /\ MaxPackets \in Nat
  /\ Options \subseteq [forever : BOOLEAN, graceful : BOOLEAN, inside : BOOLEAN]
  /\ \A o \in Options : o.inside => o.forever

Actors == Users \cup {Thread}

VARIABLES
  options,     (* forever: m_waitTime is infinite; graceful: what          *)
               (* TerminateAfter calls the end of a thread that had ended; *)
               (* inside: callbacks call Connect and Disconnect            *)
  lock,        (* m_generalLock                                            *)
  cpc,         (* each actor in Connect or Disconnect                      *)
  killed,      (* TerminateAfter was not graceful                          *)
  tpc,         (* the receiving thread, "none" when it does not exist      *)
  sock,        (* m_connectSocket: invalid, open, or shut for sending      *)
  result,      (* m_result is not NULL                                     *)
  winsock,     (* WSAStartup less WSACleanup of the process; another       *)
               (* object of it counts 1                                    *)
  peer, inbound,   (* the server's end; packets that are on their way      *)
  sessions,
  calls        (* history: sessions, packets and ends, oldest first        *)

callVars == <<lock, cpc, killed>>
cleanVars == <<sock, result, winsock>>
netVars == <<peer, inbound>>
vars == <<options, callVars, tpc, cleanVars, netVars, sessions, calls>>

Sessions == INSTANCE ClientSessions

TypeOK ==
  /\ options \in Options
  /\ lock \in Actors \cup {Free}
  /\ cpc \in [Actors -> {"idle", "connect", "resolve", "socket", "start", "return",
                         "disconnect", "shutdown", "terminate", "join", "close", "free",
                         "cleanup", "notify"}]
  /\ killed \in BOOLEAN
  /\ tpc \in {"none", "receive", "callback", "close", "free", "cleanup", "notify", "told"}
  /\ sock \in {"invalid", "open", "shut"}
  /\ result \in BOOLEAN
  /\ winsock \in Nat
  /\ peer \in {"none", "open", "closed"}
  /\ inbound \in 0..MaxPackets
  /\ sessions \in 0..MaxSessions
  /\ calls \in Seq({"connected", "received", "disconnect"} \X Nat)

Init ==
  /\ options \in Options
  /\ lock = Free
  /\ cpc = [a \in Actors |-> "idle"] /\ killed = FALSE
  /\ tpc = "none"
  /\ sock = "invalid" /\ result = FALSE /\ winsock = 1
  /\ peer = "none" /\ inbound = 0
  /\ sessions = 0
  /\ calls = <<>>

IsConnectionAlive == tpc # "none"

Go(a, where) == cpc' = [cpc EXCEPT ![a] = where]
Lock(a) == lock = Free /\ lock' = a
Return(a) == lock' = Free /\ Go(a, "idle")

-----------------------------------------------------------------------------
(* The application calls; a callback of the thread may call as well.       *)

MayCall(a) ==
  /\ cpc[a] = "idle"
  /\ a = Thread => options.inside /\ tpc \in {"callback", "told"}

Call(a) ==
  /\ MayCall(a)
  /\ \E operation \in {"connect", "disconnect"} : Go(a, operation)
  /\ UNCHANGED <<lock, killed, tpc, cleanVars, netVars, sessions, calls>>

-----------------------------------------------------------------------------
(* Connect.                                                                *)

ConnectAlive(a) ==
  /\ cpc[a] = "connect"
  /\ lock = Free
  /\ IsConnectionAlive
  /\ Go(a, "idle")
  /\ UNCHANGED <<lock, killed, tpc, cleanVars, netVars, sessions, calls>>

(* WSAStartup works or not. *)
ConnectBegin(a) ==
  /\ cpc[a] = "connect"
  /\ sessions < MaxSessions
  /\ lock = Free
  /\ ~IsConnectionAlive
  /\ sock' = "invalid"
  /\ killed' = FALSE
  /\ \/ lock' = a /\ winsock' = winsock + 1 /\ Go(a, "resolve")
     \/ Go(a, "idle") /\ UNCHANGED <<lock, winsock>>
  /\ UNCHANGED <<tpc, result, netVars, sessions, calls>>

(* getaddrinfo works or not. *)
Resolve(a) ==
  /\ cpc[a] = "resolve"
  /\ \/ result' = TRUE /\ Go(a, "socket") /\ UNCHANGED <<lock, winsock>>
     \/ winsock' = winsock - 1 /\ Return(a) /\ UNCHANGED result
  /\ UNCHANGED <<killed, tpc, sock, netVars, sessions, calls>>

(* The loop over the addresses ends with a connection or without one. *)
ConnectSocket(a) ==
  /\ cpc[a] = "socket"
  /\ \/ sock' = "open" /\ peer' = "open" /\ inbound' = 0 /\ Go(a, "start")
     \/ Go(a, "close") /\ UNCHANGED <<sock, peer, inbound>>
  /\ UNCHANGED <<lock, killed, tpc, result, winsock, sessions, calls>>

(* Start works or not. *)
StartThread(a) ==
  /\ cpc[a] = "start"
  /\ \/ /\ tpc' = "receive"
        /\ sessions' = sessions + 1
        /\ calls' = Append(calls, Sessions!Connected)
        /\ Go(a, "return")
     \/ Go(a, "close") /\ UNCHANGED <<tpc, sessions, calls>>
  /\ UNCHANGED <<lock, killed, cleanVars, netVars>>

(* The thread runs already, and may even have ended. *)
ConnectReturn(a) ==
  /\ cpc[a] = "return"
  /\ Return(a)
  /\ UNCHANGED <<killed, tpc, cleanVars, netVars, sessions, calls>>

-----------------------------------------------------------------------------
(* cleanUpClient, on the thread and in Connect and Disconnect.             *)

CloseSocket ==
  /\ sock' = "invalid"
  /\ UNCHANGED <<result, winsock>>

(* Mutant: the addresses are not freed. *)
FreeResultNot == UNCHANGED <<result, sock, winsock>>

FreeResult ==
  /\ result' = FALSE
  /\ UNCHANGED <<sock, winsock>>

WSACleanup ==
  /\ winsock' = IF winsock = 0 THEN 0 ELSE winsock - 1
  /\ UNCHANGED <<sock, result>>

CleanUp(a) ==
  /\ \/ cpc[a] = "close" /\ CloseSocket /\ Go(a, "free") /\ UNCHANGED lock
     \/ cpc[a] = "free" /\ FreeResult /\ Go(a, "cleanup") /\ UNCHANGED lock
     \/ cpc[a] = "cleanup" /\ WSACleanup
          /\ IF killed THEN Go(a, "notify") /\ UNCHANGED lock ELSE Return(a)
  /\ UNCHANGED <<killed, tpc, netVars, sessions, calls>>

-----------------------------------------------------------------------------
(* Disconnect.                                                             *)

DisconnectEnter(a) ==
  /\ cpc[a] = "disconnect"
  /\ lock = Free
  /\ \/ ~IsConnectionAlive /\ Go(a, "idle") /\ UNCHANGED lock
     \/ IsConnectionAlive /\ Lock(a) /\ Go(a, "shutdown")
  /\ killed' = FALSE
  /\ UNCHANGED <<tpc, cleanVars, netVars, sessions, calls>>

(* Mutant: without the shutdown the server never sees an end. *)
ShutdownNot(a) ==
  /\ cpc[a] = "shutdown"
  /\ \/ sock = "invalid" /\ Return(a)
     \/ sock # "invalid" /\ Go(a, "terminate") /\ UNCHANGED lock
  /\ UNCHANGED <<killed, tpc, cleanVars, netVars, sessions, calls>>

(* The thread may have invalidated the descriptor: there is nothing to do. *)
Shutdown(a) ==
  /\ cpc[a] = "shutdown"
  /\ \/ sock = "invalid" /\ Return(a) /\ UNCHANGED sock
     \/ sock # "invalid" /\ sock' = "shut" /\ Go(a, "terminate") /\ UNCHANGED lock
  /\ UNCHANGED <<killed, tpc, result, winsock, netVars, sessions, calls>>

(* TerminateAfter of a thread that has ended, or that is waited for. *)
Terminate(a) ==
  /\ cpc[a] = "terminate"
  /\ \/ IsConnectionAlive /\ Go(a, "join") /\ UNCHANGED <<lock, killed>>
     \/ ~IsConnectionAlive /\ options.graceful /\ Return(a) /\ UNCHANGED killed
     \/ ~IsConnectionAlive /\ ~options.graceful /\ killed' = TRUE /\ Go(a, "close")
          /\ UNCHANGED lock
  /\ UNCHANGED <<tpc, cleanVars, netVars, sessions, calls>>

(* Mutant: what TerminateAfter returns is not looked at. *)
JoinGoesOn(a) ==
  /\ cpc[a] = "join"
  /\ a # Thread
  /\ \/ ~IsConnectionAlive
     \/ ~options.forever
  /\ tpc' = "none" /\ killed' = TRUE /\ Go(a, "close") /\ UNCHANGED lock
  /\ UNCHANGED <<cleanVars, netVars, sessions, calls>>

(* It has ended, or it is killed wherever it is.  Nobody waits for himself *)
(* to the end.                                                             *)
Join(a) ==
  /\ cpc[a] = "join"
  /\ a # Thread
  /\ \/ ~IsConnectionAlive /\ Return(a) /\ UNCHANGED <<tpc, killed>>
     \/ /\ ~options.forever /\ IsConnectionAlive
        /\ tpc' = "none" /\ killed' = TRUE /\ Go(a, "close") /\ UNCHANGED lock
  /\ UNCHANGED <<cleanVars, netVars, sessions, calls>>

DisconnectNotify(a) ==
  /\ cpc[a] = "notify"
  /\ calls' = Append(calls, Sessions!OnDisconnect)
  /\ Return(a)
  /\ UNCHANGED <<killed, tpc, cleanVars, netVars, sessions>>

CallStep(a) ==
  /\ \/ ConnectAlive(a) \/ ConnectBegin(a) \/ Resolve(a) \/ ConnectSocket(a)
     \/ StartThread(a) \/ ConnectReturn(a) \/ CleanUp(a) \/ DisconnectEnter(a)
     \/ Shutdown(a) \/ Terminate(a) \/ Join(a) \/ DisconnectNotify(a)
  /\ UNCHANGED options

-----------------------------------------------------------------------------
(* The receiving thread.                                                   *)

ThreadReceive ==
  /\ tpc = "receive"
  /\ inbound > 0
  /\ inbound' = inbound - 1
  /\ calls' = Append(calls, Sessions!OnReceived(Last(calls)[2] + 1))
  /\ tpc' = "callback"
  /\ UNCHANGED <<callVars, cleanVars, peer, sessions>>

ThreadReturn ==
  /\ tpc = "callback"
  /\ cpc[Thread] = "idle"
  /\ tpc' = "receive"
  /\ UNCHANGED <<callVars, cleanVars, netVars, sessions, calls>>

(* recv finds the end of the stream, or an error; disconnect. *)
ReceiveEnds ==
  /\ tpc = "receive"
  /\ peer = "closed" /\ inbound = 0
  /\ tpc' = "close"
  /\ UNCHANGED <<callVars, cleanVars, netVars, sessions, calls>>

ThreadCleanUp ==
  /\ \/ tpc = "close" /\ CloseSocket /\ tpc' = "free"
     \/ tpc = "free" /\ FreeResult /\ tpc' = "cleanup"
     \/ tpc = "cleanup" /\ WSACleanup /\ tpc' = "notify"
  /\ UNCHANGED <<callVars, netVars, sessions, calls>>

(* Mutant: the thread leaves the last word to Disconnect. *)
ThreadNotifyNot ==
  /\ tpc = "notify"
  /\ tpc' = "told"
  /\ UNCHANGED <<callVars, cleanVars, netVars, sessions, calls>>

ThreadNotify ==
  /\ tpc = "notify"
  /\ calls' = Append(calls, Sessions!OnDisconnect)
  /\ tpc' = "told"
  /\ UNCHANGED <<callVars, cleanVars, netVars, sessions>>

ThreadEnd ==
  /\ tpc = "told"
  /\ cpc[Thread] = "idle"
  /\ tpc' = "none"
  /\ UNCHANGED <<callVars, cleanVars, netVars, sessions, calls>>

ThreadStep ==
  /\ \/ ThreadReceive \/ ThreadReturn \/ ReceiveEnds \/ ThreadCleanUp \/ ThreadNotify
     \/ ThreadEnd
  /\ UNCHANGED options

-----------------------------------------------------------------------------
(* The server.                                                             *)

PeerSend ==
  /\ peer = "open"
  /\ tpc \in {"receive", "callback"}
  /\ Last(calls)[2] + inbound < MaxPackets
  /\ inbound' = inbound + 1
  /\ UNCHANGED <<options, callVars, tpc, cleanVars, peer, sessions, calls>>

PeerClose ==
  /\ peer = "open"
  /\ peer' = "closed"
  /\ UNCHANGED <<options, callVars, tpc, cleanVars, inbound, sessions, calls>>

-----------------------------------------------------------------------------
Next ==
  \/ \E a \in Actors : Call(a) /\ UNCHANGED options
  \/ \E a \in Actors : CallStep(a)
  \/ ThreadStep
  \/ PeerSend \/ PeerClose

Spec == Init /\ [][Next]_vars

(* A call that can go on does, also when the lock is free only again and   *)
(* again; the thread runs; a server that sees the shutdown closes.         *)
Fairness ==
  /\ \A a \in Actors : SF_vars(CallStep(a))
  /\ WF_vars(ThreadStep)
  /\ WF_vars(sock # "open" /\ PeerClose)

FairSpec == Spec /\ Fairness

-----------------------------------------------------------------------------
Patient == options.forever /\ options.graceful

(* Whoever ends a session, the application is told once, after its packets *)
(* and before the next session (disconnect and Disconnect,                 *)
(* epAsyncTcpClient.cpp 255-292).                                          *)
ImplementsSessions ==
  [][Patient => Sessions!Next]_calls

(* When nobody is in Connect or Disconnect and no thread runs, no session  *)
(* is open to the application, and descriptor, addresses and, unless the   *)
(* thread was killed, the reference to Winsock have been given back, on    *)
(* every path through Connect, Disconnect and the thread.                  *)
NothingLeaks ==
  lock = Free /\ ~IsConnectionAlive =>
    /\ Sessions!Idle
    /\ sock = "invalid" /\ ~result
    /\ Patient => winsock = 1

(* The end of the connection gets to the application, unless a callback    *)
(* calls Disconnect.                                                       *)
EndIsTold ==
  (IsConnectionAlive /\ peer = "closed" /\ ~options.inside) ~> Sessions!Idle

(* Disconnect comes back if the server answers the shutdown and no callback *)
(* calls the client: the thread needs none of the locks of Disconnect.     *)
DisconnectReturns ==
  \A a \in Users : (cpc[a] \notin {"idle", "connect"} /\ ~options.inside)
                     ~> (cpc[a] = "idle")

(* Connect answers true only when the application has a session.  It       *)
(* fails: while the thread tells the end, Connect finds it alive.          *)
ConnectIsTrue ==
  [][\A a \in Actors : ConnectAlive(a) => ~Sessions!Idle]_vars

(* The callbacks of a session wait until its Connect has answered true.    *)
(* It fails: the thread runs before Connect returns, and may tell even the *)
(* end before.                                                             *)
AnswerComesFirst ==
  [][(\E a \in Actors : cpc[a] = "return") => UNCHANGED calls]_vars

(* Disconnect comes back, also to a callback.  It fails: the thread waits  *)
(* for itself, or for the lock of a Disconnect that waits for it.          *)
DisconnectReturnsInside ==
  \A a \in Actors : (cpc[a] = "disconnect") ~> (cpc[a] = "idle")
=============================================================================
