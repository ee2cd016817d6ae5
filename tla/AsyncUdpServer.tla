--------------------------- MODULE AsyncUdpServer ---------------------------
(***************************************************************************)
(* A running AsyncUdpServer and its AsyncUdpSockets.  One thread, the      *)
(* loop, receives all datagrams and hands each to the socket of its sender *)
(* (addPacket); each socket has a thread that takes packets off its queue, *)
(* calls OnReceived and suspends itself when there are none.  The          *)
(* application kills connections while they live.                          *)
(*                                                                         *)
(* The list of the server and its remover are what ServerObjectRegistry    *)
(* promises, starting and stopping the server is in TcpServer, and packets *)
(* that are handed to threads of their own are in AsyncTcpSocket.          *)
(* m_listLock is held for one step at a time: a thread that is killed does *)
(* not hold it here.                                                       *)
(***************************************************************************)
EXTENDS Naturals, SequencesExt, FiniteSets

CONSTANTS
  Clients,        (* the addresses that send                               *)
  NoClient,
  MaxSockets,     (* bound: sockets the loop may create                    *)
  MaxDatagrams,   (* bound: datagrams that arrive, in all                  *)
  Options         (* the ways to use the server that are checked           *)

ASSUME UdpServerAssumption ==
  /\ NoClient \notin Clients
  /\ MaxSockets \in Nat /\ MaxDatagrams \in Nat
  /\ Options \subseteq [forever : BOOLEAN, faults : BOOLEAN, shutdowns : BOOLEAN,
                        kills : BOOLEAN, limit : Nat, peers : SUBSET Clients]

Sockets == 1..MaxSockets
NoSocket == 0
Loop == "loop"
Remover == "remover"
User == "user"
Actors == {Loop, Remover, User}

VARIABLES
  options,     (* forever: m_waitTime is infinite; faults: recvfrom fails; *)
               (* shutdowns: the list is cleared (ShutdownAllClient);      *)
               (* kills: the application kills connections;                *)
               (* limit: m_maxConnectionCount; peers: the clients there are *)
  arrived,     (* datagrams received so far                                *)
  lpc,         (* where the loop is                                        *)
  from, data,  (* clientSockAddr, and recvLength > 0                       *)
  cur,         (* workerObj or accWorker                                   *)
  created,     (* sockets created so far                                   *)
  addr,        (* m_sockAddr                                               *)
  queue,       (* m_packetList: numbers of the socket's packets, 0 empty   *)
  added,       (* packets with data added to the socket so far             *)
  listed, retired,   (* m_socketList, and the queue of its remover         *)
  refCount, life,    (* SmartObject; life: unborn, alive, dying, dead      *)
  tpc,         (* where the thread of the socket is                        *)
  stopEvent,   (* m_threadStopEvent                                        *)
  kpc, target, (* actors in KillConnection or the destructor, and of whom  *)
  calls,       (* history: the callbacks of each socket                    *)
  asked,       (* history: sockets whose peer or application ended them    *)
  missed,      (* history: threads that suspend although a packet came     *)
  crashed      (* somebody used an object that was freed                   *)

loopVars == <<arrived, lpc, from, data, cur, created>>
listVars == <<listed, retired>>
objectVars == <<refCount, life>>
packetVars == <<queue, added, missed>>
killVars == <<kpc, target>>
vars == <<options, loopVars, addr, packetVars, listVars, objectVars, tpc, stopEvent,
          killVars, calls, asked, crashed>>

TypeOK ==
  /\ options \in Options
  /\ arrived \in 0..MaxDatagrams
  /\ lpc \in {"receive", "find", "add", "push", "start", "first", "release"}
  /\ from \in Clients \cup {NoClient}
  /\ {data, crashed} \subseteq BOOLEAN
  /\ cur \in Sockets \cup {NoSocket}
  /\ created \in 0..MaxSockets
  /\ addr \in [Sockets -> Clients \cup {NoClient}]
  /\ queue \in [Sockets -> Seq(0..MaxDatagrams)]
  /\ added \in [Sockets -> 0..MaxDatagrams]
  /\ listed \subseteq Sockets /\ retired \subseteq Sockets \ listed
  /\ refCount \in [Sockets -> 0..2]
  /\ life \in [Sockets -> {"unborn", "alive", "dying", "dead"}]
  /\ tpc \in [Sockets -> {"unstarted", "new", "top", "check", "suspend", "suspended",
                          "callback", "drain", "remove", "notify", "told", "ended"}]
  /\ stopEvent \in [Sockets -> BOOLEAN]
  /\ kpc \in [Actors -> {"idle", "enter", "resume", "join", "drain", "remove",
                         "notify", "leave"}]
  /\ target \in [Actors -> Sockets \cup {NoSocket}]
  /\ calls \in [Sockets -> Seq({"new", "received", "disconnect"} \X Nat)]
  /\ asked \subseteq Sockets /\ missed \subseteq Sockets

Init ==
  /\ options \in Options
  /\ arrived = 0 /\ lpc = "receive" /\ from = NoClient /\ data = FALSE
  /\ cur = NoSocket /\ created = 0
  /\ addr = [s \in Sockets |-> NoClient]
  /\ queue = [s \in Sockets |-> <<>>] /\ added = [s \in Sockets |-> 0]
  /\ listed = {} /\ retired = {}
  /\ refCount = [s \in Sockets |-> 0] /\ life = [s \in Sockets |-> "unborn"]
  /\ tpc = [s \in Sockets |-> "unstarted"]
  /\ stopEvent = [s \in Sockets |-> FALSE]
  /\ kpc = [a \in Actors |-> "idle"] /\ target = [a \in Actors |-> NoSocket]
  /\ calls = [s \in Sockets |-> <<>>]
  /\ asked = {} /\ missed = {} /\ crashed = FALSE

Callbacks(s) == INSTANCE ConnectionCallbacks WITH calls <- calls[s]

Call(s, call) == calls' = [calls EXCEPT ![s] = Append(@, call)]
Go(s, where) == tpc' = [tpc EXCEPT ![s] = where]

-----------------------------------------------------------------------------
(* References and the list.                                                *)

(* ReleaseObj; the last reference runs the destructor, which begins with   *)
(* KillConnection, on the calling thread.                                  *)
ReleaseRef(a, s) ==
  IF refCount[s] = 1
  THEN /\ life' = [life EXCEPT ![s] = "dying"]
       /\ kpc' = [kpc EXCEPT ![a] = "enter"]
       /\ target' = [target EXCEPT ![a] = s]
       /\ UNCHANGED refCount
  ELSE /\ refCount' = [refCount EXCEPT ![s] = @ - 1]
       /\ UNCHANGED <<life, killVars>>

(* Mutant: the reference of the list is kept. *)
LeaveContainerForgets(s) ==
  /\ listed' = listed \ {s}
  /\ UNCHANGED retired

(* removeSelfFromContainer *)
LeaveContainer(s) ==
  /\ listed' = listed \ {s}
  /\ retired' = retired \cup ({s} \cap listed)

RemoverRelease(s) ==
  /\ kpc[Remover] = "idle"
  /\ s \in retired
  /\ retired' = retired \ {s}
  /\ ReleaseRef(Remover, s)
  /\ UNCHANGED <<options, loopVars, addr, packetVars, listed, tpc, stopEvent, calls,
                 asked, crashed>>

(* The end of shutdownAllClient. *)
ServerClear ==
  /\ options.shutdowns
  /\ listed # {}
  /\ listed' = {} /\ retired' = retired \cup listed
  /\ UNCHANGED <<options, loopVars, addr, packetVars, objectVars, tpc, stopEvent,
                 killVars, calls, asked, crashed>>

-----------------------------------------------------------------------------
(* execute of the server.                                                  *)

(* The variables of one turn are gone, clientSockAddr is not. *)
EndTurn == cur' = NoSocket /\ data' = FALSE

(* recvfrom.  If it fails, clientSockAddr keeps the last sender. *)
Receive ==
  /\ lpc = "receive"
  /\ arrived < MaxDatagrams
  /\ arrived' = arrived + 1
  /\ \/ from' \in options.peers /\ data' = TRUE /\ UNCHANGED asked
     \/ /\ from' \in Clients
        /\ data' = FALSE
        /\ asked' = asked \cup {s \in Sockets : addr[s] = from'}
     \/ options.faults /\ data' = FALSE /\ UNCHANGED <<from, asked>>
  /\ lpc' = "find"
  /\ UNCHANGED <<options, cur, created, addr, packetVars, listVars, objectVars, tpc,
                 stopEvent, killVars, calls, crashed>>

(* Mutant: the address is not compared. *)
MatchesAny == listed

(* Find with socketCompare. *)
Matches == {s \in listed : addr[s] = from}

(* m_socketList.Find: a pointer without a reference ... *)
Find ==
  /\ lpc = "find"
  /\ cur' \in Matches
  /\ lpc' = "add"
  /\ UNCHANGED <<options, arrived, from, data, created, addr, packetVars, listVars,
                 objectVars, tpc, stopEvent, killVars, calls, asked, crashed>>

(* ... or none: the datagram is dropped, or its sender accepted.  Only the *)
(* loop adds to the list, so Find, Count and OnAccept are one step.        *)
BelowLimit == options.limit = 0 \/ Cardinality(listed) < options.limit

Accept ==
  /\ lpc = "find"
  /\ Matches = {}
  /\ \/ lpc' = "receive" /\ EndTurn
     \/ /\ data /\ BelowLimit /\ created < MaxSockets
        /\ lpc' = "push"
        /\ UNCHANGED <<cur, data>>
  /\ UNCHANGED <<options, arrived, from, created, addr, packetVars, listVars,
                 objectVars, tpc, stopEvent, killVars, calls, asked, crashed>>

Push ==
  /\ lpc = "push"
  /\ created' = created + 1
  /\ cur' = created + 1
  /\ addr' = [addr EXCEPT ![cur'] = from]
  /\ listed' = listed \cup {cur'}
  /\ life' = [life EXCEPT ![cur'] = "alive"]
  /\ refCount' = [refCount EXCEPT ![cur'] = 2]
  /\ lpc' = "start"
  /\ UNCHANGED <<options, arrived, from, data, packetVars, retired, tpc, stopEvent,
                 killVars, calls, asked, crashed>>

StartThread ==
  /\ lpc = "start"
  /\ Go(cur, "new")
  /\ lpc' = "first"
  /\ UNCHANGED <<options, arrived, from, data, cur, created, addr, packetVars, listVars,
                 objectVars, stopEvent, killVars, calls, asked, crashed>>

(* Mutant: the thread is not resumed. *)
EnqueueOnly(s) ==
  /\ added' = [added EXCEPT ![s] = IF data THEN @ + 1 ELSE @]
  /\ queue' = [queue EXCEPT ![s] = Append(@, IF data THEN added'[s] ELSE 0)]
  /\ UNCHANGED <<tpc, missed>>

(* addPacket: the queue, under m_listLock, and the thread if it sleeps.    *)
Enqueue(s) ==
  /\ added' = [added EXCEPT ![s] = IF data THEN @ + 1 ELSE @]
  /\ queue' = [queue EXCEPT ![s] = Append(@, IF data THEN added'[s] ELSE 0)]
  /\ tpc' = [tpc EXCEPT ![s] = IF @ = "suspended" THEN "top" ELSE @]
  /\ missed' = CASE tpc[s] = "suspended" -> missed \ {s}
                 [] tpc[s] = "suspend"   -> missed \cup {s}
                 [] OTHER                -> missed

(* With an object that was freed meanwhile anything can happen: here, the  *)
(* process stops or goes on as if nothing had been.                        *)
AddPacket ==
  /\ lpc \in {"add", "first"}
  /\ lpc' = IF lpc = "add" THEN "receive" ELSE "release"
  /\ \/ life[cur] # "dead" /\ Enqueue(cur) /\ UNCHANGED crashed
     \/ life[cur] = "dead" /\ crashed' \in BOOLEAN /\ UNCHANGED <<packetVars, tpc>>
  /\ IF lpc = "add" THEN EndTurn ELSE UNCHANGED <<cur, data>>
  /\ UNCHANGED <<options, arrived, from, created, addr, listVars, objectVars, stopEvent,
                 killVars, calls, asked>>

LoopRelease ==
  /\ lpc = "release"
  /\ lpc' = "receive"
  /\ ReleaseRef(Loop, cur)
  /\ EndTurn
  /\ UNCHANGED <<options, arrived, from, created, addr, packetVars, listVars, tpc,
                 stopEvent, calls, asked, crashed>>

(* The loop goes on unless it runs a destructor. *)
LoopStep ==
  /\ kpc[Loop] = "idle"
  /\ Find \/ Accept \/ Push \/ StartThread \/ AddPacket \/ LoopRelease

-----------------------------------------------------------------------------
(* The thread of a socket, execute.                                        *)

ThreadNew(s) ==
  /\ tpc[s] = "new"
  /\ Call(s, Callbacks(s)!OnNewConnection)
  /\ Go(s, "top")
  /\ UNCHANGED <<queue, added, missed, listVars, stopEvent>>

ThreadTop(s) ==
  /\ tpc[s] = "top"
  /\ stopEvent' = [stopEvent EXCEPT ![s] = FALSE]
  /\ Go(s, IF stopEvent[s] THEN "drain" ELSE "check")
  /\ UNCHANGED <<packetVars, listVars, calls>>

(* The front of the queue; OnReceived. *)
Take(s) ==
  /\ tpc[s] = "check"
  /\ queue[s] # <<>>
  /\ Head(queue[s]) # 0
  /\ queue' = [queue EXCEPT ![s] = Tail(@)]
  /\ Call(s, Callbacks(s)!OnReceived(Head(queue[s])))
  /\ Go(s, "callback")
  /\ UNCHANGED <<added, missed, listVars, stopEvent>>

(* An empty packet ends the connection. *)
TakeEmpty(s) ==
  /\ tpc[s] = "check"
  /\ queue[s] # <<>>
  /\ Head(queue[s]) = 0
  /\ Go(s, "drain")
  /\ UNCHANGED <<packetVars, listVars, stopEvent, calls>>

NothingThere(s) ==
  /\ tpc[s] = "check"
  /\ queue[s] = <<>>
  /\ Go(s, "suspend")
  /\ UNCHANGED <<packetVars, listVars, stopEvent, calls>>

(* Suspend, after m_listLock was released. *)
ThreadSuspend(s) ==
  /\ tpc[s] = "suspend"
  /\ Go(s, "suspended")
  /\ UNCHANGED <<packetVars, listVars, stopEvent, calls>>

ThreadReturn(s) ==
  /\ tpc[s] = "callback"
  /\ Go(s, "top")
  /\ UNCHANGED <<packetVars, listVars, stopEvent, calls>>

(* killConnection *)
ThreadDrain(s) ==
  /\ tpc[s] = "drain"
  /\ queue' = [queue EXCEPT ![s] = <<>>]
  /\ Go(s, "remove")
  /\ UNCHANGED <<added, missed, listVars, stopEvent, calls>>

ThreadRemove(s) ==
  /\ tpc[s] = "remove"
  /\ LeaveContainer(s)
  /\ Go(s, "notify")
  /\ UNCHANGED <<packetVars, stopEvent, calls>>

ThreadNotify(s) ==
  /\ tpc[s] = "notify"
  /\ Call(s, Callbacks(s)!OnDisconnect)
  /\ Go(s, "told")
  /\ UNCHANGED <<packetVars, listVars, stopEvent>>

(* OnDisconnect returns. *)
ThreadEnd(s) ==
  /\ tpc[s] = "told"
  /\ Go(s, "ended")
  /\ UNCHANGED <<packetVars, listVars, stopEvent, calls>>

ThreadStep(s) ==
  /\ \/ ThreadNew(s) \/ ThreadTop(s) \/ Take(s) \/ TakeEmpty(s) \/ NothingThere(s)
     \/ ThreadSuspend(s) \/ ThreadReturn(s) \/ ThreadDrain(s) \/ ThreadRemove(s)
     \/ ThreadNotify(s) \/ ThreadEnd(s)
  /\ UNCHANGED <<options, loopVars, addr, objectVars, killVars, asked, crashed>>

-----------------------------------------------------------------------------
(* KillConnection.                                                         *)

(* m_baseSocketLock is held from the entry to the end. *)
Locked(s) == \E a \in Actors : target[a] = s /\ kpc[a] # "enter"

Enter(s) ==
  /\ ~Locked(s)
  /\ tpc[s] # "ended"
  /\ stopEvent' = [stopEvent EXCEPT ![s] = TRUE]

(* The application kills a connection it has not been told the end of, as  *)
(* soon as it has the lock.  (AsyncTcpSocket has the one that gets the     *)
(* lock of an object which was freed meanwhile.)                           *)
UserKill(s) ==
  /\ options.kills
  /\ kpc[User] = "idle"
  /\ life[s] # "dead"
  /\ calls[s] # <<>>
  /\ Callbacks(s)!OnDisconnect \notin Range(calls[s])
  /\ Enter(s)
  /\ kpc' = [kpc EXCEPT ![User] = "resume"]
  /\ target' = [target EXCEPT ![User] = s]
  /\ asked' = asked \cup {s}
  /\ UNCHANGED <<options, loopVars, addr, packetVars, listVars, objectVars, tpc,
                 calls, crashed>>

Turn(a, where) == kpc' = [kpc EXCEPT ![a] = where] /\ UNCHANGED target

(* A destructor calls it too. *)
KillEnter(a) ==
  /\ kpc[a] = "enter"
  /\ \/ Enter(target[a]) /\ Turn(a, "resume")
     \/ ~Locked(target[a]) /\ tpc[target[a]] = "ended" /\ Turn(a, "leave")
        /\ UNCHANGED stopEvent
  /\ UNCHANGED <<packetVars, listVars, life, tpc, calls>>

KillResume(a) ==
  /\ kpc[a] = "resume"
  /\ tpc' = [tpc EXCEPT ![target[a]] = IF @ = "suspended" THEN "top" ELSE @]
  /\ Turn(a, "join")
  /\ UNCHANGED <<packetVars, listVars, life, stopEvent, calls>>

(* Mutant: what the thread did is done again. *)
KillJoinGoesOn(a) ==
  /\ kpc[a] = "join"
  /\ tpc[target[a]] = "ended"
  /\ Turn(a, "drain")
  /\ UNCHANGED <<packetVars, listVars, life, tpc, stopEvent, calls>>

(* TerminateAfter(m_waitTime): the thread ends by itself and has done the  *)
(* rest, or is killed.  (AsyncTcpSocket has the one that does not call the *)
(* end of a thread graceful if it came before the call.)                   *)
KillJoin(a) ==
  /\ kpc[a] = "join"
  /\ \/ tpc[target[a]] = "ended" /\ Turn(a, "leave") /\ UNCHANGED tpc
     \/ /\ ~options.forever
        /\ tpc[target[a]] # "ended"
        /\ Go(target[a], "ended")
        /\ Turn(a, "drain")
  /\ UNCHANGED <<packetVars, listVars, life, stopEvent, calls>>

KillDrain(a) ==
  /\ kpc[a] = "drain"
  /\ queue' = [queue EXCEPT ![target[a]] = <<>>]
  /\ Turn(a, "remove")
  /\ UNCHANGED <<added, missed, listVars, life, tpc, stopEvent, calls>>

KillRemove(a) ==
  /\ kpc[a] = "remove"
  /\ LeaveContainer(target[a])
  /\ Turn(a, "notify")
  /\ UNCHANGED <<packetVars, life, tpc, stopEvent, calls>>

KillNotify(a) ==
  /\ kpc[a] = "notify"
  /\ Call(target[a], Callbacks(target[a])!OnDisconnect)
  /\ Turn(a, "leave")
  /\ UNCHANGED <<packetVars, listVars, life, tpc, stopEvent>>

(* The end of KillConnection, and of the destructor. *)
Leave(a) ==
  /\ kpc[a] = "leave"
  /\ kpc' = [kpc EXCEPT ![a] = "idle"]
  /\ target' = [target EXCEPT ![a] = NoSocket]
  /\ life' = IF a = User THEN life ELSE [life EXCEPT ![target[a]] = "dead"]
  /\ queue' = IF a = User THEN queue ELSE [queue EXCEPT ![target[a]] = <<>>]
  /\ UNCHANGED <<added, missed, listVars, tpc, stopEvent, calls>>

KillStep(a) ==
  /\ \/ KillEnter(a) \/ KillResume(a) \/ KillJoin(a) \/ KillDrain(a) \/ KillRemove(a)
     \/ KillNotify(a) \/ Leave(a)
  /\ UNCHANGED <<options, loopVars, addr, refCount, asked, crashed>>

-----------------------------------------------------------------------------
Next ==
  /\ ~crashed
  /\ \/ kpc[Loop] = "idle" /\ Receive
     \/ LoopStep
     \/ ServerClear
     \/ \E s \in Sockets : RemoverRelease(s) \/ ThreadStep(s) \/ UserKill(s)
     \/ \E a \in Actors : KillStep(a)

Spec == Init /\ [][Next]_vars

(* The threads of the server and of its sockets run, and callbacks return. *)
(* The remover is not fair: it may suspend itself beside an object it was  *)
(* given (ServerObjectRemover).                                            *)
Fairness ==
  /\ WF_vars(~crashed /\ LoopStep)
  /\ \A s \in Sockets : WF_vars(~crashed /\ ThreadStep(s))
  /\ \A a \in Actors : WF_vars(~crashed /\ KillStep(a))

FairSpec == Spec /\ Fairness

-----------------------------------------------------------------------------
(* The application sees every connection as ConnectionCallbacks promises   *)
(* it: OnNewConnection, the packets of the socket without a gap and in the *)
(* order the loop received them, OnDisconnect once and last.  With a       *)
(* finite wait time it fails: KillConnection kills a thread that has       *)
(* called OnDisconnect, and calls it again.                                *)
KeepsCallbackOrder ==
  /\ \A s \in Sockets : Callbacks(s)!Init
  /\ [][options.forever =>
          \A s \in Sockets : Callbacks(s)!Next \/ UNCHANGED calls[s]]_calls

(* A client is served by one socket, and no more clients than the limit    *)
(* are: a new socket for an address comes only after the thread of the     *)
(* last one has seen its end.  With ShutdownAllClient, which clears the    *)
(* list under live connections, both fail.                                 *)
Serving == {s \in Sockets : tpc[s] \in {"new", "top", "check", "suspend", "suspended",
                                        "callback"}}

OneReceiverPerClient ==
  ~options.shutdowns =>
    /\ \A s, r \in Serving : addr[s] = addr[r] => s = r
    /\ options.limit > 0 => Cardinality(Serving) <= options.limit

(* A connection ends because its own client sent an empty datagram or the  *)
(* application killed it.  If recvfrom fails this does not hold: the loop  *)
(* looks for the sender of the last datagram and ends its connection       *)
(* (epAsyncUdpServer.cpp 87-97).                                           *)
OnlyItsPeerEndsIt ==
  ~options.faults /\ ~options.shutdowns =>
    \A s \in Sockets : Callbacks(s)!OnDisconnect \in Range(calls[s]) => s \in asked

(* Both: a socket is about one client, from its first datagram to its end. *)
ServesItsClient == TypeOK /\ OneReceiverPerClient /\ OnlyItsPeerEndsIt

(* A thread sleeps on a queue that is not empty only if a packet came      *)
(* after it had found the queue empty and before it was suspended          *)
(* (epAsyncUdpSocket.cpp 149-153); any packet after that wakes it.         *)
SleepsOnlyIfMissed ==
  \A s \in Sockets : tpc[s] = "suspended" /\ queue[s] # <<>> => s \in missed

(* A connection that has ended leaves the list, and once the remover has   *)
(* released it, it is freed: the loop gives its reference back and the     *)
(* destructor waits for nobody who waits for it.                           *)
Released(s) == life[s] # "unborn" /\ s \notin listed \cup retired

EndedIsDestroyed ==
  \A s \in Sockets :
    /\ (tpc[s] = "ended" /\ ~options.shutdowns) ~> (s \notin listed \/ crashed)
    /\ (Released(s) /\ ~options.shutdowns) ~> (life[s] = "dead" \/ crashed)

(* A packet that was queued is taken off the queue in the end.  It is not: *)
(* the packet that was missed waits until the next one comes.              *)
QueuedIsTaken ==
  \A s \in Sockets : (queue[s] # <<>>) ~> (queue[s] = <<>> \/ crashed)


(* Nobody uses a socket that was freed.  The loop does: the pointer Find   *)
(* returns comes without a reference.                                      *)
NoUseAfterFree == ~crashed
=============================================================================
