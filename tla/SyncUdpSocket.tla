---------------------------- MODULE SyncUdpSocket ----------------------------
(***************************************************************************)
(* One connection of a SyncUdpServer (epSyncUdpSocket.cpp; the Receive and *)
(* the addPacket of IocpUdpSocket are the same).  The loop of the server   *)
(* adds the datagrams of the client to the queue of the socket and sets an *)
(* event; threads of the application call Receive, Send and                *)
(* KillConnection, each of which holds m_baseSocketLock from beginning to  *)
(* end, the wait for the event included.                                   *)
(*                                                                         *)
(* The application holds a reference of its own, so the object lives on    *)
(* (AsyncUdpServer has the ones that do not).                              *)
(*                                                                         *)
(* A push of the loop is an interval.  Who uses the queue in the middle of *)
(* it, which only the lock would prevent, has undefined behaviour: what is *)
(* read, popped or pushed may get lost, or the process stops.  It stops    *)
(* too with a read of the front of an empty queue: then nobody takes a     *)
(* step.                                                                   *)
(***************************************************************************)
EXTENDS ReceiveOrder

Loop == "loop"
Nobody == "nobody"
Broken == "broken"

loopVars == <<arrived, lpc, datagram, added>>
listVars == <<packets, event, packetLock>>
history == <<got, ended, skipped, raced>>
vars == <<options, loopVars, announced, connected, listed, listVars, sockLock, upc,
          packet, history, crashed>>

TypeOK ==
  /\ options \in Options
  /\ arrived \in 1..MaxDatagrams /\ added \in 0..arrived
  /\ lpc \in {"start", "receive", "find", "add", "push", "store", "signal"}
  /\ datagram \in 0..MaxDatagrams
  /\ {announced, connected, listed, event, skipped, raced, crashed} \subseteq BOOLEAN
  /\ packets \in Seq(0..MaxDatagrams) /\ got \in Seq(1..MaxDatagrams)
  /\ sockLock \in Users \cup {Nobody}
  /\ packetLock \in Users \cup {Loop, Nobody, Broken}
  /\ upc \in [Users -> {"idle", "look", "wait", "front", "pop", "send", "drain",
                        "remove", "notify", "leave"}]
  /\ packet \in [Users -> 0..MaxDatagrams] /\ ended \in Nat

(* The loop has pushed the socket of its first datagram into m_socketList. *)
Init ==
  /\ options \in Options
  /\ arrived = 1 /\ lpc = "start" /\ datagram = 1 /\ added = 0
  /\ announced = FALSE /\ connected = TRUE /\ listed = TRUE
  /\ packets = <<>> /\ event = FALSE
  /\ sockLock = Nobody /\ packetLock = Nobody
  /\ upc = [u \in Users |-> "idle"]
  /\ packet = [u \in Users |-> 0]
  /\ got = <<>> /\ ended = 0 /\ skipped = FALSE
  /\ raced = FALSE /\ crashed = FALSE

Go(u, where) == upc' = [upc EXCEPT ![u] = where]

-----------------------------------------------------------------------------
(* The loop, execute of the server, and addPacket.                         *)

StartThread ==
  /\ lpc = "start"
  /\ announced' = TRUE
  /\ lpc' = "add"
  /\ UNCHANGED <<arrived, datagram, added, listVars>>

(* recvfrom: a datagram of this client, with or without data. *)
Datagram ==
  /\ lpc = "receive"
  /\ arrived < MaxDatagrams
  /\ arrived' = arrived + 1
  /\ datagram' \in {0, added + 1}
  /\ lpc' = "find"
  /\ UNCHANGED <<added, announced, listVars>>

(* Find; what a client sends that has no socket is not for this one. *)
Find ==
  /\ lpc = "find"
  /\ lpc' = IF listed THEN "add" ELSE "receive"
  /\ UNCHANGED <<arrived, datagram, added, announced, listVars>>

(* Mutant: the event is set before the packet is there. *)
AddLockSignals ==
  /\ lpc = "add"
  /\ event' = TRUE
  /\ lpc' = "push"
  /\ packetLock = Nobody /\ packetLock' = Loop
  /\ UNCHANGED <<arrived, datagram, added, announced, packets>>

AddLock ==
  /\ lpc = "add"
  /\ packetLock = Nobody
  /\ packetLock' = Loop
  /\ lpc' = "push"
  /\ UNCHANGED <<arrived, datagram, added, announced, packets, event>>

(* A thread that does not own m_listLock may unlock it.  A mutex refuses;  *)
(* a critical section may let the next one in, or nobody any more.         *)
Unlock(a) ==
  \/ packetLock = a /\ packetLock' = Nobody
  \/ packetLock # a /\ UNCHANGED packetLock
  \/ packetLock # a /\ options.critical /\ packetLock' \in {Nobody, Broken}

AddPush ==
  /\ lpc = "push"
  /\ lpc' = "store"
  /\ UNCHANGED <<arrived, datagram, added, announced, listVars>>

AddPushed ==
  /\ lpc = "store"
  /\ \/ packets' = Append(packets, datagram)
     \/ raced /\ UNCHANGED packets
  /\ added' = IF datagram = 0 THEN added ELSE datagram
  /\ lpc' = "signal"
  /\ UNCHANGED <<arrived, datagram, announced, event, packetLock>>

(* Mutant: the event is not set. *)
AddSignalNot ==
  /\ lpc = "signal"
  /\ Unlock(Loop)
  /\ lpc' = "receive"
  /\ UNCHANGED <<arrived, datagram, added, announced, packets, event>>

AddSignal ==
  /\ lpc = "signal"
  /\ event' = TRUE
  /\ Unlock(Loop)
  /\ lpc' = "receive"
  /\ UNCHANGED <<arrived, datagram, added, announced, packets>>

LoopStep ==
  /\ ~crashed
  /\ StartThread \/ Datagram \/ Find \/ AddLock \/ AddPush \/ AddPushed \/ AddSignal
  /\ UNCHANGED <<options, connected, listed, sockLock, upc, packet, history, crashed>>

-----------------------------------------------------------------------------
(* Receive.                                                                *)

(* The queue is used: beside a push, or not. *)
Use == raced' = (raced \/ lpc = "store")

(* Mutant: m_baseSocketLock is not taken. *)
EnterTogether(u) == sockLock' = sockLock

Enter(u) == sockLock = Nobody /\ sockLock' = u

(* What follows IsConnectionAlive; a call on an ended connection returns.  *)
Begin(u, where) ==
  /\ announced
  /\ upc[u] = "idle"
  /\ Enter(u)
  /\ connected
  /\ Go(u, where)

Leave(u) == sockLock' = Nobody /\ Go(u, "idle")

Receive(u) ==
  /\ Begin(u, "look")
  /\ UNCHANGED <<connected, listed, listVars, packet, history, crashed>>

(* Mutant: m_listLock is held while Receive waits. *)
LookWaits(u) ==
  /\ upc[u] = "look"
  /\ packetLock = Nobody
  /\ packetLock' = u
  /\ Go(u, IF packets = <<>> THEN "wait" ELSE "front")
  /\ skipped' = (skipped \/ packets # <<>>)
  /\ Use
  /\ UNCHANGED <<connected, listed, packets, event, sockLock, packet, got, ended,
                 crashed>>

(* The size under m_listLock, which is kept unless the queue is empty. *)
Look(u) ==
  /\ upc[u] = "look"
  /\ packetLock = Nobody
  /\ Use
  /\ \/ /\ packets = <<>> \/ lpc = "store"
        /\ Go(u, "wait") /\ UNCHANGED <<packetLock, skipped>>
     \/ /\ packets # <<>> \/ lpc = "store"
        /\ Go(u, "front") /\ packetLock' = u /\ skipped' = TRUE
  /\ UNCHANGED <<connected, listed, packets, event, sockLock, packet, got, ended,
                 crashed>>

(* WaitForEvent, of an event that resets itself: the queue is not looked   *)
(* at again, and m_listLock not taken ...                                  *)
Woken(u) ==
  /\ upc[u] = "wait"
  /\ event
  /\ event' = FALSE
  /\ Go(u, "front")
  /\ UNCHANGED <<connected, listed, packets, packetLock, sockLock, packet, history, crashed>>

(* ... or the time is over. *)
TimeOut(u) ==
  /\ upc[u] = "wait"
  /\ ~event /\ ~options.forever
  /\ Leave(u)
  /\ UNCHANGED <<connected, listed, listVars, packet, history, crashed>>

(* Beside a push the front may be the packet that comes. *)
ReadFront(u) ==
  /\ upc[u] = "front"
  /\ Use
  /\ \E p \in 0..MaxDatagrams :
       /\ \/ packets # <<>> /\ p = Head(packets)
          \/ packets = <<>> /\ lpc = "store" /\ p = datagram
       /\ packet' = [packet EXCEPT ![u] = p]
       /\ \/ p = 0 /\ Unlock(u) /\ Go(u, "drain") /\ connected' = FALSE
          \/ p # 0 /\ Go(u, "pop") /\ UNCHANGED <<packetLock, connected>>
  /\ UNCHANGED <<listed, packets, event, sockLock, got, ended, skipped, crashed>>

(* An empty queue, or one that a push works on, may have no front. *)
FrontOfNothing(u) ==
  /\ upc[u] = "front"
  /\ packets = <<>> \/ lpc = "store"
  /\ Use
  /\ crashed' = TRUE
  /\ UNCHANGED <<connected, listed, listVars, sockLock, upc, packet, got, ended, skipped>>

(* Beside a push the pop may get lost. *)
Pop(u) ==
  /\ upc[u] = "pop"
  /\ Use
  /\ \/ packets # <<>> /\ packets' = Tail(packets)
     \/ lpc = "store" /\ UNCHANGED packets
  /\ got' = IF raced' THEN got ELSE Append(got, packet[u])
  /\ packet' = [packet EXCEPT ![u] = 0]
  /\ Unlock(u)
  /\ Leave(u)
  /\ UNCHANGED <<connected, listed, event, ended, skipped, crashed>>

(* Nor is there anything to pop if the packet that was read got lost. *)
PopOfNothing(u) ==
  /\ upc[u] = "pop"
  /\ packets = <<>>
  /\ Use
  /\ crashed' = TRUE
  /\ UNCHANGED <<connected, listed, listVars, sockLock, upc, packet, got, ended, skipped>>

-----------------------------------------------------------------------------
(* Send, and KillConnection, which Receive of an empty packet goes into.   *)

Send(u) ==
  /\ \/ Begin(u, "send")
     \/ upc[u] = "send" /\ Leave(u)
  /\ UNCHANGED <<connected, listed, listVars, packet, history, crashed>>

KillConnection(u) ==
  /\ Begin(u, "drain")
  /\ connected' = FALSE
  /\ UNCHANGED <<listed, listVars, packet, history, crashed>>

Drain(u) ==
  /\ upc[u] = "drain"
  /\ packetLock = Nobody
  /\ Use
  /\ packets' = <<>>
  /\ Go(u, "remove")
  /\ UNCHANGED <<connected, listed, event, packetLock, sockLock, packet, got, ended,
                 skipped, crashed>>

LeaveContainer(u) ==
  /\ upc[u] = "remove"
  /\ listed' = FALSE
  /\ Go(u, "notify")
  /\ UNCHANGED <<connected, listVars, sockLock, packet, history, crashed>>

Notify(u) ==
  /\ upc[u] = "notify"
  /\ ended' = ended + 1
  /\ Go(u, "leave")
  /\ UNCHANGED <<connected, listed, listVars, sockLock, packet, got, skipped, raced,
                 crashed>>

(* OnDisconnect returns. *)
Return(u) ==
  /\ upc[u] = "leave"
  /\ Leave(u)
  /\ UNCHANGED <<connected, listed, listVars, packet, history, crashed>>

(* What a thread inside a call does next. *)
CallStep(u) ==
  \/ Look(u) \/ Woken(u) \/ TimeOut(u) \/ ReadFront(u) \/ FrontOfNothing(u) \/ Pop(u)
  \/ PopOfNothing(u) \/ Drain(u) \/ LeaveContainer(u) \/ Notify(u) \/ Return(u)

UserStep(u) ==
  /\ ~crashed
  /\ Receive(u) \/ Send(u) \/ KillConnection(u) \/ CallStep(u)
  /\ UNCHANGED <<options, loopVars, announced>>

Next == LoopStep \/ \E u \in Users : UserStep(u)

Spec == Init /\ [][Next]_vars

(* The loop runs, once a datagram is there, and gets a lock that is free   *)
(* again and again; what a call does by itself comes to an end.            *)
Fairness ==
  /\ SF_vars(LoopStep /\ lpc # "receive")
  /\ \A u \in Users : WF_vars(UserStep(u) /\ upc[u] # "idle")

FairSpec == Spec /\ Fairness

-----------------------------------------------------------------------------
(* Properties.                                                             *)

(* The loop, which serves every client of the server, gets through         *)
(* addPacket, even while a receiver waits for ever.  With a mutex: the     *)
(* critical section is broken by the Unlock of line 152.                   *)
LoopGoesOn ==
  ~options.critical => (lpc = "add" ~> (lpc = "receive" \/ crashed))

-----------------------------------------------------------------------------
(* What does not hold (README).                                            *)

(* The front of the queue is only read when there is one. *)
NoEmptyFront == ~crashed

(* Who takes a packet and who adds one exclude each other. *)
ListExclusive ==
  lpc \in {"push", "store"} => \A u \in Users : upc[u] \notin {"front", "pop"}

(* Nobody uses the queue in the middle of a push. *)
NoDataRace == ~raced

(* Line 145 and 152 unlock what the thread owns. *)
UnlocksItsOwn == \A u \in Users : upc[u] = "pop" => packetLock = u

=============================================================================
