------------------------ MODULE SyncTcpSocketProofs ------------------------
(***************************************************************************)
(* Proofs about SyncTcpSocket, for any threads that use a connection, any  *)
(* number of packets and calls, and about TcpServer, which accepts such    *)
(* connections.                                                            *)
(*                                                                         *)
(* The connection: its end is told once, the packets are returned in order *)
(* and none after the end, and its flags agree when m_baseSocketLock is    *)
(* free (ConnectionIsSound). The invariant IInv says what the lock         *)
(* protects (LockInv), how far who holds it got (PhaseInv), whose          *)
(* references there are (RefInv), and what the application was told        *)
(* (CallsInv).                                                             *)
(*                                                                         *)
(* The server: no more descriptors are used than the limit allows and none *)
(* by a server that is stopped (ServesAsAllowed), and StartServer          *)
(* uses the address it resolved (StartHasAddress). It is an instance here; *)
(* ServedClients has its state and what it promises.                       *)
(***************************************************************************)
EXTENDS SyncTcpSocket, ServedClients, FiniteSetTheorems, TLAPS

(* The steps of the server, about the state that ServedClients declares.   *)
Server == INSTANCE TcpServer

(* Where an actor can be. *)
Places ==
  {"idle", "start", "release", "receive", "select", "recv", "send", "sending",
   "writing", "kill", "remove", "notify", "leave", "free", "crashed"}

(* Who is past m_baseSocketLock. *)
Holding == {"select", "recv", "sending", "writing", "remove", "notify", "leave"}

(* m_baseSocketLock is theirs. *)
LockInv == \A a \in Actors : upc[a] \in Holding => sockLock = a

(* The connection is alive for who waits for the peer, and over for who    *)
(* ends it; and it leaves the list before the lock is free again.          *)
PhaseInv ==
  /\ connected <=> sockOpen
  /\ closes = IF sockOpen THEN 0 ELSE 1
  /\ \A a \in Actors :
       /\ upc[a] \in {"select", "recv", "sending", "writing"} => connected
       /\ upc[a] \in {"remove", "notify", "leave"} => ~connected
       /\ upc[a] \in {"notify", "leave"} => container # "listed"
  /\ ~connected /\ container = "listed" => sockLock # Free

(* The references: of the accept loop until it has started the thread, of  *)
(* the list or its remover, and the one the destructor holds.              *)
Pending == IF upc[Acceptor] \in {"start", "release"} THEN 1 ELSE 0
Contained == IF container # "gone" THEN 1 ELSE 0

RefInv ==
  /\ life = "alive" => /\ destroyer = Free
                       /\ refCount = Pending + Contained
                       /\ refCount > 0
  /\ life # "alive" => /\ Pending = 0 /\ Contained = 0
                       /\ destroyer \in {Acceptor, Remover}
  /\ life = "dying" => refCount = 1
  /\ life = "dead" => refCount = 0 /\ upc[destroyer] = "idle"
  /\ \A a \in Actors : upc[a] = "free" => a = destroyer

(* OnDisconnect is not called yet while the connection lives, or while an  *)
(* actor is about to call it; and as many packets were returned as read.   *)
Returned(s) == {k \in DOMAIN s : s[k][1] = "received"}

CallsInv ==
  /\ connected \/ (\E a \in Actors : upc[a] \in {"remove", "notify"})
       => \A i \in DOMAIN calls : calls[i] # Callbacks!OnDisconnect
  /\ \A i, j \in DOMAIN calls :
       calls[i] = Callbacks!OnDisconnect /\ calls[j] = Callbacks!OnDisconnect => i = j
  /\ rcvd = Cardinality(Returned(calls))
  /\ ReceivesInOrder

IInv == TypeOK /\ LockInv /\ PhaseInv /\ RefInv /\ CallsInv

-----------------------------------------------------------------------------
(* An element more. *)
LEMMA OneMore ==
  ASSUME NEW S, NEW x, NEW n \in Nat, IsFiniteSet(S), Cardinality(S) <= n
  PROVE  IsFiniteSet(S \cup {x}) /\ Cardinality(S \cup {x}) <= n + 1
<1>1. IsFiniteSet(S \cup {x})
  BY FS_AddElement
<1>2. Cardinality(S \cup {x}) = IF x \in S THEN Cardinality(S) ELSE Cardinality(S) + 1
  BY FS_AddElement
<1>3. Cardinality(S) \in Nat
  BY FS_CardinalityType
<1>. QED
  BY <1>1, <1>2, <1>3

(* The actors and nobody are different.                                    *)
LEMMA ActorsDiffer ==
  /\ Free \notin Actors
  /\ Thread \notin Users /\ Acceptor \notin Users /\ Remover \notin Users
  /\ Thread # Acceptor /\ Thread # Remover /\ Acceptor # Remover
<1> DEFINE S == {Free, Thread, Acceptor, Remover}
<1>1. Cardinality(S) = 4
  BY SyncSocketAssumption
<1>2. ASSUME NEW x, NEW y, NEW z, S = {x, y, z}
      PROVE  FALSE
  <2>1. IsFiniteSet({}) /\ Cardinality({}) <= 0
    BY FS_EmptySet
  <2>2. IsFiniteSet({} \cup {x}) /\ Cardinality({} \cup {x}) <= 0 + 1
    BY <2>1, OneMore
  <2>3. IsFiniteSet({x}) /\ Cardinality({x}) <= 1
    <3>1. {} \cup {x} = {x}
      OBVIOUS
    <3>. QED BY <2>2, <3>1
  <2>4. IsFiniteSet({x} \cup {y}) /\ Cardinality({x} \cup {y}) <= 1 + 1
    BY <2>3, OneMore
  <2>. DEFINE T == {x} \cup {y}
  <2>. IsFiniteSet(T) /\ Cardinality(T) <= 2
    BY <2>4
  <2>. HIDE DEF T
  <2>5. IsFiniteSet(T \cup {z}) /\ Cardinality(T \cup {z}) <= 2 + 1
    BY OneMore
  <2>6. S = T \cup {z}
    BY <1>2 DEF T
  <2>. QED
    BY <1>1, <2>5, <2>6
<1>3. Free # Thread
  <2> SUFFICES ASSUME Free = Thread PROVE FALSE
    OBVIOUS
  <2>1. S = {Thread, Acceptor, Remover}
    OBVIOUS
  <2>. QED BY <1>2, <2>1
<1>4. Free # Acceptor
  <2> SUFFICES ASSUME Free = Acceptor PROVE FALSE
    OBVIOUS
  <2>1. S = {Thread, Acceptor, Remover}
    OBVIOUS
  <2>. QED BY <1>2, <2>1
<1>5. Free # Remover
  <2> SUFFICES ASSUME Free = Remover PROVE FALSE
    OBVIOUS
  <2>1. S = {Thread, Acceptor, Remover}
    OBVIOUS
  <2>. QED BY <1>2, <2>1
<1>6. Thread # Acceptor
  <2> SUFFICES ASSUME Thread = Acceptor PROVE FALSE
    OBVIOUS
  <2>1. S = {Free, Acceptor, Remover}
    OBVIOUS
  <2>. QED BY <1>2, <2>1
<1>7. Thread # Remover
  <2> SUFFICES ASSUME Thread = Remover PROVE FALSE
    OBVIOUS
  <2>1. S = {Free, Acceptor, Remover}
    OBVIOUS
  <2>. QED BY <1>2, <2>1
<1>8. Acceptor # Remover
  <2> SUFFICES ASSUME Acceptor = Remover PROVE FALSE
    OBVIOUS
  <2>1. S = {Free, Thread, Remover}
    OBVIOUS
  <2>. QED BY <1>2, <2>1
<1>. QED
  BY SyncSocketAssumption, <1>3, <1>4, <1>5, <1>6, <1>7, <1>8 DEF Actors

(* What a callback more does to the packets returned. *)
Call1 == {"new", "received", "disconnect"} \X Nat

(* A callback more in what was told is a packet more, if it returns one.   *)
LEMMA ReturnedGrow ==
  ASSUME NEW s \in Seq(Call1), NEW c \in Call1
  PROVE  /\ IsFiniteSet(Returned(s)) /\ Cardinality(Returned(s)) \in Nat
         /\ Cardinality(Returned(Append(s, c)))
              = Cardinality(Returned(s)) + IF c[1] = "received" THEN 1 ELSE 0
<1> DEFINE n == Len(s) + 1
           t == Append(s, c)
<1>1. Returned(s) \subseteq 1..Len(s) /\ Len(s) \in Nat
  BY DEF Returned
<1>2. IsFiniteSet(1..Len(s))
  BY <1>1, FS_Interval
<1>3. IsFiniteSet(Returned(s)) /\ Cardinality(Returned(s)) \in Nat
  BY <1>1, <1>2, FS_Subset, FS_CardinalityType
<1>4. n \notin Returned(s)
  BY <1>1
<1>5. /\ DOMAIN t = 1..n /\ t[n] = c
      /\ \A k \in 1..Len(s) : t[k] = s[k]
      /\ DOMAIN s = 1..Len(s)
  BY <1>1
<1> HIDE DEF t
<1>6. CASE c[1] = "received"
  <2>1. Returned(t) = Returned(s) \cup {n}
    BY <1>1, <1>5, <1>6 DEF Returned
  <2>2. Cardinality(Returned(s) \cup {n}) = Cardinality(Returned(s)) + 1
    BY <1>3, <1>4, FS_AddElement
  <2>. QED
    BY <1>3, <1>6, <2>1, <2>2 DEF t
<1>7. CASE c[1] # "received"
  <2>1. Returned(t) = Returned(s)
    BY <1>1, <1>5, <1>7 DEF Returned
  <2>. QED
    BY <1>3, <1>7, <2>1 DEF t
<1>. QED
  BY <1>6, <1>7

(* Only the destructor frees the object, and once. *)
LEMMA FreesWhenDying ==
  ASSUME IInv, NEW a \in Actors, upc[a] = "free"
  PROVE  life = "dying" /\ a = destroyer /\ refCount = 1
  BY ActorsDiffer DEF IInv, RefInv, TypeOK

(* killConnection closes the descriptor of a live connection, and no other. *)
LEMMA ClosesOnce ==
  ASSUME IInv, Disconnected
  PROVE  /\ connected' = FALSE /\ sockOpen' = FALSE
         /\ closes' = 1 /\ closes' \in 0..1
<1>1. closes = IF sockOpen THEN 0 ELSE 1
  BY DEF IInv, PhaseInv
<1>2. closes' = IF sockOpen THEN closes + 1 ELSE closes
  BY DEF Disconnected
<1>3. closes' = 1
  <2>1. CASE sockOpen
    BY <1>1, <1>2, <2>1
  <2>2. CASE ~sockOpen
    BY <1>1, <1>2, <2>2
  <2>. QED
    BY <2>1, <2>2
<1>. QED
  BY <1>3 DEF Disconnected

-----------------------------------------------------------------------------
(* Each action keeps the types, *)
LEMMA TypeStep == IInv /\ [Next]_vars => TypeOK'
<1> SUFFICES ASSUME IInv, [Next]_vars PROVE TypeOK'
  OBVIOUS
<1> USE DEF IInv, TypeOK, netVars, sockVars, objectVars, Go
<1>0. Acceptor \in Actors /\ Remover \in Actors /\ Thread \in Actors
  BY DEF Actors
<1>1. ASSUME AcceptorStart PROVE TypeOK'
  BY <1>1 DEF AcceptorStart
<1>2. ASSUME AcceptorRelease PROVE TypeOK'
  <2>1. Pending = 1
    BY <1>2 DEF AcceptorRelease, Pending
  <2>2. life = "alive" /\ refCount = 1 + Contained /\ refCount \in 1..2
    BY <2>1 DEF RefInv, Contained
  <2>. QED
    BY <1>2, <1>0, <2>2 DEF AcceptorRelease, ReleaseRef
<1>3. ASSUME ServerClear PROVE TypeOK'
  BY <1>3 DEF ServerClear
<1>4. ASSUME RemoverRelease PROVE TypeOK'
  <2>1. Contained = 1
    BY <1>4 DEF RemoverRelease, Contained
  <2>2. life = "alive" /\ refCount = Pending + 1 /\ refCount \in 1..2
    BY <2>1 DEF RefInv, Pending
  <2>. QED
    BY <1>4, <1>0, <2>2 DEF RemoverRelease, ReleaseRef
<1>5. ASSUME Peer PROVE TypeOK'
  <2>1. sent' \in 0..MaxPackets /\ rcvd' \in 0..sent'
    BY <1>5, SyncSocketAssumption DEF Peer
  <2>2. {partial', peerClosed', peerReads'} \subseteq BOOLEAN
    BY <1>5 DEF Peer
  <2>. QED
    BY <1>5, <2>1, <2>2 DEF Peer
<1>6. ASSUME ThreadNew PROVE TypeOK'
  BY <1>6 DEF ThreadNew, Callbacks!OnNewConnection
<1>7. ASSUME ThreadReturn PROVE TypeOK'
  BY <1>7 DEF ThreadReturn
<1>8. ASSUME ThreadCrash PROVE TypeOK'
  BY <1>8 DEF ThreadCrash
<1>9. ASSUME NEW a \in Actors, Call(a) PROVE TypeOK'
  BY <1>9 DEF Call, MayUse
<1>10. ASSUME NEW a \in Actors, ReceiveEnter(a) PROVE TypeOK'
  BY <1>10 DEF ReceiveEnter, Lock, Return
<1>11. ASSUME NEW a \in Actors, SendEnter(a) PROVE TypeOK'
  BY <1>11 DEF SendEnter, Lock, Return
<1>12. ASSUME NEW a \in Actors, KillEnter(a) PROVE TypeOK'
  <2>1. closes' \in 0..1 /\ connected' \in BOOLEAN /\ sockOpen' \in BOOLEAN
    <3>1. CASE Disconnected
      BY <3>1, ClosesOnce
    <3>2. CASE UNCHANGED <<connected, sockOpen, closes>>
      BY <3>2
    <3>. QED
      BY <1>12, <3>1, <3>2 DEF KillEnter
  <2>. QED
    BY <1>12, <2>1 DEF KillEnter, Lock
<1>13. ASSUME NEW a \in Actors, Crash(a) PROVE TypeOK'
  BY <1>13 DEF Crash
<1>14. ASSUME NEW a \in Actors, ReceivePacket(a) PROVE TypeOK'
  BY <1>14 DEF ReceivePacket, Return, Callbacks!OnReceived
<1>15. ASSUME NEW a \in Actors, ReceiveTimeout(a) PROVE TypeOK'
  BY <1>15 DEF ReceiveTimeout, Return
<1>15a. ASSUME NEW a \in Actors, ReceiveSelect(a) PROVE TypeOK'
  BY <1>15a DEF ReceiveSelect, Return
<1>15b. ASSUME NEW a \in Actors, SendSelect(a) PROVE TypeOK'
  BY <1>15b DEF SendSelect, Return
<1>15c. ASSUME NEW a \in Actors, SendTimeout(a) PROVE TypeOK'
  BY <1>15c DEF SendTimeout, Return
<1>16. ASSUME NEW a \in Actors, ReceiveFail(a) PROVE TypeOK'
  <2>1. closes' \in 0..1 /\ connected' \in BOOLEAN /\ sockOpen' \in BOOLEAN
    BY <1>16, ClosesOnce DEF ReceiveFail
  <2>. QED
    BY <1>16, <2>1 DEF ReceiveFail
<1>17. ASSUME NEW a \in Actors, SendEnd(a) PROVE TypeOK'
  BY <1>17 DEF SendEnd, Return
<1>18. ASSUME NEW a \in Actors, LeaveContainer(a) PROVE TypeOK'
  BY <1>18 DEF LeaveContainer
<1>19. ASSUME NEW a \in Actors, Notify(a) PROVE TypeOK'
  BY <1>19 DEF Notify, Callbacks!OnDisconnect
<1>20. ASSUME NEW a \in Actors, Leave(a) PROVE TypeOK'
  BY <1>20 DEF Leave
<1>21. ASSUME NEW a \in Actors, Destroy(a) PROVE TypeOK'
  <2>1. life = "dying" /\ refCount = 1
    BY <1>21, FreesWhenDying DEF Destroy
  <2>. QED
    BY <1>21, <2>1 DEF Destroy
<1>22. CASE UNCHANGED vars
  BY <1>22 DEF vars
<1>. QED
  BY <1>1, <1>2, <1>3, <1>4, <1>5, <1>6, <1>7, <1>8, <1>9, <1>10, <1>11, <1>12, <1>13,
     <1>14, <1>15, <1>15a, <1>15b, <1>15c, <1>16, <1>17, <1>18, <1>19, <1>20, <1>21, <1>22
  DEF Next, Enter, Inside

(* the lock, *)
LEMMA LockStep == IInv /\ [Next]_vars => LockInv'
<1> SUFFICES ASSUME IInv, [Next]_vars PROVE LockInv'
  OBVIOUS
<1> USE ActorsDiffer DEF Go, Holding, LockInv
<1>0. upc = [b \in Actors |-> upc[b]] /\ LockInv /\ sockLock \in Actors \cup {Free}
  BY DEF IInv, TypeOK
<1>00. Acceptor \in Actors /\ Remover \in Actors /\ Thread \in Actors
  BY DEF Actors
<1>1. ASSUME AcceptorStart PROVE LockInv'
  BY <1>1, <1>0, <1>00 DEF AcceptorStart, netVars, sockVars, objectVars
<1>2. ASSUME AcceptorRelease PROVE LockInv'
  BY <1>2, <1>0, <1>00 DEF AcceptorRelease, ReleaseRef, netVars, sockVars, objectVars
<1>3. ASSUME ServerClear PROVE LockInv'
  BY <1>3, <1>0, <1>00 DEF ServerClear, netVars, sockVars, objectVars
<1>4. ASSUME RemoverRelease PROVE LockInv'
  BY <1>4, <1>0, <1>00 DEF RemoverRelease, ReleaseRef, netVars, sockVars, objectVars
<1>5. ASSUME Peer PROVE LockInv'
  BY <1>5, <1>0, <1>00 DEF Peer, netVars, sockVars, objectVars
<1>6. ASSUME ThreadNew PROVE LockInv'
  BY <1>6, <1>0, <1>00 DEF ThreadNew, Callbacks!OnNewConnection, netVars, sockVars, objectVars
<1>7. ASSUME ThreadReturn PROVE LockInv'
  BY <1>7, <1>0, <1>00 DEF ThreadReturn, netVars, sockVars, objectVars
<1>8. ASSUME ThreadCrash PROVE LockInv'
  BY <1>8, <1>0, <1>00 DEF ThreadCrash, netVars, sockVars, objectVars
<1>9. ASSUME NEW a \in Actors, Call(a) PROVE LockInv'
  BY <1>9, <1>0, <1>00 DEF Call, MayUse, netVars, sockVars, objectVars
<1>10. ASSUME NEW a \in Actors, ReceiveEnter(a) PROVE LockInv'
  BY <1>10, <1>0, <1>00 DEF ReceiveEnter, Lock, Return, netVars, sockVars, objectVars
<1>11. ASSUME NEW a \in Actors, SendEnter(a) PROVE LockInv'
  BY <1>11, <1>0, <1>00 DEF SendEnter, Lock, Return, netVars, sockVars, objectVars
<1>12. ASSUME NEW a \in Actors, KillEnter(a) PROVE LockInv'
  BY <1>12, <1>0, <1>00 DEF KillEnter, Lock, Disconnected, netVars, sockVars, objectVars
<1>13. ASSUME NEW a \in Actors, Crash(a) PROVE LockInv'
  BY <1>13, <1>0, <1>00 DEF Crash, netVars, sockVars, objectVars
<1>14. ASSUME NEW a \in Actors, ReceivePacket(a) PROVE LockInv'
  BY <1>14, <1>0, <1>00 DEF ReceivePacket, Return, Callbacks!OnReceived, netVars, sockVars,
     objectVars
<1>15. ASSUME NEW a \in Actors, ReceiveTimeout(a) PROVE LockInv'
  BY <1>15, <1>0, <1>00 DEF ReceiveTimeout, Return, netVars, sockVars, objectVars
<1>15a. ASSUME NEW a \in Actors, ReceiveSelect(a) PROVE LockInv'
  BY <1>15a, <1>0, <1>00 DEF ReceiveSelect, Return, netVars, sockVars, objectVars
<1>15b. ASSUME NEW a \in Actors, SendSelect(a) PROVE LockInv'
  BY <1>15b, <1>0, <1>00 DEF SendSelect, Return, netVars, sockVars, objectVars
<1>15c. ASSUME NEW a \in Actors, SendTimeout(a) PROVE LockInv'
  BY <1>15c, <1>0, <1>00 DEF SendTimeout, Return, netVars, sockVars, objectVars
<1>16. ASSUME NEW a \in Actors, ReceiveFail(a) PROVE LockInv'
  BY <1>16, <1>0, <1>00 DEF ReceiveFail, Disconnected, netVars, sockVars, objectVars
<1>17. ASSUME NEW a \in Actors, SendEnd(a) PROVE LockInv'
  BY <1>17, <1>0, <1>00 DEF SendEnd, Return, netVars, sockVars, objectVars
<1>18. ASSUME NEW a \in Actors, LeaveContainer(a) PROVE LockInv'
  BY <1>18, <1>0, <1>00 DEF LeaveContainer, netVars, sockVars, objectVars
<1>19. ASSUME NEW a \in Actors, Notify(a) PROVE LockInv'
  BY <1>19, <1>0, <1>00 DEF Notify, Callbacks!OnDisconnect, netVars, sockVars, objectVars
<1>20. ASSUME NEW a \in Actors, Leave(a) PROVE LockInv'
  BY <1>20, <1>0, <1>00 DEF Leave, netVars, sockVars, objectVars
<1>21. ASSUME NEW a \in Actors, Destroy(a) PROVE LockInv'
  BY <1>21, <1>0, <1>00 DEF Destroy, netVars, sockVars, objectVars
<1>22. CASE UNCHANGED vars
  BY <1>22, <1>0, <1>00 DEF vars, netVars, sockVars, objectVars
<1>. QED
  BY <1>1, <1>2, <1>3, <1>4, <1>5, <1>6, <1>7, <1>8, <1>9, <1>10, <1>11, <1>12, <1>13,
     <1>14, <1>15, <1>15a, <1>15b, <1>15c, <1>16, <1>17, <1>18, <1>19, <1>20, <1>21, <1>22
  DEF Next, Enter, Inside

(* the phases of the connection, *)
LEMMA PhaseStep == IInv /\ [Next]_vars => PhaseInv'
<1> SUFFICES ASSUME IInv, [Next]_vars PROVE PhaseInv'
  OBVIOUS
<1> USE ActorsDiffer DEF Go, PhaseInv
<1>0. /\ upc = [b \in Actors |-> upc[b]]
      /\ LockInv /\ PhaseInv /\ sockLock \in Actors \cup {Free}
  BY DEF IInv, TypeOK
<1>00. Acceptor \in Actors /\ Remover \in Actors /\ Thread \in Actors
  BY DEF Actors
<1>1. ASSUME AcceptorStart PROVE PhaseInv'
  BY <1>1, <1>0, <1>00 DEF AcceptorStart, netVars, sockVars, objectVars, LockInv, Holding
<1>2. ASSUME AcceptorRelease PROVE PhaseInv'
  BY <1>2, <1>0, <1>00 DEF AcceptorRelease, ReleaseRef, netVars, sockVars, objectVars,
     LockInv, Holding
<1>3. ASSUME ServerClear PROVE PhaseInv'
  BY <1>3, <1>0, <1>00 DEF ServerClear, netVars, sockVars, objectVars, LockInv, Holding
<1>4. ASSUME RemoverRelease PROVE PhaseInv'
  BY <1>4, <1>0, <1>00 DEF RemoverRelease, ReleaseRef, netVars, sockVars, objectVars,
     LockInv, Holding
<1>5. ASSUME Peer PROVE PhaseInv'
  BY <1>5, <1>0, <1>00 DEF Peer, netVars, sockVars, objectVars, LockInv, Holding
<1>6. ASSUME ThreadNew PROVE PhaseInv'
  BY <1>6, <1>0, <1>00 DEF ThreadNew, Callbacks!OnNewConnection, netVars, sockVars,
     objectVars, LockInv, Holding
<1>7. ASSUME ThreadReturn PROVE PhaseInv'
  BY <1>7, <1>0, <1>00 DEF ThreadReturn, netVars, sockVars, objectVars, LockInv, Holding
<1>8. ASSUME ThreadCrash PROVE PhaseInv'
  BY <1>8, <1>0, <1>00 DEF ThreadCrash, netVars, sockVars, objectVars, LockInv, Holding
<1>9. ASSUME NEW a \in Actors, Call(a) PROVE PhaseInv'
  BY <1>9, <1>0, <1>00 DEF Call, MayUse, netVars, sockVars, objectVars, LockInv, Holding
<1>10. ASSUME NEW a \in Actors, ReceiveEnter(a) PROVE PhaseInv'
  BY <1>10, <1>0, <1>00 DEF ReceiveEnter, Lock, Return, netVars, sockVars, objectVars,
     LockInv, Holding
<1>11. ASSUME NEW a \in Actors, SendEnter(a) PROVE PhaseInv'
  BY <1>11, <1>0, <1>00 DEF SendEnter, Lock, Return, netVars, sockVars, objectVars,
     LockInv, Holding
<1>12. ASSUME NEW a \in Actors, KillEnter(a) PROVE PhaseInv'
  BY <1>12, <1>0, <1>00 DEF KillEnter, Lock, Disconnected, netVars, sockVars, objectVars,
     LockInv, Holding
<1>13. ASSUME NEW a \in Actors, Crash(a) PROVE PhaseInv'
  BY <1>13, <1>0, <1>00 DEF Crash, netVars, sockVars, objectVars, LockInv, Holding
<1>14. ASSUME NEW a \in Actors, ReceivePacket(a) PROVE PhaseInv'
  BY <1>14, <1>0, <1>00 DEF ReceivePacket, Return, Callbacks!OnReceived, netVars, sockVars,
     objectVars, LockInv, Holding
<1>15. ASSUME NEW a \in Actors, ReceiveTimeout(a) PROVE PhaseInv'
  BY <1>15, <1>0, <1>00 DEF ReceiveTimeout, Return, netVars, sockVars, objectVars, LockInv,
     Holding
<1>15a. ASSUME NEW a \in Actors, ReceiveSelect(a) PROVE PhaseInv'
  BY <1>15a, <1>0, <1>00 DEF ReceiveSelect, Return, netVars, sockVars, objectVars, LockInv,
     Holding
<1>15b. ASSUME NEW a \in Actors, SendSelect(a) PROVE PhaseInv'
  BY <1>15b, <1>0, <1>00 DEF SendSelect, Return, netVars, sockVars, objectVars, LockInv,
     Holding
<1>15c. ASSUME NEW a \in Actors, SendTimeout(a) PROVE PhaseInv'
  BY <1>15c, <1>0, <1>00 DEF SendTimeout, Return, netVars, sockVars, objectVars, LockInv,
     Holding
<1>16. ASSUME NEW a \in Actors, ReceiveFail(a) PROVE PhaseInv'
  BY <1>16, <1>0, <1>00 DEF ReceiveFail, Disconnected, netVars, sockVars, objectVars,
     LockInv, Holding
<1>17. ASSUME NEW a \in Actors, SendEnd(a) PROVE PhaseInv'
  BY <1>17, <1>0, <1>00 DEF SendEnd, Return, netVars, sockVars, objectVars, LockInv, Holding
<1>18. ASSUME NEW a \in Actors, LeaveContainer(a) PROVE PhaseInv'
  BY <1>18, <1>0, <1>00 DEF LeaveContainer, netVars, sockVars, objectVars, LockInv, Holding
<1>19. ASSUME NEW a \in Actors, Notify(a) PROVE PhaseInv'
  BY <1>19, <1>0, <1>00 DEF Notify, Callbacks!OnDisconnect, netVars, sockVars, objectVars,
     LockInv, Holding
<1>20. ASSUME NEW a \in Actors, Leave(a) PROVE PhaseInv'
  BY <1>20, <1>0, <1>00 DEF Leave, netVars, sockVars, objectVars, LockInv, Holding
<1>21. ASSUME NEW a \in Actors, Destroy(a) PROVE PhaseInv'
  BY <1>21, <1>0, <1>00 DEF Destroy, netVars, sockVars, objectVars, LockInv, Holding
<1>22. CASE UNCHANGED vars
  BY <1>22, <1>0, <1>00 DEF vars, netVars, sockVars, objectVars, LockInv, Holding
<1>. QED
  BY <1>1, <1>2, <1>3, <1>4, <1>5, <1>6, <1>7, <1>8, <1>9, <1>10, <1>11, <1>12, <1>13,
     <1>14, <1>15, <1>15a, <1>15b, <1>15c, <1>16, <1>17, <1>18, <1>19, <1>20, <1>21, <1>22
  DEF Next, Enter, Inside

(* its references, *)
LEMMA RefStep == IInv /\ [Next]_vars => RefInv'
<1> SUFFICES ASSUME IInv, [Next]_vars PROVE RefInv'
  OBVIOUS
<1> USE ActorsDiffer DEF Go, RefInv, Pending, Contained
<1>0. /\ upc = [b \in Actors |-> upc[b]] /\ RefInv
      /\ refCount \in 0..2 /\ life \in {"alive", "dying", "dead"}
      /\ container \in {"listed", "retired", "gone"}
  BY DEF IInv, TypeOK
<1>00. Acceptor \in Actors /\ Remover \in Actors /\ Thread \in Actors
  BY DEF Actors
<1>1. ASSUME AcceptorStart PROVE RefInv'
  BY <1>1, <1>0, <1>00 DEF AcceptorStart, netVars, sockVars, objectVars
<1>2. ASSUME AcceptorRelease PROVE RefInv'
  BY <1>2, <1>0, <1>00 DEF AcceptorRelease, ReleaseRef, netVars, sockVars, objectVars
<1>3. ASSUME ServerClear PROVE RefInv'
  BY <1>3, <1>0, <1>00 DEF ServerClear, netVars, sockVars, objectVars
<1>4. ASSUME RemoverRelease PROVE RefInv'
  BY <1>4, <1>0, <1>00 DEF RemoverRelease, ReleaseRef, netVars, sockVars, objectVars
<1>5. ASSUME Peer PROVE RefInv'
  BY <1>5, <1>0, <1>00 DEF Peer, netVars, sockVars, objectVars
<1>6. ASSUME ThreadNew PROVE RefInv'
  BY <1>6, <1>0, <1>00 DEF ThreadNew, Callbacks!OnNewConnection, netVars, sockVars, objectVars
<1>7. ASSUME ThreadReturn PROVE RefInv'
  BY <1>7, <1>0, <1>00 DEF ThreadReturn, netVars, sockVars, objectVars
<1>8. ASSUME ThreadCrash PROVE RefInv'
  BY <1>8, <1>0, <1>00 DEF ThreadCrash, netVars, sockVars, objectVars
<1>9. ASSUME NEW a \in Actors, Call(a) PROVE RefInv'
  BY <1>9, <1>0, <1>00 DEF Call, MayUse, netVars, sockVars, objectVars
<1>10. ASSUME NEW a \in Actors, ReceiveEnter(a) PROVE RefInv'
  BY <1>10, <1>0, <1>00 DEF ReceiveEnter, Lock, Return, netVars, sockVars, objectVars
<1>11. ASSUME NEW a \in Actors, SendEnter(a) PROVE RefInv'
  BY <1>11, <1>0, <1>00 DEF SendEnter, Lock, Return, netVars, sockVars, objectVars
<1>12. ASSUME NEW a \in Actors, KillEnter(a) PROVE RefInv'
  BY <1>12, <1>0, <1>00 DEF KillEnter, Lock, Disconnected, netVars, sockVars, objectVars
<1>13. ASSUME NEW a \in Actors, Crash(a) PROVE RefInv'
  BY <1>13, <1>0, <1>00 DEF Crash, netVars, sockVars, objectVars
<1>14. ASSUME NEW a \in Actors, ReceivePacket(a) PROVE RefInv'
  BY <1>14, <1>0, <1>00 DEF ReceivePacket, Return, Callbacks!OnReceived, netVars, sockVars,
     objectVars
<1>15. ASSUME NEW a \in Actors, ReceiveTimeout(a) PROVE RefInv'
  BY <1>15, <1>0, <1>00 DEF ReceiveTimeout, Return, netVars, sockVars, objectVars
<1>15a. ASSUME NEW a \in Actors, ReceiveSelect(a) PROVE RefInv'
  BY <1>15a, <1>0, <1>00 DEF ReceiveSelect, Return, netVars, sockVars, objectVars
<1>15b. ASSUME NEW a \in Actors, SendSelect(a) PROVE RefInv'
  BY <1>15b, <1>0, <1>00 DEF SendSelect, Return, netVars, sockVars, objectVars
<1>15c. ASSUME NEW a \in Actors, SendTimeout(a) PROVE RefInv'
  BY <1>15c, <1>0, <1>00 DEF SendTimeout, Return, netVars, sockVars, objectVars
<1>16. ASSUME NEW a \in Actors, ReceiveFail(a) PROVE RefInv'
  BY <1>16, <1>0, <1>00 DEF ReceiveFail, Disconnected, netVars, sockVars, objectVars
<1>17. ASSUME NEW a \in Actors, SendEnd(a) PROVE RefInv'
  BY <1>17, <1>0, <1>00 DEF SendEnd, Return, netVars, sockVars, objectVars
<1>18. ASSUME NEW a \in Actors, LeaveContainer(a) PROVE RefInv'
  BY <1>18, <1>0, <1>00 DEF LeaveContainer, netVars, sockVars, objectVars
<1>19. ASSUME NEW a \in Actors, Notify(a) PROVE RefInv'
  BY <1>19, <1>0, <1>00 DEF Notify, Callbacks!OnDisconnect, netVars, sockVars, objectVars
<1>20. ASSUME NEW a \in Actors, Leave(a) PROVE RefInv'
  BY <1>20, <1>0, <1>00 DEF Leave, netVars, sockVars, objectVars
<1>21. ASSUME NEW a \in Actors, Destroy(a) PROVE RefInv'
  BY <1>21, <1>0, <1>00 DEF Destroy, netVars, sockVars, objectVars
<1>22. CASE UNCHANGED vars
  BY <1>22, <1>0, <1>00 DEF vars, netVars, sockVars, objectVars
<1>. QED
  BY <1>1, <1>2, <1>3, <1>4, <1>5, <1>6, <1>7, <1>8, <1>9, <1>10, <1>11, <1>12, <1>13,
     <1>14, <1>15, <1>15a, <1>15b, <1>15c, <1>16, <1>17, <1>18, <1>19, <1>20, <1>21, <1>22
  DEF Next, Enter, Inside

-----------------------------------------------------------------------------
(* The callbacks.  A callback more leaves the earlier ones as they are.    *)
LEMMA CallMore ==
  ASSUME calls \in Seq(Call1), NEW c \in Call1, calls' = Append(calls, c)
  PROVE  /\ Len(calls) \in Nat
         /\ DOMAIN calls = 1..Len(calls)
         /\ DOMAIN calls' = 1..(Len(calls) + 1)
         /\ calls'[Len(calls) + 1] = c
         /\ \A i \in 1..Len(calls) : calls'[i] = calls[i]
  OBVIOUS

(* The packets up to an earlier callback are those they were, and those up *)
(* to the new one are all of them.                                         *)
LEMMA OrderGrows ==
  ASSUME IInv, NEW c \in Call1, calls' = Append(calls, c),
         c[1] = "received" => /\ c[2] = rcvd + 1
                              /\ \A i \in DOMAIN calls : calls[i] # Callbacks!OnDisconnect
  PROVE  /\ ReceivesInOrder'
         /\ Cardinality(Returned(calls')) = rcvd + IF c[1] = "received" THEN 1 ELSE 0
<1> DEFINE n == Len(calls)
           Upto(s, i) == {k \in 1..i : s[k][1] = "received"}
<1>1. calls \in Seq(Call1) /\ CallsInv /\ ReceivesInOrder
  BY DEF IInv, TypeOK, CallsInv, Call1
<1>2. /\ n \in Nat /\ DOMAIN calls = 1..n /\ DOMAIN calls' = 1..(n + 1)
      /\ calls'[n + 1] = c /\ \A i \in 1..n : calls'[i] = calls[i]
  BY <1>1, CallMore
<1>3. Cardinality(Returned(calls')) = rcvd + IF c[1] = "received" THEN 1 ELSE 0
  BY <1>1, ReturnedGrow DEF CallsInv
<1>4. \A i \in 1..n : Upto(calls', i) = Upto(calls, i)
  BY <1>2
<1>5. Upto(calls', n + 1) = Returned(calls')
  BY <1>2 DEF Returned
<1>6. \A i \in 1..n : calls[i][1] = "received" => calls[i][2] = Cardinality(Upto(calls, i))
  BY <1>1, <1>2 DEF ReceivesInOrder
<1> HIDE DEF Upto, n
<1>7. ASSUME NEW i \in DOMAIN calls', calls'[i][1] = "received"
      PROVE  calls'[i][2] = Cardinality(Upto(calls', i))
  <2>1. CASE i \in 1..n
    BY <1>2, <1>4, <1>6, <1>7, <2>1
  <2>2. CASE i = n + 1
    BY <1>2, <1>3, <1>5, <1>7, <2>2
  <2>. QED
    BY <1>2, <2>1, <2>2
<1>8. ASSUME NEW i \in DOMAIN calls', NEW j \in DOMAIN calls', i < j,
             calls'[i] = Callbacks!OnDisconnect
      PROVE  calls'[j][1] # "received"
  <2>1. i \in 1..n
    BY <1>2, <1>8
  <2>2. CASE j \in 1..n
    BY <1>1, <1>2, <1>8, <2>1, <2>2 DEF ReceivesInOrder
  <2>3. CASE j = n + 1
    BY <1>2, <1>8, <2>1, <2>3
  <2>. QED
    BY <1>2, <2>2, <2>3
<1>9. ReceivesInOrder'
  BY <1>7, <1>8 DEF ReceivesInOrder, Upto, Callbacks!OnDisconnect
<1>. QED
  BY <1>3, <1>9

(* A step without a callback, which neither kills the connection nor       *)
(* brings it to life.                                                      *)
LEMMA CallsStay ==
  ASSUME IInv, UNCHANGED <<calls, rcvd>>,
         connected' \/ (\E a \in Actors : upc'[a] \in {"remove", "notify"})
           => connected \/ (\E a \in Actors : upc[a] \in {"remove", "notify"})
  PROVE  CallsInv'
  BY DEF IInv, CallsInv, ReceivesInOrder, Returned, Callbacks!OnDisconnect

(* and what was told of it. *)
LEMMA CallsStep == IInv /\ [Next]_vars => CallsInv'
<1> SUFFICES ASSUME IInv, [Next]_vars PROVE CallsInv'
  OBVIOUS
<1>0. /\ upc = [b \in Actors |-> upc[b]]
      /\ calls \in Seq(Call1) /\ rcvd \in Nat
  BY SyncSocketAssumption DEF IInv, TypeOK, Call1
<1>1. Acceptor \in Actors /\ Remover \in Actors /\ Thread \in Actors
  BY DEF Actors
<1> DEFINE Ends == connected \/ \E a \in Actors : upc[a] \in {"remove", "notify"}
<1>2. CASE ThreadNew
  <2> DEFINE c == Callbacks!OnNewConnection
  <2>1. c \in Call1 /\ c[1] # "received" /\ c # Callbacks!OnDisconnect
    BY DEF Call1, Callbacks!OnNewConnection, Callbacks!OnDisconnect
  <2>2. calls' = Append(calls, c) /\ UNCHANGED <<connected, upc, rcvd>>
    BY <1>2 DEF ThreadNew, sockVars
  <2> HIDE DEF c
  <2>3. ReceivesInOrder' /\ rcvd' = Cardinality(Returned(calls'))
    BY <1>0, <2>1, <2>2, OrderGrows
  <2>4. /\ Len(calls) \in Nat /\ DOMAIN calls = 1..Len(calls)
        /\ DOMAIN calls' = 1..(Len(calls) + 1) /\ calls'[Len(calls) + 1] = c
        /\ \A i \in 1..Len(calls) : calls'[i] = calls[i]
    BY <1>0, <2>1, <2>2, CallMore
  <2>5. \A i \in DOMAIN calls' : calls'[i] = Callbacks!OnDisconnect
                                   => i \in DOMAIN calls /\ calls[i] = Callbacks!OnDisconnect
    BY <2>1, <2>4
  <2>. QED
    BY <2>2, <2>3, <2>5 DEF IInv, CallsInv, Callbacks!OnDisconnect
<1>3. ASSUME NEW a \in Actors, ReceivePacket(a) PROVE CallsInv'
  <2> DEFINE c == Callbacks!OnReceived(rcvd + 1)
  <2>1. c \in Call1 /\ c[1] = "received" /\ c[2] = rcvd + 1 /\ c # Callbacks!OnDisconnect
    BY <1>0 DEF Call1, Callbacks!OnReceived, Callbacks!OnDisconnect
  <2>2. calls' = Append(calls, c) /\ rcvd' = rcvd + 1
    BY <1>3 DEF ReceivePacket
  <2>3. \A i \in DOMAIN calls : calls[i] # Callbacks!OnDisconnect
    BY <1>3 DEF ReceivePacket, IInv, PhaseInv, CallsInv
  <2> HIDE DEF c
  <2>4. ReceivesInOrder' /\ rcvd' = Cardinality(Returned(calls'))
    BY <1>0, <2>1, <2>2, <2>3, OrderGrows
  <2>5. /\ Len(calls) \in Nat /\ DOMAIN calls = 1..Len(calls)
        /\ DOMAIN calls' = 1..(Len(calls) + 1) /\ calls'[Len(calls) + 1] = c
        /\ \A i \in 1..Len(calls) : calls'[i] = calls[i]
    BY <1>0, <2>1, <2>2, CallMore
  <2>6. \A i \in DOMAIN calls' : calls'[i] # Callbacks!OnDisconnect
    BY <2>1, <2>3, <2>5
  <2>. QED
    BY <2>4, <2>6 DEF CallsInv, Callbacks!OnDisconnect
<1>4. ASSUME NEW a \in Actors, Notify(a) PROVE CallsInv'
  <2> DEFINE c == Callbacks!OnDisconnect
  <2>1. c \in Call1 /\ c[1] # "received"
    BY DEF Call1, Callbacks!OnDisconnect
  <2>2. calls' = Append(calls, c) /\ UNCHANGED <<connected, rcvd>>
        /\ upc[a] = "notify" /\ upc' = [upc EXCEPT ![a] = "leave"]
    BY <1>4 DEF Notify, sockVars, Go
  <2>3. \A i \in DOMAIN calls : calls[i] # Callbacks!OnDisconnect
    BY <2>2 DEF IInv, CallsInv
  <2>4. ~connected /\ \A b \in Actors : upc[b] \in {"remove", "notify"} => b = a
    BY <2>2 DEF IInv, PhaseInv, LockInv, Holding
  <2>5. ~Ends'
    BY <1>0, <2>2, <2>4
  <2>6. ReceivesInOrder' /\ rcvd' = Cardinality(Returned(calls'))
    BY <1>0, <2>1, <2>2, <2>3, OrderGrows
  <2>7. /\ Len(calls) \in Nat /\ DOMAIN calls = 1..Len(calls)
        /\ DOMAIN calls' = 1..(Len(calls) + 1)
        /\ \A i \in 1..Len(calls) : calls'[i] = calls[i]
    BY <1>0, <2>1, <2>2, CallMore
  <2>8. \A i \in DOMAIN calls' : calls'[i] = Callbacks!OnDisconnect => i = Len(calls) + 1
    BY <2>3, <2>7
  <2>. QED
    BY <2>5, <2>6, <2>8 DEF CallsInv, Callbacks!OnDisconnect
<1>5. ASSUME ~ThreadNew, \A a \in Actors : ~ReceivePacket(a) /\ ~Notify(a)
      PROVE  CallsInv'
  <2>0. \A a \in Actors : upc[a] \in {"select", "recv"} => connected
    BY DEF IInv, PhaseInv
  <2> DEFINE Quiet == UNCHANGED <<calls, rcvd>> /\ (Ends' => Ends)
  <2>1. Quiet
    <3>1. ASSUME AcceptorStart PROVE Quiet
      BY <3>1, <1>0, <1>1 DEF AcceptorStart, netVars, sockVars, objectVars, Go
    <3>2. ASSUME AcceptorRelease PROVE Quiet
      BY <3>2, <1>0, <1>1 DEF AcceptorRelease, ReleaseRef, netVars, sockVars, objectVars, Go
    <3>3. ASSUME ServerClear PROVE Quiet
      BY <3>3, <1>0, <1>1 DEF ServerClear, netVars, sockVars, objectVars, Go
    <3>4. ASSUME RemoverRelease PROVE Quiet
      BY <3>4, <1>0, <1>1 DEF RemoverRelease, ReleaseRef, netVars, sockVars, objectVars, Go
    <3>5. ASSUME Peer PROVE Quiet
      BY <3>5, <1>0, <1>1 DEF Peer, netVars, sockVars, objectVars, Go
    <3>6. ASSUME ThreadReturn PROVE Quiet
      BY <3>6, <1>0, <1>1 DEF ThreadReturn, netVars, sockVars, objectVars, Go
    <3>7. ASSUME ThreadCrash PROVE Quiet
      BY <3>7, <1>0, <1>1 DEF ThreadCrash, netVars, sockVars, objectVars, Go
    <3>8. ASSUME NEW a \in Actors, Call(a) PROVE Quiet
      BY <3>8, <1>0, <1>1 DEF Call, MayUse, netVars, sockVars, objectVars, Go
    <3>9. ASSUME NEW a \in Actors, ReceiveEnter(a) PROVE Quiet
      BY <3>9, <1>0, <1>1 DEF ReceiveEnter, Lock, Return, netVars, sockVars, objectVars, Go
    <3>10. ASSUME NEW a \in Actors, SendEnter(a) PROVE Quiet
      BY <3>10, <1>0, <1>1 DEF SendEnter, Lock, Return, netVars, sockVars, objectVars, Go
    <3>11. ASSUME NEW a \in Actors, KillEnter(a) PROVE Quiet
      BY <3>11, <1>0, <1>1 DEF KillEnter, Lock, Disconnected, netVars, sockVars,
         objectVars, Go
    <3>12. ASSUME NEW a \in Actors, Crash(a) PROVE Quiet
      BY <3>12, <1>0, <1>1 DEF Crash, netVars, sockVars, objectVars, Go
    <3>13. ASSUME NEW a \in Actors, ReceiveTimeout(a) PROVE Quiet
      BY <3>13, <1>0, <1>1 DEF ReceiveTimeout, Return, netVars, sockVars, objectVars, Go
    <3>13a. ASSUME NEW a \in Actors, ReceiveSelect(a) PROVE Quiet
      BY <3>13a, <1>0, <1>1 DEF ReceiveSelect, Return, netVars, sockVars, objectVars, Go
    <3>13b. ASSUME NEW a \in Actors, SendSelect(a) PROVE Quiet
      BY <3>13b, <1>0, <1>1 DEF SendSelect, Return, netVars, sockVars, objectVars, Go
    <3>13c. ASSUME NEW a \in Actors, SendTimeout(a) PROVE Quiet
      BY <3>13c, <1>0, <1>1 DEF SendTimeout, Return, netVars, sockVars, objectVars, Go
    <3>14. ASSUME NEW a \in Actors, ReceiveFail(a) PROVE Quiet
      BY <3>14, <1>0, <1>1, <2>0 DEF ReceiveFail, Disconnected, netVars, sockVars,
         objectVars, Go
    <3>15. ASSUME NEW a \in Actors, SendEnd(a) PROVE Quiet
      BY <3>15, <1>0, <1>1 DEF SendEnd, Return, netVars, sockVars, objectVars, Go
    <3>16. ASSUME NEW a \in Actors, LeaveContainer(a) PROVE Quiet
      BY <3>16, <1>0, <1>1 DEF LeaveContainer, netVars, sockVars, objectVars, Go
    <3>17. ASSUME NEW a \in Actors, Leave(a) PROVE Quiet
      BY <3>17, <1>0, <1>1 DEF Leave, netVars, sockVars, objectVars, Go
    <3>18. ASSUME NEW a \in Actors, Destroy(a) PROVE Quiet
      BY <3>18, <1>0, <1>1 DEF Destroy, netVars, sockVars, objectVars, Go
    <3>19. CASE UNCHANGED vars
      BY <3>19 DEF vars, netVars, sockVars, objectVars
    <3>. QED
      BY <1>5, <3>1, <3>2, <3>3, <3>4, <3>5, <3>6, <3>7, <3>8, <3>9, <3>10, <3>11, <3>12,
         <3>13, <3>13a, <3>13b, <3>13c, <3>14, <3>15, <3>16, <3>17, <3>18, <3>19
      DEF Next, Enter, Inside
  <2>. QED
    BY <2>1, CallsStay
<1>. QED
  BY <1>2, <1>3, <1>4, <1>5

-----------------------------------------------------------------------------
(* The initial states satisfy the invariant. *)
LEMMA InitIInv == Init => IInv
<1> SUFFICES ASSUME Init PROVE IInv
  OBVIOUS
<1> USE ActorsDiffer DEF Init
<1>0. Acceptor \in Actors /\ Remover \in Actors /\ Thread \in Actors
  BY DEF Actors
<1>1. TypeOK
  <2>1. upc \in [Actors -> {"start", "idle"}] /\ upc \in [Actors -> Places]
    BY DEF Places
  <2>2. sent \in 0..MaxPackets /\ rcvd \in 0..sent /\ calls \in Seq(Call1)
    BY SyncSocketAssumption
  <2>3. {partial, peerClosed, peerReads, connected, sockOpen} \subseteq BOOLEAN
    OBVIOUS
  <2>4. closes \in 0..1 /\ refCount \in 0..2
    OBVIOUS
  <2>5. destroyer \in Actors \cup {Free} /\ sockLock \in Actors \cup {Free}
    OBVIOUS
  <2>6. /\ life \in {"alive", "dying", "dead"}
        /\ container \in {"listed", "retired", "gone"}
        /\ tpc \in {"unstarted", "new", "callback", "ended"}
    OBVIOUS
  <2> HIDE DEF Init
  <2>. QED
    BY <2>1, <2>2, <2>3, <2>4, <2>5, <2>6 DEF TypeOK, Places, Call1
<1>2. LockInv /\ PhaseInv
  BY DEF LockInv, PhaseInv, Holding
<1>3. RefInv
  BY <1>0 DEF RefInv, Pending, Contained
<1>4. CallsInv
  <2>1. Returned(calls) = {}
    BY DEF Returned
  <2>. QED
    BY <2>1, FS_EmptySet DEF CallsInv, ReceivesInOrder
<1>. QED
  BY <1>1, <1>2, <1>3, <1>4 DEF IInv

(* Every reachable state satisfies the inductive invariant. *)
LEMMA Invariance == Spec => []IInv
<1>1. IInv /\ [Next]_vars => IInv'
  BY TypeStep, LockStep, PhaseStep, RefStep, CallsStep DEF IInv
<1>. QED
  BY InitIInv, <1>1, PTL DEF Spec

(* A set of natural numbers whose members are all the same has one at most. *)
LEMMA OneAtMost ==
  ASSUME NEW S, \A i, j \in S : i = j
  PROVE  Cardinality(S) <= 1
<1>1. IsFiniteSet({}) /\ Cardinality({}) = 0
  BY FS_EmptySet
<1>2. CASE S = {}
  BY <1>1, <1>2
<1>3. CASE S # {}
  <2>1. PICK i \in S : TRUE
    BY <1>3
  <2>2. S = {} \cup {i}
    BY <2>1
  <2>3. IsFiniteSet({}) /\ Cardinality({}) <= 0
    BY <1>1
  <2>4. Cardinality({} \cup {i}) <= 0 + 1
    BY <2>3, OneMore
  <2>. QED
    BY <2>2, <2>4
<1>. QED
  BY <1>2, <1>3

(* However many threads are in Receive, Send and KillConnection, beside    *)
(* the destructor (epSyncTcpSocket.cpp 51-186): the application is told    *)
(* the end of the connection once and the descriptor is closed once, the   *)
(* packets are returned in order and none after the end, and the flags     *)
(* agree whenever m_baseSocketLock is free.                                *)
THEOREM ConnectionStaysSound == Spec => []ConnectionIsSound
<1>1. ASSUME IInv PROVE ConnectionIsSound
  <2>1. TypeOK /\ StateAgrees
    BY <1>1 DEF IInv, PhaseInv, StateAgrees
  <2>2. DisconnectAtMostOnce
    <3> DEFINE S == {i \in DOMAIN calls : calls[i] = Callbacks!OnDisconnect}
    <3>1. \A i, j \in S : i = j
      BY <1>1 DEF IInv, CallsInv
    <3>2. Cardinality(S) <= 1
      BY <3>1, OneAtMost
    <3>3. closes <= 1
      BY <1>1 DEF IInv, PhaseInv
    <3>. QED
      BY <3>2, <3>3 DEF DisconnectAtMostOnce
  <2>3. ReceivesInOrder
    BY <1>1 DEF IInv, CallsInv
  <2>. QED
    BY <2>1, <2>2, <2>3 DEF ConnectionIsSound
<1>. QED
  BY Invariance, <1>1, PTL

-----------------------------------------------------------------------------
(* The server that accepts.                                                *)

(* TcpServer sees its state, its promises and the library through an       *)
(* instance here; they are the same.                                       *)
LEMMA SameCardinality == \A S : Server!Cardinality(S) = Cardinality(S)
BY Zenon DEF Server!Cardinality, Cardinality

(* A promise of the instance is the promise. *)
LEMMA SameServerPromises ==
  /\ Server!ServedWithinLimit => ServedWithinLimit
  /\ Server!StoppedServesNobody => StoppedServesNobody
  /\ Server!StartHasAddress => StartHasAddress
<1>1. Server!ServedWithinLimit => ServedWithinLimit
  BY SameCardinality DEF Server!ServedWithinLimit, ServedWithinLimit, Server!Served, Served
<1>2. Server!StoppedServesNobody => StoppedServesNobody
  BY DEF Server!StoppedServesNobody, StoppedServesNobody, Server!IsServerStarted,
         IsServerStarted, Server!Threads, Threads, Server!User, User, Server!Served, Served
<1>3. Server!StartHasAddress => StartHasAddress
  BY DEF Server!StartHasAddress, StartHasAddress, Server!User, User
<1>. QED
  BY <1>1, <1>2, <1>3

-----------------------------------------------------------------------------
(* The inductive invariant.                                                *)

(* The accept thread has a connection in its hand where it uses one, only  *)
(* StopServer gets to its places, and Winsock has been started at most     *)
(* once per StartServer.                                                   *)
HandInv ==
  /\ pc[Server!Acceptor] \in {"accepted", "onaccept", "push", "start"} => cur \in Clients
  /\ pc[Server!User] \in {"invalidate", "join"} => stopping
  /\ winsock <= starts + 1

(* Where the accept thread and the application's call can be at the same   *)
(* time if accept does not fail by itself: an accept thread that ends is   *)
(* waited for, one that runs has a listening socket.                       *)
Ending == {"stop", "kill", "close", "free", "cleanup"}

ServerPhaseInv ==
  ~options.faults =>
    /\ pc[Server!Acceptor] \in Ending => pc[Server!User] \in {"invalidate", "join"}
    /\ pc[Server!Acceptor] # "idle" => listen = "open" \/ pc[Server!User] \in {"invalidate", "join"}
    /\ pc[Server!User] \in {"resolve", "listen", "close", "free", "cleanup"} =>
         pc[Server!Acceptor] = "idle"
    /\ pc[Server!User] = "thread" => pc[Server!Acceptor] = "idle" /\ listen = "open"
    /\ pc[Server!User] = "kill" /\ stopping => pc[Server!Acceptor] = "idle"
    /\ pc[Server!User] = "listen" => result

(* Without ShutdownAllClient beside the accept thread, every connection    *)
(* that is served is in the list, and those that are still to be killed    *)
(* when the list will be cleared are the ones that are served.             *)
ListInv ==
  ~options.shutdowns =>
    /\ Served \subseteq listed
    /\ pc[Server!Acceptor] = "start" /\ ~options.sync => cur \in listed /\ stage[cur] = "new"
    /\ pc[Server!Acceptor] = "kill" => Served \subseteq targets[Server!Acceptor]
    /\ pc[Server!User] = "kill" =>
         stopping /\ pc[Server!Acceptor] = "idle" /\ Served \subseteq targets[Server!User]
    /\ pc[Server!Acceptor] = "close" => listed = {} \/ pc[Server!User] = "join"
    /\ pc[Server!Acceptor] \notin {"idle", "free", "cleanup"} =>
         listen # "invalid" \/ pc[Server!User] = "join"
    /\ pc[Server!User] \in {"resolve", "listen", "thread", "close", "free", "cleanup", "crashed"} =>
         pc[Server!Acceptor] \in {"idle", "free", "cleanup"} /\ listed = {}
    /\ listen = "invalid" => listed = {} \/ pc[Server!User] \in {"join", "kill"}
    /\ pc[Server!User] = "thread" => listen = "open"

(* The list is finite and, with a limit that does not move, no longer than *)
(* it; and shorter whenever the accept thread is about to add to it.       *)
LimitInv ==
  /\ IsFiniteSet(listed)
  /\ ~options.setLimit /\ ~options.shutdowns /\ limit > 0 =>
       /\ Cardinality(listed) <= limit
       /\ pc[Server!Acceptor] \in {"accept", "accepted", "onaccept", "push"} =>
            Cardinality(listed) < limit

(* The whole of it. *)
ServerIInv == Server!TypeOK /\ HandInv /\ ServerPhaseInv /\ ListInv /\ LimitInv

-----------------------------------------------------------------------------
(* Cardinalities and limits are numbers. *)
LEMMA NatFacts ==
  ServerIInv => Cardinality(listed) \in Nat /\ limit \in Nat
BY TcpServerAssumption, FS_CardinalityType DEF ServerIInv, LimitInv, Server!TypeOK

(* A list that only loses connections keeps what is known of its length. *)
LEMMA ListShrinks ==
  ServerIInv /\ listed' \subseteq listed =>
    /\ IsFiniteSet(listed')
    /\ Cardinality(listed') \in Nat
    /\ Cardinality(listed') <= Cardinality(listed)
BY FS_Subset, FS_CardinalityType DEF ServerIInv, LimitInv

(* Each action keeps the types. *)
LEMMA ServerTypeStep == ServerIInv /\ [Server!Next]_(Server!vars) => Server!TypeOK'
<1> SUFFICES ASSUME ServerIInv, [Server!Next]_(Server!vars) PROVE Server!TypeOK'
  OBVIOUS
<1> USE DEF ServerIInv, Server!Threads, Server!Acceptor, Server!User, Server!TypeOK,
      Server!Places, HandInv,
     Server!serverVars, Server!connVars, Server!listVars
<1>1. ASSUME NEW c \in Clients, Server!Connect(c) PROVE Server!TypeOK'
  BY <1>1 DEF Server!Connect
<1>2. ASSUME NEW c \in Clients, Server!SocketClose(c) PROVE Server!TypeOK'
  BY <1>2 DEF Server!SocketClose
<1>3. ASSUME NEW c \in Clients, Server!SocketLeave(c) PROVE Server!TypeOK'
  BY <1>3 DEF Server!SocketLeave, Server!LeaveList
<1>4. ASSUME NEW c \in Clients, Server!SocketEnd(c) PROVE Server!TypeOK'
  BY <1>4 DEF Server!SocketEnd
<1>5. ASSUME NEW t \in Server!Threads, NEW c \in Clients, Server!KillTell(t, c) PROVE Server!TypeOK'
  BY <1>5 DEF Server!KillTell, Server!CanKill
<1>6. ASSUME NEW t \in Server!Threads, NEW c \in Clients, Server!KillThread(t, c) PROVE Server!TypeOK'
  BY <1>6 DEF Server!KillThread
<1>7. ASSUME NEW t \in Server!Threads, NEW c \in Clients, Server!KillClose(t, c) PROVE Server!TypeOK'
  BY <1>7 DEF Server!KillClose, Server!CanKill
<1>8. ASSUME NEW t \in Server!Threads, NEW c \in Clients, Server!KillNothing(t, c) PROVE Server!TypeOK'
  BY <1>8 DEF Server!KillNothing, Server!CanKill
<1>9. ASSUME NEW t \in Server!Threads, NEW c \in Clients, Server!KillDone(t, c) PROVE Server!TypeOK'
  BY <1>9 DEF Server!KillDone
<1>10. ASSUME NEW t \in Server!Threads, Server!Clear(t) PROVE Server!TypeOK'
  BY <1>10 DEF Server!Clear, Server!Go
<1>11. ASSUME NEW t \in Server!Threads, Server!CloseListen(t) PROVE Server!TypeOK'
  BY <1>11 DEF Server!CloseListen, Server!Go
<1>12. ASSUME NEW t \in Server!Threads, Server!FreeResult(t) PROVE Server!TypeOK'
  BY <1>12 DEF Server!FreeResult, Server!Go
<1>13. ASSUME NEW t \in Server!Threads, Server!CleanUp(t) PROVE Server!TypeOK'
  BY <1>13, TcpServerAssumption DEF Server!CleanUp, Server!Go, Server!WSACleanup
<1>14. CASE Server!Accept
  BY <1>14 DEF Server!Accept, Server!Go
<1>15. CASE Server!Accepted
  BY <1>15 DEF Server!Accepted, Server!Go, Server!IsServerStarted
<1>16. CASE Server!OnAccept
  BY <1>16 DEF Server!OnAccept, Server!Go
<1>17. CASE Server!Push
  BY <1>17 DEF Server!Push, Server!Go
<1>18. CASE Server!StartSocket
  BY <1>18 DEF Server!StartSocket, Server!Go
<1>19. CASE Server!Limit
  BY <1>19 DEF Server!Limit, Server!Go
<1>20. CASE Server!Count
  BY <1>20 DEF Server!Count, Server!Go
<1>21. CASE Server!Wait
  BY <1>21 DEF Server!Wait, Server!Go
<1>22. CASE Server!StopSelf
  BY <1>22 DEF Server!StopSelf, Server!Go, Server!IsServerStarted
<1>23. CASE Server!StartServer
  <2>1. starts' \in 0..MaxStarts
    BY <1>23, TcpServerAssumption DEF Server!StartServer
  <2>2. winsock' \in 0..(MaxStarts + 1)
    BY <1>23, TcpServerAssumption DEF Server!StartServer
  <2>3. limit' \in Limits
    BY <1>23 DEF Server!StartServer
  <2>4. pc' \in [Server!Threads -> Server!Places]
    BY <1>23 DEF Server!StartServer, Server!Go
  <2>5. result' \in BOOLEAN /\ stopping' \in BOOLEAN /\ listen' = "invalid"
    BY <1>23 DEF Server!StartServer
  <2>. QED
    BY <1>23, <2>1, <2>2, <2>3, <2>4, <2>5 DEF Server!StartServer
<1>24. CASE Server!Resolve
  <2>1. winsock' \in 0..(MaxStarts + 1)
    BY <1>24, TcpServerAssumption DEF Server!Resolve, Server!WSACleanup
  <2>2. pc' \in [Server!Threads -> Server!Places]
    BY <1>24 DEF Server!Resolve, Server!Go
  <2>3. result' \in BOOLEAN
    BY <1>24 DEF Server!Resolve
  <2>. QED
    BY <1>24, <2>1, <2>2, <2>3 DEF Server!Resolve
<1>25. CASE Server!Listen
  BY <1>25 DEF Server!Listen, Server!Go
<1>26. CASE Server!StartThread
  BY <1>26 DEF Server!StartThread, Server!Go
<1>27. CASE Server!StopServer
  BY <1>27 DEF Server!StopServer, Server!Go, Server!IsServerStarted
<1>28. CASE Server!Invalidate
  BY <1>28 DEF Server!Invalidate, Server!Go
<1>29. CASE Server!Join
  BY <1>29 DEF Server!Join
<1>30. CASE Server!ShutdownAllClient
  BY <1>30 DEF Server!ShutdownAllClient, Server!Go
<1>31. CASE Server!SetMaximumConnectionCount
  BY <1>31 DEF Server!SetMaximumConnectionCount
<1>32. CASE UNCHANGED Server!vars
  BY <1>32 DEF Server!vars
<1>. QED
  BY <1>1, <1>2, <1>3, <1>4, <1>5, <1>6, <1>7, <1>8, <1>9, <1>10, <1>11,
     <1>12, <1>13, <1>14, <1>15, <1>16, <1>17, <1>18, <1>19, <1>20, <1>21,
     <1>22, <1>23, <1>24, <1>25, <1>26, <1>27, <1>28, <1>29, <1>30, <1>31,
     <1>32 DEF Server!Next, Server!AcceptorStep, Server!UserStep,
     Server!ShutdownStep, Server!Threads

(* Each action keeps what the accept thread has in hand. *)
LEMMA HandStep == ServerIInv /\ [Server!Next]_(Server!vars) => HandInv'
<1> SUFFICES ASSUME ServerIInv, [Server!Next]_(Server!vars) PROVE HandInv'
  OBVIOUS
<1> USE DEF ServerIInv, Server!Threads, Server!Acceptor, Server!User, Server!TypeOK,
      Server!Places, HandInv,
     Server!serverVars, Server!connVars, Server!listVars
<1>1. ASSUME NEW c \in Clients, Server!Connect(c) PROVE HandInv'
  BY <1>1 DEF Server!Connect
<1>2. ASSUME NEW c \in Clients, Server!SocketClose(c) PROVE HandInv'
  BY <1>2 DEF Server!SocketClose
<1>3. ASSUME NEW c \in Clients, Server!SocketLeave(c) PROVE HandInv'
  BY <1>3 DEF Server!SocketLeave, Server!LeaveList
<1>4. ASSUME NEW c \in Clients, Server!SocketEnd(c) PROVE HandInv'
  BY <1>4 DEF Server!SocketEnd
<1>5. ASSUME NEW t \in Server!Threads, NEW c \in Clients, Server!KillTell(t, c) PROVE HandInv'
  BY <1>5 DEF Server!KillTell, Server!CanKill
<1>6. ASSUME NEW t \in Server!Threads, NEW c \in Clients, Server!KillThread(t, c) PROVE HandInv'
  BY <1>6 DEF Server!KillThread
<1>7. ASSUME NEW t \in Server!Threads, NEW c \in Clients, Server!KillClose(t, c) PROVE HandInv'
  BY <1>7 DEF Server!KillClose, Server!CanKill
<1>8. ASSUME NEW t \in Server!Threads, NEW c \in Clients, Server!KillNothing(t, c) PROVE HandInv'
  BY <1>8 DEF Server!KillNothing, Server!CanKill
<1>9. ASSUME NEW t \in Server!Threads, NEW c \in Clients, Server!KillDone(t, c) PROVE HandInv'
  BY <1>9 DEF Server!KillDone
<1>10. ASSUME NEW t \in Server!Threads, Server!Clear(t) PROVE HandInv'
  BY <1>10 DEF Server!Clear, Server!Go
<1>11. ASSUME NEW t \in Server!Threads, Server!CloseListen(t) PROVE HandInv'
  BY <1>11 DEF Server!CloseListen, Server!Go
<1>12. ASSUME NEW t \in Server!Threads, Server!FreeResult(t) PROVE HandInv'
  BY <1>12 DEF Server!FreeResult, Server!Go
<1>13. ASSUME NEW t \in Server!Threads, Server!CleanUp(t) PROVE HandInv'
  BY <1>13 DEF Server!CleanUp, Server!Go, Server!WSACleanup
<1>14. CASE Server!Accept
  BY <1>14 DEF Server!Accept, Server!Go
<1>15. CASE Server!Accepted
  BY <1>15 DEF Server!Accepted, Server!Go, Server!IsServerStarted
<1>16. CASE Server!OnAccept
  BY <1>16 DEF Server!OnAccept, Server!Go
<1>17. CASE Server!Push
  BY <1>17 DEF Server!Push, Server!Go
<1>18. CASE Server!StartSocket
  BY <1>18 DEF Server!StartSocket, Server!Go
<1>19. CASE Server!Limit
  BY <1>19 DEF Server!Limit, Server!Go
<1>20. CASE Server!Count
  BY <1>20 DEF Server!Count, Server!Go
<1>21. CASE Server!Wait
  BY <1>21 DEF Server!Wait, Server!Go
<1>22. CASE Server!StopSelf
  BY <1>22 DEF Server!StopSelf, Server!Go, Server!IsServerStarted
<1>23. CASE Server!StartServer
  BY <1>23 DEF Server!StartServer, Server!Go, Server!IsServerStarted
<1>24. CASE Server!Resolve
  BY <1>24 DEF Server!Resolve, Server!Go, Server!WSACleanup
<1>25. CASE Server!Listen
  BY <1>25 DEF Server!Listen, Server!Go
<1>26. CASE Server!StartThread
  BY <1>26 DEF Server!StartThread, Server!Go
<1>27. CASE Server!StopServer
  BY <1>27 DEF Server!StopServer, Server!Go, Server!IsServerStarted
<1>28. CASE Server!Invalidate
  BY <1>28 DEF Server!Invalidate, Server!Go
<1>29. CASE Server!Join
  BY <1>29 DEF Server!Join
<1>30. CASE Server!ShutdownAllClient
  BY <1>30 DEF Server!ShutdownAllClient, Server!Go
<1>31. CASE Server!SetMaximumConnectionCount
  BY <1>31 DEF Server!SetMaximumConnectionCount
<1>32. CASE UNCHANGED Server!vars
  BY <1>32 DEF Server!vars
<1>. QED
  BY <1>1, <1>2, <1>3, <1>4, <1>5, <1>6, <1>7, <1>8, <1>9, <1>10, <1>11,
     <1>12, <1>13, <1>14, <1>15, <1>16, <1>17, <1>18, <1>19, <1>20, <1>21,
     <1>22, <1>23, <1>24, <1>25, <1>26, <1>27, <1>28, <1>29, <1>30, <1>31,
     <1>32 DEF Server!Next, Server!AcceptorStep, Server!UserStep,
     Server!ShutdownStep, Server!Threads

(* Each action keeps the two threads in places that agree. *)
LEMMA ServerPhaseStep == ServerIInv /\ [Server!Next]_(Server!vars) => ServerPhaseInv'
<1> SUFFICES ASSUME ServerIInv, [Server!Next]_(Server!vars) PROVE ServerPhaseInv'
  OBVIOUS
<1> USE DEF ServerIInv, Server!Threads, Server!Acceptor, Server!User, Server!TypeOK,
      Server!Places, ServerPhaseInv, Ending,
     Server!LockFree, Server!serverVars, Server!connVars, Server!listVars
<1>1. ASSUME NEW c \in Clients, Server!Connect(c) PROVE ServerPhaseInv'
  BY <1>1 DEF Server!Connect
<1>2. ASSUME NEW c \in Clients, Server!SocketClose(c) PROVE ServerPhaseInv'
  BY <1>2 DEF Server!SocketClose
<1>3. ASSUME NEW c \in Clients, Server!SocketLeave(c) PROVE ServerPhaseInv'
  BY <1>3 DEF Server!SocketLeave, Server!LeaveList
<1>4. ASSUME NEW c \in Clients, Server!SocketEnd(c) PROVE ServerPhaseInv'
  BY <1>4 DEF Server!SocketEnd
<1>5. ASSUME NEW t \in Server!Threads, NEW c \in Clients, Server!KillTell(t, c) PROVE ServerPhaseInv'
  BY <1>5 DEF Server!KillTell, Server!CanKill
<1>6. ASSUME NEW t \in Server!Threads, NEW c \in Clients, Server!KillThread(t, c) PROVE ServerPhaseInv'
  BY <1>6 DEF Server!KillThread
<1>7. ASSUME NEW t \in Server!Threads, NEW c \in Clients, Server!KillClose(t, c) PROVE ServerPhaseInv'
  BY <1>7 DEF Server!KillClose, Server!CanKill
<1>8. ASSUME NEW t \in Server!Threads, NEW c \in Clients, Server!KillNothing(t, c) PROVE ServerPhaseInv'
  BY <1>8 DEF Server!KillNothing, Server!CanKill
<1>9. ASSUME NEW t \in Server!Threads, NEW c \in Clients, Server!KillDone(t, c) PROVE ServerPhaseInv'
  BY <1>9 DEF Server!KillDone
<1>10. ASSUME NEW t \in Server!Threads, Server!Clear(t) PROVE ServerPhaseInv'
  BY <1>10 DEF Server!Clear, Server!Go
<1>11. ASSUME NEW t \in Server!Threads, Server!CloseListen(t) PROVE ServerPhaseInv'
  BY <1>11 DEF Server!CloseListen, Server!Go
<1>12. ASSUME NEW t \in Server!Threads, Server!FreeResult(t) PROVE ServerPhaseInv'
  BY <1>12 DEF Server!FreeResult, Server!Go
<1>13. ASSUME NEW t \in Server!Threads, Server!CleanUp(t) PROVE ServerPhaseInv'
  BY <1>13 DEF Server!CleanUp, Server!Go, Server!WSACleanup
<1>14. CASE Server!Accept
  BY <1>14 DEF Server!Accept, Server!Go
<1>15. CASE Server!Accepted
  BY <1>15 DEF Server!Accepted, Server!Go, Server!IsServerStarted
<1>16. CASE Server!OnAccept
  BY <1>16 DEF Server!OnAccept, Server!Go
<1>17. CASE Server!Push
  BY <1>17 DEF Server!Push, Server!Go
<1>18. CASE Server!StartSocket
  BY <1>18 DEF Server!StartSocket, Server!Go
<1>19. CASE Server!Limit
  BY <1>19 DEF Server!Limit, Server!Go
<1>20. CASE Server!Count
  BY <1>20 DEF Server!Count, Server!Go
<1>21. CASE Server!Wait
  BY <1>21 DEF Server!Wait, Server!Go
<1>22. CASE Server!StopSelf
  BY <1>22 DEF Server!StopSelf, Server!Go, Server!IsServerStarted
<1>23. CASE Server!StartServer
  BY <1>23 DEF Server!StartServer, Server!Go, Server!IsServerStarted
<1>24. CASE Server!Resolve
  BY <1>24 DEF Server!Resolve, Server!Go, Server!WSACleanup
<1>25. CASE Server!Listen
  BY <1>25 DEF Server!Listen, Server!Go
<1>26. CASE Server!StartThread
  BY <1>26 DEF Server!StartThread, Server!Go
<1>27. CASE Server!StopServer
  BY <1>27 DEF Server!StopServer, Server!Go, Server!IsServerStarted
<1>28. CASE Server!Invalidate
  BY <1>28 DEF Server!Invalidate, Server!Go
<1>29. CASE Server!Join
  BY <1>29 DEF Server!Join
<1>30. CASE Server!ShutdownAllClient
  BY <1>30 DEF Server!ShutdownAllClient, Server!Go
<1>31. CASE Server!SetMaximumConnectionCount
  BY <1>31 DEF Server!SetMaximumConnectionCount
<1>32. CASE UNCHANGED Server!vars
  BY <1>32 DEF Server!vars
<1>. QED
  BY <1>1, <1>2, <1>3, <1>4, <1>5, <1>6, <1>7, <1>8, <1>9, <1>10, <1>11,
     <1>12, <1>13, <1>14, <1>15, <1>16, <1>17, <1>18, <1>19, <1>20, <1>21,
     <1>22, <1>23, <1>24, <1>25, <1>26, <1>27, <1>28, <1>29, <1>30, <1>31,
     <1>32 DEF Server!Next, Server!AcceptorStep, Server!UserStep,
     Server!ShutdownStep, Server!Threads

(* Each action keeps the served connections in the list. *)
LEMMA ListStep == ServerIInv /\ [Server!Next]_(Server!vars) => ListInv'
<1> SUFFICES ASSUME ServerIInv, [Server!Next]_(Server!vars) PROVE ListInv'
  OBVIOUS
<1> USE DEF ServerIInv, Server!Threads, Server!Acceptor, Server!User, Server!TypeOK,
      Server!Places, ListInv, Served,
     Server!serverVars, Server!connVars, Server!listVars
<1>1. ASSUME NEW c \in Clients, Server!Connect(c) PROVE ListInv'
  BY <1>1 DEF Server!Connect
<1>2. ASSUME NEW c \in Clients, Server!SocketClose(c) PROVE ListInv'
  BY <1>2 DEF Server!SocketClose
<1>3. ASSUME NEW c \in Clients, Server!SocketLeave(c) PROVE ListInv'
  BY <1>3 DEF Server!SocketLeave, Server!LeaveList
<1>4. ASSUME NEW c \in Clients, Server!SocketEnd(c) PROVE ListInv'
  BY <1>4 DEF Server!SocketEnd
<1>5. ASSUME NEW t \in Server!Threads, NEW c \in Clients, Server!KillTell(t, c) PROVE ListInv'
  BY <1>5 DEF Server!KillTell, Server!CanKill
<1>6. ASSUME NEW t \in Server!Threads, NEW c \in Clients, Server!KillThread(t, c) PROVE ListInv'
  BY <1>6 DEF Server!KillThread
<1>7. ASSUME NEW t \in Server!Threads, NEW c \in Clients, Server!KillClose(t, c) PROVE ListInv'
  BY <1>7 DEF Server!KillClose, Server!CanKill
<1>8. ASSUME NEW t \in Server!Threads, NEW c \in Clients, Server!KillNothing(t, c) PROVE ListInv'
  BY <1>8 DEF Server!KillNothing, Server!CanKill
<1>9. ASSUME NEW t \in Server!Threads, NEW c \in Clients, Server!KillDone(t, c) PROVE ListInv'
  BY <1>9 DEF Server!KillDone
<1>10. ASSUME NEW t \in Server!Threads, Server!Clear(t) PROVE ListInv'
  BY <1>10 DEF Server!Clear, Server!Go
<1>11. ASSUME NEW t \in Server!Threads, Server!CloseListen(t) PROVE ListInv'
  BY <1>11 DEF Server!CloseListen, Server!Go
<1>12. ASSUME NEW t \in Server!Threads, Server!FreeResult(t) PROVE ListInv'
  BY <1>12 DEF Server!FreeResult, Server!Go
<1>13. ASSUME NEW t \in Server!Threads, Server!CleanUp(t) PROVE ListInv'
  BY <1>13 DEF Server!CleanUp, Server!Go, Server!WSACleanup
<1>14. CASE Server!Accept
  BY <1>14 DEF Server!Accept, Server!Go
<1>15. CASE Server!Accepted
  BY <1>15 DEF Server!Accepted, Server!Go, Server!IsServerStarted
<1>16. CASE Server!OnAccept
  BY <1>16 DEF Server!OnAccept, Server!Go
<1>17. CASE Server!Push
  <2>1. ~options.shutdowns =>
          /\ pc[Server!User] \notin {"resolve", "listen", "thread", "kill", "close", "free",
                            "cleanup", "crashed"}
          /\ listen # "invalid" \/ pc[Server!User] = "join"
    BY <1>17 DEF Server!Push
  <2>2. /\ cur \in Clients /\ Served' \subseteq Served \cup {cur}
        /\ ~options.sync => stage'[cur] = "new" /\ Served' \subseteq Served
    BY <1>17 DEF Server!Push, HandInv
  <2>3. pc' = [pc EXCEPT ![Server!Acceptor] = "start"] /\ listed' = listed \cup {cur}
    BY <1>17 DEF Server!Push, Server!Go
  <2>. QED
    BY <1>17, <2>1, <2>2, <2>3 DEF Server!Push
<1>18. CASE Server!StartSocket
  BY <1>18 DEF Server!StartSocket, Server!Go
<1>19. CASE Server!Limit
  BY <1>19 DEF Server!Limit, Server!Go
<1>20. CASE Server!Count
  BY <1>20 DEF Server!Count, Server!Go
<1>21. CASE Server!Wait
  BY <1>21 DEF Server!Wait, Server!Go
<1>22. CASE Server!StopSelf
  BY <1>22 DEF Server!StopSelf, Server!Go, Server!IsServerStarted
<1>23. CASE Server!StartServer
  BY <1>23 DEF Server!StartServer, Server!Go, Server!IsServerStarted
<1>24. CASE Server!Resolve
  BY <1>24 DEF Server!Resolve, Server!Go, Server!WSACleanup
<1>25. CASE Server!Listen
  BY <1>25 DEF Server!Listen, Server!Go
<1>26. CASE Server!StartThread
  BY <1>26 DEF Server!StartThread, Server!Go
<1>27. CASE Server!StopServer
  BY <1>27 DEF Server!StopServer, Server!Go, Server!IsServerStarted
<1>28. CASE Server!Invalidate
  BY <1>28 DEF Server!Invalidate, Server!Go
<1>29. CASE Server!Join
  BY <1>29 DEF Server!Join, HandInv
<1>30. CASE Server!ShutdownAllClient
  BY <1>30 DEF Server!ShutdownAllClient, Server!Go
<1>31. CASE Server!SetMaximumConnectionCount
  BY <1>31 DEF Server!SetMaximumConnectionCount
<1>32. CASE UNCHANGED Server!vars
  BY <1>32 DEF Server!vars
<1>. QED
  BY <1>1, <1>2, <1>3, <1>4, <1>5, <1>6, <1>7, <1>8, <1>9, <1>10, <1>11,
     <1>12, <1>13, <1>14, <1>15, <1>16, <1>17, <1>18, <1>19, <1>20, <1>21,
     <1>22, <1>23, <1>24, <1>25, <1>26, <1>27, <1>28, <1>29, <1>30, <1>31,
     <1>32 DEF Server!Next, Server!AcceptorStep, Server!UserStep,
     Server!ShutdownStep, Server!Threads

(* Each action keeps the list within the limit. *)
LEMMA LimitStep == ServerIInv /\ [Server!Next]_(Server!vars) => LimitInv'
<1> SUFFICES ASSUME ServerIInv, [Server!Next]_(Server!vars) PROVE LimitInv'
  OBVIOUS
<1> USE DEF ServerIInv, Server!Threads, Server!Acceptor, Server!User, Server!TypeOK,
      Server!Places, LimitInv,
     Server!serverVars, Server!connVars, Server!listVars
<1>1. ASSUME NEW c \in Clients, Server!Connect(c) PROVE LimitInv'
  BY <1>1 DEF Server!Connect
<1>2. ASSUME NEW c \in Clients, Server!SocketClose(c) PROVE LimitInv'
  BY <1>2 DEF Server!SocketClose
<1>3. ASSUME NEW c \in Clients, Server!SocketLeave(c) PROVE LimitInv'
  BY <1>3, ListShrinks, NatFacts DEF Server!SocketLeave, Server!LeaveList
<1>4. ASSUME NEW c \in Clients, Server!SocketEnd(c) PROVE LimitInv'
  BY <1>4 DEF Server!SocketEnd
<1>5. ASSUME NEW t \in Server!Threads, NEW c \in Clients, Server!KillTell(t, c) PROVE LimitInv'
  BY <1>5 DEF Server!KillTell, Server!CanKill
<1>6. ASSUME NEW t \in Server!Threads, NEW c \in Clients, Server!KillThread(t, c) PROVE LimitInv'
  BY <1>6 DEF Server!KillThread
<1>7. ASSUME NEW t \in Server!Threads, NEW c \in Clients, Server!KillClose(t, c) PROVE LimitInv'
  BY <1>7 DEF Server!KillClose, Server!CanKill
<1>8. ASSUME NEW t \in Server!Threads, NEW c \in Clients, Server!KillNothing(t, c) PROVE LimitInv'
  BY <1>8 DEF Server!KillNothing, Server!CanKill
<1>9. ASSUME NEW t \in Server!Threads, NEW c \in Clients, Server!KillDone(t, c) PROVE LimitInv'
  BY <1>9 DEF Server!KillDone
<1>10. ASSUME NEW t \in Server!Threads, Server!Clear(t) PROVE LimitInv'
  <2>1. listed' = {} /\ pc'[Server!Acceptor] \in {pc[Server!Acceptor], "close"}
    BY <1>10 DEF Server!Clear, Server!Go
  <2>2. IsFiniteSet(listed') /\ Cardinality(listed') = 0
    BY <2>1, FS_EmptySet
  <2>. QED
    BY <1>10, <2>1, <2>2, NatFacts DEF Server!Clear
<1>11. ASSUME NEW t \in Server!Threads, Server!CloseListen(t) PROVE LimitInv'
  BY <1>11 DEF Server!CloseListen, Server!Go
<1>12. ASSUME NEW t \in Server!Threads, Server!FreeResult(t) PROVE LimitInv'
  BY <1>12 DEF Server!FreeResult, Server!Go
<1>13. ASSUME NEW t \in Server!Threads, Server!CleanUp(t) PROVE LimitInv'
  BY <1>13 DEF Server!CleanUp, Server!Go, Server!WSACleanup
<1>14. CASE Server!Accept
  BY <1>14 DEF Server!Accept, Server!Go
<1>15. CASE Server!Accepted
  BY <1>15 DEF Server!Accepted, Server!Go, Server!IsServerStarted
<1>16. CASE Server!OnAccept
  BY <1>16 DEF Server!OnAccept, Server!Go
<1>17. CASE Server!Push
  <2>1. listed' = listed \cup {cur} /\ pc'[Server!Acceptor] = "start"
    BY <1>17 DEF Server!Push, Server!Go
  <2>2. /\ IsFiniteSet(listed \cup {cur})
        /\ Cardinality(listed \cup {cur}) \in
             {Cardinality(listed), Cardinality(listed) + 1}
    BY FS_AddElement DEF LimitInv
  <2>. QED
    BY <1>17, <2>1, <2>2, NatFacts DEF Server!Push
<1>18. CASE Server!StartSocket
  BY <1>18 DEF Server!StartSocket, Server!Go
<1>19. CASE Server!Limit
  BY <1>19 DEF Server!Limit, Server!Go
<1>20. CASE Server!Count
  BY <1>20, NatFacts, SameCardinality DEF Server!Count, Server!Go
<1>21. CASE Server!Wait
  BY <1>21 DEF Server!Wait, Server!Go
<1>22. CASE Server!StopSelf
  BY <1>22 DEF Server!StopSelf, Server!Go, Server!IsServerStarted
<1>23. CASE Server!StartServer
  BY <1>23 DEF Server!StartServer, Server!Go, Server!IsServerStarted
<1>24. CASE Server!Resolve
  BY <1>24 DEF Server!Resolve, Server!Go, Server!WSACleanup
<1>25. CASE Server!Listen
  BY <1>25 DEF Server!Listen, Server!Go
<1>26. CASE Server!StartThread
  <2>1. ~options.shutdowns => listed = {}
    BY <1>26 DEF Server!StartThread, ListInv
  <2>. QED
    BY <1>26, <2>1, NatFacts, FS_EmptySet DEF Server!StartThread, Server!Go
<1>27. CASE Server!StopServer
  BY <1>27 DEF Server!StopServer, Server!Go, Server!IsServerStarted
<1>28. CASE Server!Invalidate
  BY <1>28 DEF Server!Invalidate, Server!Go
<1>29. CASE Server!Join
  BY <1>29 DEF Server!Join
<1>30. CASE Server!ShutdownAllClient
  BY <1>30 DEF Server!ShutdownAllClient, Server!Go
<1>31. CASE Server!SetMaximumConnectionCount
  BY <1>31 DEF Server!SetMaximumConnectionCount
<1>32. CASE UNCHANGED Server!vars
  BY <1>32 DEF Server!vars
<1>. QED
  BY <1>1, <1>2, <1>3, <1>4, <1>5, <1>6, <1>7, <1>8, <1>9, <1>10, <1>11,
     <1>12, <1>13, <1>14, <1>15, <1>16, <1>17, <1>18, <1>19, <1>20, <1>21,
     <1>22, <1>23, <1>24, <1>25, <1>26, <1>27, <1>28, <1>29, <1>30, <1>31,
     <1>32 DEF Server!Next, Server!AcceptorStep, Server!UserStep,
     Server!ShutdownStep, Server!Threads

-----------------------------------------------------------------------------
(* The initial states satisfy it. *)
LEMMA InitServer == Server!Init => ServerIInv
<1> SUFFICES ASSUME Server!Init PROVE ServerIInv
  OBVIOUS
<1>1. Server!TypeOK
  <2>1. winsock \in 0..(MaxStarts + 1) /\ starts \in 0..MaxStarts
    BY TcpServerAssumption DEF Server!Init
  <2>2. pc \in [Server!Threads -> Server!Places] /\ targets \in [Server!Threads -> SUBSET Clients]
    BY DEF Server!Init, Server!Places
  <2>. QED
    BY <2>1, <2>2 DEF Server!Init, Server!TypeOK
<1>2. HandInv /\ ServerPhaseInv
  BY <1>1, TcpServerAssumption
  DEF Server!Init, HandInv, ServerPhaseInv, Ending, Server!TypeOK, Server!Threads,
      Server!Acceptor, Server!User
<1>3. ListInv
  BY DEF Server!Init, ListInv, Served, Server!Threads, Server!Acceptor, Server!User
<1>4. LimitInv
  BY FS_EmptySet, TcpServerAssumption DEF Server!Init, LimitInv
<1>. QED
  BY <1>1, <1>2, <1>3, <1>4 DEF ServerIInv

(* Every reachable state satisfies the inductive invariant. *)
THEOREM ServerInvariance == Server!Spec => []ServerIInv
<1>1. ServerIInv /\ [Server!Next]_(Server!vars) => ServerIInv'
  BY ServerTypeStep, HandStep, ServerPhaseStep, ListStep, LimitStep DEF ServerIInv
<1>. QED
  BY InitServer, <1>1, PTL DEF Server!Spec

(* The variables of the accept thread, the application's call and the      *)
(* connections have their types; Winsock's count stays within the number   *)
(* of starts.                                                              *)
THEOREM ServerTypeCorrect == Server!Spec => []Server!TypeOK
<1>1. ServerIInv => Server!TypeOK
  BY DEF ServerIInv
<1>. QED
  BY ServerInvariance, <1>1, PTL

(* StartServer (BaseTcpServer) uses the address it has resolved: no accept *)
(* thread of an earlier start, unless accept failed by itself, frees       *)
(* m_result between getaddrinfo and listen.                                *)
THEOREM RestartSafe == Server!Spec => []StartHasAddress
<1>1. ServerIInv => Server!StartHasAddress
  BY DEF ServerIInv, ServerPhaseInv, Server!StartHasAddress
<1>. QED
  BY ServerInvariance, <1>1, SameServerPromises, PTL

(* A server that has stopped, by StopServer or because accept failed, has  *)
(* no connection left with an open descriptor that is used, if             *)
(* ShutdownAllClient never runs beside the accept thread.  OnDisconnect    *)
(* may still run.                                                          *)
THEOREM StopKillsAll == Server!Spec => []StoppedServesNobody
<1>1. ServerIInv => Server!StoppedServesNobody
  <2> SUFFICES ASSUME ServerIInv, ~options.shutdowns, ~Server!IsServerStarted,
                      \A t \in Server!Threads : pc[t] = "idle"
               PROVE  Server!Served = {}
    BY DEF Server!StoppedServesNobody
  <2>1. listed = {}
    BY DEF ServerIInv, ListInv, Server!IsServerStarted, Server!Threads, Server!User
  <2>2. Served \subseteq listed
    BY DEF ServerIInv, ListInv
  <2>. QED
    BY <2>1, <2>2 DEF Served, Server!Served
<1>. QED
  BY ServerInvariance, <1>1, SameServerPromises, PTL

(* The accept loop (execute) has no more connections with an open          *)
(* descriptor at a time than the limit, whatever steps the others are at   *)
(* between closing theirs and the end of OnDisconnect, if the limit does   *)
(* not move and ShutdownAllClient never runs.                              *)
THEOREM LimitHolds == Server!Spec => []ServedWithinLimit
<1>1. ServerIInv => Server!ServedWithinLimit
  <2> SUFFICES ASSUME ServerIInv, ~options.setLimit, ~options.shutdowns, limit > 0
               PROVE  Cardinality(Served) <= limit
    BY SameCardinality DEF Server!ServedWithinLimit, Server!Served, Served
  <2>1. Served \subseteq listed
    BY DEF ServerIInv, ListInv
  <2>2. IsFiniteSet(listed) /\ Cardinality(listed) <= limit
    BY DEF ServerIInv, LimitInv
  <2>3. /\ Cardinality(Served) \in Nat
        /\ Cardinality(Served) <= Cardinality(listed)
    BY <2>1, <2>2, FS_Subset, FS_CardinalityType
  <2>. QED
    BY <2>2, <2>3, NatFacts
<1>. QED
  BY ServerInvariance, <1>1, SameServerPromises, PTL

(* With any peers, either kind of socket and any limit that does not move, *)
(* no more descriptors are used than the limit, and none by a server that  *)
(* is stopped.                                                             *)
THEOREM ServerServesAsAllowed == Server!Spec => []ServesAsAllowed
<1>1. ServedWithinLimit /\ StoppedServesNobody => ServesAsAllowed
  BY DEF ServesAsAllowed
<1>. QED
  BY <1>1, LimitHolds, StopKillsAll, PTL
=============================================================================
