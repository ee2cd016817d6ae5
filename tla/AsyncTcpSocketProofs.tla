------------------------ MODULE AsyncTcpSocketProofs ------------------------
(***************************************************************************)
(* Proofs about AsyncTcpSocket, for any number of packets, any callers of  *)
(* KillConnection and any settings of the connection: the reference count  *)
(* is exact and protects the processors, no more callbacks run at a time   *)
(* than allowed, and the end is told and the descriptor closed once        *)
(* (SocketIsSound); the callbacks of an ordered connection come in the     *)
(* promised order (KeepsCallbackOrder).                                    *)
(***************************************************************************)
EXTENDS AsyncTcpSocket, FiniteSetTheorems, TLAPS

(* Where the thread does what: it may still make processors, it has closed *)
(* the descriptor; KillConnection is past TerminateAfter.                  *)
Early == {"unstarted", "new", "recv", "callback"}
Serving == Early \cup {"limit"}
Closed == {"clear", "lock", "remove", "notify"}
Late == {"close", "clear", "lock", "remove", "notify"}

(* The actors that drop references and so may run the destructor. *)
Releasers == {Acceptor, Remover, ProcRemover}

Graceful == options.forever /\ options.graceful
Running == {p \in Packets : pth[p] \in {"started", "incall"}}
Holding == {p \in Packets : proc[p] \in {"listed", "retired"}}
Told == {i \in DOMAIN calls : calls[i] = Callbacks!OnDisconnect}

(* Nobody makes processors any more. *)
Quiet == ThreadGone \/ sock = "invalid"

(* The accept loop starts the thread, KillConnection waits for its end and *)
(* goes on after it.                                                       *)
ControlInv ==
  /\ \A a \in Actors : kpc[a] \in {"start", "release"} => a = Acceptor
  /\ kpc[Acceptor] = "start" <=> tpc = "unstarted"
  /\ \A a \in Actors : kpc[a] = "join" => tpc # "unstarted"
  /\ \A a \in Actors : kpc[a] \in Late => ThreadGone
  /\ Graceful => tpc # "killed" /\ \A a \in Actors : kpc[a] \notin Late

(* The descriptor agrees with the place of the thread. *)
DescriptorInv ==
  /\ tpc \in Serving \cup {"ending"} => sock \in {"open", "shut"}
  /\ tpc = "closing" => sock = "closing"
  /\ tpc \in Closed => sock = "invalid"
  /\ sock \in {"open", "shut"} => closes = 0
  /\ sock = "closing" => closes = 1
  /\ Graceful => closes <= 1

(* The destructor runs when nobody else can ask for it: the other          *)
(* references are gone, and the thread makes no new ones once the          *)
(* destructor's own KillConnection is over.                                *)
LifeInv ==
  /\ destroyer \in Releasers \cup {Free}
  /\ life = "alive" <=> destroyer = Free
  /\ life # "alive" => container = "gone" /\ kpc[Acceptor] \notin {"start", "release"}
  /\ life = "dying" => kpc[destroyer] # "idle"
  /\ \A a \in Releasers :
       kpc[a] \notin {"idle", "start", "release"} => destroyer = a /\ life = "dying"
  /\ \A a \in Actors : kpc[a] = "free" => destroyer = a
  /\ life = "dead" => \A p \in Packets : proc[p] \in {"none", "destroyed"}
  /\ life = "dead" \/ (life = "dying" /\ kpc[destroyer] \in {"leave", "free"}) => Quiet

(* A processor has a thread; one that is destroyed has none any more. *)
ProcInv ==
  \A p \in Packets :
    /\ p > rcvd => proc[p] = "none"
    /\ proc[p] = "none" <=> pth[p] = "none"
    /\ proc[p] = "destroyed" => pth[p] = "ended"
    /\ ~options.async => proc[p] = "none"

(* While the thread can make processors the running ones are in the list   *)
(* that it counts.                                                         *)
LimitInv ==
  options.max > 0 =>
    /\ Cardinality(Running) <= options.max
    /\ tpc \in Serving => Running \subseteq Listed
    /\ tpc \in Early => Cardinality(Listed) < options.max
    /\ tpc = "limit" => Cardinality(Listed) <= options.max

(* The end is told by nobody but the thread, with its last step. *)
ToldInv ==
  Graceful =>
    /\ ~ThreadGone => Told = {}
    /\ Cardinality(Told) <= 1

(* What an ordered connection has told the application. *)
OrderInv ==
  Ordered =>
    /\ tpc \in {"unstarted", "new"} => calls = <<>> /\ rcvd = 0
    /\ ~ThreadGone /\ tpc \notin {"unstarted", "new"} =>
         Len(calls) = rcvd + 1 /\ calls[Len(calls)] # Callbacks!OnDisconnect

(* RefCountExact, part by part. *)
Holders ==
  (IF life = "dying" THEN 1 ELSE 0)
  + (IF kpc[Acceptor] \in {"start", "release"} THEN 1 ELSE 0)
  + (IF container \in {"listed", "retired"} THEN 1 ELSE 0)

CountInv == refCount = Holders + Cardinality(Holding)

IInv ==
  /\ TypeOK /\ ControlInv /\ DescriptorInv /\ LifeInv /\ ProcInv /\ LimitInv
  /\ ToldInv /\ OrderInv /\ CountInv

-----------------------------------------------------------------------------
(* The actors are different.                                               *)
LEMMA Distinct ==
  /\ Thread # Acceptor /\ Thread # Remover /\ Thread # ProcRemover
  /\ Acceptor # Remover /\ Acceptor # ProcRemover /\ Remover # ProcRemover
  /\ Free \notin Actors /\ Free \notin Releasers
  /\ Thread \notin Killers /\ Thread \notin Releasers /\ Killers \cap Releasers = {}
  /\ {Thread, Acceptor, Remover, ProcRemover} \subseteq Actors /\ Releasers \subseteq Actors
  /\ MaxPackets \in Nat
<1> DEFINE S1 == {Free}
           S2 == S1 \cup {Thread}
           S3 == S2 \cup {Acceptor}
           S4 == S3 \cup {Remover}
           S5 == S4 \cup {ProcRemover}
<1>1. IsFiniteSet(S1) /\ Cardinality(S1) = 1
  BY FS_Singleton
<1> HIDE DEF S1
<1>2. IsFiniteSet(S2) /\ Cardinality(S2) = IF Thread \in S1 THEN 1 ELSE 2
  BY <1>1, FS_AddElement
<1> HIDE DEF S2
<1>3. IsFiniteSet(S3) /\ Cardinality(S3) = IF Acceptor \in S2 THEN Cardinality(S2)
                                             ELSE Cardinality(S2) + 1
  BY <1>2, FS_AddElement
<1> HIDE DEF S3
<1>4. IsFiniteSet(S4) /\ Cardinality(S4) = IF Remover \in S3 THEN Cardinality(S3)
                                             ELSE Cardinality(S3) + 1
  BY <1>3, FS_AddElement
<1> HIDE DEF S4
<1>5. Cardinality(S5) = IF ProcRemover \in S4 THEN Cardinality(S4) ELSE Cardinality(S4) + 1
  BY <1>4, FS_AddElement
<1>6. S5 = {Free, Thread, Acceptor, Remover, ProcRemover}
  BY DEF S1, S2, S3, S4
<1> HIDE DEF S5
<1>7. Cardinality(S5) = 5
  BY <1>6, SocketAssumption
<1>8. Thread \notin S1 /\ Acceptor \notin S2 /\ Remover \notin S3 /\ ProcRemover \notin S4
  BY <1>2, <1>3, <1>4, <1>5, <1>7
<1>9. Killers \cap {Free, Thread, Acceptor, Remover, ProcRemover} = {} /\ MaxPackets \in Nat
  BY SocketAssumption
<1>10. QED BY <1>8, <1>9 DEF S1, S2, S3, S4, Actors, Releasers

(* Sets of packets are finite.                                             *)
LEMMA PacketSets ==
  ASSUME NEW S, S \subseteq Packets
  PROVE  /\ IsFiniteSet(S) /\ Cardinality(S) \in 0..MaxPackets
         /\ Cardinality(S) = 0 <=> S = {}
<1>1. IsFiniteSet(Packets) /\ Cardinality(Packets) = MaxPackets
  <2>1. IsFiniteSet(1..MaxPackets) /\
        Cardinality(1..MaxPackets) = IF 1 > MaxPackets THEN 0 ELSE MaxPackets - 1 + 1
    BY Distinct, FS_Interval
  <2>2. QED BY <2>1, Distinct DEF Packets
<1>2. IsFiniteSet(S) /\ Cardinality(S) <= MaxPackets
  BY <1>1, FS_Subset
<1>3. Cardinality(S) \in Nat
  BY <1>2, FS_CardinalityType
<1>4. Cardinality(S) = 0 <=> S = {}
  BY <1>2, FS_EmptySet
<1>5. QED BY <1>2, <1>3, <1>4, Distinct

LEMMA OneMore ==
  ASSUME NEW S, S \subseteq Packets, NEW p \in Packets, p \notin S
  PROVE  Cardinality(S \cup {p}) = Cardinality(S) + 1
BY PacketSets, FS_AddElement

LEMMA OneLess ==
  ASSUME NEW S, S \subseteq Packets, NEW p \in S
  PROVE  Cardinality(S \ {p}) = Cardinality(S) - 1
BY PacketSets, FS_RemoveElement

LEMMA NoMore ==
  ASSUME NEW S, S \subseteq Packets, NEW T, T \subseteq S
  PROVE  Cardinality(T) <= Cardinality(S)
BY PacketSets, FS_Subset

(* The types that are used most. *)
Types ==
  /\ options.max \in Nat /\ rcvd \in 0..sent /\ sent \in 0..MaxPackets
  /\ kpc \in [Actors -> {"idle", "enter", "join", "close", "clear", "lock", "remove",
                         "notify", "leave", "free", "start", "release"}]
  /\ proc \in [Packets -> {"none", "listed", "retired", "destroyed"}]
  /\ pth \in [Packets -> {"none", "started", "incall", "ended"}]
  /\ life \in {"alive", "dying", "dead"}
  /\ container \in {"listed", "retired", "gone"}
  /\ sock \in {"open", "shut", "closing", "invalid"}
  /\ tpc \in {"unstarted", "new", "recv", "callback", "limit", "ending", "closing",
              "clear", "lock", "remove", "notify", "ended", "killed", "crashed"}
  /\ refCount \in Nat /\ closes \in Nat

LEMMA IInvTypes == IInv => Types
BY SocketAssumption DEF IInv, TypeOK, Types

LEMMA HoldingSet ==
  Holding \subseteq Packets /\ Running \subseteq Packets /\ Listed \subseteq Packets
BY DEF Holding, Running, Listed

LEMMA HoldingCount ==
  Cardinality(Holding) \in Nat /\ (Holding = {} <=> Cardinality(Holding) = 0)
BY HoldingSet, PacketSets, Distinct

LEMMA CountIsExact == RefCountExact <=> CountInv
BY DEF RefCountExact, CountInv, Holders, Holding

(* What dropping a reference does: with the last one nobody else has any.  *)
LEMMA ReleaseEffect ==
  ASSUME NEW a \in Releasers, IInv, ReleaseRef(a),
         \/ a = Acceptor /\ kpc[Acceptor] = "release"
         \/ a = Remover /\ container = "retired" /\ kpc[Remover] = "idle"
         \/ a = ProcRemover /\ kpc[ProcRemover] = "idle" /\ Holding # {}
  PROVE  \/ /\ refCount = 1 /\ refCount' = 1
            /\ life = "alive" /\ life' = "dying" /\ destroyer' = a
            /\ kpc' = [kpc EXCEPT ![a] = "enter"]
            /\ a # Acceptor => kpc[Acceptor] \notin {"start", "release"}
            /\ a # Remover => container = "gone"
            /\ IF a = ProcRemover THEN Cardinality(Holding) = 1 ELSE Holding = {}
         \/ /\ refCount >= 2 /\ refCount' = refCount - 1
            /\ kpc' = [kpc EXCEPT ![a] = "idle"]
            /\ UNCHANGED <<life, destroyer>>
<1> DEFINE n == Cardinality(Holding)
<1>1. n \in Nat /\ (n = 0 <=> Holding = {})
  BY HoldingSet, PacketSets, Distinct
<1> HIDE DEF n
<1>2. refCount = (IF life = "dying" THEN 1 ELSE 0)
                 + (IF kpc[Acceptor] \in {"start", "release"} THEN 1 ELSE 0)
                 + (IF container \in {"listed", "retired"} THEN 1 ELSE 0) + n
  BY DEF IInv, CountInv, Holders, n
<1>3. life = "dead" => container = "gone" /\ kpc[Acceptor] \notin {"start", "release"}
                       /\ Holding = {}
  BY DEF IInv, LifeInv, Holding
<1>4. Types
  BY IInvTypes
<1>5. CASE refCount = 1
  <2>1. /\ life' = "dying" /\ destroyer' = a /\ kpc' = [kpc EXCEPT ![a] = "enter"]
        /\ refCount' = refCount
    BY <1>5 DEF ReleaseRef
  <2>2. life = "alive"
    BY <1>1, <1>2, <1>3, <1>4, <1>5 DEF Types
  <2>3. a # Acceptor => kpc[Acceptor] \notin {"start", "release"}
    BY <1>1, <1>2, <1>5
  <2>4. a # Remover => container = "gone"
    BY <1>1, <1>2, <1>4, <1>5 DEF Types
  <2>5. IF a = ProcRemover THEN n = 1 ELSE Holding = {}
    BY <1>1, <1>2, <1>5, Distinct
  <2>6. QED BY <1>5, <2>1, <2>2, <2>3, <2>4, <2>5 DEF n
<1>6. CASE refCount # 1
  <2>1. refCount >= 2
    BY <1>1, <1>2, <1>6
  <2>2. QED BY <1>6, <2>1 DEF ReleaseRef
<1>7. QED BY <1>5, <1>6

(* A step that takes processors away keeps the limit. *)
LEMMA LimitShrinks ==
  ASSUME IInv, Running' \subseteq Running, Listed' \subseteq Listed, options' = options,
         tpc' \in Early => tpc \in Early, tpc' = "limit" => tpc = "limit",
         tpc' \in Serving => Running' \subseteq Listed'
  PROVE  LimitInv'
<1>1. /\ Cardinality(Running') <= Cardinality(Running)
      /\ Cardinality(Listed') <= Cardinality(Listed)
  BY HoldingSet, NoMore
<1>2. /\ Cardinality(Running) \in Nat /\ Cardinality(Listed) \in Nat
      /\ Cardinality(Running') \in Nat /\ Cardinality(Listed') \in Nat
  <2>1. Running' \subseteq Packets /\ Listed' \subseteq Packets
    BY HoldingSet
  <2>2. QED BY <2>1, HoldingSet, PacketSets, Distinct
<1>3. options.max \in Nat
  BY IInvTypes DEF Types
<1>4. QED BY <1>1, <1>2, <1>3 DEF IInv, LimitInv

(* What is told is recorded at the end of the history. *)
LEMMA ToldGrows ==
  ASSUME IInv, NEW c \in {"new", "received", "disconnect"} \X Nat, calls' = Append(calls, c)
  PROVE  IF c = Callbacks!OnDisconnect THEN Told' = Told \cup {Len(calls) + 1}
         ELSE Told' = Told
<1>1. calls \in Seq({"new", "received", "disconnect"} \X Nat)
  BY DEF IInv, TypeOK
<1>2. /\ DOMAIN calls' = DOMAIN calls \cup {Len(calls) + 1}
      /\ Len(calls) + 1 \notin DOMAIN calls
      /\ \A i \in DOMAIN calls : calls'[i] = calls[i]
      /\ calls'[Len(calls) + 1] = c
  BY <1>1
<1>3. QED BY <1>2 DEF Told, Callbacks!OnDisconnect

(* A step that changes no holder keeps the count. *)
LEMMA SameHolders ==
  ASSUME IInv, UNCHANGED <<refCount, life>>, Holding' = Holding,
         kpc'[Acceptor] \in {"start", "release"} <=> kpc[Acceptor] \in {"start", "release"},
         container' \in {"listed", "retired"} <=> container \in {"listed", "retired"}
  PROVE  CountInv'
BY DEF IInv, CountInv, Holders


(* Who waits for whom, and where, stays as ControlInv says. *)
LEMMA ControlInvKept == IInv /\ [Next]_vars => ControlInv'
<1> SUFFICES ASSUME IInv, [Next]_vars PROVE ControlInv'
  OBVIOUS
<1> USE DEF netVars, sockVars, objectVars, listVars, procVars, IInv, Types,
           ControlInv, Early, Serving, Closed, Late, Releasers, Graceful, Quiet,
           ThreadGone
<1>1. CASE UNCHANGED <<options, kpc, tpc>>
  BY <1>1, Distinct, IInvTypes
<1>2. CASE \/ ServerClear \/ PeerSend \/ PeerClose
         \/ (\E p \in Packets : ProcReceive(p))
         \/ (\E p \in Packets : ProcReturn(p))
         \/ (\E a \in Actors, p \in Packets : DrainProcessor(a, p))
         \/ UNCHANGED vars
  <2>1. UNCHANGED <<options, kpc, tpc>>
    BY <1>2 DEF ServerClear, PeerSend, PeerClose, ProcReceive, ProcReturn,
       DrainProcessor, vars
  <2>2. QED BY <1>1, <2>1
<1>3. CASE ThreadNew
  BY <1>3, Distinct, IInvTypes DEF ThreadNew
<1>4. CASE ThreadReceive
  BY <1>4, Distinct, IInvTypes DEF ThreadReceive
<1>5. CASE ThreadReturn
  BY <1>5, Distinct, IInvTypes DEF ThreadReturn
<1>6. CASE ThreadSpawn
  BY <1>6, Distinct, IInvTypes DEF ThreadSpawn
<1>7. CASE ThreadLimit
  BY <1>7, Distinct, IInvTypes DEF ThreadLimit
<1>8. CASE ThreadEnd
  BY <1>8, Distinct, IInvTypes DEF ThreadEnd
<1>9. CASE ThreadClose
  BY <1>9, Distinct, IInvTypes DEF ThreadClose
<1>10. CASE ThreadInvalidate
  BY <1>10, Distinct, IInvTypes DEF ThreadInvalidate
<1>11. CASE ThreadClear
  BY <1>11, Distinct, IInvTypes DEF ThreadClear
<1>12. CASE ThreadLockContainer
  BY <1>12, Distinct, IInvTypes DEF ThreadLockContainer
<1>13. CASE ThreadRemove
  BY <1>13, Distinct, IInvTypes DEF ThreadRemove
<1>14. CASE ThreadNotify
  BY <1>14, Distinct, IInvTypes DEF ThreadNotify
<1>15. CASE ThreadCrash
  BY <1>15, Distinct, IInvTypes DEF ThreadCrash, LifeInv
<1>16. CASE AcceptorStart
  BY <1>16, Distinct, IInvTypes DEF AcceptorStart
<1>17. CASE AcceptorRelease
  <2>1. /\ kpc[Acceptor] = "release"
        /\ ReleaseRef(Acceptor)
        /\ UNCHANGED <<netVars, sockVars, listVars, procVars, tpc, calls>>
    BY <1>17 DEF AcceptorRelease
  <2>2. QED BY <2>1, ReleaseEffect, Distinct, IInvTypes
<1>18. CASE RemoverRelease
  <2>1. /\ container = "retired" /\ kpc[Remover] = "idle" /\ container' = "gone"
        /\ ReleaseRef(Remover) /\ UNCHANGED <<netVars, sockVars, procVars, tpc, calls>>
    BY <1>18 DEF RemoverRelease
  <2>2. QED BY <2>1, ReleaseEffect, Distinct, IInvTypes
<1>19. ASSUME NEW p \in Packets, ProcDestroy(p) PROVE ControlInv'
  <2>1. /\ kpc[ProcRemover] = "idle" /\ proc[p] = "retired" /\ ReleaseRef(ProcRemover)
        /\ proc' = [proc EXCEPT ![p] = "destroyed"]
        /\ UNCHANGED <<netVars, sockVars, listVars, tpc, calls>>
    BY <1>19 DEF ProcDestroy
  <2>2. Holding # {}
    BY <2>1 DEF Holding
  <2>3. QED BY <2>1, <2>2, ReleaseEffect, Distinct, IInvTypes
<1>20. ASSUME NEW a \in Actors, Kill(a) PROVE ControlInv'
  BY <1>20, Distinct, IInvTypes DEF Kill
<1>21. ASSUME NEW a \in Actors, KillEnter(a) PROVE ControlInv'
  BY <1>21, Distinct, IInvTypes DEF KillEnter
<1>22. ASSUME NEW a \in Actors, KillJoin(a) PROVE ControlInv'
  BY <1>22, Distinct, IInvTypes DEF KillJoin
<1>23. ASSUME NEW a \in Actors, KillClose(a) PROVE ControlInv'
  BY <1>23, Distinct, IInvTypes DEF KillClose
<1>24. ASSUME NEW a \in Actors, KillClear(a) PROVE ControlInv'
  BY <1>24, Distinct, IInvTypes DEF KillClear
<1>25. ASSUME NEW a \in Actors, KillLockContainer(a) PROVE ControlInv'
  BY <1>25, Distinct, IInvTypes DEF KillLockContainer
<1>26. ASSUME NEW a \in Actors, KillRemove(a) PROVE ControlInv'
  BY <1>26, Distinct, IInvTypes DEF KillRemove
<1>27. ASSUME NEW a \in Actors, KillNotify(a) PROVE ControlInv'
  BY <1>27, Distinct, IInvTypes DEF KillNotify
<1>28. ASSUME NEW a \in Actors, KillLeave(a) PROVE ControlInv'
  BY <1>28, Distinct, IInvTypes DEF KillLeave
<1>29. ASSUME NEW a \in Actors, Destroy(a) PROVE ControlInv'
  BY <1>29, Distinct, IInvTypes DEF Destroy
<1>30. QED
  BY <1>1, <1>2, <1>3, <1>4, <1>5, <1>6, <1>7, <1>8, <1>9, <1>10, <1>11, <1>12, <1>13,
     <1>14, <1>15, <1>16, <1>17, <1>18, <1>19, <1>20, <1>21, <1>22, <1>23, <1>24,
     <1>25, <1>26, <1>27, <1>28, <1>29 DEF Next, ThreadStep, ProcThread, KillStep

(* The descriptor keeps up with the thread; it is closed once by whoever waits. *)
LEMMA DescriptorInvKept == IInv /\ [Next]_vars => DescriptorInv'
<1> SUFFICES ASSUME IInv, [Next]_vars PROVE DescriptorInv'
  OBVIOUS
<1> USE DEF netVars, sockVars, objectVars, listVars, procVars, IInv, Types,
           DescriptorInv, ControlInv, Early, Serving, Closed, Late, Releasers,
           Graceful, Quiet, ThreadGone
<1>1. CASE UNCHANGED <<options, tpc, sock, closes>>
  BY <1>1, Distinct, IInvTypes
<1>2. CASE \/ ServerClear \/ RemoverRelease \/ AcceptorRelease \/ PeerSend
         \/ PeerClose \/ (\E p \in Packets : ProcReceive(p))
         \/ (\E p \in Packets : ProcReturn(p))
         \/ (\E p \in Packets : ProcDestroy(p)) \/ (\E a \in Actors : Kill(a))
         \/ (\E a \in Actors : KillClear(a))
         \/ (\E a \in Actors : KillLockContainer(a))
         \/ (\E a \in Actors : KillRemove(a))
         \/ (\E a \in Actors : KillNotify(a))
         \/ (\E a \in Actors : KillLeave(a)) \/ (\E a \in Actors : Destroy(a))
         \/ (\E a \in Actors, p \in Packets : DrainProcessor(a, p))
         \/ UNCHANGED vars
  <2>1. UNCHANGED <<options, tpc, sock, closes>>
    BY <1>2 DEF ServerClear, RemoverRelease, AcceptorRelease, PeerSend, PeerClose,
       ProcReceive, ProcReturn, ProcDestroy, Kill, KillClear, KillLockContainer,
       KillRemove, KillNotify, KillLeave, Destroy, DrainProcessor, vars
  <2>2. QED BY <1>1, <2>1
<1>3. CASE AcceptorStart
  BY <1>3, Distinct, IInvTypes DEF AcceptorStart
<1>4. CASE ThreadNew
  BY <1>4, Distinct, IInvTypes DEF ThreadNew
<1>5. CASE ThreadReceive
  BY <1>5, Distinct, IInvTypes DEF ThreadReceive
<1>6. CASE ThreadReturn
  BY <1>6, Distinct, IInvTypes DEF ThreadReturn
<1>7. CASE ThreadSpawn
  BY <1>7, Distinct, IInvTypes DEF ThreadSpawn
<1>8. CASE ThreadLimit
  BY <1>8, Distinct, IInvTypes DEF ThreadLimit
<1>9. CASE ThreadEnd
  BY <1>9, Distinct, IInvTypes DEF ThreadEnd
<1>10. CASE ThreadClose
  BY <1>10, Distinct, IInvTypes DEF ThreadClose
<1>11. CASE ThreadInvalidate
  BY <1>11, Distinct, IInvTypes DEF ThreadInvalidate
<1>12. CASE ThreadClear
  BY <1>12, Distinct, IInvTypes DEF ThreadClear
<1>13. CASE ThreadLockContainer
  BY <1>13, Distinct, IInvTypes DEF ThreadLockContainer
<1>14. CASE ThreadRemove
  BY <1>14, Distinct, IInvTypes DEF ThreadRemove
<1>15. CASE ThreadNotify
  BY <1>15, Distinct, IInvTypes DEF ThreadNotify
<1>16. CASE ThreadCrash
  BY <1>16, Distinct, IInvTypes DEF ThreadCrash
<1>17. ASSUME NEW a \in Actors, KillEnter(a) PROVE DescriptorInv'
  BY <1>17, Distinct, IInvTypes DEF KillEnter
<1>18. ASSUME NEW a \in Actors, KillJoin(a) PROVE DescriptorInv'
  BY <1>18, Distinct, IInvTypes DEF KillJoin
<1>19. ASSUME NEW a \in Actors, KillClose(a) PROVE DescriptorInv'
  BY <1>19, Distinct, IInvTypes DEF KillClose
<1>20. QED
  BY <1>1, <1>2, <1>3, <1>4, <1>5, <1>6, <1>7, <1>8, <1>9, <1>10, <1>11, <1>12, <1>13,
     <1>14, <1>15, <1>16, <1>17, <1>18, <1>19 DEF Next, ThreadStep, ProcThread,
     KillStep

(* The destructor stays alone with the object. *)
LEMMA LifeInvKept == IInv /\ [Next]_vars => LifeInv'
<1> SUFFICES ASSUME IInv, [Next]_vars PROVE LifeInv'
  OBVIOUS
<1> USE DEF netVars, sockVars, objectVars, listVars, procVars, IInv, Types, LifeInv,
           ControlInv, DescriptorInv, ProcInv, Early, Serving, Closed, Late,
           Releasers, Graceful, Quiet, ThreadGone
<1>1. CASE UNCHANGED <<destroyer, life, container, kpc, proc, tpc, sock>>
  BY <1>1, Distinct, IInvTypes
<1>2. CASE \/ PeerSend \/ PeerClose \/ (\E p \in Packets : ProcReceive(p))
         \/ UNCHANGED vars
  <2>1. UNCHANGED <<destroyer, life, container, kpc, proc, tpc, sock>>
    BY <1>2 DEF PeerSend, PeerClose, ProcReceive, vars
  <2>2. QED BY <1>1, <2>1
<1>3. CASE ServerClear
  BY <1>3, Distinct, IInvTypes DEF ServerClear, LeaveContainer, Retired
<1>4. CASE AcceptorStart
  BY <1>4, Distinct, IInvTypes DEF AcceptorStart, LeaveContainer, Retired
<1>5. CASE AcceptorRelease
  <2>1. /\ kpc[Acceptor] = "release"
        /\ ReleaseRef(Acceptor)
        /\ UNCHANGED <<netVars, sockVars, listVars, procVars, tpc, calls>>
    BY <1>5 DEF AcceptorRelease
  <2>2. QED BY <2>1, ReleaseEffect, Distinct, IInvTypes
<1>6. CASE RemoverRelease
  <2>1. /\ container = "retired" /\ kpc[Remover] = "idle" /\ container' = "gone"
        /\ ReleaseRef(Remover) /\ UNCHANGED <<netVars, sockVars, procVars, tpc, calls>>
    BY <1>6 DEF RemoverRelease
  <2>2. QED BY <2>1, ReleaseEffect, Distinct, IInvTypes
<1>7. CASE ThreadNew
  BY <1>7, Distinct, IInvTypes DEF ThreadNew, LeaveContainer, Retired
<1>8. CASE ThreadReceive
  BY <1>8, Distinct, IInvTypes DEF ThreadReceive, LeaveContainer, Retired
<1>9. CASE ThreadReturn
  BY <1>9, Distinct, IInvTypes DEF ThreadReturn, LeaveContainer, Retired
<1>10. CASE ThreadSpawn
  BY <1>10, Distinct, IInvTypes DEF ThreadSpawn, LeaveContainer, Retired
<1>11. CASE ThreadLimit
  BY <1>11, Distinct, IInvTypes DEF ThreadLimit, LeaveContainer, Retired
<1>12. CASE ThreadEnd
  BY <1>12, Distinct, IInvTypes DEF ThreadEnd, LeaveContainer, Retired
<1>13. CASE ThreadClose
  BY <1>13, Distinct, IInvTypes DEF ThreadClose, LeaveContainer, Retired
<1>14. CASE ThreadInvalidate
  BY <1>14, Distinct, IInvTypes DEF ThreadInvalidate, LeaveContainer, Retired
<1>15. CASE ThreadClear
  BY <1>15, Distinct, IInvTypes DEF ThreadClear, LeaveContainer, Retired
<1>16. CASE ThreadLockContainer
  BY <1>16, Distinct, IInvTypes DEF ThreadLockContainer, LeaveContainer, Retired
<1>17. CASE ThreadRemove
  BY <1>17, Distinct, IInvTypes DEF ThreadRemove, LeaveContainer, Retired
<1>18. CASE ThreadNotify
  BY <1>18, Distinct, IInvTypes DEF ThreadNotify, LeaveContainer, Retired
<1>19. CASE ThreadCrash
  BY <1>19, Distinct, IInvTypes DEF ThreadCrash, LeaveContainer, Retired
<1>20. ASSUME NEW p \in Packets, ProcReturn(p) PROVE LifeInv'
  BY <1>20, Distinct, IInvTypes DEF ProcReturn, LeaveContainer, Retired
<1>21. ASSUME NEW p \in Packets, ProcDestroy(p) PROVE LifeInv'
  <2>1. /\ kpc[ProcRemover] = "idle" /\ proc[p] = "retired" /\ ReleaseRef(ProcRemover)
        /\ proc' = [proc EXCEPT ![p] = "destroyed"]
        /\ UNCHANGED <<netVars, sockVars, listVars, tpc, calls>>
    BY <1>21 DEF ProcDestroy
  <2>2. Holding # {}
    BY <2>1 DEF Holding
  <2>3. QED BY <2>1, <2>2, ReleaseEffect, Distinct, IInvTypes
<1>22. ASSUME NEW a \in Actors, Kill(a) PROVE LifeInv'
  BY <1>22, Distinct, IInvTypes DEF Kill, LeaveContainer, Retired
<1>23. ASSUME NEW a \in Actors, KillEnter(a) PROVE LifeInv'
  BY <1>23, Distinct, IInvTypes DEF KillEnter, LeaveContainer, Retired
<1>24. ASSUME NEW a \in Actors, KillJoin(a) PROVE LifeInv'
  BY <1>24, Distinct, IInvTypes DEF KillJoin, LeaveContainer, Retired
<1>25. ASSUME NEW a \in Actors, KillClose(a) PROVE LifeInv'
  BY <1>25, Distinct, IInvTypes DEF KillClose, LeaveContainer, Retired
<1>26. ASSUME NEW a \in Actors, KillClear(a) PROVE LifeInv'
  BY <1>26, Distinct, IInvTypes DEF KillClear, LeaveContainer, Retired
<1>27. ASSUME NEW a \in Actors, KillLockContainer(a) PROVE LifeInv'
  BY <1>27, Distinct, IInvTypes DEF KillLockContainer, LeaveContainer, Retired
<1>28. ASSUME NEW a \in Actors, KillRemove(a) PROVE LifeInv'
  BY <1>28, Distinct, IInvTypes DEF KillRemove, LeaveContainer, Retired
<1>29. ASSUME NEW a \in Actors, KillNotify(a) PROVE LifeInv'
  BY <1>29, Distinct, IInvTypes DEF KillNotify, LeaveContainer, Retired
<1>30. ASSUME NEW a \in Actors, KillLeave(a) PROVE LifeInv'
  BY <1>30, Distinct, IInvTypes DEF KillLeave, LeaveContainer, Retired
<1>31. ASSUME NEW a \in Actors, Destroy(a) PROVE LifeInv'
  BY <1>31, Distinct, IInvTypes DEF Destroy, LeaveContainer, Retired
<1>32. ASSUME NEW a \in Actors, NEW p \in Packets, DrainProcessor(a, p) PROVE LifeInv'
  BY <1>32, Distinct, IInvTypes DEF DrainProcessor, LeaveContainer, Retired
<1>33. QED
  BY <1>1, <1>2, <1>3, <1>4, <1>5, <1>6, <1>7, <1>8, <1>9, <1>10, <1>11, <1>12, <1>13,
     <1>14, <1>15, <1>16, <1>17, <1>18, <1>19, <1>20, <1>21, <1>22, <1>23, <1>24,
     <1>25, <1>26, <1>27, <1>28, <1>29, <1>30, <1>31, <1>32 DEF Next, ThreadStep,
     ProcThread, KillStep

(* A processor and its thread come and go together. *)
LEMMA ProcInvKept == IInv /\ [Next]_vars => ProcInv'
<1> SUFFICES ASSUME IInv, [Next]_vars PROVE ProcInv'
  OBVIOUS
<1> USE DEF netVars, sockVars, objectVars, listVars, procVars, IInv, Types, ProcInv,
           Holding, Packets
<1>1. CASE UNCHANGED <<options, rcvd, proc, pth>>
  BY <1>1, Distinct, IInvTypes
<1>2. CASE \/ ServerClear \/ RemoverRelease \/ AcceptorStart \/ AcceptorRelease
         \/ PeerSend \/ PeerClose \/ ThreadNew \/ ThreadReturn \/ ThreadLimit
         \/ ThreadEnd \/ ThreadClose \/ ThreadInvalidate \/ ThreadLockContainer
         \/ ThreadRemove \/ ThreadNotify \/ ThreadCrash
         \/ (\E a \in Actors : Kill(a)) \/ (\E a \in Actors : KillEnter(a))
         \/ (\E a \in Actors : KillJoin(a)) \/ (\E a \in Actors : KillClose(a))
         \/ (\E a \in Actors : KillLockContainer(a))
         \/ (\E a \in Actors : KillRemove(a))
         \/ (\E a \in Actors : KillNotify(a))
         \/ (\E a \in Actors : KillLeave(a)) \/ (\E a \in Actors : Destroy(a))
         \/ UNCHANGED vars
  <2>1. UNCHANGED <<options, rcvd, proc, pth>>
    BY <1>2 DEF ServerClear, RemoverRelease, AcceptorStart, AcceptorRelease, PeerSend,
       PeerClose, ThreadNew, ThreadReturn, ThreadLimit, ThreadEnd, ThreadClose,
       ThreadInvalidate, ThreadLockContainer, ThreadRemove, ThreadNotify, ThreadCrash,
       Kill, KillEnter, KillJoin, KillClose, KillLockContainer, KillRemove, KillNotify,
       KillLeave, Destroy, vars
  <2>2. QED BY <1>1, <2>1
<1>3. CASE ThreadReceive
  BY <1>3, Distinct, IInvTypes DEF ThreadReceive, Retired
<1>4. CASE ThreadSpawn
  BY <1>4, Distinct, IInvTypes DEF ThreadSpawn, Retired
<1>5. CASE ThreadClear
  BY <1>5, Distinct, IInvTypes DEF ThreadClear, Retired
<1>6. ASSUME NEW p \in Packets, ProcReceive(p) PROVE ProcInv'
  BY <1>6, Distinct, IInvTypes DEF ProcReceive, Retired
<1>7. ASSUME NEW p \in Packets, ProcReturn(p) PROVE ProcInv'
  BY <1>7, Distinct, IInvTypes DEF ProcReturn, Retired
<1>8. ASSUME NEW p \in Packets, ProcDestroy(p) PROVE ProcInv'
  BY <1>8, Distinct, IInvTypes DEF ProcDestroy, Retired
<1>9. ASSUME NEW a \in Actors, KillClear(a) PROVE ProcInv'
  BY <1>9, Distinct, IInvTypes DEF KillClear, Retired
<1>10. ASSUME NEW a \in Actors, NEW p \in Packets, DrainProcessor(a, p) PROVE ProcInv'
  BY <1>10, Distinct, IInvTypes DEF DrainProcessor, Retired
<1>11. QED
  BY <1>1, <1>2, <1>3, <1>4, <1>5, <1>6, <1>7, <1>8, <1>9, <1>10 DEF Next, ThreadStep,
     ProcThread, KillStep

(* No step passes the limit of processors. *)
LEMMA LimitInvKept == IInv /\ [Next]_vars => LimitInv'
<1> SUFFICES ASSUME IInv, [Next]_vars PROVE LimitInv'
  OBVIOUS
<1> USE DEF netVars, sockVars, objectVars, listVars, procVars
<1>1. CASE UNCHANGED <<options, tpc, proc, pth>>
  <2>1. Running' = Running /\ Listed' = Listed
    BY <1>1 DEF Running, Listed
  <2>2. QED BY <1>1, <2>1 DEF IInv, LimitInv
<1>2. CASE \/ ServerClear \/ RemoverRelease \/ AcceptorRelease \/ PeerSend
         \/ PeerClose \/ (\E a \in Actors : Kill(a))
         \/ (\E a \in Actors : KillEnter(a))
         \/ (\E a \in Actors : KillClose(a))
         \/ (\E a \in Actors : KillLockContainer(a))
         \/ (\E a \in Actors : KillRemove(a))
         \/ (\E a \in Actors : KillNotify(a))
         \/ (\E a \in Actors : KillLeave(a)) \/ (\E a \in Actors : Destroy(a))
         \/ UNCHANGED vars
  <2>1. UNCHANGED <<options, tpc, proc, pth>>
    BY <1>2 DEF ServerClear, RemoverRelease, AcceptorRelease, PeerSend, PeerClose,
       Kill, KillEnter, KillClose, KillLockContainer, KillRemove, KillNotify,
       KillLeave, Destroy, vars
  <2>2. QED BY <1>1, <2>1
<1>3. CASE AcceptorStart
  <2>1. UNCHANGED <<options, proc, pth>> /\ tpc' = "new" /\ tpc = "unstarted"
    BY <1>3 DEF AcceptorStart, IInv, ControlInv
  <2>2. Running' = Running /\ Listed' = Listed
    BY <2>1 DEF Running, Listed
  <2>3. QED BY <2>1, <2>2, LimitShrinks DEF IInv, LimitInv, Serving, Early
<1>4. CASE ThreadNew
  <2>1. /\ UNCHANGED <<options, proc, pth>>
        /\ tpc' \in Early => tpc \in Early
        /\ tpc' = "limit" => tpc = "limit"
        /\ tpc' \in Serving => tpc \in Serving
    BY <1>4 DEF ThreadNew, Serving, Early
  <2>2. Running' = Running /\ Listed' = Listed
    BY <2>1 DEF Running, Listed
  <2>3. QED BY <2>1, <2>2, LimitShrinks DEF IInv, LimitInv, Serving, Early
<1>5. CASE ThreadReceive
  <2>1. /\ UNCHANGED <<options, proc, pth>>
        /\ tpc' \in Early => tpc \in Early
        /\ tpc' = "limit" => tpc = "limit"
        /\ tpc' \in Serving => tpc \in Serving
    BY <1>5 DEF ThreadReceive, Serving, Early
  <2>2. Running' = Running /\ Listed' = Listed
    BY <2>1 DEF Running, Listed
  <2>3. QED BY <2>1, <2>2, LimitShrinks DEF IInv, LimitInv, Serving, Early
<1>6. CASE ThreadReturn
  <2>1. /\ UNCHANGED <<options, proc, pth>>
        /\ tpc' \in Early => tpc \in Early
        /\ tpc' = "limit" => tpc = "limit"
        /\ tpc' \in Serving => tpc \in Serving
    BY <1>6 DEF ThreadReturn, Serving, Early
  <2>2. Running' = Running /\ Listed' = Listed
    BY <2>1 DEF Running, Listed
  <2>3. QED BY <2>1, <2>2, LimitShrinks DEF IInv, LimitInv, Serving, Early
<1>7. CASE ThreadSpawn
  <2> DEFINE q == rcvd + 1
  <2>1. /\ options' = options /\ tpc = "recv" /\ tpc' = "limit" /\ rcvd < sent
        /\ proc' = [proc EXCEPT ![q] = "listed"] /\ pth' = [pth EXCEPT ![q] = "started"]
    BY <1>7 DEF ThreadSpawn
  <2>2. q \in Packets /\ proc[q] = "none" /\ pth[q] = "none"
    BY <2>1, IInvTypes, Distinct DEF IInv, ProcInv, Types, Packets <2> HIDE DEF q
  <2>3. /\ Running' = Running \cup {q} /\ Listed' = Listed \cup {q} /\ q \notin Listed
    BY <2>1, <2>2, IInvTypes DEF Running, Listed, Types
  <2>4. Cardinality(Listed') = Cardinality(Listed) + 1
    BY <2>2, <2>3, HoldingSet, OneMore
  <2>5. SUFFICES ASSUME options.max > 0
                 PROVE  /\ Cardinality(Running') <= options.max
                        /\ Running' \subseteq Listed'
                        /\ Cardinality(Listed') <= options.max
    BY <2>1 DEF LimitInv, Early, Serving
  <2>6. Running \subseteq Listed /\ Cardinality(Listed) < options.max
    BY <2>1, <2>5 DEF IInv, LimitInv, Early, Serving
  <2>7. Running' \subseteq Listed' /\ Listed' \subseteq Packets
    BY <2>2, <2>3, <2>6, HoldingSet
  <2>8. Cardinality(Running') <= Cardinality(Listed')
    BY <2>7, NoMore
  <2>9. /\ Cardinality(Listed) \in Nat
        /\ Cardinality(Running') \in Nat
        /\ options.max \in Nat
    <3>1. Running' \subseteq Packets
      BY <2>7
    <3>2. QED BY <3>1, HoldingSet, PacketSets, IInvTypes, Distinct DEF Types
  <2>10. QED BY <2>4, <2>6, <2>7, <2>8, <2>9
<1>8. CASE ThreadLimit
  <2>1. /\ UNCHANGED <<options, proc, pth>>
        /\ tpc = "limit"
        /\ tpc' = "recv"
        /\ BelowLimit
    BY <1>8 DEF ThreadLimit
  <2>2. Running' = Running /\ Listed' = Listed
    BY <2>1 DEF Running, Listed
  <2>3. QED BY <2>1, <2>2 DEF IInv, LimitInv, Serving, Early, BelowLimit
<1>9. CASE ThreadEnd
  <2>1. /\ UNCHANGED <<options, proc, pth>>
        /\ tpc' \in Early => tpc \in Early
        /\ tpc' = "limit" => tpc = "limit"
        /\ tpc' \in Serving => tpc \in Serving
    BY <1>9 DEF ThreadEnd, Serving, Early
  <2>2. Running' = Running /\ Listed' = Listed
    BY <2>1 DEF Running, Listed
  <2>3. QED BY <2>1, <2>2, LimitShrinks DEF IInv, LimitInv, Serving, Early
<1>10. CASE ThreadClose
  <2>1. /\ UNCHANGED <<options, proc, pth>>
        /\ tpc' \in Early => tpc \in Early
        /\ tpc' = "limit" => tpc = "limit"
        /\ tpc' \in Serving => tpc \in Serving
    BY <1>10 DEF ThreadClose, Serving, Early
  <2>2. Running' = Running /\ Listed' = Listed
    BY <2>1 DEF Running, Listed
  <2>3. QED BY <2>1, <2>2, LimitShrinks DEF IInv, LimitInv, Serving, Early
<1>11. CASE ThreadInvalidate
  <2>1. /\ UNCHANGED <<options, proc, pth>>
        /\ tpc' \in Early => tpc \in Early
        /\ tpc' = "limit" => tpc = "limit"
        /\ tpc' \in Serving => tpc \in Serving
    BY <1>11 DEF ThreadInvalidate, Serving, Early
  <2>2. Running' = Running /\ Listed' = Listed
    BY <2>1 DEF Running, Listed
  <2>3. QED BY <2>1, <2>2, LimitShrinks DEF IInv, LimitInv, Serving, Early
<1>12. CASE ThreadClear
  <2>1. UNCHANGED <<options, pth>> /\ proc' = Retired /\ tpc' = "lock"
    BY <1>12 DEF ThreadClear, Retired
  <2>2. Running' = Running /\ Listed' \subseteq Listed
    BY <2>1, IInvTypes DEF Running, Listed, Retired, Types
  <2>3. QED BY <2>1, <2>2, LimitShrinks, IInvTypes DEF IInv, LimitInv, ControlInv,
     ThreadGone, Late, Serving, Early, Types
<1>13. CASE ThreadLockContainer
  <2>1. /\ UNCHANGED <<options, proc, pth>>
        /\ tpc' \in Early => tpc \in Early
        /\ tpc' = "limit" => tpc = "limit"
        /\ tpc' \in Serving => tpc \in Serving
    BY <1>13 DEF ThreadLockContainer, Serving, Early
  <2>2. Running' = Running /\ Listed' = Listed
    BY <2>1 DEF Running, Listed
  <2>3. QED BY <2>1, <2>2, LimitShrinks DEF IInv, LimitInv, Serving, Early
<1>14. CASE ThreadRemove
  <2>1. /\ UNCHANGED <<options, proc, pth>>
        /\ tpc' \in Early => tpc \in Early
        /\ tpc' = "limit" => tpc = "limit"
        /\ tpc' \in Serving => tpc \in Serving
    BY <1>14 DEF ThreadRemove, Serving, Early
  <2>2. Running' = Running /\ Listed' = Listed
    BY <2>1 DEF Running, Listed
  <2>3. QED BY <2>1, <2>2, LimitShrinks DEF IInv, LimitInv, Serving, Early
<1>15. CASE ThreadNotify
  <2>1. /\ UNCHANGED <<options, proc, pth>>
        /\ tpc' \in Early => tpc \in Early
        /\ tpc' = "limit" => tpc = "limit"
        /\ tpc' \in Serving => tpc \in Serving
    BY <1>15 DEF ThreadNotify, Serving, Early
  <2>2. Running' = Running /\ Listed' = Listed
    BY <2>1 DEF Running, Listed
  <2>3. QED BY <2>1, <2>2, LimitShrinks DEF IInv, LimitInv, Serving, Early
<1>16. CASE ThreadCrash
  <2>1. /\ UNCHANGED <<options, proc, pth>>
        /\ tpc' \in Early => tpc \in Early
        /\ tpc' = "limit" => tpc = "limit"
        /\ tpc' \in Serving => tpc \in Serving
    BY <1>16 DEF ThreadCrash, Serving, Early
  <2>2. Running' = Running /\ Listed' = Listed
    BY <2>1 DEF Running, Listed
  <2>3. QED BY <2>1, <2>2, LimitShrinks DEF IInv, LimitInv, Serving, Early
<1>17. ASSUME NEW p \in Packets, ProcReceive(p) PROVE LimitInv'
  <2>1. /\ UNCHANGED <<options, proc, tpc>>
        /\ pth[p] = "started"
        /\ pth' = [pth EXCEPT ![p] = "incall"]
    BY <1>17 DEF ProcReceive, Retired
  <2>2. Running' = Running /\ Listed' = Listed
    BY <2>1, IInvTypes DEF Running, Listed, Retired, Types
  <2>3. QED BY <2>1, <2>2, LimitShrinks, IInvTypes DEF IInv, LimitInv, ControlInv,
     ThreadGone, Late, Serving, Early, Types
<1>18. ASSUME NEW p \in Packets, ProcReturn(p) PROVE LimitInv'
  <2>1. /\ UNCHANGED <<options, tpc>>
        /\ pth' = [pth EXCEPT ![p] = "ended"]
        /\ proc' = [proc EXCEPT ![p] = IF @ = "listed" THEN "retired" ELSE @]
    BY <1>18 DEF ProcReturn, Retired
  <2>2. Running' = Running \ {p} /\ Listed' = Listed \ {p}
    BY <2>1, IInvTypes DEF Running, Listed, Retired, Types
  <2>3. QED BY <2>1, <2>2, LimitShrinks, IInvTypes DEF IInv, LimitInv, ControlInv,
     ThreadGone, Late, Serving, Early, Types
<1>19. ASSUME NEW p \in Packets, ProcDestroy(p) PROVE LimitInv'
  <2>1. /\ UNCHANGED <<options, tpc>>
        /\ (pth' = pth \/ pth' = [pth EXCEPT ![p] = "ended"])
        /\ proc' = [proc EXCEPT ![p] = "destroyed"]
        /\ proc[p] = "retired"
    BY <1>19 DEF ProcDestroy, Retired
  <2>2. Running' \subseteq Running /\ Listed' = Listed
    BY <2>1, IInvTypes DEF Running, Listed, Retired, Types
  <2>3. QED BY <2>1, <2>2, LimitShrinks, IInvTypes DEF IInv, LimitInv, ControlInv,
     ThreadGone, Late, Serving, Early, Types
<1>20. ASSUME NEW a \in Actors, KillJoin(a) PROVE LimitInv'
  <2>1. /\ UNCHANGED <<options, proc, pth>>
        /\ tpc' \in Early => tpc \in Early
        /\ tpc' = "limit" => tpc = "limit"
        /\ tpc' \in Serving => tpc \in Serving
    BY <1>20 DEF KillJoin, Serving, Early
  <2>2. Running' = Running /\ Listed' = Listed
    BY <2>1 DEF Running, Listed
  <2>3. QED BY <2>1, <2>2, LimitShrinks DEF IInv, LimitInv, Serving, Early
<1>21. ASSUME NEW a \in Actors, KillClear(a) PROVE LimitInv'
  <2>1. UNCHANGED <<options, pth, tpc>> /\ proc' = Retired /\ kpc[a] = "clear"
    BY <1>21 DEF KillClear, Retired
  <2>2. Running' = Running /\ Listed' \subseteq Listed
    BY <2>1, IInvTypes DEF Running, Listed, Retired, Types
  <2>3. QED BY <2>1, <2>2, LimitShrinks, IInvTypes DEF IInv, LimitInv, ControlInv,
     ThreadGone, Late, Serving, Early, Types
<1>22. ASSUME NEW a \in Actors, NEW p \in Packets, DrainProcessor(a, p) PROVE LimitInv'
  <2>1. /\ UNCHANGED <<options, tpc>>
        /\ pth' = [pth EXCEPT ![p] = "ended"]
        /\ proc' = [proc EXCEPT ![p] = "destroyed"]
    BY <1>22 DEF DrainProcessor, Retired
  <2>2. Running' = Running \ {p} /\ Listed' = Listed \ {p}
    BY <2>1, IInvTypes DEF Running, Listed, Retired, Types
  <2>3. QED BY <2>1, <2>2, LimitShrinks, IInvTypes DEF IInv, LimitInv, ControlInv,
     ThreadGone, Late, Serving, Early, Types
<1>23. QED
  BY <1>1, <1>2, <1>3, <1>4, <1>5, <1>6, <1>7, <1>8, <1>9, <1>10, <1>11, <1>12, <1>13,
     <1>14, <1>15, <1>16, <1>17, <1>18, <1>19, <1>20, <1>21, <1>22 DEF Next,
     ThreadStep, ProcThread, KillStep

(* No step tells the end a second time. *)
LEMMA ToldInvKept == IInv /\ [Next]_vars => ToldInv'
<1> SUFFICES ASSUME IInv, [Next]_vars PROVE ToldInv'
  OBVIOUS
<1> USE DEF netVars, sockVars, objectVars, listVars, procVars
<1>1. CASE UNCHANGED <<options, tpc, calls>>
  <2>1. Told' = Told
    BY <1>1 DEF Told, Callbacks!OnDisconnect
  <2>2. QED BY <1>1, <2>1 DEF IInv, ToldInv, Graceful, ThreadGone
<1>2. CASE \/ ServerClear \/ RemoverRelease \/ AcceptorRelease \/ PeerSend
         \/ PeerClose \/ (\E p \in Packets : ProcReturn(p))
         \/ (\E p \in Packets : ProcDestroy(p)) \/ (\E a \in Actors : Kill(a))
         \/ (\E a \in Actors : KillEnter(a))
         \/ (\E a \in Actors : KillClose(a))
         \/ (\E a \in Actors : KillClear(a))
         \/ (\E a \in Actors : KillLockContainer(a))
         \/ (\E a \in Actors : KillRemove(a))
         \/ (\E a \in Actors : KillLeave(a)) \/ (\E a \in Actors : Destroy(a))
         \/ (\E a \in Actors, p \in Packets : DrainProcessor(a, p))
         \/ UNCHANGED vars
  <2>1. UNCHANGED <<options, tpc, calls>>
    BY <1>2 DEF ServerClear, RemoverRelease, AcceptorRelease, PeerSend, PeerClose,
       ProcReturn, ProcDestroy, Kill, KillEnter, KillClose, KillClear,
       KillLockContainer, KillRemove, KillLeave, Destroy, DrainProcessor, vars
  <2>2. QED BY <1>1, <2>1
<1>3. CASE AcceptorStart
  <2>1. /\ UNCHANGED <<options, calls>>
        /\ (tpc' \in {"ended", "killed", "crashed"} \/ ~ThreadGone)
    BY <1>3 DEF AcceptorStart, IInv, ControlInv, ThreadGone
  <2>2. Told' = Told
    BY <2>1 DEF Told, Callbacks!OnDisconnect
  <2>3. QED BY <2>1, <2>2 DEF IInv, ToldInv, Graceful, ThreadGone
<1>4. CASE ThreadNew
  <2>1. /\ options' = options /\ calls' = Append(calls, Callbacks!OnNewConnection)
        /\ ThreadGone' => ThreadGone \/ tpc' \in {"ended", "killed", "crashed"}
        /\ ThreadGone => ThreadGone'
    BY <1>4 DEF ThreadNew, ThreadGone
  <2>2. /\ Callbacks!OnNewConnection \in {"new", "received", "disconnect"} \X Nat
        /\ Callbacks!OnNewConnection # Callbacks!OnDisconnect
    BY IInvTypes, Distinct DEF Types, Packets, Callbacks!OnNewConnection,
       Callbacks!OnReceived, Callbacks!OnDisconnect
  <2>3. Told' = Told
    BY <2>1, <2>2, ToldGrows
  <2>4. QED BY <2>1, <2>3 DEF IInv, ToldInv, Graceful
<1>5. CASE ThreadReceive
  <2>1. /\ options' = options /\ calls' = Append(calls, Callbacks!OnReceived(rcvd + 1))
        /\ ThreadGone' => ThreadGone \/ tpc' \in {"ended", "killed", "crashed"}
        /\ ThreadGone => ThreadGone'
    BY <1>5 DEF ThreadReceive, ThreadGone
  <2>2. /\ Callbacks!OnReceived(rcvd + 1) \in {"new", "received", "disconnect"} \X Nat
        /\ Callbacks!OnReceived(rcvd + 1) # Callbacks!OnDisconnect
    BY IInvTypes, Distinct DEF Types, Packets, Callbacks!OnNewConnection,
       Callbacks!OnReceived, Callbacks!OnDisconnect
  <2>3. Told' = Told
    BY <2>1, <2>2, ToldGrows
  <2>4. QED BY <2>1, <2>3 DEF IInv, ToldInv, Graceful
<1>6. CASE ThreadReturn
  <2>1. /\ UNCHANGED <<options, calls>>
        /\ (tpc' \in {"ended", "killed", "crashed"} \/ ~ThreadGone)
    BY <1>6 DEF ThreadReturn, IInv, ControlInv, ThreadGone
  <2>2. Told' = Told
    BY <2>1 DEF Told, Callbacks!OnDisconnect
  <2>3. QED BY <2>1, <2>2 DEF IInv, ToldInv, Graceful, ThreadGone
<1>7. CASE ThreadSpawn
  <2>1. /\ UNCHANGED <<options, calls>>
        /\ (tpc' \in {"ended", "killed", "crashed"} \/ ~ThreadGone)
    BY <1>7 DEF ThreadSpawn, IInv, ControlInv, ThreadGone
  <2>2. Told' = Told
    BY <2>1 DEF Told, Callbacks!OnDisconnect
  <2>3. QED BY <2>1, <2>2 DEF IInv, ToldInv, Graceful, ThreadGone
<1>8. CASE ThreadLimit
  <2>1. /\ UNCHANGED <<options, calls>>
        /\ (tpc' \in {"ended", "killed", "crashed"} \/ ~ThreadGone)
    BY <1>8 DEF ThreadLimit, IInv, ControlInv, ThreadGone
  <2>2. Told' = Told
    BY <2>1 DEF Told, Callbacks!OnDisconnect
  <2>3. QED BY <2>1, <2>2 DEF IInv, ToldInv, Graceful, ThreadGone
<1>9. CASE ThreadEnd
  <2>1. /\ UNCHANGED <<options, calls>>
        /\ (tpc' \in {"ended", "killed", "crashed"} \/ ~ThreadGone)
    BY <1>9 DEF ThreadEnd, IInv, ControlInv, ThreadGone
  <2>2. Told' = Told
    BY <2>1 DEF Told, Callbacks!OnDisconnect
  <2>3. QED BY <2>1, <2>2 DEF IInv, ToldInv, Graceful, ThreadGone
<1>10. CASE ThreadClose
  <2>1. /\ UNCHANGED <<options, calls>>
        /\ (tpc' \in {"ended", "killed", "crashed"} \/ ~ThreadGone)
    BY <1>10 DEF ThreadClose, IInv, ControlInv, ThreadGone
  <2>2. Told' = Told
    BY <2>1 DEF Told, Callbacks!OnDisconnect
  <2>3. QED BY <2>1, <2>2 DEF IInv, ToldInv, Graceful, ThreadGone
<1>11. CASE ThreadInvalidate
  <2>1. /\ UNCHANGED <<options, calls>>
        /\ (tpc' \in {"ended", "killed", "crashed"} \/ ~ThreadGone)
    BY <1>11 DEF ThreadInvalidate, IInv, ControlInv, ThreadGone
  <2>2. Told' = Told
    BY <2>1 DEF Told, Callbacks!OnDisconnect
  <2>3. QED BY <2>1, <2>2 DEF IInv, ToldInv, Graceful, ThreadGone
<1>12. CASE ThreadClear
  <2>1. /\ UNCHANGED <<options, calls>>
        /\ (tpc' \in {"ended", "killed", "crashed"} \/ ~ThreadGone)
    BY <1>12 DEF ThreadClear, IInv, ControlInv, ThreadGone
  <2>2. Told' = Told
    BY <2>1 DEF Told, Callbacks!OnDisconnect
  <2>3. QED BY <2>1, <2>2 DEF IInv, ToldInv, Graceful, ThreadGone
<1>13. CASE ThreadLockContainer
  <2>1. /\ UNCHANGED <<options, calls>>
        /\ (tpc' \in {"ended", "killed", "crashed"} \/ ~ThreadGone)
    BY <1>13 DEF ThreadLockContainer, IInv, ControlInv, ThreadGone
  <2>2. Told' = Told
    BY <2>1 DEF Told, Callbacks!OnDisconnect
  <2>3. QED BY <2>1, <2>2 DEF IInv, ToldInv, Graceful, ThreadGone
<1>14. CASE ThreadRemove
  <2>1. /\ UNCHANGED <<options, calls>>
        /\ (tpc' \in {"ended", "killed", "crashed"} \/ ~ThreadGone)
    BY <1>14 DEF ThreadRemove, IInv, ControlInv, ThreadGone
  <2>2. Told' = Told
    BY <2>1 DEF Told, Callbacks!OnDisconnect
  <2>3. QED BY <2>1, <2>2 DEF IInv, ToldInv, Graceful, ThreadGone
<1>15. CASE ThreadNotify
  <2>1. /\ options' = options /\ calls' = Append(calls, Callbacks!OnDisconnect)
        /\ ~ThreadGone /\ ThreadGone'
    BY <1>15 DEF ThreadNotify, ThreadGone
  <2>2. Callbacks!OnDisconnect \in {"new", "received", "disconnect"} \X Nat
    BY DEF Callbacks!OnDisconnect
  <2>3. Told' = Told \cup {Len(calls) + 1}
    BY <2>1, <2>2, ToldGrows
  <2>4. Graceful => Told' = {Len(calls) + 1}
    BY <2>1, <2>3 DEF IInv, ToldInv
  <2>5. Cardinality({Len(calls) + 1}) = 1
    BY FS_Singleton
  <2>6. Graceful => Cardinality(Told') = 1
    BY <2>4, <2>5, Zenon
  <2>7. QED BY <2>1, <2>6 DEF ToldInv, Graceful
<1>16. CASE ThreadCrash
  <2>1. /\ UNCHANGED <<options, calls>>
        /\ (tpc' \in {"ended", "killed", "crashed"} \/ ~ThreadGone)
    BY <1>16 DEF ThreadCrash, IInv, ControlInv, ThreadGone
  <2>2. Told' = Told
    BY <2>1 DEF Told, Callbacks!OnDisconnect
  <2>3. QED BY <2>1, <2>2 DEF IInv, ToldInv, Graceful, ThreadGone
<1>17. ASSUME NEW p \in Packets, ProcReceive(p) PROVE ToldInv'
  <2>1. /\ options' = options /\ calls' = Append(calls, Callbacks!OnReceived(p))
        /\ ThreadGone' => ThreadGone \/ tpc' \in {"ended", "killed", "crashed"}
        /\ ThreadGone => ThreadGone'
    BY <1>17 DEF ProcReceive, ThreadGone
  <2>2. /\ Callbacks!OnReceived(p) \in {"new", "received", "disconnect"} \X Nat
        /\ Callbacks!OnReceived(p) # Callbacks!OnDisconnect
    BY IInvTypes, Distinct DEF Types, Packets, Callbacks!OnNewConnection,
       Callbacks!OnReceived, Callbacks!OnDisconnect
  <2>3. Told' = Told
    BY <2>1, <2>2, ToldGrows
  <2>4. QED BY <2>1, <2>3 DEF IInv, ToldInv, Graceful
<1>18. ASSUME NEW a \in Actors, KillJoin(a) PROVE ToldInv'
  <2>1. /\ UNCHANGED <<options, calls>>
        /\ (tpc' \in {"ended", "killed", "crashed"} \/ ~ThreadGone)
    BY <1>18 DEF KillJoin, IInv, ControlInv, ThreadGone
  <2>2. Told' = Told
    BY <2>1 DEF Told, Callbacks!OnDisconnect
  <2>3. QED BY <2>1, <2>2 DEF IInv, ToldInv, Graceful, ThreadGone
<1>19. ASSUME NEW a \in Actors, KillNotify(a) PROVE ToldInv'
  <2>1. options' = options /\ kpc[a] = "notify"
    BY <1>19 DEF KillNotify
  <2>2. QED BY <2>1 DEF IInv, ControlInv, Late, ToldInv, Graceful
<1>20. QED
  BY <1>1, <1>2, <1>3, <1>4, <1>5, <1>6, <1>7, <1>8, <1>9, <1>10, <1>11, <1>12, <1>13,
     <1>14, <1>15, <1>16, <1>17, <1>18, <1>19 DEF Next, ThreadStep, ProcThread,
     KillStep

(* An ordered connection keeps count of its callbacks. *)
LEMMA OrderInvKept == IInv /\ [Next]_vars => OrderInv'
<1> SUFFICES ASSUME IInv, [Next]_vars PROVE OrderInv'
  OBVIOUS
<1> USE DEF netVars, sockVars, objectVars, listVars, procVars
<1>1. CASE UNCHANGED <<options, tpc, calls, rcvd>>
  BY <1>1, Distinct, IInvTypes DEF IInv, Types, OrderInv, Ordered, ThreadGone
<1>2. CASE \/ ServerClear \/ RemoverRelease \/ AcceptorRelease \/ PeerSend
         \/ PeerClose \/ (\E p \in Packets : ProcReturn(p))
         \/ (\E p \in Packets : ProcDestroy(p)) \/ (\E a \in Actors : Kill(a))
         \/ (\E a \in Actors : KillEnter(a))
         \/ (\E a \in Actors : KillClose(a))
         \/ (\E a \in Actors : KillClear(a))
         \/ (\E a \in Actors : KillLockContainer(a))
         \/ (\E a \in Actors : KillRemove(a))
         \/ (\E a \in Actors : KillLeave(a)) \/ (\E a \in Actors : Destroy(a))
         \/ (\E a \in Actors, p \in Packets : DrainProcessor(a, p))
         \/ UNCHANGED vars
  <2>1. UNCHANGED <<options, tpc, calls, rcvd>>
    BY <1>2 DEF ServerClear, RemoverRelease, AcceptorRelease, PeerSend, PeerClose,
       ProcReturn, ProcDestroy, Kill, KillEnter, KillClose, KillClear,
       KillLockContainer, KillRemove, KillLeave, Destroy, DrainProcessor, vars
  <2>2. QED BY <1>1, <2>1
<1>3. CASE AcceptorStart
  BY <1>3, IInvTypes DEF AcceptorStart, IInv, Types, ControlInv, OrderInv, Ordered,
     ThreadGone
<1>4. CASE ThreadNew
  <2>1. /\ options' = options
        /\ calls' = Append(calls, Callbacks!OnNewConnection)
        /\ tpc = "new"
        /\ tpc' = "recv"
        /\ rcvd' = rcvd
    BY <1>4 DEF ThreadNew
  <2>2. SUFFICES ASSUME Ordered
                 PROVE  /\ Len(calls') = rcvd' + 1
                        /\ calls'[Len(calls')] # Callbacks!OnDisconnect
    BY <2>1 DEF OrderInv, Ordered
  <2>3. calls = <<>> /\ rcvd = 0
    BY <2>1, <2>2 DEF IInv, OrderInv
  <2>4. Len(calls') = 1 /\ calls'[1] = Callbacks!OnNewConnection
    BY <2>1, <2>3
  <2>5. QED BY <2>1, <2>3, <2>4 DEF Callbacks!OnNewConnection, Callbacks!OnDisconnect
<1>5. CASE ThreadReceive
  <2>1. /\ options' = options /\ calls' = Append(calls, Callbacks!OnReceived(rcvd + 1))
        /\ calls \in Seq({"new", "received", "disconnect"} \X Nat)
    BY <1>5 DEF ThreadReceive, IInv, TypeOK
  <2>2. /\ Len(calls') = Len(calls) + 1
        /\ calls'[Len(calls')] = Callbacks!OnReceived(rcvd + 1)
        /\ Len(calls) \in Nat
    BY <2>1
  <2>3. Callbacks!OnReceived(rcvd + 1) # Callbacks!OnDisconnect
    BY DEF Callbacks!OnNewConnection, Callbacks!OnReceived, Callbacks!OnDisconnect
  <2>4. QED BY <1>5, <2>1, <2>2, <2>3, IInvTypes DEF ThreadReceive, IInv, OrderInv,
     DescriptorInv, Ordered, ThreadGone, Types
<1>6. CASE ThreadReturn
  BY <1>6, IInvTypes DEF ThreadReturn, IInv, Types, ControlInv, OrderInv, Ordered,
     ThreadGone
<1>7. CASE ThreadSpawn
  BY <1>7, IInvTypes DEF ThreadSpawn, IInv, Types, ControlInv, OrderInv, Ordered,
     ThreadGone
<1>8. CASE ThreadLimit
  BY <1>8, IInvTypes DEF ThreadLimit, IInv, Types, ControlInv, OrderInv, Ordered,
     ThreadGone
<1>9. CASE ThreadEnd
  BY <1>9, IInvTypes DEF ThreadEnd, IInv, Types, ControlInv, OrderInv, Ordered, ThreadGone
<1>10. CASE ThreadClose
  BY <1>10, IInvTypes DEF ThreadClose, IInv, Types, ControlInv, OrderInv, Ordered,
     ThreadGone
<1>11. CASE ThreadInvalidate
  BY <1>11, IInvTypes DEF ThreadInvalidate, IInv, Types, ControlInv, OrderInv, Ordered,
     ThreadGone
<1>12. CASE ThreadClear
  BY <1>12, IInvTypes DEF ThreadClear, IInv, Types, ControlInv, OrderInv, Ordered,
     ThreadGone
<1>13. CASE ThreadLockContainer
  BY <1>13, IInvTypes DEF ThreadLockContainer, IInv, Types, ControlInv, OrderInv,
     Ordered, ThreadGone
<1>14. CASE ThreadRemove
  BY <1>14, IInvTypes DEF ThreadRemove, IInv, Types, ControlInv, OrderInv, Ordered,
     ThreadGone
<1>15. CASE ThreadNotify
  BY <1>15 DEF ThreadNotify, OrderInv, ThreadGone
<1>16. CASE ThreadCrash
  BY <1>16, IInvTypes DEF ThreadCrash, IInv, Types, ControlInv, OrderInv, Ordered,
     ThreadGone
<1>17. ASSUME NEW p \in Packets, ProcReceive(p) PROVE OrderInv'
  <2>1. options' = options /\ pth[p] = "started"
    BY <1>17 DEF ProcReceive
  <2>2. QED BY <2>1 DEF IInv, ProcInv, OrderInv, Ordered
<1>18. ASSUME NEW a \in Actors, KillJoin(a) PROVE OrderInv'
  BY <1>18, IInvTypes DEF KillJoin, IInv, Types, ControlInv, OrderInv, Ordered, ThreadGone
<1>19. ASSUME NEW a \in Actors, KillNotify(a) PROVE OrderInv'
  <2>1. options' = options /\ kpc[a] = "notify"
    BY <1>19 DEF KillNotify
  <2>2. QED BY <2>1 DEF IInv, ControlInv, Late, OrderInv, Ordered, Graceful
<1>20. QED
  BY <1>1, <1>2, <1>3, <1>4, <1>5, <1>6, <1>7, <1>8, <1>9, <1>10, <1>11, <1>12, <1>13,
     <1>14, <1>15, <1>16, <1>17, <1>18, <1>19 DEF Next, ThreadStep, ProcThread,
     KillStep

(* The reference count stays the number of the holders. *)
LEMMA CountInvKept == IInv /\ [Next]_vars => CountInv'
<1> SUFFICES ASSUME IInv, [Next]_vars PROVE CountInv'
  OBVIOUS
<1> USE DEF netVars, sockVars, objectVars, listVars, procVars
<1>1. CASE UNCHANGED <<refCount, life, kpc, container, proc>>
  <2>1. Holding' = Holding
    BY <1>1 DEF Holding
  <2>2. QED BY <1>1, <2>1 DEF IInv, CountInv, Holders
<1>2. CASE \/ PeerSend \/ PeerClose \/ ThreadNew \/ ThreadReceive \/ ThreadReturn
         \/ ThreadLimit \/ ThreadEnd \/ ThreadClose \/ ThreadInvalidate
         \/ ThreadLockContainer \/ ThreadNotify \/ ThreadCrash
         \/ (\E p \in Packets : ProcReceive(p)) \/ UNCHANGED vars
  <2>1. UNCHANGED <<refCount, life, kpc, container, proc>>
    BY <1>2 DEF PeerSend, PeerClose, ThreadNew, ThreadReceive, ThreadReturn,
       ThreadLimit, ThreadEnd, ThreadClose, ThreadInvalidate, ThreadLockContainer,
       ThreadNotify, ThreadCrash, ProcReceive, vars
  <2>2. QED BY <1>1, <2>1
<1>3. CASE ServerClear
  <2>1. /\ UNCHANGED <<refCount, life, proc>>
        /\ kpc'[Acceptor] \in {"start", "release"} <=> kpc[Acceptor] \in {"start", "release"}
        /\ container' \in {"listed", "retired"} <=> container \in {"listed", "retired"}
    BY <1>3, Distinct, IInvTypes DEF ServerClear, LeaveContainer, IInv, Types, ControlInv
  <2>2. QED BY <2>1, SameHolders DEF Holding
<1>4. CASE AcceptorStart
  <2>1. /\ UNCHANGED <<refCount, life, proc>>
        /\ kpc'[Acceptor] \in {"start", "release"} <=> kpc[Acceptor] \in {"start", "release"}
        /\ container' \in {"listed", "retired"} <=> container \in {"listed", "retired"}
    BY <1>4, Distinct, IInvTypes DEF AcceptorStart, LeaveContainer, IInv, Types,
       ControlInv
  <2>2. QED BY <2>1, SameHolders DEF Holding
<1>5. CASE AcceptorRelease
  <2>1. /\ kpc[Acceptor] = "release"
        /\ ReleaseRef(Acceptor)
        /\ UNCHANGED <<container, proc>>
    BY <1>5 DEF AcceptorRelease
  <2>2. Holding' = Holding /\ Acceptor \in Releasers
    BY <2>1 DEF Holding, Releasers
  <2>3. Cardinality(Holding) \in Nat /\ (Holding = {} => Cardinality(Holding) = 0)
    BY HoldingCount
  <2>4. QED BY <2>1, <2>2, <2>3, ReleaseEffect, Distinct, IInvTypes DEF IInv, Types,
     LifeInv, CountInv, Holders
<1>6. CASE RemoverRelease
  <2>1. /\ container = "retired" /\ container' = "gone" /\ kpc[Remover] = "idle"
        /\ ReleaseRef(Remover) /\ UNCHANGED proc
    BY <1>6 DEF RemoverRelease
  <2>2. Holding' = Holding /\ Remover \in Releasers
    BY <2>1 DEF Holding, Releasers
  <2>3. Cardinality(Holding) \in Nat /\ (Holding = {} => Cardinality(Holding) = 0)
    BY HoldingCount
  <2>4. life = "dead" => refCount = 1 + Cardinality(Holding) /\ Holding = {}
    BY <2>1 DEF IInv, LifeInv, CountInv, Holders, Holding
  <2>5. \/ /\ refCount = 1 /\ refCount' = 1 /\ life = "alive" /\ life' = "dying"
           /\ kpc[Acceptor] \notin {"start", "release"} /\ Holding = {}
        \/ refCount' = refCount - 1 /\ life' = life
    BY <2>1, <2>2, ReleaseEffect, Distinct
  <2>6. kpc'[Acceptor] \in {"start", "release"} <=> kpc[Acceptor] \in {"start", "release"}
    BY <2>1, <2>2, ReleaseEffect, Distinct, IInvTypes DEF Types
  <2>7. /\ refCount = Holders + Cardinality(Holding)
        /\ Cardinality(Holding') = Cardinality(Holding)
    BY <2>2 DEF IInv, CountInv <2> HIDE DEF Holding
  <2>8. QED BY <2>1, <2>3, <2>5, <2>6, <2>7 DEF CountInv, Holders
<1>7. CASE ThreadSpawn
  <2> DEFINE q == rcvd + 1
  <2>1. /\ UNCHANGED <<life, kpc, container>> /\ refCount' = refCount + 1 /\ rcvd < sent
        /\ proc' = [proc EXCEPT ![q] = "listed"]
    BY <1>7 DEF ThreadSpawn
  <2>2. q \in Packets /\ proc[q] = "none"
    BY <2>1, IInvTypes, Distinct DEF IInv, ProcInv, Types, Packets <2> HIDE DEF q
  <2>3. Holding' = Holding \cup {q} /\ q \notin Holding
    BY <2>1, <2>2, IInvTypes DEF Holding, Types
  <2>4. /\ Cardinality(Holding') = Cardinality(Holding) + 1
        /\ Cardinality(Holding) \in Nat
    BY <2>2, <2>3, HoldingSet, OneMore, HoldingCount
  <2>5. QED BY <2>1, <2>4 DEF IInv, CountInv, Holders
<1>8. CASE ThreadClear
  <2>1. /\ UNCHANGED <<refCount, life, container>>
        /\ kpc'[Acceptor] \in {"start", "release"} <=> kpc[Acceptor] \in {"start", "release"}
        /\ proc' = Retired
    BY <1>8, Distinct, IInvTypes DEF ThreadClear, IInv, Types
  <2>2. Holding' = Holding
    BY <2>1, IInvTypes DEF Holding, Retired, Types
  <2>3. QED BY <2>1, <2>2, SameHolders
<1>9. CASE ThreadRemove
  <2>1. /\ UNCHANGED <<refCount, life, proc>>
        /\ kpc'[Acceptor] \in {"start", "release"} <=> kpc[Acceptor] \in {"start", "release"}
        /\ container' \in {"listed", "retired"} <=> container \in {"listed", "retired"}
    BY <1>9, Distinct, IInvTypes DEF ThreadRemove, LeaveContainer, IInv, Types, ControlInv
  <2>2. QED BY <2>1, SameHolders DEF Holding
<1>10. ASSUME NEW p \in Packets, ProcReturn(p) PROVE CountInv'
  <2>1. /\ UNCHANGED <<refCount, life, container>>
        /\ kpc'[Acceptor] \in {"start", "release"} <=> kpc[Acceptor] \in {"start", "release"}
        /\ proc' = [proc EXCEPT ![p] = IF @ = "listed" THEN "retired" ELSE @]
    BY <1>10, Distinct, IInvTypes DEF ProcReturn, IInv, Types
  <2>2. Holding' = Holding
    BY <2>1, IInvTypes DEF Holding, Retired, Types
  <2>3. QED BY <2>1, <2>2, SameHolders
<1>11. ASSUME NEW p \in Packets, ProcDestroy(p) PROVE CountInv'
  <2>1. /\ kpc[ProcRemover] = "idle" /\ proc[p] = "retired" /\ ReleaseRef(ProcRemover)
        /\ proc' = [proc EXCEPT ![p] = "destroyed"] /\ UNCHANGED container
    BY <1>11 DEF ProcDestroy
  <2>2. p \in Holding /\ Holding' = Holding \ {p} /\ ProcRemover \in Releasers
    BY <2>1, IInvTypes DEF Holding, Types, Releasers
  <2>3. /\ Cardinality(Holding') = Cardinality(Holding) - 1
        /\ Cardinality(Holding) \in Nat
    BY <2>2, HoldingSet, OneLess, HoldingCount
  <2>4. \/ /\ refCount = 1 /\ refCount' = 1 /\ life = "alive" /\ life' = "dying"
           /\ kpc[Acceptor] \notin {"start", "release"} /\ container = "gone"
        \/ refCount' = refCount - 1 /\ life' = life
    BY <2>1, <2>2, ReleaseEffect, Distinct
  <2>5. kpc'[Acceptor] \in {"start", "release"} <=> kpc[Acceptor] \in {"start", "release"}
    BY <2>1, <2>2, ReleaseEffect, Distinct, IInvTypes DEF Types
  <2>6. refCount = Holders + Cardinality(Holding)
    BY DEF IInv, CountInv <2> HIDE DEF Holding
  <2>7. QED BY <2>1, <2>3, <2>4, <2>5, <2>6 DEF CountInv, Holders
<1>12. ASSUME NEW a \in Actors, Kill(a) PROVE CountInv'
  <2>1. UNCHANGED <<refCount, life, container, proc>> /\ kpc[a] \in {"idle", "enter"}
        /\ (kpc' = [kpc EXCEPT ![a] = "enter"] \/ kpc' = [kpc EXCEPT ![a] = "leave"]
             \/ kpc' = [kpc EXCEPT ![a] = "join"])
    BY <1>12 DEF Kill
  <2>2. kpc'[Acceptor] \in {"start", "release"} <=> kpc[Acceptor] \in {"start", "release"}
    BY <2>1, Distinct, IInvTypes DEF Types
  <2>3. QED BY <2>1, <2>2, SameHolders DEF Holding
<1>13. ASSUME NEW a \in Actors, KillEnter(a) PROVE CountInv'
  <2>1. UNCHANGED <<refCount, life, container, proc>> /\ kpc[a] \in {"idle", "enter"}
        /\ (kpc' = [kpc EXCEPT ![a] = "enter"] \/ kpc' = [kpc EXCEPT ![a] = "leave"]
             \/ kpc' = [kpc EXCEPT ![a] = "join"])
    BY <1>13 DEF KillEnter
  <2>2. kpc'[Acceptor] \in {"start", "release"} <=> kpc[Acceptor] \in {"start", "release"}
    BY <2>1, Distinct, IInvTypes DEF Types
  <2>3. QED BY <2>1, <2>2, SameHolders DEF Holding
<1>14. ASSUME NEW a \in Actors, KillJoin(a) PROVE CountInv'
  <2>1. /\ UNCHANGED <<refCount, life, proc>>
        /\ kpc'[Acceptor] \in {"start", "release"} <=> kpc[Acceptor] \in {"start", "release"}
        /\ container' \in {"listed", "retired"} <=> container \in {"listed", "retired"}
    BY <1>14, Distinct, IInvTypes DEF KillJoin, LeaveContainer, IInv, Types, ControlInv
  <2>2. QED BY <2>1, SameHolders DEF Holding
<1>15. ASSUME NEW a \in Actors, KillClose(a) PROVE CountInv'
  <2>1. /\ UNCHANGED <<refCount, life, proc>>
        /\ kpc'[Acceptor] \in {"start", "release"} <=> kpc[Acceptor] \in {"start", "release"}
        /\ container' \in {"listed", "retired"} <=> container \in {"listed", "retired"}
    BY <1>15, Distinct, IInvTypes DEF KillClose, LeaveContainer, IInv, Types, ControlInv
  <2>2. QED BY <2>1, SameHolders DEF Holding
<1>16. ASSUME NEW a \in Actors, KillClear(a) PROVE CountInv'
  <2>1. /\ UNCHANGED <<refCount, life, container>>
        /\ kpc'[Acceptor] \in {"start", "release"} <=> kpc[Acceptor] \in {"start", "release"}
        /\ proc' = Retired
    BY <1>16, Distinct, IInvTypes DEF KillClear, IInv, Types
  <2>2. Holding' = Holding
    BY <2>1, IInvTypes DEF Holding, Retired, Types
  <2>3. QED BY <2>1, <2>2, SameHolders
<1>17. ASSUME NEW a \in Actors, KillLockContainer(a) PROVE CountInv'
  <2>1. /\ UNCHANGED <<refCount, life, proc>>
        /\ kpc'[Acceptor] \in {"start", "release"} <=> kpc[Acceptor] \in {"start", "release"}
        /\ container' \in {"listed", "retired"} <=> container \in {"listed", "retired"}
    BY <1>17, Distinct, IInvTypes DEF KillLockContainer, LeaveContainer, IInv, Types,
       ControlInv
  <2>2. QED BY <2>1, SameHolders DEF Holding
<1>18. ASSUME NEW a \in Actors, KillRemove(a) PROVE CountInv'
  <2>1. /\ UNCHANGED <<refCount, life, proc>>
        /\ kpc'[Acceptor] \in {"start", "release"} <=> kpc[Acceptor] \in {"start", "release"}
        /\ container' \in {"listed", "retired"} <=> container \in {"listed", "retired"}
    BY <1>18, Distinct, IInvTypes DEF KillRemove, LeaveContainer, IInv, Types, ControlInv
  <2>2. QED BY <2>1, SameHolders DEF Holding
<1>19. ASSUME NEW a \in Actors, KillNotify(a) PROVE CountInv'
  <2>1. /\ UNCHANGED <<refCount, life, proc>>
        /\ kpc'[Acceptor] \in {"start", "release"} <=> kpc[Acceptor] \in {"start", "release"}
        /\ container' \in {"listed", "retired"} <=> container \in {"listed", "retired"}
    BY <1>19, Distinct, IInvTypes DEF KillNotify, LeaveContainer, IInv, Types, ControlInv
  <2>2. QED BY <2>1, SameHolders DEF Holding
<1>20. ASSUME NEW a \in Actors, KillLeave(a) PROVE CountInv'
  <2>1. /\ UNCHANGED <<refCount, life, proc>>
        /\ kpc'[Acceptor] \in {"start", "release"} <=> kpc[Acceptor] \in {"start", "release"}
        /\ container' \in {"listed", "retired"} <=> container \in {"listed", "retired"}
    BY <1>20, Distinct, IInvTypes DEF KillLeave, LeaveContainer, IInv, Types, ControlInv
  <2>2. QED BY <2>1, SameHolders DEF Holding
<1>21. ASSUME NEW a \in Actors, Destroy(a) PROVE CountInv'
  <2>1. /\ kpc[a] = "free" /\ life' = "dead" /\ refCount' = refCount - 1
        /\ kpc' = [kpc EXCEPT ![a] = "idle"] /\ UNCHANGED <<container, proc>>
    BY <1>21 DEF Destroy
  <2>2. life = "dying"
    BY <2>1, Distinct DEF IInv, LifeInv
  <2>3. Holding' = Holding
    BY <2>1 DEF Holding
  <2>4. kpc'[Acceptor] \in {"start", "release"} <=> kpc[Acceptor] \in {"start", "release"}
    BY <2>1, Distinct, IInvTypes DEF Types
  <2>5. Cardinality(Holding) \in Nat
    BY HoldingCount
  <2>6. QED BY <2>1, <2>2, <2>3, <2>4, <2>5 DEF IInv, CountInv, Holders
<1>22. ASSUME NEW a \in Actors, NEW p \in Packets, DrainProcessor(a, p) PROVE CountInv'
  <2>1. /\ proc[p] \in {"listed", "retired"} /\ refCount' = refCount - 1
        /\ proc' = [proc EXCEPT ![p] = "destroyed"] /\ UNCHANGED <<life, kpc, container>>
    BY <1>22 DEF DrainProcessor
  <2>2. p \in Holding /\ Holding' = Holding \ {p}
    BY <2>1, IInvTypes DEF Holding, Types
  <2>3. /\ Cardinality(Holding') = Cardinality(Holding) - 1
        /\ Cardinality(Holding) \in Nat
    BY <2>2, HoldingSet, OneLess, HoldingCount
  <2>4. QED BY <2>1, <2>3 DEF IInv, CountInv, Holders
<1>23. QED
  BY <1>1, <1>2, <1>3, <1>4, <1>5, <1>6, <1>7, <1>8, <1>9, <1>10, <1>11, <1>12, <1>13,
     <1>14, <1>15, <1>16, <1>17, <1>18, <1>19, <1>20, <1>21, <1>22 DEF Next,
     ThreadStep, ProcThread, KillStep

-----------------------------------------------------------------------------
(* TypeOK in three parts and the count, so that a step is checked against   *)
(* what it changes.                                                        *)
ConnectionType ==
  /\ options \in Options
  /\ sent \in 0..MaxPackets /\ peerClosed \in BOOLEAN
  /\ rcvd \in 0..sent
  /\ sock \in {"open", "shut", "closing", "invalid"}
  /\ closes \in 0..2

ObjectType ==
  /\ life \in {"alive", "dying", "dead"}
  /\ destroyer \in Actors \cup {Free}
  /\ container \in {"listed", "retired", "gone"}
  /\ contLock \in Actors \cup {Free}
  /\ sockLock \in Actors \cup {Free}

ControlType ==
  /\ proc \in [Packets -> {"none", "listed", "retired", "destroyed"}]
  /\ pth \in [Packets -> {"none", "started", "incall", "ended"}]
  /\ tpc \in {"unstarted", "new", "recv", "callback", "limit", "ending", "closing",
              "clear", "lock", "remove", "notify", "ended", "killed", "crashed"}
  /\ kpc \in [Actors -> {"idle", "enter", "join", "close", "clear", "lock",
                         "remove", "notify", "leave", "free", "start", "release"}]
  /\ calls \in Seq({"new", "received", "disconnect"} \X Nat)

LEMMA TypeParts ==
  TypeOK <=> ConnectionType /\ ObjectType /\ ControlType /\ refCount \in 0..(2 + MaxPackets)
BY DEF TypeOK, ConnectionType, ObjectType, ControlType

(* Types of the connection. *)
LEMMA ConnectionTypeKept == IInv /\ [Next]_vars => ConnectionType'
<1> SUFFICES ASSUME IInv, [Next]_vars PROVE ConnectionType'
  OBVIOUS
<1> USE DEF netVars, sockVars, objectVars, listVars, procVars
<1>1. CASE UNCHANGED <<options, sent, peerClosed, rcvd, sock, closes>>
  BY <1>1, TypeParts DEF IInv, ConnectionType
<1>2. CASE \/ ServerClear \/ RemoverRelease \/ AcceptorStart \/ AcceptorRelease
         \/ ThreadNew \/ ThreadReturn \/ ThreadLimit \/ ThreadEnd
         \/ ThreadClear \/ ThreadLockContainer \/ ThreadRemove \/ ThreadNotify
         \/ ThreadCrash \/ (\E p \in Packets : ProcReceive(p))
         \/ (\E p \in Packets : ProcReturn(p))
         \/ (\E p \in Packets : ProcDestroy(p)) \/ (\E a \in Actors : Kill(a))
         \/ (\E a \in Actors : KillJoin(a)) \/ (\E a \in Actors : KillClear(a))
         \/ (\E a \in Actors : KillLockContainer(a))
         \/ (\E a \in Actors : KillRemove(a))
         \/ (\E a \in Actors : KillNotify(a))
         \/ (\E a \in Actors : KillLeave(a)) \/ (\E a \in Actors : Destroy(a))
         \/ (\E a \in Actors, p \in Packets : DrainProcessor(a, p))
         \/ UNCHANGED vars
  <2>1. UNCHANGED <<options, sent, peerClosed, rcvd, sock, closes>>
    BY <1>2 DEF ServerClear, RemoverRelease, AcceptorStart, AcceptorRelease, ThreadNew,
       ThreadReturn, ThreadLimit, ThreadEnd, ThreadClear, ThreadLockContainer,
       ThreadRemove, ThreadNotify, ThreadCrash, ProcReceive, ProcReturn, ProcDestroy,
       Kill, KillJoin, KillClear, KillLockContainer, KillRemove, KillNotify, KillLeave,
       Destroy, DrainProcessor, vars
  <2>2. QED BY <1>1, <2>1
<1>3. CASE PeerSend
  <2>1. ConnectionType /\ DescriptorInv
    BY TypeParts DEF IInv
  <2>2. QED BY <1>3, <2>1, Distinct DEF PeerSend, ConnectionType, DescriptorInv,
     Serving, Early
<1>4. CASE PeerClose
  <2>1. ConnectionType /\ DescriptorInv
    BY TypeParts DEF IInv
  <2>2. QED BY <1>4, <2>1, Distinct DEF PeerClose, ConnectionType, DescriptorInv,
     Serving, Early
<1>5. CASE ThreadReceive
  <2>1. ConnectionType /\ DescriptorInv
    BY TypeParts DEF IInv
  <2>2. QED BY <1>5, <2>1, Distinct DEF ThreadReceive, ConnectionType, DescriptorInv,
     Serving, Early
<1>6. CASE ThreadSpawn
  <2>1. ConnectionType /\ DescriptorInv
    BY TypeParts DEF IInv
  <2>2. QED BY <1>6, <2>1, Distinct DEF ThreadSpawn, ConnectionType, DescriptorInv,
     Serving, Early
<1>7. CASE ThreadClose
  <2>1. ConnectionType /\ DescriptorInv
    BY TypeParts DEF IInv
  <2>2. QED BY <1>7, <2>1, Distinct DEF ThreadClose, ConnectionType, DescriptorInv,
     Serving, Early
<1>8. CASE ThreadInvalidate
  <2>1. ConnectionType /\ DescriptorInv
    BY TypeParts DEF IInv
  <2>2. QED BY <1>8, <2>1, Distinct DEF ThreadInvalidate, ConnectionType,
     DescriptorInv, Serving, Early
<1>9. ASSUME NEW a \in Actors, KillEnter(a) PROVE ConnectionType'
  <2>1. ConnectionType /\ DescriptorInv
    BY TypeParts DEF IInv
  <2>2. QED BY <1>9, <2>1, Distinct DEF KillEnter, ConnectionType, DescriptorInv,
     Serving, Early
<1>10. ASSUME NEW a \in Actors, KillClose(a) PROVE ConnectionType'
  <2>1. ConnectionType /\ DescriptorInv
    BY TypeParts DEF IInv
  <2>2. QED BY <1>10, <2>1, Distinct DEF KillClose, ConnectionType, DescriptorInv,
     Serving, Early
<1>11. QED
  BY <1>1, <1>2, <1>3, <1>4, <1>5, <1>6, <1>7, <1>8, <1>9, <1>10 DEF Next, ThreadStep,
     ProcThread, KillStep

(* Types of the object. *)
LEMMA ObjectTypeKept == IInv /\ [Next]_vars => ObjectType'
<1> SUFFICES ASSUME IInv, [Next]_vars PROVE ObjectType'
  OBVIOUS
<1> USE DEF netVars, sockVars, objectVars, listVars, procVars
<1>1. CASE UNCHANGED <<life, destroyer, container, contLock, sockLock>>
  BY <1>1, TypeParts DEF IInv, ObjectType
<1>2. CASE \/ AcceptorStart \/ PeerSend \/ PeerClose \/ ThreadNew
         \/ ThreadReceive \/ ThreadReturn \/ ThreadSpawn \/ ThreadLimit
         \/ ThreadEnd \/ ThreadClose \/ ThreadInvalidate \/ ThreadClear
         \/ ThreadNotify \/ ThreadCrash \/ (\E p \in Packets : ProcReceive(p))
         \/ (\E p \in Packets : ProcReturn(p)) \/ (\E a \in Actors : Kill(a))
         \/ (\E a \in Actors : KillJoin(a)) \/ (\E a \in Actors : KillClose(a))
         \/ (\E a \in Actors : KillClear(a))
         \/ (\E a \in Actors : KillNotify(a))
         \/ (\E a \in Actors, p \in Packets : DrainProcessor(a, p))
         \/ UNCHANGED vars
  <2>1. UNCHANGED <<life, destroyer, container, contLock, sockLock>>
    BY <1>2 DEF AcceptorStart, PeerSend, PeerClose, ThreadNew, ThreadReceive,
       ThreadReturn, ThreadSpawn, ThreadLimit, ThreadEnd, ThreadClose,
       ThreadInvalidate, ThreadClear, ThreadNotify, ThreadCrash, ProcReceive,
       ProcReturn, Kill, KillJoin, KillClose, KillClear, KillNotify, DrainProcessor,
       vars
  <2>2. QED BY <1>1, <2>1
<1>3. CASE ServerClear
  <2>1. ObjectType
    BY TypeParts DEF IInv
  <2>2. QED BY <1>3, <2>1, Distinct DEF ServerClear, ReleaseRef, LeaveContainer,
     ObjectType
<1>4. CASE AcceptorRelease
  <2>1. ObjectType
    BY TypeParts DEF IInv
  <2>2. QED BY <1>4, <2>1, Distinct DEF AcceptorRelease, ReleaseRef, LeaveContainer,
     ObjectType
<1>5. CASE RemoverRelease
  <2>1. ObjectType
    BY TypeParts DEF IInv
  <2>2. QED BY <1>5, <2>1, Distinct DEF RemoverRelease, ReleaseRef, LeaveContainer,
     ObjectType
<1>6. CASE ThreadLockContainer
  <2>1. ObjectType
    BY TypeParts DEF IInv
  <2>2. QED BY <1>6, <2>1, Distinct DEF ThreadLockContainer, ReleaseRef,
     LeaveContainer, ObjectType
<1>7. CASE ThreadRemove
  <2>1. ObjectType
    BY TypeParts DEF IInv
  <2>2. QED BY <1>7, <2>1, Distinct DEF ThreadRemove, ReleaseRef, LeaveContainer,
     ObjectType
<1>8. ASSUME NEW p \in Packets, ProcDestroy(p) PROVE ObjectType'
  <2>1. ObjectType
    BY TypeParts DEF IInv
  <2>2. QED BY <1>8, <2>1, Distinct DEF ProcDestroy, ReleaseRef, LeaveContainer,
     ObjectType
<1>9. ASSUME NEW a \in Actors, KillEnter(a) PROVE ObjectType'
  <2>1. ObjectType
    BY TypeParts DEF IInv
  <2>2. QED BY <1>9, <2>1, Distinct DEF KillEnter, ReleaseRef, LeaveContainer, ObjectType
<1>10. ASSUME NEW a \in Actors, KillLockContainer(a) PROVE ObjectType'
  <2>1. ObjectType
    BY TypeParts DEF IInv
  <2>2. QED BY <1>10, <2>1, Distinct DEF KillLockContainer, ReleaseRef, LeaveContainer,
     ObjectType
<1>11. ASSUME NEW a \in Actors, KillRemove(a) PROVE ObjectType'
  <2>1. ObjectType
    BY TypeParts DEF IInv
  <2>2. QED BY <1>11, <2>1, Distinct DEF KillRemove, ReleaseRef, LeaveContainer,
     ObjectType
<1>12. ASSUME NEW a \in Actors, KillLeave(a) PROVE ObjectType'
  <2>1. ObjectType
    BY TypeParts DEF IInv
  <2>2. QED BY <1>12, <2>1, Distinct DEF KillLeave, ReleaseRef, LeaveContainer, ObjectType
<1>13. ASSUME NEW a \in Actors, Destroy(a) PROVE ObjectType'
  <2>1. ObjectType
    BY TypeParts DEF IInv
  <2>2. QED BY <1>13, <2>1, Distinct DEF Destroy, ReleaseRef, LeaveContainer, ObjectType
<1>14. QED
  BY <1>1, <1>2, <1>3, <1>4, <1>5, <1>6, <1>7, <1>8, <1>9, <1>10, <1>11, <1>12, <1>13
     DEF Next, ThreadStep, ProcThread, KillStep

(* Types of the threads and their callbacks. *)
LEMMA ControlTypeKept == IInv /\ [Next]_vars => ControlType'
<1> SUFFICES ASSUME IInv, [Next]_vars PROVE ControlType'
  OBVIOUS
<1> USE DEF netVars, sockVars, objectVars, listVars, procVars
<1>1. CASE UNCHANGED <<proc, pth, tpc, kpc, calls>>
  BY <1>1, TypeParts DEF IInv, ControlType
<1>2. CASE \/ ServerClear \/ PeerSend \/ PeerClose \/ UNCHANGED vars
  <2>1. UNCHANGED <<proc, pth, tpc, kpc, calls>>
    BY <1>2 DEF ServerClear, PeerSend, PeerClose, vars
  <2>2. QED BY <1>1, <2>1
<1>3. CASE AcceptorStart
  <2>1. ControlType
    BY TypeParts DEF IInv
  <2>2. QED BY <1>3, <2>1, Distinct DEF AcceptorStart, ReleaseRef, Retired, ControlType
<1>4. CASE AcceptorRelease
  <2>1. ControlType
    BY TypeParts DEF IInv
  <2>2. QED BY <1>4, <2>1, Distinct DEF AcceptorRelease, ReleaseRef, Retired, ControlType
<1>5. CASE RemoverRelease
  <2>1. ControlType
    BY TypeParts DEF IInv
  <2>2. QED BY <1>5, <2>1, Distinct DEF RemoverRelease, ReleaseRef, Retired, ControlType
<1>6. CASE ThreadNew
  <2>1. ControlType
    BY TypeParts DEF IInv
  <2>2. Callbacks!OnNewConnection \in {"new", "received", "disconnect"} \X Nat
    BY IInvTypes, Distinct DEF Types, Packets, Callbacks!OnNewConnection,
       Callbacks!OnReceived, Callbacks!OnDisconnect
  <2>3. calls' = Append(calls, Callbacks!OnNewConnection)
    BY <1>6 DEF ThreadNew
  <2>4. calls' \in Seq({"new", "received", "disconnect"} \X Nat)
    BY <2>1, <2>2, <2>3 DEF ControlType
  <2>5. QED BY <1>6, <2>1, <2>4, Distinct DEF ThreadNew, ControlType
<1>7. CASE ThreadReceive
  <2>1. ControlType
    BY TypeParts DEF IInv
  <2>2. Callbacks!OnReceived(rcvd + 1) \in {"new", "received", "disconnect"} \X Nat
    BY IInvTypes, Distinct DEF Types, Packets, Callbacks!OnNewConnection,
       Callbacks!OnReceived, Callbacks!OnDisconnect
  <2>3. calls' = Append(calls, Callbacks!OnReceived(rcvd + 1))
    BY <1>7 DEF ThreadReceive
  <2>4. calls' \in Seq({"new", "received", "disconnect"} \X Nat)
    BY <2>1, <2>2, <2>3 DEF ControlType
  <2>5. QED BY <1>7, <2>1, <2>4, Distinct DEF ThreadReceive, ControlType
<1>8. CASE ThreadReturn
  <2>1. ControlType
    BY TypeParts DEF IInv
  <2>2. QED BY <1>8, <2>1, Distinct DEF ThreadReturn, ReleaseRef, Retired, ControlType
<1>9. CASE ThreadSpawn
  <2>1. ControlType
    BY TypeParts DEF IInv
  <2>2. QED BY <1>9, <2>1, Distinct DEF ThreadSpawn, ReleaseRef, Retired, ControlType
<1>10. CASE ThreadLimit
  <2>1. ControlType
    BY TypeParts DEF IInv
  <2>2. QED BY <1>10, <2>1, Distinct DEF ThreadLimit, ReleaseRef, Retired, ControlType
<1>11. CASE ThreadEnd
  <2>1. ControlType
    BY TypeParts DEF IInv
  <2>2. QED BY <1>11, <2>1, Distinct DEF ThreadEnd, ReleaseRef, Retired, ControlType
<1>12. CASE ThreadClose
  <2>1. ControlType
    BY TypeParts DEF IInv
  <2>2. QED BY <1>12, <2>1, Distinct DEF ThreadClose, ReleaseRef, Retired, ControlType
<1>13. CASE ThreadInvalidate
  <2>1. ControlType
    BY TypeParts DEF IInv
  <2>2. QED BY <1>13, <2>1, Distinct DEF ThreadInvalidate, ReleaseRef, Retired,
     ControlType
<1>14. CASE ThreadClear
  <2>1. ControlType
    BY TypeParts DEF IInv
  <2>2. QED BY <1>14, <2>1, Distinct DEF ThreadClear, ReleaseRef, Retired, ControlType
<1>15. CASE ThreadLockContainer
  <2>1. ControlType
    BY TypeParts DEF IInv
  <2>2. QED BY <1>15, <2>1, Distinct DEF ThreadLockContainer, ReleaseRef, Retired,
     ControlType
<1>16. CASE ThreadRemove
  <2>1. ControlType
    BY TypeParts DEF IInv
  <2>2. QED BY <1>16, <2>1, Distinct DEF ThreadRemove, ReleaseRef, Retired, ControlType
<1>17. CASE ThreadNotify
  <2>1. ControlType
    BY TypeParts DEF IInv
  <2>2. Callbacks!OnDisconnect \in {"new", "received", "disconnect"} \X Nat
    BY IInvTypes, Distinct DEF Types, Packets, Callbacks!OnNewConnection,
       Callbacks!OnReceived, Callbacks!OnDisconnect
  <2>3. calls' = Append(calls, Callbacks!OnDisconnect)
    BY <1>17 DEF ThreadNotify
  <2>4. calls' \in Seq({"new", "received", "disconnect"} \X Nat)
    BY <2>1, <2>2, <2>3 DEF ControlType
  <2>5. QED BY <1>17, <2>1, <2>4, Distinct DEF ThreadNotify, ControlType
<1>18. CASE ThreadCrash
  <2>1. ControlType
    BY TypeParts DEF IInv
  <2>2. QED BY <1>18, <2>1, Distinct DEF ThreadCrash, ReleaseRef, Retired, ControlType
<1>19. ASSUME NEW p \in Packets, ProcReceive(p) PROVE ControlType'
  <2>1. ControlType
    BY TypeParts DEF IInv
  <2>2. Callbacks!OnReceived(p) \in {"new", "received", "disconnect"} \X Nat
    BY IInvTypes, Distinct DEF Types, Packets, Callbacks!OnNewConnection,
       Callbacks!OnReceived, Callbacks!OnDisconnect
  <2>3. calls' = Append(calls, Callbacks!OnReceived(p))
    BY <1>19 DEF ProcReceive
  <2>4. calls' \in Seq({"new", "received", "disconnect"} \X Nat)
    BY <2>1, <2>2, <2>3 DEF ControlType
  <2>5. QED BY <1>19, <2>1, <2>4, Distinct DEF ProcReceive, ControlType
<1>20. ASSUME NEW p \in Packets, ProcReturn(p) PROVE ControlType'
  <2>1. ControlType
    BY TypeParts DEF IInv
  <2>2. QED BY <1>20, <2>1, Distinct DEF ProcReturn, ReleaseRef, Retired, ControlType
<1>21. ASSUME NEW p \in Packets, ProcDestroy(p) PROVE ControlType'
  <2>1. ControlType
    BY TypeParts DEF IInv
  <2>2. QED BY <1>21, <2>1, Distinct DEF ProcDestroy, ReleaseRef, Retired, ControlType
<1>22. ASSUME NEW a \in Actors, Kill(a) PROVE ControlType'
  <2>1. ControlType
    BY TypeParts DEF IInv
  <2>2. QED BY <1>22, <2>1, Distinct DEF Kill, ReleaseRef, Retired, ControlType
<1>23. ASSUME NEW a \in Actors, KillEnter(a) PROVE ControlType'
  <2>1. ControlType
    BY TypeParts DEF IInv
  <2>2. QED BY <1>23, <2>1, Distinct DEF KillEnter, ReleaseRef, Retired, ControlType
<1>24. ASSUME NEW a \in Actors, KillJoin(a) PROVE ControlType'
  <2>1. ControlType
    BY TypeParts DEF IInv
  <2>2. QED BY <1>24, <2>1, Distinct DEF KillJoin, ReleaseRef, Retired, ControlType
<1>25. ASSUME NEW a \in Actors, KillClose(a) PROVE ControlType'
  <2>1. ControlType
    BY TypeParts DEF IInv
  <2>2. QED BY <1>25, <2>1, Distinct DEF KillClose, ReleaseRef, Retired, ControlType
<1>26. ASSUME NEW a \in Actors, KillClear(a) PROVE ControlType'
  <2>1. ControlType
    BY TypeParts DEF IInv
  <2>2. QED BY <1>26, <2>1, Distinct DEF KillClear, ReleaseRef, Retired, ControlType
<1>27. ASSUME NEW a \in Actors, KillLockContainer(a) PROVE ControlType'
  <2>1. ControlType
    BY TypeParts DEF IInv
  <2>2. QED BY <1>27, <2>1, Distinct DEF KillLockContainer, ReleaseRef, Retired,
     ControlType
<1>28. ASSUME NEW a \in Actors, KillRemove(a) PROVE ControlType'
  <2>1. ControlType
    BY TypeParts DEF IInv
  <2>2. QED BY <1>28, <2>1, Distinct DEF KillRemove, ReleaseRef, Retired, ControlType
<1>29. ASSUME NEW a \in Actors, KillNotify(a) PROVE ControlType'
  <2>1. ControlType
    BY TypeParts DEF IInv
  <2>2. Callbacks!OnDisconnect \in {"new", "received", "disconnect"} \X Nat
    BY IInvTypes, Distinct DEF Types, Packets, Callbacks!OnNewConnection,
       Callbacks!OnReceived, Callbacks!OnDisconnect
  <2>3. calls' = Append(calls, Callbacks!OnDisconnect)
    BY <1>29 DEF KillNotify
  <2>4. calls' \in Seq({"new", "received", "disconnect"} \X Nat)
    BY <2>1, <2>2, <2>3 DEF ControlType
  <2>5. QED BY <1>29, <2>1, <2>4, Distinct DEF KillNotify, ControlType
<1>30. ASSUME NEW a \in Actors, KillLeave(a) PROVE ControlType'
  <2>1. ControlType
    BY TypeParts DEF IInv
  <2>2. QED BY <1>30, <2>1, Distinct DEF KillLeave, ReleaseRef, Retired, ControlType
<1>31. ASSUME NEW a \in Actors, Destroy(a) PROVE ControlType'
  <2>1. ControlType
    BY TypeParts DEF IInv
  <2>2. QED BY <1>31, <2>1, Distinct DEF Destroy, ReleaseRef, Retired, ControlType
<1>32. ASSUME NEW a \in Actors, NEW p \in Packets, DrainProcessor(a, p) PROVE ControlType'
  <2>1. ControlType
    BY TypeParts DEF IInv
  <2>2. QED BY <1>32, <2>1, Distinct DEF DrainProcessor, ReleaseRef, Retired, ControlType
<1>33. QED
  BY <1>1, <1>2, <1>3, <1>4, <1>5, <1>6, <1>7, <1>8, <1>9, <1>10, <1>11, <1>12, <1>13,
     <1>14, <1>15, <1>16, <1>17, <1>18, <1>19, <1>20, <1>21, <1>22, <1>23, <1>24,
     <1>25, <1>26, <1>27, <1>28, <1>29, <1>30, <1>31, <1>32 DEF Next, ThreadStep,
     ProcThread, KillStep

(* The count stays in its range: a dying object is in no list and with no  *)
(* accept loop.                                                            *)
LEMMA CountStaysSmall == LifeInv /\ CountInv => refCount \in 0..(2 + MaxPackets)
<1> SUFFICES ASSUME LifeInv, CountInv PROVE refCount \in 0..(2 + MaxPackets)
  OBVIOUS
<1>1. Cardinality(Holding) \in 0..MaxPackets /\ MaxPackets \in Nat
  BY HoldingSet, PacketSets, Distinct
<1>2. life = "dying" => container = "gone" /\ kpc[Acceptor] \notin {"start", "release"}
  BY DEF LifeInv
<1>3. refCount = Holders + Cardinality(Holding)
  BY DEF CountInv
<1> HIDE DEF Holding
<1>4. QED BY <1>1, <1>2, <1>3 DEF Holders

(* The connection as the accept loop hands it over. *)
LEMMA InitIInv == Init => IInv
<1> SUFFICES ASSUME Init PROVE IInv
  OBVIOUS
<1>1. ControlInv
  BY Distinct DEF Init, ControlInv, Late, ThreadGone, Graceful
<1>2. DescriptorInv
  BY DEF Init, DescriptorInv, Serving, Early, Closed
<1>3. LifeInv
  BY Distinct DEF Init, LifeInv, Releasers, Quiet, ThreadGone
<1>4. ProcInv
  BY DEF Init, ProcInv
<1>5. Running = {} /\ Listed = {} /\ Holding = {}
  BY DEF Init, Running, Listed, Holding
<1>6. Cardinality(Running) = 0 /\ Cardinality(Listed) = 0 /\ Cardinality(Holding) = 0
  BY <1>5, FS_EmptySet
<1>7. options.max \in Nat
  BY SocketAssumption DEF Init
<1>8. LimitInv
  <2> HIDE DEF Running, Listed
  <2>1. QED BY <1>5, <1>6, <1>7 DEF LimitInv
<1>9. ToldInv
  <2>1. Told = {}
    BY DEF Init, Told
  <2>2. Cardinality(Told) = 0
    BY <2>1, FS_EmptySet
  <2>3. QED BY <2>1, <2>2 DEF ToldInv
<1>10. OrderInv
  BY DEF Init, OrderInv, ThreadGone
<1>11. CountInv
  BY <1>6, Distinct DEF Init, CountInv, Holders
<1>12. ConnectionType
  <2>1. 0 \in 0..MaxPackets /\ 0 \in 0..0 /\ 0 \in 0..2
    BY Distinct
  <2>2. QED BY <2>1 DEF Init, ConnectionType
<1>13. ObjectType /\ ControlType
  BY Distinct DEF Init, ObjectType, ControlType
<1>14. TypeOK
  BY <1>3, <1>11, <1>12, <1>13, CountStaysSmall, TypeParts
<1>15. QED
  BY <1>1, <1>2, <1>3, <1>4, <1>8, <1>9, <1>10, <1>11, <1>14 DEF IInv

LEMMA StepIInv == IInv /\ [Next]_vars => IInv'
<1> SUFFICES ASSUME IInv, [Next]_vars PROVE IInv'
  OBVIOUS
<1>1. LifeInv' /\ CountInv'
  BY LifeInvKept, CountInvKept
<1>2. refCount' \in 0..(2 + MaxPackets)
  <2>1. (LifeInv /\ CountInv => refCount \in 0..(2 + MaxPackets))'
    BY CountStaysSmall, PTL
  <2>2. QED BY <1>1, <2>1
<1>3. TypeOK'
  BY <1>2, ConnectionTypeKept, ObjectTypeKept, ControlTypeKept
     DEF TypeOK, ConnectionType, ObjectType, ControlType
<1>4. QED
  BY <1>1, <1>3, ControlInvKept, DescriptorInvKept, ProcInvKept, LimitInvKept, ToldInvKept,
     OrderInvKept DEF IInv

LEMMA InvariantHolds == Spec => []IInv
<1>1. QED BY InitIInv, StepIInv, PTL DEF Spec

(* The invariant says what the application relies on. *)
LEMMA InvariantIsEnough == IInv => SocketIsSound
<1> SUFFICES ASSUME IInv PROVE SocketIsSound
  OBVIOUS
<1>1. TypeOK /\ RefCountExact
  BY CountIsExact DEF IInv
<1>2. OwnerOutlivesProcessors
  BY DEF IInv, LifeInv, ProcInv, OwnerOutlivesProcessors
<1>3. DisconnectAtMostOnce
  BY DEF IInv, ToldInv, DescriptorInv, Told, Graceful, DisconnectAtMostOnce
<1>4. CallbacksBounded
  <2> DEFINE C == {p \in Packets : pth[p] = "incall"}
  <2>1. C \subseteq Running
    BY DEF Running
  <2>2. C \subseteq Packets
    OBVIOUS
  <2> HIDE DEF C
  <2>3. Cardinality(C) <= Cardinality(Running)
    BY <2>1, HoldingSet, NoMore
  <2>4. Cardinality(C) \in Nat /\ Cardinality(Running) \in Nat /\ options.max \in Nat
    BY <2>2, HoldingSet, PacketSets, IInvTypes, Distinct DEF Types
  <2>5. options.max > 0 => Cardinality(C) <= options.max
    <3> HIDE DEF Running
    <3>1. QED BY <2>3, <2>4 DEF IInv, LimitInv
  <2>6. QED BY <2>5 DEF C, CallbacksBounded
<1>5. QED BY <1>1, <1>2, <1>3, <1>4 DEF SocketIsSound

(* Whoever ends a connection and however many processors run: the count is *)
(* exact, a processor's owner outlives it, no more callbacks run at a time *)
(* than allowed, and with an infinite wait the end is told and the         *)
(* descriptor closed at most once.                                         *)
THEOREM SocketStaysSound == Spec => []SocketIsSound
<1>1. QED BY InvariantHolds, InvariantIsEnough, PTL

-----------------------------------------------------------------------------
(* The settings stay, and only these steps call the application.           *)
LEMMA WhoCalls ==
  ASSUME [Next]_vars
  PROVE  /\ options' = options
         /\ \/ ThreadNew \/ ThreadReceive \/ ThreadNotify
            \/ \E p \in Packets : ProcReceive(p)
            \/ \E a \in Actors : KillNotify(a)
            \/ UNCHANGED calls
<1> USE DEF netVars, sockVars, objectVars, listVars, procVars
<1>1. CASE \/ AcceptorStart \/ AcceptorRelease \/ ServerClear \/ RemoverRelease
           \/ PeerSend \/ PeerClose \/ ThreadCrash \/ UNCHANGED vars
  BY <1>1 DEF AcceptorStart, AcceptorRelease, ServerClear, RemoverRelease, PeerSend,
     PeerClose, ThreadCrash, vars
<1>2. CASE ThreadStep
  BY <1>2 DEF ThreadStep, ThreadNew, ThreadReceive, ThreadReturn, ThreadSpawn, ThreadLimit,
     ThreadEnd, ThreadClose, ThreadInvalidate, ThreadClear, ThreadLockContainer,
     ThreadRemove, ThreadNotify
<1>3. ASSUME NEW p \in Packets, ProcThread(p) \/ ProcDestroy(p)
      PROVE  options' = options /\ (ProcReceive(p) \/ UNCHANGED calls)
  BY <1>3 DEF ProcThread, ProcReceive, ProcReturn, ProcDestroy
<1>4. ASSUME NEW a \in Actors, Kill(a) \/ KillStep(a)
      PROVE  options' = options /\ (KillNotify(a) \/ UNCHANGED calls)
  BY <1>4 DEF Kill, KillStep, KillEnter, KillJoin, KillClose, KillClear, KillLockContainer,
     KillRemove, KillNotify, KillLeave, Destroy, DrainProcessor
<1>5. QED BY <1>1, <1>2, <1>3, <1>4 DEF Next

(* A step tells the application about an ordered connection what comes     *)
(* next, or nothing.                                                       *)
LEMMA StepCalls ==
  IInv /\ [Next]_vars => [Callbacks!Next]_(IF Ordered THEN calls ELSE <<>>)
<1> SUFFICES ASSUME IInv, [Next]_vars
             PROVE  [Callbacks!Next]_(IF Ordered THEN calls ELSE <<>>)
  OBVIOUS
<1>1. Ordered' = Ordered
  BY WhoCalls DEF Ordered
<1>2. CASE ~Ordered
  BY <1>1, <1>2
<1>3. CASE Ordered
  <2>1. calls \in Seq({"new", "received", "disconnect"} \X Nat)
    BY DEF IInv, TypeOK
  <2>2. CASE ThreadNew
    <3>1. tpc = "new" /\ calls' = Append(calls, Callbacks!OnNewConnection)
      BY <2>2 DEF ThreadNew
    <3>2. calls = <<>>
      BY <1>3, <3>1 DEF IInv, OrderInv
    <3>3. calls' = <<Callbacks!OnNewConnection>>
      BY <3>1, <3>2
    <3>4. QED BY <1>1, <1>3, <3>2, <3>3 DEF Callbacks!Next, Callbacks!Announce
  <2>3. ASSUME ~ThreadGone, tpc \notin {"unstarted", "new"}
        PROVE  Len(calls) = rcvd + 1 /\ calls # <<>> /\ Callbacks!Connected
    <3>1. Len(calls) = rcvd + 1 /\ calls[Len(calls)] # Callbacks!OnDisconnect
      BY <1>3, <2>3 DEF IInv, OrderInv
    <3>2. rcvd \in Nat
      BY IInvTypes, Distinct DEF Types
    <3>3. calls # <<>>
      BY <2>1, <3>1, <3>2
    <3>4. QED BY <1>3, <3>1, <3>3 DEF Callbacks!Connected
  <2>4. CASE ThreadReceive
    <3>1. /\ calls' = Append(calls, Callbacks!OnReceived(rcvd + 1))
          /\ ~ThreadGone /\ tpc \notin {"unstarted", "new"}
      BY <2>4 DEF ThreadReceive, ThreadGone
    <3>2. calls' = Append(calls, Callbacks!OnReceived(Len(calls))) /\ Callbacks!Connected
      BY <2>3, <3>1
    <3>3. QED BY <1>1, <1>3, <3>2 DEF Callbacks!Next, Callbacks!Deliver
  <2>5. CASE ThreadNotify
    <3>1. /\ calls' = Append(calls, Callbacks!OnDisconnect)
          /\ ~ThreadGone /\ tpc \notin {"unstarted", "new"}
      BY <2>5 DEF ThreadNotify, ThreadGone
    <3>2. QED BY <1>1, <1>3, <2>3, <3>1 DEF Callbacks!Next, Callbacks!Disconnect
  <2>6. ASSUME NEW p \in Packets, ProcReceive(p) PROVE FALSE
    BY <1>3, <2>6 DEF ProcReceive, IInv, ProcInv, Ordered
  <2>7. ASSUME NEW a \in Actors, KillNotify(a) PROVE FALSE
    BY <1>3, <2>7 DEF KillNotify, IInv, ControlInv, Late, Ordered, Graceful
  <2>8. CASE UNCHANGED calls
    BY <1>1, <2>8
  <2>9. QED BY <2>2, <2>4, <2>5, <2>6, <2>7, <2>8, WhoCalls
<1>4. QED BY <1>2, <1>3

(* With an infinite wait, and packets that are not handed to threads of    *)
(* their own, the application sees the connection as ConnectionCallbacks   *)
(* promises, whoever ends it and when (epAsyncTcpSocket.cpp).              *)
THEOREM CallsKeepOrder == Spec => KeepsCallbackOrder
<1>1. Init => Callbacks!Init
  BY DEF Init, Callbacks!Init
<1>2. QED
  BY <1>1, StepCalls, InvariantHolds, PTL DEF Spec, KeepsCallbackOrder, Callbacks!Spec

=============================================================================
