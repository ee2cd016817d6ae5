------------------------ MODULE AsyncUdpServerProofs ------------------------
(***************************************************************************)
(* Proofs about AsyncUdpServer, for any clients, limits, options, sockets  *)
(* and datagrams: its type invariant; that a client is served by one       *)
(* socket, and no more clients than the limit are; that a connection ends  *)
(* only because its own client or the application ended it; that the       *)
(* thread of a socket sleeps on a packet only if it missed the packet; and *)
(* that, with an infinite wait, every socket calls the application as      *)
(* ConnectionCallbacks says.                                               *)
(***************************************************************************)
EXTENDS AsyncUdpServer, FiniteSetTheorems, TLAPS

Born == 1..created

(* The loop has a socket in its hand where it uses one, and a datagram     *)
(* that it has not handed on yet is not counted.                           *)
HandInv ==
  /\ lpc \in {"add", "start", "first", "release"} => cur \in Born
  /\ lpc = "push" => created < MaxSockets
  /\ listed \cup retired \subseteq Born
  /\ \A s \in Sockets :
       added[s] <= arrived /\ (lpc \in {"find", "add", "push", "start", "first"} =>
                                 added[s] < arrived)

(* A socket is referred to from its creation on; nobody has touched one    *)
(* that was not created, and whoever is in KillConnection is in somebody's.*)
BornInv ==
  /\ \A s \in Sockets :
       IF s \in Born
       THEN refCount[s] >= 1
       ELSE tpc[s] = "unstarted" /\ calls[s] = <<>> /\ \A a \in Actors : target[a] # s
  /\ \A a \in Actors : kpc[a] # "idle" => target[a] \in Born

(* A thread that found its queue empty and meets packets missed one.       *)
SleepInv ==
  \A s \in Sockets :
    tpc[s] \in {"suspend", "suspended"} /\ queue[s] # <<>> => s \in missed

(* A socket whose thread is about to be started has not been met by        *)
(* anybody else; KillConnection goes on only after the thread; the list    *)
(* (or the queue of its remover) and the loop refer to a socket once each. *)
LatePlaces == {"drain", "remove", "notify", "leave"}

StartInv ==
  /\ lpc = "start" =>
       /\ tpc[cur] = "unstarted" /\ calls[cur] = <<>>
       /\ \A a \in Actors : target[a] # cur
  /\ \A a \in Actors : kpc[a] \in LatePlaces => tpc[target[a]] = "ended"
  /\ lpc \in {"start", "first", "release"} /\ cur \in listed \cup retired =>
       refCount[cur] = 2

(* Without ShutdownAllClient, a socket that serves is listed.              *)
ListInv ==
  ~options.shutdowns =>
    /\ Serving \subseteq listed
    /\ lpc = "start" => cur \in listed

(* The listed sockets are of different clients and within the limit, also  *)
(* when the one is added that the loop has decided to add.                 *)
MatchInv ==
  ~options.shutdowns =>
    /\ \A s, r \in listed : addr[s] = addr[r] => s = r
    /\ lpc = "push" => \A s \in listed : addr[s] # from
    /\ options.limit > 0 =>
         /\ Cardinality(listed) <= options.limit
         /\ lpc = "push" => Cardinality(listed) < options.limit

(* Without failures of recvfrom: whatever leads to the end of a connection *)
(* began with an empty datagram of its client or with the application.     *)
Ending(s) ==
  \/ tpc[s] \in {"drain", "remove", "notify", "told", "ended"}
  \/ stopEvent[s]
  \/ \E i \in 1..Len(queue[s]) : queue[s][i] = 0
  \/ \E a \in Actors : kpc[a] # "idle" /\ target[a] = s
  \/ s \in Born \ listed
  \/ \E i \in 1..Len(calls[s]) : calls[s][i] = <<"disconnect", 0>>

PeerInv ==
  ~options.faults /\ ~options.shutdowns =>
    /\ \A s \in Sockets : Ending(s) => s \in asked
    /\ lpc = "find" /\ ~data => \A s \in Sockets : addr[s] = from => s \in asked
    /\ lpc = "add" /\ ~data => cur \in asked
    /\ lpc \in {"push", "start", "first"} => data

(* The inductive invariant. *)
IInv == TypeOK /\ HandInv /\ BornInv /\ SleepInv /\ StartInv /\ ListInv /\ MatchInv /\ PeerInv

-----------------------------------------------------------------------------
(* The elements of a sequence and of a longer one. *)
LEMMA AppendAt ==
  ASSUME NEW S, NEW q \in Seq(S), NEW c \in S, NEW i \in 1..Len(Append(q, c))
  PROVE  (i \in 1..Len(q) /\ Append(q, c)[i] = q[i]) \/ Append(q, c)[i] = c
OBVIOUS

(* The callbacks. *)
LEMMA TheCalls ==
  ASSUME NEW s
  PROVE  /\ Callbacks(s)!OnNewConnection = <<"new", 0>>
         /\ Callbacks(s)!OnDisconnect = <<"disconnect", 0>>
         /\ \A i : Callbacks(s)!OnReceived(i) = <<"received", i>>
BY DEF Callbacks!OnNewConnection, Callbacks!OnDisconnect, Callbacks!OnReceived

(* The places of the threads, and other types. *)
Numbers == 0..MaxDatagrams
CallSet == {"new", "received", "disconnect"} \X Nat
ThreadPlaces ==
  {"unstarted", "new", "top", "check", "suspend", "suspended", "callback", "drain",
   "remove", "notify", "told", "ended"}
ServingPlaces == {"new", "top", "check", "suspend", "suspended", "callback"}
EndingPlaces == {"drain", "remove", "notify", "told", "ended"}

KillPlaces ==
  {"idle", "enter", "resume", "join", "drain", "remove", "notify", "leave"}
Impatient == {"drain", "remove", "notify"}
LifePlaces == {"unborn", "alive", "dying", "dead"}

(* The inductive invariant holds at first, and every step keeps it. *)
LEMMA InitIInv == Init => IInv
<1> SUFFICES ASSUME Init PROVE IInv
  OBVIOUS
<1> USE UdpServerAssumption DEF Init, Actors, Loop, Remover, User, Sockets, NoSocket, Born
<1>1. TypeOK
  <2>1. queue \in [Sockets -> Seq(0..MaxDatagrams)] /\ added \in [Sockets -> 0..MaxDatagrams]
    OBVIOUS
  <2>2. calls \in [Sockets -> Seq({"new", "received", "disconnect"} \X Nat)]
    OBVIOUS
  <2>3. /\ addr \in [Sockets -> Clients \cup {NoClient}]
        /\ refCount \in [Sockets -> 0..2] /\ stopEvent \in [Sockets -> BOOLEAN]
        /\ life \in [Sockets -> {"unborn", "alive", "dying", "dead"}]
    OBVIOUS
  <2>4. /\ tpc \in [Sockets -> ThreadPlaces] /\ kpc \in [Actors -> KillPlaces]
        /\ target \in [Actors -> Sockets \cup {NoSocket}]
    BY DEF ThreadPlaces, KillPlaces
  <2>5. /\ options \in Options /\ arrived \in 0..MaxDatagrams /\ created \in 0..MaxSockets
        /\ from \in Clients \cup {NoClient} /\ cur \in Sockets \cup {NoSocket}
        /\ lpc = "receive" /\ data = FALSE /\ crashed = FALSE
        /\ listed = {} /\ retired = {} /\ asked = {} /\ missed = {}
    OBVIOUS
  <2> HIDE DEF Init
  <2>6. QED
    BY <2>1, <2>2, <2>3, <2>4, <2>5 DEF TypeOK, ThreadPlaces, KillPlaces
<1>2. HandInv /\ BornInv /\ SleepInv
  BY DEF HandInv, BornInv, SleepInv
<1>3. StartInv /\ ListInv
  BY DEF StartInv, ListInv, Serving, LatePlaces
<1>4. MatchInv
  BY <1>1, FS_EmptySet DEF MatchInv, TypeOK
<1>5. PeerInv
  BY DEF PeerInv, Ending
<1>6. QED
  BY <1>1, <1>2, <1>3, <1>4, <1>5 DEF IInv

(* What the steps below need of the numbers of the sockets. *)
BornFacts ==
  /\ Born \subseteq Sockets /\ created + 1 \notin Born /\ NoSocket \notin Sockets
  /\ created < MaxSockets => created + 1 \in Sockets
  /\ created' = created => Born' = Born
  /\ created' = created + 1 => Born' = Born \cup {created + 1}
  /\ \A a \in Actors : kpc[a] # "idle" => target[a] \in Sockets

(* The sockets the loop, the remover and a KillConnection use exist. *)
LEMMA BornSockets == IInv => BornFacts
<1> SUFFICES ASSUME IInv PROVE BornFacts
  OBVIOUS
<1>1. created \in Nat /\ created <= MaxSockets /\ MaxSockets \in Nat
  BY UdpServerAssumption DEF IInv, TypeOK
<1>2. /\ Born \subseteq Sockets /\ created + 1 \notin Born /\ NoSocket \notin Sockets
      /\ created < MaxSockets => created + 1 \in Sockets
  BY <1>1 DEF Born, Sockets, NoSocket
<1>3. created' = created + 1 => Born' = Born \cup {created + 1}
  BY <1>1 DEF Born
<1>4. \A a \in Actors : kpc[a] # "idle" => target[a] \in Sockets
  BY <1>2 DEF IInv, BornInv
<1>5. QED
  BY <1>2, <1>3, <1>4 DEF BornFacts, Born

(* ReleaseObj: the last reference, and only that, sends its holder into    *)
(* the destructor.                                                         *)
ReleaseEffect(a, s) ==
  /\ refCount' \in [Sockets -> 0..2] /\ life' \in [Sockets -> LifePlaces]
  /\ kpc' \in [Actors -> KillPlaces] /\ target' \in [Actors -> Sockets \cup {NoSocket}]
  /\ \A r \in Sockets : r # s => refCount'[r] = refCount[r]
  /\ \A r \in Born : refCount'[r] >= 1
  /\ \A b \in Actors : target'[b] = target[b] \/ (target'[b] = s /\ refCount[s] = 1)
  /\ \A b \in Actors :
       kpc'[b] # "idle" =>
         \/ kpc[b] = kpc'[b] /\ target'[b] = target[b]
         \/ kpc'[b] = "enter" /\ target'[b] = s /\ refCount[s] = 1

(* ReleaseObj of a socket that exists leaves it a reference, or frees it. *)
LEMMA ReleaseLeavesOrFrees ==
  ASSUME IInv, NEW a \in Actors, NEW s \in Born, kpc[a] = "idle", ReleaseRef(a, s)
  PROVE  ReleaseEffect(a, s)
<1> USE DEF ReleaseEffect, LifePlaces, KillPlaces, killVars
<1>1. /\ s \in Sockets /\ refCount[s] \in 1..2
      /\ \A r \in Born : r \in Sockets /\ refCount[r] >= 1
  BY UdpServerAssumption DEF IInv, TypeOK, BornInv, Born, Sockets
<1>2. CASE refCount[s] = 1
  <2>1. /\ life' = [life EXCEPT ![s] = "dying"]
        /\ kpc' = [kpc EXCEPT ![a] = "enter"]
        /\ target' = [target EXCEPT ![a] = s]
        /\ refCount' = refCount
    BY <1>2 DEF ReleaseRef
  <2>2. QED
    BY <1>1, <1>2, <2>1 DEF IInv, TypeOK
<1>3. CASE refCount[s] # 1
  <2>1. /\ refCount' = [refCount EXCEPT ![s] = @ - 1]
        /\ UNCHANGED <<life, kpc, target>>
    BY <1>3 DEF ReleaseRef, killVars
  <2>2. refCount[s] = 2
    BY <1>1, <1>3
  <2>3. refCount' \in [Sockets -> 0..2] /\ refCount'[s] = 1
        /\ \A r \in Sockets : r # s => refCount'[r] = refCount[r]
    BY <1>1, <2>1, <2>2 DEF IInv, TypeOK
  <2>4. QED
    BY <1>1, <2>1, <2>3 DEF IInv, TypeOK
<1>4. QED
  BY <1>2, <1>3

(* Nothing became longer: the queue is what it was, or its tail, or empty. *)
Shorter(q, r) == r = q \/ r = <<>> \/ (q # <<>> /\ r = Tail(q))

(* A step of the thread of s concerns nothing but s. *)
ThreadEffect(s) ==
  /\ tpc[s] \notin {"unstarted", "suspended", "ended"}
  /\ tpc' \in [Sockets -> ThreadPlaces] /\ tpc'[s] # "unstarted"
  /\ \A r \in Sockets : r # s => tpc'[r] = tpc[r]
  /\ tpc'[s] \in ServingPlaces => tpc[s] \in ServingPlaces
  /\ tpc'[s] \in EndingPlaces =>
       \/ tpc[s] \in EndingPlaces
       \/ stopEvent[s]
       \/ queue[s] # <<>> /\ Head(queue[s]) = 0
  /\ tpc'[s] \in {"suspend", "suspended"} =>
       queue'[s] = <<>> \/ (queue' = queue /\ tpc[s] = "suspend")
  /\ queue' \in [Sockets -> Seq(Numbers)] /\ Shorter(queue[s], queue'[s])
  /\ \A r \in Sockets : r # s => queue'[r] = queue[r]
  /\ calls' \in [Sockets -> Seq(CallSet)]
  /\ \A r \in Sockets : r # s => calls'[r] = calls[r]
  /\ \/ calls'[s] = calls[s]
     \/ \E c \in CallSet :
          calls'[s] = Append(calls[s], c) /\ (c = <<"disconnect", 0>> => tpc[s] = "notify")
  /\ \/ UNCHANGED listVars
     \/ tpc[s] = "remove" /\ LeaveContainer(s) /\ tpc'[s] = "notify"
  /\ stopEvent' \in [Sockets -> BOOLEAN]
  /\ \A r \in Sockets : stopEvent'[r] => stopEvent[r]
  /\ UNCHANGED <<added, missed>>

(* What a step of the thread of s may change. *)
LEMMA ThreadMoves ==
  ASSUME IInv, NEW s \in Sockets, ThreadStep(s)
  PROVE  ThreadEffect(s)
<1> USE DEF IInv, TypeOK, ThreadEffect, Go, ThreadPlaces, ServingPlaces, EndingPlaces,
    Shorter, packetVars, listVars, Numbers
<1>1. CASE ThreadNew(s)
  <2>1. <<"new", 0>> \in CallSet /\ calls' = [calls EXCEPT ![s] = Append(@, <<"new", 0>>)]
    BY <1>1, TheCalls DEF ThreadNew, Call, CallSet
  <2>2. /\ calls' \in [Sockets -> Seq(CallSet)]
        /\ \A r \in Sockets : r # s => calls'[r] = calls[r]
        /\ calls'[s] = Append(calls[s], <<"new", 0>>)
    BY <2>1 DEF CallSet
  <2>3. QED
    BY <1>1, <2>1, <2>2 DEF ThreadNew
<1>2. CASE ThreadTop(s)
  BY <1>2 DEF ThreadTop, CallSet
<1>3. CASE Take(s)
  <2>1. queue[s] \in Seq(Numbers) /\ queue[s] # <<>>
    BY <1>3 DEF Take
  <2>2. Head(queue[s]) \in Nat /\ Tail(queue[s]) \in Seq(Numbers)
    BY <2>1, UdpServerAssumption
  <2> DEFINE c == <<"received", Head(queue[s])>>
  <2>3. c \in CallSet /\ calls' = [calls EXCEPT ![s] = Append(@, c)]
    BY <1>3, <2>2, TheCalls DEF Take, Call, CallSet
  <2>4. /\ calls' \in [Sockets -> Seq(CallSet)]
        /\ \A r \in Sockets : r # s => calls'[r] = calls[r]
        /\ calls'[s] = Append(calls[s], c)
    BY <2>3 DEF CallSet
  <2>5. c # <<"disconnect", 0>>
    OBVIOUS
  <2>6. /\ queue' \in [Sockets -> Seq(Numbers)]
        /\ \A r \in Sockets : r # s => queue'[r] = queue[r]
        /\ queue'[s] = Tail(queue[s])
    BY <1>3, <2>2 DEF Take
  <2> HIDE DEF c
  <2>7. tpc[s] = "check" /\ tpc' = [tpc EXCEPT ![s] = "callback"]
        /\ UNCHANGED <<added, missed, listed, retired, stopEvent>>
    BY <1>3 DEF Take
  <2>8. QED
    BY <2>1, <2>3, <2>4, <2>5, <2>6, <2>7
<1>4. CASE TakeEmpty(s)
  BY <1>4 DEF TakeEmpty, CallSet
<1>5. CASE NothingThere(s)
  BY <1>5 DEF NothingThere, CallSet
<1>6. CASE ThreadSuspend(s)
  BY <1>6 DEF ThreadSuspend, CallSet
<1>7. CASE ThreadReturn(s)
  BY <1>7 DEF ThreadReturn, CallSet
<1>8. CASE ThreadDrain(s)
  BY <1>8 DEF ThreadDrain, CallSet
<1>9. CASE ThreadRemove(s)
  BY <1>9 DEF ThreadRemove, CallSet
<1>10. CASE ThreadNotify(s)
  <2> DEFINE c == <<"disconnect", 0>>
  <2>1. c \in CallSet /\ calls' = [calls EXCEPT ![s] = Append(@, c)]
    BY <1>10, TheCalls DEF ThreadNotify, Call, CallSet
  <2>2. /\ calls' \in [Sockets -> Seq(CallSet)]
        /\ \A r \in Sockets : r # s => calls'[r] = calls[r]
        /\ calls'[s] = Append(calls[s], c)
    BY <2>1 DEF CallSet
  <2>3. QED
    BY <1>10, <2>1, <2>2 DEF ThreadNotify
<1>11. CASE ThreadEnd(s)
  BY <1>11 DEF ThreadEnd, CallSet
<1>12. QED
  BY <1>1, <1>2, <1>3, <1>4, <1>5, <1>6, <1>7, <1>8, <1>9, <1>10, <1>11 DEF ThreadStep

(* A step in KillConnection concerns nothing but its target. *)
KillEffect(a, t) ==
  /\ kpc' \in [Actors -> KillPlaces] /\ target' \in [Actors -> Sockets \cup {NoSocket}]
  /\ tpc' \in [Sockets -> ThreadPlaces] /\ queue' \in [Sockets -> Seq(Numbers)]
  /\ calls' \in [Sockets -> Seq(CallSet)] /\ stopEvent' \in [Sockets -> BOOLEAN]
  /\ life' \in [Sockets -> LifePlaces]
  /\ kpc[a] # "idle"
  /\ \A b \in Actors : kpc'[b] # "idle" => kpc[b] # "idle" /\ target'[b] = target[b]
  /\ \A b \in Actors : target'[b] \in {target[b], NoSocket}
  /\ \A b \in Actors :
       kpc'[b] \in LatePlaces => kpc[b] \in LatePlaces \/ tpc'[target[b]] = "ended"
  /\ \A r \in Sockets :
       /\ r # t => tpc'[r] = tpc[r] /\ calls'[r] = calls[r] /\ stopEvent'[r] = stopEvent[r]
       /\ tpc[r] = "ended" => tpc'[r] = "ended"
       /\ tpc'[r] \in {tpc[r], "ended"} \/ (tpc[r] = "suspended" /\ tpc'[r] = "top")
       /\ queue'[r] = queue[r] \/ (queue'[r] = <<>> /\ r = t /\ kpc[a] \in LatePlaces)
       /\ calls'[r] = calls[r] \/ kpc[a] = "notify"
  /\ UNCHANGED listVars \/ (kpc[a] = "remove" /\ LeaveContainer(t) /\ tpc' = tpc)
  /\ options.forever => \A b \in Actors : kpc'[b] \in Impatient => kpc[b] \in Impatient
  /\ options.forever /\ tpc'[t] = "ended" => tpc[t] = "ended"
  /\ UNCHANGED <<added, missed>>

(* What a step in KillConnection, or the destructor, may change. *)
LEMMA KillMoves ==
  ASSUME IInv, NEW a \in Actors, KillStep(a)
  PROVE  /\ target[a] \in Born /\ target[a] \in Sockets
         /\ KillEffect(a, target[a])
<1> USE DEF IInv, TypeOK, Turn, ThreadPlaces, KillPlaces, LifePlaces, packetVars, listVars,
    Numbers
<1>1. kpc[a] # "idle"
  BY DEF KillStep, KillEnter, KillResume, KillJoin, KillDrain, KillRemove, KillNotify, Leave
<1>2. target[a] \in Born /\ target[a] \in Sockets
  BY <1>1, UdpServerAssumption DEF BornInv, Born, Sockets
<1> DEFINE t == target[a]
<1> HIDE DEF t
<1>3. t = target[a] /\ t \in Sockets
  BY <1>2 DEF t
<1> USE <1>1, <1>2, <1>3 DEF KillEffect, LatePlaces, Impatient, ServingPlaces
<1>4. CASE KillEnter(a)
  <2>1. kpc[a] = "enter" /\ UNCHANGED <<queue, added, missed, listed, retired, life, tpc,
                                       calls, target>>
    BY <1>4 DEF KillEnter
  <2>2. CASE /\ kpc' = [kpc EXCEPT ![a] = "resume"]
             /\ stopEvent' = [stopEvent EXCEPT ![t] = TRUE]
    BY <2>1, <2>2 DEF CallSet
  <2>3. CASE kpc' = [kpc EXCEPT ![a] = "leave"] /\ tpc[t] = "ended" /\ stopEvent' = stopEvent
    <3>1. \A b \in Actors : kpc'[b] \in LatePlaces => kpc[b] \in LatePlaces \/ b = a
      BY <2>3
    <3>2. QED
      BY <2>1, <2>3, <3>1 DEF CallSet
  <2>4. QED
    BY <1>4, <2>2, <2>3 DEF KillEnter, Enter
<1>5. CASE KillResume(a)
  BY <1>5 DEF KillResume, CallSet
<1>6. CASE KillJoin(a)
  <2>1. kpc[a] = "join" /\ UNCHANGED <<queue, added, missed, listed, retired, life,
                                      stopEvent, calls, target>>
    BY <1>6 DEF KillJoin
  <2>2. CASE kpc' = [kpc EXCEPT ![a] = "leave"] /\ tpc' = tpc /\ tpc[t] = "ended"
    <3>1. \A b \in Actors : kpc'[b] \in LatePlaces => kpc[b] \in LatePlaces \/ b = a
      BY <2>2
    <3>2. QED
      BY <2>1, <2>2, <3>1 DEF CallSet
  <2>3. CASE /\ kpc' = [kpc EXCEPT ![a] = "drain"] /\ tpc' = [tpc EXCEPT ![t] = "ended"]
             /\ ~options.forever
    BY <2>1, <2>3 DEF CallSet
  <2>4. QED
    BY <1>6, <2>2, <2>3 DEF KillJoin, Go
<1>7. CASE KillDrain(a)
  BY <1>7 DEF KillDrain, CallSet
<1>8. CASE KillRemove(a)
  BY <1>8 DEF KillRemove, LeaveContainer, CallSet
<1>9. CASE KillNotify(a)
  <2> DEFINE c == <<"disconnect", 0>>
  <2>1. c \in CallSet /\ calls' = [calls EXCEPT ![t] = Append(@, c)]
    BY <1>9, TheCalls DEF KillNotify, Call, CallSet
  <2>2. /\ calls' \in [Sockets -> Seq(CallSet)]
        /\ \A r \in Sockets : r # t => calls'[r] = calls[r]
    BY <2>1 DEF CallSet
  <2>3. QED
    BY <1>9, <2>2 DEF KillNotify
<1>10. CASE Leave(a)
  BY <1>10 DEF Leave, CallSet, NoSocket
<1>11. KillEffect(a, t)
  BY <1>4, <1>5, <1>6, <1>7, <1>8, <1>9, <1>10 DEF KillStep
<1>12. QED
  BY <1>2, <1>11 DEF t

(* addPacket concerns nothing but the loop's socket. *)
AddEffect(s) ==
  /\ added' \in [Sockets -> Nat] /\ queue' \in [Sockets -> Seq(Numbers)]
  /\ tpc' \in [Sockets -> ThreadPlaces] /\ missed' \subseteq Sockets
  /\ \A r \in Sockets : r # s => queue'[r] = queue[r] /\ tpc'[r] = tpc[r]
                                 /\ (r \in missed => r \in missed')
  /\ \A r \in Sockets : added[r] <= added'[r] /\ added'[r] <= added[r] + 1
  /\ \/ queue'[s] = queue[s]
     \/ \E x \in Numbers : queue'[s] = Append(queue[s], x) /\ (x = 0 => ~data)
  /\ \/ tpc[s] = "suspended" /\ tpc'[s] = "top"
     \/ tpc'[s] = tpc[s] /\ (s \in missed => s \in missed')
  /\ tpc'[s] \in {"suspend", "suspended"} => queue' = queue \/ s \in missed'
  /\ crashed' \in BOOLEAN

(* What addPacket may change. *)
LEMMA AddMoves ==
  ASSUME IInv, AddPacket
  PROVE  cur \in Born /\ cur \in Sockets /\ AddEffect(cur)
<1> USE UdpServerAssumption DEF IInv, TypeOK, ThreadPlaces, packetVars, Numbers
<1>1. cur \in Born /\ cur \in Sockets /\ added[cur] < arrived /\ arrived \in 0..MaxDatagrams
  BY DEF AddPacket, HandInv, Born, Sockets
<1> DEFINE s == cur
<1> HIDE DEF s
<1>2. s = cur /\ s \in Sockets
  BY <1>1 DEF s
<1>3. CASE Enqueue(s) /\ crashed' = crashed
  <2>1. added[s] \in Nat /\ added[s] + 1 <= MaxDatagrams
    BY <1>1, <1>2
  <2> DEFINE x == IF data THEN added'[s] ELSE 0
  <2>2. /\ added' \in [Sockets -> Nat]
        /\ \A r \in Sockets : added[r] <= added'[r] /\ added'[r] <= added[r] + 1
        /\ x \in Numbers /\ (x = 0 => ~data)
    BY <1>2, <1>3, <2>1 DEF Enqueue
  <2>3. queue' = [queue EXCEPT ![s] = Append(@, x)]
    BY <1>3 DEF Enqueue
  <2> HIDE DEF x
  <2>4. /\ queue' \in [Sockets -> Seq(Numbers)]
        /\ queue'[s] = Append(queue[s], x)
        /\ \A r \in Sockets : r # s => queue'[r] = queue[r]
    BY <1>2, <2>2, <2>3
  <2>5. tpc' = [tpc EXCEPT ![s] = IF @ = "suspended" THEN "top" ELSE @]
        /\ missed' = CASE tpc[s] = "suspended" -> missed \ {s}
                       [] tpc[s] = "suspend"   -> missed \cup {s}
                       [] OTHER                -> missed
    BY <1>3 DEF Enqueue
  <2>6. /\ tpc' \in [Sockets -> ThreadPlaces] /\ missed' \subseteq Sockets
        /\ \A r \in Sockets : r # s => tpc'[r] = tpc[r] /\ (r \in missed => r \in missed')
        /\ \/ tpc[s] = "suspended" /\ tpc'[s] = "top"
           \/ tpc'[s] = tpc[s] /\ (s \in missed => s \in missed')
        /\ tpc'[s] \in {"suspend", "suspended"} => s \in missed'
    BY <1>2, <2>5
  <2>7. AddEffect(s)
    BY <1>3, <2>2, <2>4, <2>6 DEF AddEffect
  <2>8. QED
    BY <1>1, <2>7 DEF s
<1>4. CASE UNCHANGED <<queue, added, missed, tpc>> /\ crashed' \in BOOLEAN
  <2>1. added \in [Sockets -> Nat]
    OBVIOUS
  <2>2. AddEffect(s)
    BY <1>2, <1>4, <2>1 DEF AddEffect
  <2>3. QED
    BY <1>1, <2>2 DEF s
<1>5. QED
  BY <1>3, <1>4 DEF AddPacket, s

(* All of it. *)
Effects ==
  /\ kpc[Loop] = "idle" /\ LoopRelease => cur \in Born /\ ReleaseEffect(Loop, cur)
  /\ \A s \in Sockets : RemoverRelease(s) => s \in Born /\ ReleaseEffect(Remover, s)
  /\ \A s \in Sockets : ThreadStep(s) => ThreadEffect(s)
  /\ \A a \in Actors :
       KillStep(a) =>
         target[a] \in Born /\ target[a] \in Sockets /\ KillEffect(a, target[a])
  /\ AddPacket => cur \in Born /\ cur \in Sockets /\ AddEffect(cur)

(* All of these together, for the lemmas below. *)
LEMMA StepEffects == IInv => Effects
<1> SUFFICES ASSUME IInv PROVE Effects
  OBVIOUS
<1>1. ASSUME kpc[Loop] = "idle", LoopRelease PROVE cur \in Born /\ ReleaseEffect(Loop, cur)
  <2>1. cur \in Born
    BY <1>1 DEF LoopRelease, IInv, HandInv
  <2>2. ReleaseRef(Loop, cur) /\ Loop \in Actors
    BY <1>1 DEF LoopRelease, Actors
  <2>3. QED
    BY <1>1, <2>1, <2>2, ReleaseLeavesOrFrees
<1>2. ASSUME NEW s \in Sockets, RemoverRelease(s)
      PROVE  s \in Born /\ ReleaseEffect(Remover, s)
  <2>1. s \in Born
    BY <1>2 DEF RemoverRelease, IInv, HandInv
  <2>2. ReleaseRef(Remover, s) /\ Remover \in Actors /\ kpc[Remover] = "idle"
    BY <1>2 DEF RemoverRelease, Actors
  <2>3. QED
    BY <2>1, <2>2, ReleaseLeavesOrFrees
<1>3. QED
  BY <1>1, <1>2, ThreadMoves, KillMoves, AddMoves DEF Effects
-----------------------------------------------------------------------------
(* One lemma for each part of the invariant, one step for each action. *)
LEMMA TypeStep == IInv /\ [Next]_vars => TypeOK'
<1> SUFFICES ASSUME IInv, [Next]_vars PROVE TypeOK'
  OBVIOUS
<1>1. Effects
  BY StepEffects
<1> USE UdpServerAssumption DEF IInv,
    Actors, Loop, Remover, User, Sockets, NoSocket, Born, loopVars, listVars,
    objectVars, packetVars, killVars, TypeOK, HandInv, BornInv,
    Numbers, CallSet, ThreadPlaces, KillPlaces, LifePlaces
<1>2. CASE Receive
  <2>1. arrived' \in 0..MaxDatagrams
    BY <1>2 DEF Receive
  <2>2. asked' \subseteq Sockets
    BY <1>2 DEF Receive
  <2>3. /\ lpc' = "find" /\ data' \in BOOLEAN /\ from' \in Clients \cup {NoClient}
        /\ UNCHANGED <<options, cur, created, addr, queue, added, missed, listed, retired,
                       refCount, life, tpc, stopEvent, kpc, target, calls, crashed>>
    BY <1>2 DEF Receive
  <2>4. QED
    BY <2>1, <2>2, <2>3
<1>3. CASE Find
  BY <1>3 DEF Find, Matches
<1>4. CASE Accept
  BY <1>4 DEF Accept, BelowLimit, Matches, EndTurn
<1>5. CASE Push
  <2>1. created' = created + 1 /\ cur' = created + 1 /\ created + 1 \in Sockets
    BY <1>5 DEF Push
  <2>2. addr' \in [Sockets -> Clients \cup {NoClient}]
    BY <1>5, <2>1 DEF Push
  <2>3. refCount' = [refCount EXCEPT ![created + 1] = 2]
        /\ life' = [life EXCEPT ![created + 1] = "alive"]
    BY <1>5, <2>1 DEF Push
  <2>4. refCount' \in [Sockets -> 0..2] /\ life' \in [Sockets -> LifePlaces]
    <3>1. refCount \in [Sockets -> 0..2] /\ life \in [Sockets -> LifePlaces]
      OBVIOUS
    <3>2. 2 \in 0..2 /\ "alive" \in LifePlaces
      OBVIOUS
    <3> HIDE DEF IInv, TypeOK, HandInv, BornInv, Sockets, LifePlaces
    <3>3. QED
      BY <2>3, <3>1, <3>2
  <2>5. created + 1 \notin retired /\ created + 1 \in Sockets
    BY <2>1
  <2>6. listed' = listed \cup {created + 1} /\ retired' = retired
    BY <1>5, <2>1 DEF Push
  <2>7. listed' \subseteq Sockets /\ retired' \subseteq Sockets \ listed'
    BY <2>5, <2>6
  <2>8. /\ lpc' = "start" /\ created' \in 0..MaxSockets /\ cur' \in Sockets
        /\ UNCHANGED <<options, arrived, from, data, queue, added, missed, tpc,
                       stopEvent, kpc, target, calls, asked, crashed>>
    BY <1>5, <2>1 DEF Push
  <2>9. QED
    BY <2>1, <2>2, <2>4, <2>7, <2>8
<1>6. CASE StartThread
  BY <1>6 DEF StartThread, Go
<1>7. CASE AddPacket
  <2>1. cur \in Born /\ cur \in Sockets /\ AddEffect(cur)
    BY <1>1, <1>7 DEF Effects
  <2>2. \A s \in Sockets : added[s] < arrived
    BY <1>7 DEF AddPacket
  <2>3. added' \in [Sockets -> 0..MaxDatagrams]
    <3>1. added' \in [Sockets -> Nat]
          /\ \A s \in Sockets : added'[s] <= added[s] + 1
      BY <2>1 DEF AddEffect
    <3>2. \A s \in Sockets : added'[s] <= arrived /\ arrived <= MaxDatagrams
      BY <2>2, <3>1
    <3>3. QED
      BY <3>1, <3>2
  <2>4. /\ queue' \in [Sockets -> Seq(Numbers)] /\ tpc' \in [Sockets -> ThreadPlaces]
        /\ missed' \subseteq Sockets /\ crashed' \in BOOLEAN
    BY <2>1 DEF AddEffect
  <2>5. /\ lpc' \in {"receive", "release"} /\ cur' \in {cur, NoSocket}
        /\ data' \in {data, FALSE}
        /\ UNCHANGED <<options, arrived, from, created, addr, listed, retired, refCount,
                       life, stopEvent, kpc, target, calls, asked>>
    BY <1>7 DEF AddPacket, EndTurn
  <2>6. QED
    BY <2>3, <2>4, <2>5
<1>8. CASE kpc[Loop] = "idle" /\ LoopRelease
  <2>1. cur \in Born /\ ReleaseEffect(Loop, cur)
    BY <1>1, <1>8 DEF Effects
  <2>2. QED
    BY <1>8, <2>1 DEF LoopRelease, EndTurn, ReleaseEffect
<1>9. CASE ServerClear
  BY <1>9 DEF ServerClear
<1>10. ASSUME NEW s \in Sockets, RemoverRelease(s) PROVE TypeOK'
  <2>1. s \in Born /\ ReleaseEffect(Remover, s)
    BY <1>1, <1>10 DEF Effects
  <2>2. QED
    BY <1>10, <2>1 DEF RemoverRelease, ReleaseEffect
<1>11. ASSUME NEW s \in Sockets, UserKill(s) PROVE TypeOK'
  BY <1>11 DEF UserKill, Enter
<1>12. ASSUME NEW s \in Sockets, ThreadStep(s) PROVE TypeOK'
  <2>1. ThreadEffect(s)
    BY <1>1, <1>12 DEF Effects
  <2>2. QED
    BY <1>12, <2>1 DEF ThreadStep, ThreadEffect, LeaveContainer
<1>13. ASSUME NEW a \in Actors, KillStep(a) PROVE TypeOK'
  <2>1. target[a] \in Born /\ target[a] \in Sockets /\ KillEffect(a, target[a])
    BY <1>1, <1>13 DEF Effects
  <2>2. QED
    BY <1>13, <2>1 DEF KillStep, KillEffect, LeaveContainer
<1>14. CASE UNCHANGED vars
  BY <1>14 DEF vars
<1>15. QED
  BY <1>2, <1>3, <1>4, <1>5, <1>6, <1>7, <1>8, <1>9, <1>10, <1>11, <1>12, <1>13, <1>14
  DEF Next, LoopStep

LEMMA HandStep == IInv /\ [Next]_vars => HandInv'
<1> SUFFICES ASSUME IInv, [Next]_vars PROVE HandInv'
  OBVIOUS
<1>1. Effects
  BY StepEffects
<1> USE UdpServerAssumption DEF IInv,
    Actors, Loop, Remover, User, Sockets, NoSocket, Born, loopVars, listVars,
    objectVars, packetVars, killVars, TypeOK, HandInv, BornInv
<1>2. CASE Receive
  <2>1. /\ lpc = "receive" /\ lpc' = "find" /\ arrived' = arrived + 1
        /\ UNCHANGED <<added, listed, retired, created>>
    BY <1>2 DEF Receive
  <2>2. \A s \in Sockets : added[s] < arrived + 1
    BY <2>1
  <2>3. QED
    BY <2>1, <2>2, SMTT(20)
<1>3. CASE Find
  BY <1>3 DEF Find, Matches
<1>4. CASE Accept
  BY <1>4 DEF Accept, BelowLimit, Matches, EndTurn
<1>5. CASE Push
  <2>1. /\ created' = created + 1 /\ cur' = created + 1 /\ lpc = "push" /\ lpc' = "start"
        /\ listed' = listed \cup {created + 1}
        /\ UNCHANGED <<added, arrived, retired>>
    BY <1>5 DEF Push
  <2>2. cur' \in 1..created' /\ listed' \cup retired' \subseteq 1..created'
    BY <2>1
  <2>3. QED
    BY <2>1, <2>2
<1>6. CASE StartThread
  BY <1>6 DEF StartThread, Go
<1>7. CASE AddPacket
  <2>1. cur \in Born /\ cur \in Sockets /\ AddEffect(cur)
    BY <1>1, <1>7 DEF Effects
  <2>2. \A s \in Sockets : added[s] < arrived
    BY <1>7 DEF AddPacket
  <2>3. \A s \in Sockets : added'[s] <= arrived
    BY <2>1, <2>2 DEF AddEffect
  <2>4. /\ lpc' = "receive" \/ (lpc' = "release" /\ cur' = cur)
        /\ UNCHANGED <<arrived, created, listed, retired>>
    BY <1>7 DEF AddPacket
  <2>5. QED
    BY <2>1, <2>3, <2>4
<1>8. CASE kpc[Loop] = "idle" /\ LoopRelease
  <2>1. cur \in Born /\ ReleaseEffect(Loop, cur)
    BY <1>1, <1>8 DEF Effects
  <2>2. QED
    BY <1>8, <2>1 DEF LoopRelease, EndTurn, ReleaseEffect
<1>9. CASE ServerClear
  BY <1>9 DEF ServerClear
<1>10. ASSUME NEW s \in Sockets, RemoverRelease(s) PROVE HandInv'
  <2>1. s \in Born /\ ReleaseEffect(Remover, s)
    BY <1>1, <1>10 DEF Effects
  <2>2. QED
    BY <1>10, <2>1 DEF RemoverRelease, ReleaseEffect
<1>11. ASSUME NEW s \in Sockets, UserKill(s) PROVE HandInv'
  BY <1>11 DEF UserKill, Enter
<1>12. ASSUME NEW s \in Sockets, ThreadStep(s) PROVE HandInv'
  <2>1. ThreadEffect(s)
    BY <1>1, <1>12 DEF Effects
  <2>2. QED
    BY <1>12, <2>1 DEF ThreadStep, ThreadEffect, LeaveContainer
<1>13. ASSUME NEW a \in Actors, KillStep(a) PROVE HandInv'
  <2>1. target[a] \in Born /\ target[a] \in Sockets /\ KillEffect(a, target[a])
    BY <1>1, <1>13 DEF Effects
  <2>2. QED
    BY <1>13, <2>1 DEF KillStep, KillEffect, LeaveContainer
<1>14. CASE UNCHANGED vars
  BY <1>14 DEF vars
<1>15. QED
  BY <1>2, <1>3, <1>4, <1>5, <1>6, <1>7, <1>8, <1>9, <1>10, <1>11, <1>12, <1>13, <1>14
  DEF Next, LoopStep

LEMMA BornStep == IInv /\ [Next]_vars => BornInv'
<1> SUFFICES ASSUME IInv, [Next]_vars PROVE BornInv'
  OBVIOUS
<1>1. Effects
  BY StepEffects
<1>0. BornFacts
  BY BornSockets
<1> USE <1>0 DEF IInv,
    Actors, Loop, Remover, User, loopVars, listVars, objectVars, packetVars,
    killVars, TypeOK, HandInv, BornInv, BornFacts
<1>2. CASE Receive
  BY <1>2 DEF Receive
<1>3. CASE Find
  BY <1>3 DEF Find, Matches
<1>4. CASE Accept
  BY <1>4 DEF Accept, BelowLimit, Matches, EndTurn
<1>5. CASE Push
  <2>1. /\ created' = created + 1 /\ created + 1 \in Sockets
        /\ refCount' = [refCount EXCEPT ![created + 1] = 2]
        /\ UNCHANGED <<tpc, calls, kpc, target>>
    BY <1>5 DEF Push
  <2>2. Born' = Born \cup {created + 1}
    BY <2>1
  <2>3. refCount'[created + 1] = 2
        /\ \A s \in Sockets : s # created + 1 => refCount'[s] = refCount[s]
    BY <2>1
  <2>4. QED
    BY <2>1, <2>2, <2>3, SMTT(20)
<1>6. CASE StartThread
  BY <1>6 DEF StartThread, Go
<1>7. CASE AddPacket
  <2>1. cur \in Born /\ cur \in Sockets /\ AddEffect(cur)
    BY <1>1, <1>7 DEF Effects
  <2>2. QED
    BY <1>7, <2>1 DEF AddPacket, EndTurn, AddEffect
<1>8. CASE kpc[Loop] = "idle" /\ LoopRelease
  <2>1. cur \in Born /\ cur \in Sockets /\ ReleaseEffect(Loop, cur)
    BY <1>1, <1>8 DEF Effects
  <2>2. /\ UNCHANGED <<tpc, calls, created>>
    BY <1>8 DEF LoopRelease
  <2>3. /\ \A r \in Born : refCount'[r] >= 1
        /\ \A b \in Actors : target'[b] = target[b] \/ target'[b] = cur
    BY <2>1 DEF ReleaseEffect
  <2>4. \A b \in Actors : kpc'[b] # "idle" => target'[b] \in Born
    BY <2>1 DEF ReleaseEffect
  <2>5. QED
    BY <2>1, <2>2, <2>3, <2>4
<1>9. CASE ServerClear
  BY <1>9 DEF ServerClear
<1>10. ASSUME NEW s \in Sockets, RemoverRelease(s) PROVE BornInv'
  <2>1. s \in Born /\ s \in Sockets /\ ReleaseEffect(Remover, s)
    BY <1>1, <1>10 DEF Effects
  <2>2. /\ UNCHANGED <<tpc, calls, created>>
    BY <1>10 DEF RemoverRelease
  <2>3. /\ \A r \in Born : refCount'[r] >= 1
        /\ \A b \in Actors : target'[b] = target[b] \/ target'[b] = s
    BY <2>1 DEF ReleaseEffect
  <2>4. \A b \in Actors : kpc'[b] # "idle" => target'[b] \in Born
    BY <2>1 DEF ReleaseEffect
  <2>5. QED
    BY <2>1, <2>2, <2>3, <2>4
<1>11. ASSUME NEW s \in Sockets, UserKill(s) PROVE BornInv'
  BY <1>11 DEF UserKill, Enter
<1>12. ASSUME NEW s \in Sockets, ThreadStep(s) PROVE BornInv'
  <2>1. ThreadEffect(s)
    BY <1>1, <1>12 DEF Effects
  <2>2. s \in Born
    BY <2>1 DEF ThreadEffect
  <2>3. UNCHANGED <<created, refCount, kpc, target>>
    BY <1>12 DEF ThreadStep
  <2>4. \A r \in Sockets : r \notin Born => tpc'[r] = tpc[r] /\ calls'[r] = calls[r]
    BY <2>1, <2>2, SMTT(20) DEF ThreadEffect
  <2>5. QED
    BY <2>3, <2>4
<1>13. ASSUME NEW a \in Actors, KillStep(a) PROVE BornInv'
  <2>1. target[a] \in Born /\ target[a] \in Sockets /\ KillEffect(a, target[a])
    BY <1>1, <1>13 DEF Effects
  <2>2. UNCHANGED <<created, refCount>>
    BY <1>13 DEF KillStep
  <2>3. \A r \in Sockets : r \notin Born => tpc'[r] = tpc[r] /\ calls'[r] = calls[r]
    <3>1. \A r \in Sockets : r # target[a] => tpc'[r] = tpc[r] /\ calls'[r] = calls[r]
      BY <2>1, ZenonT(20) DEF KillEffect
    <3>2. \A r \in Sockets : r \notin Born => r # target[a]
      BY <2>1
    <3>3. QED BY <3>1, <3>2, Zenon
  <2>4. /\ \A b \in Actors : kpc'[b] # "idle" => kpc[b] # "idle" /\ target'[b] = target[b]
        /\ \A b \in Actors : target'[b] \in {target[b], NoSocket}
    BY <2>1 DEF KillEffect
  <2>5. QED
    BY <2>2, <2>3, <2>4, SMTT(20)
<1>14. CASE UNCHANGED vars
  BY <1>14 DEF vars
<1>15. QED
  BY <1>2, <1>3, <1>4, <1>5, <1>6, <1>7, <1>8, <1>9, <1>10, <1>11, <1>12, <1>13, <1>14
  DEF Next, LoopStep

LEMMA SleepStep == IInv /\ [Next]_vars => SleepInv'
<1> SUFFICES ASSUME IInv, [Next]_vars PROVE SleepInv'
  OBVIOUS
<1>1. Effects
  BY StepEffects
<1> USE UdpServerAssumption DEF IInv,
    Actors, Loop, Remover, User, Sockets, NoSocket, Born, loopVars, listVars,
    objectVars, packetVars, killVars, TypeOK, HandInv, BornInv, SleepInv
<1>2. CASE Receive
  BY <1>2 DEF Receive
<1>3. CASE Find
  BY <1>3 DEF Find, Matches
<1>4. CASE Accept
  BY <1>4 DEF Accept, BelowLimit, Matches, EndTurn
<1>5. CASE Push
  BY <1>5 DEF Push
<1>6. CASE StartThread
  BY <1>6 DEF StartThread, Go
<1>7. CASE AddPacket
  <2>1. cur \in Born /\ cur \in Sockets /\ AddEffect(cur)
    BY <1>1, <1>7 DEF Effects
  <2>2. QED
    BY <1>7, <2>1 DEF AddPacket, EndTurn, AddEffect
<1>8. CASE kpc[Loop] = "idle" /\ LoopRelease
  <2>1. cur \in Born /\ ReleaseEffect(Loop, cur)
    BY <1>1, <1>8 DEF Effects
  <2>2. QED
    BY <1>8, <2>1 DEF LoopRelease, EndTurn, ReleaseEffect
<1>9. CASE ServerClear
  BY <1>9 DEF ServerClear
<1>10. ASSUME NEW s \in Sockets, RemoverRelease(s) PROVE SleepInv'
  <2>1. s \in Born /\ ReleaseEffect(Remover, s)
    BY <1>1, <1>10 DEF Effects
  <2>2. QED
    BY <1>10, <2>1 DEF RemoverRelease, ReleaseEffect
<1>11. ASSUME NEW s \in Sockets, UserKill(s) PROVE SleepInv'
  BY <1>11 DEF UserKill, Enter
<1>12. ASSUME NEW s \in Sockets, ThreadStep(s) PROVE SleepInv'
  <2>1. ThreadEffect(s)
    BY <1>1, <1>12 DEF Effects
  <2>2. QED
    BY <1>12, <2>1 DEF ThreadStep, ThreadEffect, LeaveContainer
<1>13. ASSUME NEW a \in Actors, KillStep(a) PROVE SleepInv'
  <2>1. target[a] \in Born /\ target[a] \in Sockets /\ KillEffect(a, target[a])
    BY <1>1, <1>13 DEF Effects
  <2>2. QED
    BY <1>13, <2>1 DEF KillStep, KillEffect, LeaveContainer
<1>14. CASE UNCHANGED vars
  BY <1>14 DEF vars
<1>15. QED
  BY <1>2, <1>3, <1>4, <1>5, <1>6, <1>7, <1>8, <1>9, <1>10, <1>11, <1>12, <1>13, <1>14
  DEF Next, LoopStep

(* The thread starts once: nobody has met the socket before. *)
LEMMA StartStep == IInv /\ [Next]_vars => StartInv'
<1> SUFFICES ASSUME IInv, [Next]_vars PROVE StartInv'
  OBVIOUS
<1>1. Effects
  BY StepEffects
<1>0. BornFacts
  BY BornSockets
<1> USE <1>0 DEF IInv,
    Actors, Loop, Remover, User, loopVars, listVars, objectVars, packetVars,
    killVars, TypeOK, HandInv, BornInv, BornFacts, StartInv
<1>2. CASE Receive
  BY <1>2 DEF Receive
<1>3. CASE Find
  BY <1>3 DEF Find, Matches, LatePlaces
<1>4. CASE Accept
  BY <1>4 DEF Accept, BelowLimit, Matches, EndTurn
<1>5. CASE Push
  <2> DEFINE n == created + 1
  <2>1. /\ n \in Sockets /\ n \notin Born /\ cur' = n /\ lpc' = "start"
        /\ refCount' = [refCount EXCEPT ![n] = 2]
        /\ UNCHANGED <<tpc, calls, kpc, target>>
    BY <1>5 DEF Push
  <2>2. /\ refCount'[n] = 2 /\ tpc[n] = "unstarted" /\ calls[n] = <<>>
        /\ \A b \in Actors : target[b] # n
    BY <2>1
  <2> HIDE DEF n
  <2>3. QED
    BY <2>1, <2>2
<1>6. CASE StartThread
  <2>1. /\ lpc = "start" /\ lpc' = "first" /\ tpc' = [tpc EXCEPT ![cur] = "new"]
        /\ UNCHANGED <<cur, listed, retired, refCount, calls, kpc, target>>
    BY <1>6 DEF StartThread, Go
  <2>2. \A b \in Actors : tpc'[target[b]] = tpc[target[b]]
    BY <2>1
  <2>3. QED
    BY <2>1, <2>2
<1>7. CASE AddPacket
  <2>1. AddEffect(cur)
    BY <1>1, <1>7 DEF Effects
  <2>2. /\ lpc' = "receive" \/ (lpc' = "release" /\ cur' = cur /\ lpc = "first")
        /\ UNCHANGED <<listed, retired, kpc, target, refCount>>
    BY <1>7 DEF AddPacket
  <2>3. \A r \in Sockets : tpc'[r] = tpc[r] \/ (tpc[r] = "suspended" /\ tpc'[r] = "top")
    BY <2>1 DEF AddEffect
  <2>4. \A b \in Actors : kpc[b] # "idle" /\ tpc[target[b]] = "ended" =>
                            tpc'[target[b]] = "ended"
    BY <2>3
  <2>5. QED
    BY <2>2, <2>4 DEF LatePlaces
<1>8. CASE kpc[Loop] = "idle" /\ LoopRelease
  <2>1. ReleaseEffect(Loop, cur)
    BY <1>1, <1>8 DEF Effects
  <2>2. lpc' = "receive" /\ UNCHANGED tpc
    BY <1>8 DEF LoopRelease
  <2>3. \A b \in Actors : kpc'[b] \in LatePlaces => kpc'[b] = kpc[b] /\ target'[b] = target[b]
    BY <2>1 DEF ReleaseEffect, LatePlaces
  <2>4. QED
    BY <2>2, <2>3
<1>9. CASE ServerClear
  BY <1>9 DEF ServerClear
<1>10. ASSUME NEW s \in Sockets, RemoverRelease(s) PROVE StartInv'
  <2>1. s \in Born /\ ReleaseEffect(Remover, s)
    BY <1>1, <1>10 DEF Effects
  <2>2. /\ s \in retired /\ retired' = retired \ {s}
        /\ UNCHANGED <<listed, tpc, lpc, cur, calls>>
    BY <1>10 DEF RemoverRelease
  <2>3. \A b \in Actors : kpc'[b] \in LatePlaces => kpc'[b] = kpc[b] /\ target'[b] = target[b]
    BY <2>1 DEF ReleaseEffect, LatePlaces
  <2>4. /\ \A b \in Actors : target'[b] = target[b] \/ (target'[b] = s /\ refCount[s] = 1)
        /\ \A r \in Sockets : r # s => refCount'[r] = refCount[r]
    BY <2>1 DEF ReleaseEffect
  <2>5. cur \in listed' \cup retired' => cur # s /\ cur \in Sockets
    BY <2>2
  <2>6. lpc \in {"start", "first", "release"} /\ cur = s => refCount[s] = 2
    BY <2>2
  <2>7. QED
    BY <2>2, <2>3, <2>4, <2>5, <2>6, SMTT(20)
<1>11. ASSUME NEW s \in Sockets, UserKill(s) PROVE StartInv'
  <2>1. /\ calls[s] # <<>> /\ kpc' = [kpc EXCEPT ![User] = "resume"]
        /\ target' = [target EXCEPT ![User] = s]
        /\ UNCHANGED <<tpc, calls, listed, retired, lpc, cur, refCount>>
    BY <1>11 DEF UserKill
  <2>2. lpc = "start" => s # cur
    BY <2>1
  <2>3. \A b \in Actors : kpc'[b] \in LatePlaces => kpc'[b] = kpc[b] /\ target'[b] = target[b]
    BY <2>1 DEF LatePlaces
  <2>4. QED
    BY <2>1, <2>2, <2>3
<1>12. ASSUME NEW s \in Sockets, ThreadStep(s) PROVE StartInv'
  <2>1. ThreadEffect(s)
    BY <1>1, <1>12 DEF Effects
  <2>2. UNCHANGED <<lpc, cur, refCount, kpc, target>>
    BY <1>12 DEF ThreadStep
  <2>3. listed' \cup retired' = listed \cup retired
    BY <2>1 DEF ThreadEffect, LeaveContainer
  <2>4. /\ tpc[s] \notin {"unstarted", "ended"}
        /\ \A r \in Sockets : r # s => tpc'[r] = tpc[r] /\ calls'[r] = calls[r]
    BY <2>1 DEF ThreadEffect
  <2>5. lpc = "start" => s # cur
    BY <2>4
  <2>6. \A b \in Actors : kpc[b] # "idle" /\ tpc[target[b]] = "ended" =>
                            tpc'[target[b]] = "ended"
    BY <2>4
  <2>7. QED
    BY <2>2, <2>3, <2>4, <2>5, <2>6 DEF LatePlaces
<1>13. ASSUME NEW a \in Actors, KillStep(a) PROVE StartInv'
  <2> DEFINE t == target[a]
  <2>1. t \in Born /\ t \in Sockets /\ KillEffect(a, t)
    BY <1>1, <1>13 DEF Effects
  <2>2. UNCHANGED <<lpc, cur, refCount>>
    BY <1>13 DEF KillStep
  <2>3. listed' \cup retired' = listed \cup retired
    BY <2>1 DEF KillEffect, LeaveContainer
  <2>4. \A r \in Sockets :
          /\ r # t => tpc'[r] = tpc[r] /\ calls'[r] = calls[r]
          /\ tpc[r] = "ended" => tpc'[r] = "ended"
    BY <2>1 DEF KillEffect
  <2>5. /\ \A b \in Actors :
             kpc'[b] \in LatePlaces => kpc[b] \in LatePlaces \/ tpc'[target[b]] = "ended"
        /\ \A b \in Actors : kpc'[b] # "idle" => kpc[b] # "idle" /\ target'[b] = target[b]
        /\ \A b \in Actors : target'[b] \in {target[b], NoSocket}
    BY <2>1 DEF KillEffect
  <2>6. \A b \in Actors : kpc'[b] \in LatePlaces => tpc'[target'[b]] = "ended"
    <3>1. ASSUME NEW b \in Actors, kpc'[b] \in LatePlaces
          PROVE  tpc'[target'[b]] = "ended"
      <4>1. target'[b] = target[b] /\ target[b] \in Sockets
        BY <2>5, <3>1 DEF LatePlaces
      <4>2. tpc[target[b]] = "ended" \/ tpc'[target[b]] = "ended"
        BY <2>5, <3>1
      <4>3. QED
        BY <2>4, <4>1, <4>2
    <3>2. QED
      BY <3>1
  <2>7. lpc = "start" => t # cur /\ cur \in Sockets /\ \A b \in Actors : target'[b] # cur
    BY <2>5
  <2>8. QED
    BY <2>2, <2>3, <2>4, <2>6, <2>7
<1>14. CASE UNCHANGED vars
  BY <1>14 DEF vars
<1>15. QED
  BY <1>2, <1>3, <1>4, <1>5, <1>6, <1>7, <1>8, <1>9, <1>10, <1>11, <1>12, <1>13, <1>14
  DEF Next, LoopStep

LEMMA ListStep == IInv /\ [Next]_vars => ListInv'
<1> SUFFICES ASSUME IInv, [Next]_vars PROVE ListInv'
  OBVIOUS
<1>1. Effects
  BY StepEffects
<1>0. BornFacts
  BY BornSockets
<1> USE <1>0 DEF IInv,
    Actors, Loop, Remover, User, loopVars, listVars, objectVars, packetVars,
    killVars, TypeOK, HandInv, BornInv, BornFacts, StartInv,
    ListInv, Serving, ServingPlaces
<1>2. CASE Receive
  BY <1>2 DEF Receive
<1>3. CASE Find
  BY <1>3 DEF Find, Matches
<1>4. CASE Accept
  BY <1>4 DEF Accept, BelowLimit, Matches, EndTurn
<1>5. CASE Push
  BY <1>5 DEF Push
<1>6. CASE StartThread
  <2>1. /\ lpc = "start" /\ lpc' = "first" /\ tpc' = [tpc EXCEPT ![cur] = "new"]
        /\ UNCHANGED <<options, cur, listed>>
    BY <1>6 DEF StartThread, Go
  <2>2. Serving' \subseteq Serving \cup {cur}
    BY <2>1
  <2>3. QED
    BY <2>1, <2>2
<1>7. CASE AddPacket
  <2>1. AddEffect(cur)
    BY <1>1, <1>7 DEF Effects
  <2>2. lpc' # "start" /\ UNCHANGED <<options, listed>>
    BY <1>7 DEF AddPacket
  <2>3. \A r \in Sockets : tpc'[r] = tpc[r] \/ (tpc[r] = "suspended" /\ tpc'[r] = "top")
    BY <2>1 DEF AddEffect
  <2>4. Serving' \subseteq Serving
    BY <2>3
  <2>5. QED
    BY <2>2, <2>4
<1>8. CASE kpc[Loop] = "idle" /\ LoopRelease
  BY <1>8 DEF LoopRelease
<1>9. CASE ServerClear
  BY <1>9 DEF ServerClear
<1>10. ASSUME NEW s \in Sockets, RemoverRelease(s) PROVE ListInv'
  BY <1>10 DEF RemoverRelease
<1>11. ASSUME NEW s \in Sockets, UserKill(s) PROVE ListInv'
  BY <1>11 DEF UserKill, Enter
<1>12. ASSUME NEW s \in Sockets, ThreadStep(s) PROVE ListInv'
  <2>1. ThreadEffect(s)
    BY <1>1, <1>12 DEF Effects
  <2>2. UNCHANGED <<options, lpc, cur>>
    BY <1>12 DEF ThreadStep
  <2>3. listed' \subseteq listed /\ listed \ {s} \subseteq listed'
        /\ (tpc'[s] \in ServingPlaces => listed' = listed)
    BY <2>1 DEF ThreadEffect, LeaveContainer
  <2>4. /\ \A r \in Sockets : r # s => tpc'[r] = tpc[r]
        /\ tpc[s] # "unstarted"
        /\ tpc'[s] \in ServingPlaces => tpc[s] \in ServingPlaces
    BY <2>1 DEF ThreadEffect
  <2>5. ~options.shutdowns => Serving' \subseteq listed'
    BY <2>3, <2>4
  <2>6. lpc = "start" => s # cur
    BY <2>4
  <2>7. QED
    BY <2>2, <2>3, <2>5, <2>6
<1>13. ASSUME NEW a \in Actors, KillStep(a) PROVE ListInv'
  <2> DEFINE t == target[a]
  <2>1. t \in Born /\ t \in Sockets /\ KillEffect(a, t)
    BY <1>1, <1>13 DEF Effects
  <2>2. UNCHANGED <<options, lpc, cur>>
    BY <1>13 DEF KillStep
  <2>3. /\ listed' \subseteq listed /\ listed \ {t} \subseteq listed'
        /\ listed' = listed \/ (kpc[a] = "remove" /\ tpc' = tpc)
    BY <2>1 DEF KillEffect, LeaveContainer
  <2>4. \A r \in Sockets : tpc'[r] \in ServingPlaces => tpc[r] \in ServingPlaces
    BY <2>1 DEF KillEffect
  <2>5. listed' = listed \/ tpc'[t] = "ended"
    BY <2>3 DEF LatePlaces
  <2>6. ~options.shutdowns => Serving' \subseteq listed'
    BY <2>3, <2>4, <2>5
  <2>7. lpc = "start" => t # cur
    OBVIOUS
  <2>8. QED
    BY <2>2, <2>3, <2>6, <2>7
<1>14. CASE UNCHANGED vars
  BY <1>14 DEF vars
<1>15. QED
  BY <1>2, <1>3, <1>4, <1>5, <1>6, <1>7, <1>8, <1>9, <1>10, <1>11, <1>12, <1>13, <1>14
  DEF Next, LoopStep

(* A list that only loses sockets keeps what is known of its length. *)
LEMMA FiniteList ==
  IInv => IsFiniteSet(listed) /\ Cardinality(listed) \in Nat
<1> SUFFICES ASSUME IInv PROVE IsFiniteSet(listed) /\ Cardinality(listed) \in Nat
  OBVIOUS
<1>1. IsFiniteSet(Sockets)
  BY FS_Interval, UdpServerAssumption DEF Sockets
<1>2. listed \subseteq Sockets
  BY DEF IInv, TypeOK
<1>3. IsFiniteSet(listed)
  BY <1>1, <1>2, FS_Subset
<1>4. QED
  BY <1>3, FS_CardinalityType

LEMMA ListShrinks ==
  ASSUME IInv, listed' \subseteq listed, UNCHANGED <<options, addr, from>>,
         lpc' = "push" => lpc = "push"
  PROVE  MatchInv'
<1>1. IsFiniteSet(listed) /\ Cardinality(listed) \in Nat
  BY FiniteList
<1>2. IsFiniteSet(listed') /\ Cardinality(listed') <= Cardinality(listed)
  BY <1>1, FS_Subset
<1>3. Cardinality(listed') \in Nat
  BY <1>2, FS_CardinalityType
<1>4. options \in Options /\ (options.limit \in Nat)
  BY UdpServerAssumption DEF IInv, TypeOK
<1>5. QED
  BY <1>1, <1>2, <1>3, <1>4 DEF IInv, MatchInv

LEMMA MatchStep == IInv /\ [Next]_vars => MatchInv'
<1> SUFFICES ASSUME IInv, [Next]_vars PROVE MatchInv'
  OBVIOUS
<1>1. Effects
  BY StepEffects
<1>0. ASSUME listed' \subseteq listed, UNCHANGED <<options, addr, from, lpc>>
      PROVE  MatchInv'
  BY <1>0, ListShrinks
<1>finite. IsFiniteSet(listed) /\ Cardinality(listed) \in Nat
  BY FiniteList
<1> USE UdpServerAssumption DEF IInv,
    Actors, Loop, Remover, User, Sockets, NoSocket, Born, loopVars, listVars,
    objectVars, packetVars, killVars, TypeOK, HandInv, BornInv, MatchInv
<1>2. CASE Receive
  BY <1>2 DEF Receive
<1>3. CASE Find
  BY <1>3 DEF Find, Matches
<1>4. CASE Accept
  <2>1. listed' = listed /\ from' = from /\ addr' = addr /\ options' = options
    BY <1>4 DEF Accept
  <2>2. lpc' = "push" => BelowLimit /\ Matches = {}
    BY <1>4 DEF Accept
  <2>3. lpc' = "push" => \A s \in listed : addr[s] # from
    BY <2>2 DEF Matches
  <2>4. lpc' = "push" /\ options.limit > 0 => Cardinality(listed) < options.limit
    BY <2>2 DEF BelowLimit
  <2>5. QED
    BY <2>1, <2>3, <2>4
<1>5. CASE Push
  <2> SUFFICES ASSUME ~options.shutdowns PROVE MatchInv'
    BY <1>5 DEF Push
  <2> DEFINE n == created + 1
  <2>1. /\ n \in Sockets /\ n \notin listed /\ lpc' = "start" /\ options' = options
        /\ listed' = listed \cup {n} /\ addr' = [addr EXCEPT ![n] = from]
    BY <1>5 DEF Push
  <2>2. \A s \in listed : s \in Sockets /\ addr[s] # from
    BY <1>5 DEF Push
  <2>3. \A s, r \in listed' : addr'[s] = addr'[r] => s = r
    <3>1. addr'[n] = from /\ \A s \in listed : addr'[s] = addr[s]
      BY <2>1, <2>2
    <3>2. \A s, r \in listed : addr[s] = addr[r] => s = r
      BY <1>5 DEF Push
    <3> HIDE DEF IInv, TypeOK, HandInv, BornInv, MatchInv, n
    <3>3. QED
      BY <2>1, <2>2, <3>1, <3>2
  <2>4. Cardinality(listed') = Cardinality(listed) + 1
    BY <2>1, FS_AddElement, <1>finite
  <2>5. options.limit > 0 => Cardinality(listed') <= options.limit
    BY <1>5, <2>4, <1>finite DEF Push
  <2>6. QED
    BY <2>1, <2>3, <2>5
<1>6. CASE StartThread
  BY <1>6 DEF StartThread, Go
<1>7. CASE AddPacket
  <2>1. cur \in Born /\ cur \in Sockets /\ AddEffect(cur)
    BY <1>1, <1>7 DEF Effects
  <2>2. QED
    BY <1>7, <2>1 DEF AddPacket, EndTurn, AddEffect
<1>8. CASE kpc[Loop] = "idle" /\ LoopRelease
  <2>1. cur \in Born /\ ReleaseEffect(Loop, cur)
    BY <1>1, <1>8 DEF Effects
  <2>2. QED
    BY <1>8, <2>1 DEF LoopRelease, EndTurn, ReleaseEffect
<1>9. CASE ServerClear
  BY <1>9 DEF ServerClear
<1>10. ASSUME NEW s \in Sockets, RemoverRelease(s) PROVE MatchInv'
  <2>1. s \in Born /\ ReleaseEffect(Remover, s)
    BY <1>1, <1>10 DEF Effects
  <2>2. QED
    BY <1>10, <2>1, ZenonT(30) DEF RemoverRelease, ReleaseEffect
<1>11. ASSUME NEW s \in Sockets, UserKill(s) PROVE MatchInv'
  BY <1>11 DEF UserKill, Enter
<1>12. ASSUME NEW s \in Sockets, ThreadStep(s) PROVE MatchInv'
  <2>1. ThreadEffect(s)
    BY <1>1, <1>12 DEF Effects
  <2>2. listed' \subseteq listed /\ UNCHANGED <<options, addr, from, lpc>>
    BY <1>12, <2>1 DEF ThreadStep, ThreadEffect, LeaveContainer
  <2>3. QED
    BY <1>0, <2>2
<1>13. ASSUME NEW a \in Actors, KillStep(a) PROVE MatchInv'
  <2>1. KillEffect(a, target[a])
    BY <1>1, <1>13 DEF Effects
  <2>2. listed' \subseteq listed /\ UNCHANGED <<options, addr, from, lpc>>
    BY <1>13, <2>1 DEF KillStep, KillEffect, LeaveContainer
  <2>3. QED
    BY <1>0, <2>2
<1>14. CASE UNCHANGED vars
  BY <1>14 DEF vars
<1>15. QED
  BY <1>2, <1>3, <1>4, <1>5, <1>6, <1>7, <1>8, <1>9, <1>10, <1>11, <1>12, <1>13, <1>14
  DEF Next, LoopStep

(* A queue, an event or a call about the end comes from an end asked for. *)
LEMMA PeerStep == IInv /\ [Next]_vars => PeerInv'
<1> SUFFICES ASSUME IInv, [Next]_vars PROVE PeerInv'
  OBVIOUS
<1>1. Effects
  BY StepEffects
<1>0. BornFacts
  BY BornSockets
<1> USE <1>0 DEF IInv,
    Actors, Loop, Remover, User, loopVars, listVars, objectVars, packetVars,
    killVars, TypeOK, HandInv, BornInv, BornFacts, StartInv,
    ListInv, PeerInv, Ending, EndingPlaces
<1>2. CASE Receive
  BY <1>2, ZenonT(30) DEF Receive
<1>3. CASE Find
  BY <1>3 DEF Find, Matches
<1>4. CASE Accept
  BY <1>4 DEF Accept, BelowLimit, Matches, EndTurn
<1>5. CASE Push
  <2> SUFFICES ASSUME ~options.faults, ~options.shutdowns PROVE PeerInv'
    BY <1>5 DEF Push
  <2> DEFINE n == created + 1
  <2>1. /\ n \in Sockets /\ lpc' = "start" /\ created' = n /\ listed' = listed \cup {n}
        /\ data /\ data' = data
        /\ UNCHANGED <<tpc, stopEvent, queue, kpc, target, calls, asked>>
    BY <1>5 DEF Push
  <2>2. Born' \ listed' = Born \ listed
    BY <2>1
  <2>3. \A s \in Sockets : Ending(s)' = Ending(s)
    BY <2>1, <2>2
  <2>4. QED
    BY <2>1, <2>3
<1>6. CASE StartThread
  BY <1>6 DEF StartThread, Go
<1>7. CASE AddPacket
  <2> SUFFICES ASSUME ~options.faults, ~options.shutdowns PROVE PeerInv'
    BY <1>7 DEF AddPacket
  <2>1. cur \in Born /\ cur \in Sockets /\ AddEffect(cur)
    BY <1>1, <1>7 DEF Effects
  <2>2. /\ lpc' \in {"receive", "release"}
        /\ UNCHANGED <<created, listed, stopEvent, kpc, target, calls, asked>>
    BY <1>7 DEF AddPacket
  <2>3. ~data => cur \in asked
    BY <1>7 DEF AddPacket
  <2>4. \A s \in Sockets : tpc'[s] \in EndingPlaces => tpc[s] \in EndingPlaces
    BY <2>1 DEF AddEffect
  <2>5. \A s \in Sockets :
          (\E i \in 1..Len(queue'[s]) : queue'[s][i] = 0) =>
            s \in asked \/ \E i \in 1..Len(queue[s]) : queue[s][i] = 0
    <3>1. ASSUME NEW s \in Sockets, NEW i \in 1..Len(queue'[s]), queue'[s][i] = 0
          PROVE  s \in asked \/ \E j \in 1..Len(queue[s]) : queue[s][j] = 0
      <4>1. CASE queue'[s] = queue[s]
        BY <3>1, <4>1
      <4>2. CASE queue'[s] # queue[s]
        <5>1. s = cur
          BY <2>1, <4>2 DEF AddEffect
        <5>2. PICK x \in Numbers : queue'[s] = Append(queue[s], x) /\ (x = 0 => ~data)
          BY <2>1, <4>2, <5>1 DEF AddEffect
        <5>3. queue[s] \in Seq(Numbers)
          BY DEF Numbers
        <5>4. i \in 1..Len(queue[s]) \/ x = 0
          BY <3>1, <5>2, <5>3
        <5>5. i \in 1..Len(queue[s]) => queue[s][i] = 0
          BY <3>1, <5>2, <5>3
        <5>6. QED
          BY <2>3, <5>1, <5>2, <5>4, <5>5
      <4>3. QED
        BY <4>1, <4>2
    <3>2. QED
      BY <3>1
  <2>6. \A s \in Sockets : Ending(s)' => s \in asked
    BY <2>2, <2>4, <2>5
  <2>7. QED
    BY <2>2, <2>6
<1>8. CASE kpc[Loop] = "idle" /\ LoopRelease
  <2> SUFFICES ASSUME ~options.faults, ~options.shutdowns PROVE PeerInv'
    BY <1>8 DEF LoopRelease
  <2>1. cur \in Born /\ cur \in Sockets /\ ReleaseEffect(Loop, cur)
    BY <1>1, <1>8 DEF Effects
  <2>2. /\ lpc' = "receive"
        /\ UNCHANGED <<created, listed, tpc, queue, stopEvent, calls, asked>>
    BY <1>8 DEF LoopRelease
  <2>3. refCount[cur] = 1 => cur \in asked
    BY <1>8, <2>1 DEF LoopRelease
  <2>4. \A b \in Actors : kpc'[b] # "idle" =>
          \/ kpc[b] # "idle" /\ target'[b] = target[b]
          \/ target'[b] = cur /\ refCount[cur] = 1
    BY <2>1 DEF ReleaseEffect
  <2>5. \A r \in Sockets :
          (\E b \in Actors : kpc'[b] # "idle" /\ target'[b] = r) =>
            r \in asked \/ \E b \in Actors : kpc[b] # "idle" /\ target[b] = r
    BY <2>3, <2>4
  <2>6. \A r \in Sockets : Ending(r)' => r \in asked
    BY <2>2, <2>5
  <2>7. QED
    BY <2>2, <2>6
<1>9. CASE ServerClear
  BY <1>9 DEF ServerClear
<1>10. ASSUME NEW s \in Sockets, RemoverRelease(s) PROVE PeerInv'
  <2> SUFFICES ASSUME ~options.faults, ~options.shutdowns PROVE PeerInv'
    BY <1>10 DEF RemoverRelease
  <2>1. s \in Born /\ s \in Sockets /\ ReleaseEffect(Remover, s)
    BY <1>1, <1>10 DEF Effects
  <2>2. /\ UNCHANGED <<lpc, cur, data, from, addr>>
        /\ UNCHANGED <<created, listed, tpc, queue, stopEvent, calls, asked>>
    BY <1>10 DEF RemoverRelease
  <2>3. s \in asked
    BY <1>10, <2>1 DEF RemoverRelease
  <2>4. \A b \in Actors : kpc'[b] # "idle" =>
          \/ kpc[b] # "idle" /\ target'[b] = target[b]
          \/ target'[b] = s /\ refCount[s] = 1
    BY <2>1 DEF ReleaseEffect
  <2>5. \A r \in Sockets :
          (\E b \in Actors : kpc'[b] # "idle" /\ target'[b] = r) =>
            r \in asked \/ \E b \in Actors : kpc[b] # "idle" /\ target[b] = r
    BY <2>3, <2>4, SMTT(20)
  <2>6. \A r \in Sockets : Ending(r)' => r \in asked
    BY <2>2, <2>5
  <2>7. QED
    BY <2>2, <2>6
<1>11. ASSUME NEW s \in Sockets, UserKill(s) PROVE PeerInv'
  BY <1>11, ZenonT(30) DEF UserKill, Enter
<1>12. ASSUME NEW s \in Sockets, ThreadStep(s) PROVE PeerInv'
  <2> SUFFICES ASSUME ~options.faults, ~options.shutdowns PROVE PeerInv'
    BY <1>12 DEF ThreadStep
  <2>1. ThreadEffect(s)
    BY <1>1, <1>12 DEF Effects
  <2>2. UNCHANGED <<lpc, cur, data, from, addr, created, kpc, target, asked>>
    BY <1>12 DEF ThreadStep
  <2>3. \A r \in Sockets : r # s =>
          tpc'[r] = tpc[r] /\ queue'[r] = queue[r] /\ calls'[r] = calls[r]
    BY <2>1 DEF ThreadEffect
  <2>4. tpc'[s] \in EndingPlaces => s \in asked
    <3>1. queue[s] # <<>> /\ Head(queue[s]) = 0 =>
            \E i \in 1..Len(queue[s]) : queue[s][i] = 0
      <4>1. queue[s] \in Seq(Numbers)
        BY DEF Numbers
      <4>2. queue[s] # <<>> => 1 \in 1..Len(queue[s]) /\ Head(queue[s]) = queue[s][1]
        BY <4>1
      <4>3. QED
        BY <4>2
    <3>2. QED
      BY <2>1, <3>1 DEF ThreadEffect
  <2>5. \A i \in 1..Len(queue'[s]) :
          queue'[s][i] = 0 => \E j \in 1..Len(queue[s]) : queue[s][j] = 0
    <3>1. CASE queue'[s] = queue[s]
      BY <3>1
    <3>2. CASE queue'[s] = <<>>
      BY <3>2
    <3>3. CASE queue[s] # <<>> /\ queue'[s] = Tail(queue[s])
      <4>1. queue[s] \in Seq(Numbers)
        BY DEF Numbers
      <4>2. \A i \in 1..Len(Tail(queue[s])) :
              i + 1 \in 1..Len(queue[s]) /\ Tail(queue[s])[i] = queue[s][i + 1]
        BY <3>3, <4>1
      <4>3. QED
        BY <3>3, <4>2
    <3>4. QED
      BY <2>1, <3>1, <3>2, <3>3 DEF ThreadEffect, Shorter
  <2>6. \A i \in 1..Len(calls'[s]) :
          calls'[s][i] = <<"disconnect", 0>> =>
            tpc[s] = "notify" \/ \E j \in 1..Len(calls[s]) : calls[s][j] = <<"disconnect", 0>>
    <3>1. CASE calls'[s] = calls[s]
      BY <3>1
    <3>2. ASSUME NEW c \in CallSet, calls'[s] = Append(calls[s], c),
                 c = <<"disconnect", 0>> => tpc[s] = "notify",
                 NEW i \in 1..Len(calls'[s]), calls'[s][i] = <<"disconnect", 0>>
          PROVE  \/ tpc[s] = "notify"
                 \/ calls[s][i] = <<"disconnect", 0>> /\ i \in 1..Len(calls[s])
      <4>1. calls[s] \in Seq(CallSet)
        BY DEF CallSet
      <4>2. i \in 1..Len(Append(calls[s], c))
        BY <3>2
      <4>3. \/ i \in 1..Len(calls[s]) /\ Append(calls[s], c)[i] = calls[s][i]
            \/ Append(calls[s], c)[i] = c
        <5> HIDE DEF IInv, TypeOK, PeerInv, ListInv, StartInv, HandInv, BornInv, BornFacts
        <5>1. QED
          BY <4>1, <4>2, AppendAt
      <4>4. QED
        BY <3>2, <4>3
    <3>3. QED
      BY <2>1, <3>1, <3>2 DEF ThreadEffect
  <2>7. listed' = listed \/ (listed' = listed \ {s} /\ tpc[s] = "remove")
    BY <2>1 DEF ThreadEffect, LeaveContainer
  <2>8. \A r \in Sockets : r # s /\ Ending(r)' => Ending(r)
    <3>1. \A r \in Sockets : stopEvent'[r] => stopEvent[r]
      BY <2>1 DEF ThreadEffect
    <3> HIDE DEF IInv, TypeOK, PeerInv, ListInv, StartInv, HandInv, BornInv
    <3>2. QED
      BY <2>2, <2>3, <2>7, <3>1
  <2>9. Ending(s)' => s \in asked
    <3>1. (\E i \in 1..Len(queue'[s]) : queue'[s][i] = 0) => s \in asked
      BY <2>5
    <3>2. (\E i \in 1..Len(calls'[s]) : calls'[s][i] = <<"disconnect", 0>>) => s \in asked
      BY <2>6
    <3>3. stopEvent'[s] => s \in asked
      BY <2>1 DEF ThreadEffect
    <3>4. s \in Born \ listed' => s \in asked
      BY <2>7
    <3>5. QED
      BY <2>2, <2>4, <3>1, <3>2, <3>3, <3>4
  <2>10. QED
    BY <2>2, <2>8, <2>9, ZenonT(30)
<1>13. ASSUME NEW a \in Actors, KillStep(a) PROVE PeerInv'
  <2> SUFFICES ASSUME ~options.faults, ~options.shutdowns PROVE PeerInv'
    BY <1>13 DEF KillStep
  <2> DEFINE t == target[a]
  <2>1. t \in Born /\ t \in Sockets /\ KillEffect(a, t)
    BY <1>1, <1>13 DEF Effects
  <2>2. UNCHANGED <<lpc, cur, data, from, addr, created, asked>>
    BY <1>13 DEF KillStep
  <2>3. t \in asked
    <3>1. kpc[a] # "idle"
      BY <2>1 DEF KillEffect
    <3>2. Ending(t)
      BY <3>1
    <3>3. QED
      BY <2>1, <3>2
  <2>4. \A r \in Sockets :
          /\ r # t => tpc'[r] = tpc[r] /\ calls'[r] = calls[r] /\ stopEvent'[r] = stopEvent[r]
          /\ queue'[r] = queue[r] \/ queue'[r] = <<>>
    BY <2>1 DEF KillEffect
  <2>5. \A b \in Actors : kpc'[b] # "idle" => kpc[b] # "idle" /\ target'[b] = target[b]
    BY <2>1 DEF KillEffect
  <2>6. listed \ {t} \subseteq listed'
    BY <2>1 DEF KillEffect, LeaveContainer
  <2>7. \A r \in Sockets : (\E i \in 1..Len(queue'[r]) : queue'[r][i] = 0) =>
                             \E i \in 1..Len(queue[r]) : queue[r][i] = 0
    BY <2>4
  <2>8. \A r \in Sockets : r # t /\ Ending(r)' => Ending(r)
    <3> HIDE DEF IInv, TypeOK, PeerInv, ListInv, StartInv, HandInv, BornInv, t, Actors
    <3>1. QED
      BY <2>2, <2>4, <2>5, <2>6, <2>7
  <2>9. QED
    BY <2>2, <2>3, <2>8, ZenonT(30)
<1>14. CASE UNCHANGED vars
  BY <1>14 DEF vars
<1>15. QED
  BY <1>2, <1>3, <1>4, <1>5, <1>6, <1>7, <1>8, <1>9, <1>10, <1>11, <1>12, <1>13, <1>14
  DEF Next, LoopStep

LEMMA NextIInv == IInv /\ [Next]_vars => IInv'
BY TypeStep, HandStep, BornStep, SleepStep, StartStep, ListStep, MatchStep, PeerStep DEF IInv

LEMMA SpecIInv == Spec => []IInv
BY InitIInv, NextIInv, PTL DEF Spec

-----------------------------------------------------------------------------
(* What the invariant says of the sockets that serve.                      *)
LEMMA OneEach == IInv => OneReceiverPerClient
<1> SUFFICES ASSUME IInv, ~options.shutdowns
             PROVE  /\ \A s, r \in Serving : addr[s] = addr[r] => s = r
                    /\ options.limit > 0 => Cardinality(Serving) <= options.limit
  BY DEF OneReceiverPerClient
<1>1. Serving \subseteq listed /\ IsFiniteSet(listed) /\ Cardinality(listed) \in Nat
  BY FiniteList DEF IInv, ListInv
<1>2. Cardinality(Serving) <= Cardinality(listed) /\ Cardinality(Serving) \in Nat
  BY <1>1, FS_Subset, FS_CardinalityType
<1>3. options.limit \in Nat
  BY UdpServerAssumption DEF IInv, TypeOK
<1>4. QED
  BY <1>1, <1>2, <1>3 DEF IInv, MatchInv

(* What it says of the ends. *)
LEMMA OnlyPeers == IInv => OnlyItsPeerEndsIt
<1> SUFFICES ASSUME IInv, ~options.faults, ~options.shutdowns, NEW s \in Sockets,
                    Callbacks(s)!OnDisconnect \in Range(calls[s])
             PROVE  s \in asked
  BY DEF OnlyItsPeerEndsIt
<1>1. calls[s] \in Seq({"new", "received", "disconnect"} \X Nat)
  BY DEF IInv, TypeOK
<1>2. DOMAIN calls[s] = 1..Len(calls[s])
  BY <1>1
<1>3. \E i \in 1..Len(calls[s]) : calls[s][i] = <<"disconnect", 0>>
  BY <1>2, TheCalls DEF Range
<1>4. Ending(s)
  BY <1>3 DEF Ending
<1>5. QED
  BY <1>4 DEF IInv, PeerInv

(* A socket is about one client from its first datagram to its end: one    *)
(* socket serves a client, no more than the limit are served, and the end  *)
(* is told only after the client or the application asked for it (the      *)
(* receiving loop of epAsyncUdpServer.cpp with the threads and             *)
(* KillConnection of epAsyncUdpSocket.cpp).                                *)
THEOREM SocketServesItsClient == Spec => []ServesItsClient
<1>1. IInv => ServesItsClient
  BY OneEach, OnlyPeers DEF ServesItsClient, IInv
<1>2. QED
  BY <1>1, SpecIInv, PTL

(* A thread sleeps on a queue that is not empty only if a packet came      *)
(* between its look at the queue and its Suspend (epAsyncUdpSocket.cpp).   *)
THEOREM SleeperMissedIt == Spec => []SleepsOnlyIfMissed
<1>1. IInv => SleepsOnlyIfMissed
  BY DEF IInv, SleepInv, SleepsOnlyIfMissed
<1>2. QED
  BY <1>1, SpecIInv, PTL

-----------------------------------------------------------------------------
(* The order of the calls: with an infinite wait every socket calls the    *)
(* application as ConnectionCallbacks says.                                *)

(* No empty packet in front of the i-th. *)
Clean(q, i) == \A j \in 1..(i - 1) : q[j] # 0

(* A queue, up to its first empty packet, has the packets first, first + 1,*)
(* ... of its socket; n is the number of the last.                         *)
InOrder(q, first, n) ==
  /\ \A i \in 1..Len(q) : Clean(q, i) => q[i] \in {0, first + i - 1}
  /\ Clean(q, Len(q) + 1) => n = first + Len(q) - 1

(* The number of the packet that OnReceived is called with next.           *)
NextPacket(s) == IF calls[s] = <<>> THEN 1 ELSE Len(calls[s])

(* The thread has called OnNewConnection, and not yet OnDisconnect.        *)
TalkingPlaces ==
  {"top", "check", "suspend", "suspended", "callback", "drain", "remove", "notify"}

(* With an infinite wait only the thread of a socket calls the application,*)
(* and what is in its queue continues what it has been told.               *)
OrderInv ==
  options.forever =>
    /\ \A a \in Actors : kpc[a] \notin Impatient
    /\ \A s \in Sockets :
         /\ tpc[s] \in {"unstarted", "new"} => calls[s] = <<>>
         /\ tpc[s] \in TalkingPlaces =>
              calls[s] # <<>> /\ calls[s][Len(calls[s])] # <<"disconnect", 0>>
         /\ tpc[s] \in ServingPlaces \cup {"unstarted"} =>
              InOrder(queue[s], NextPacket(s), added[s])

-----------------------------------------------------------------------------
(* A packet that is added, and one that is taken, keep the order.          *)
LEMMA AppendInOrder ==
  ASSUME NEW q \in Seq(Nat), NEW first \in Nat, NEW n \in Nat, InOrder(q, first, n),
         NEW m \in Nat, NEW x \in Nat, (x = 0 /\ m = n) \/ (x = n + 1 /\ m = n + 1)
  PROVE  InOrder(Append(q, x), first, m)
<1> DEFINE r == Append(q, x)
<1>1. /\ Len(r) = Len(q) + 1 /\ r[Len(q) + 1] = x /\ Len(q) \in Nat
      /\ \A i \in 1..Len(q) : r[i] = q[i]
  OBVIOUS
<1> HIDE DEF r
<1>2. ASSUME NEW i \in 1..(Len(q) + 1), Clean(r, i) PROVE Clean(q, i)
  BY <1>1, <1>2 DEF Clean
<1>3. ASSUME NEW i \in 1..Len(r), Clean(r, i) PROVE r[i] \in {0, first + i - 1}
  <2>1. CASE i \in 1..Len(q)
    BY <1>1, <1>2, <1>3, <2>1 DEF InOrder
  <2>2. CASE i = Len(q) + 1
    <3>1. n = first + Len(q) - 1
      BY <1>1, <1>2, <1>3, <2>2 DEF InOrder
    <3>2. QED
      BY <1>1, <2>2, <3>1
  <2>3. QED
    BY <1>1, <1>3, <2>1, <2>2
<1>4. ASSUME Clean(r, Len(r) + 1) PROVE m = first + Len(r) - 1
  <2>1. x # 0 /\ Clean(r, Len(q) + 1)
    BY <1>1, <1>4 DEF Clean
  <2>2. n = first + Len(q) - 1
    BY <1>1, <1>2, <2>1 DEF InOrder
  <2>3. QED
    BY <1>1, <2>1, <2>2
<1>5. QED
  BY <1>3, <1>4 DEF InOrder, r

LEMMA TailInOrder ==
  ASSUME NEW q \in Seq(Nat), NEW first \in Nat, NEW n \in Nat, InOrder(q, first, n),
         q # <<>>, Head(q) # 0
  PROVE  Head(q) = first /\ InOrder(Tail(q), first + 1, n)
<1> DEFINE r == Tail(q)
<1>1. /\ Len(q) \in Nat /\ Len(q) >= 1 /\ Len(r) = Len(q) - 1 /\ Head(q) = q[1]
      /\ \A i \in 1..Len(r) : r[i] = q[i + 1]
  OBVIOUS
<1> HIDE DEF r
<1>2. Head(q) = first
  BY <1>1 DEF InOrder, Clean
<1>3. ASSUME NEW i \in 1..(Len(r) + 1), Clean(r, i) PROVE Clean(q, i + 1)
  <2>1. ASSUME NEW j \in 1..i PROVE q[j] # 0
    <3>1. CASE j = 1
      BY <1>1, <3>1
    <3>2. CASE j # 1
      <4>1. j - 1 \in 1..(i - 1) /\ j - 1 \in 1..Len(r) /\ (j - 1) + 1 = j
        BY <1>1, <1>3, <2>1, <3>2
      <4>2. r[j - 1] # 0 /\ r[j - 1] = q[(j - 1) + 1]
        BY <1>1, <1>3, <4>1 DEF Clean
      <4>3. QED
        BY <4>1, <4>2
    <3>3. QED
      BY <3>1, <3>2
  <2>2. QED
    BY <2>1 DEF Clean
<1>4. ASSUME NEW i \in 1..Len(r), Clean(r, i) PROVE r[i] \in {0, (first + 1) + i - 1}
  <2>1. Clean(q, i + 1) /\ i + 1 \in 1..Len(q)
    BY <1>1, <1>3, <1>4
  <2>2. q[i + 1] \in {0, first + (i + 1) - 1}
    BY <2>1 DEF InOrder
  <2>3. QED
    BY <1>1, <2>2
<1>5. ASSUME Clean(r, Len(r) + 1) PROVE n = (first + 1) + Len(r) - 1
  <2>1. Clean(q, Len(q) + 1)
    BY <1>1, <1>3, <1>5
  <2>2. n = first + Len(q) - 1
    BY <2>1 DEF InOrder
  <2>3. QED
    BY <1>1, <2>2
<1>6. QED
  BY <1>2, <1>4, <1>5 DEF InOrder, r

-----------------------------------------------------------------------------
LEMMA InitOrder == Init => OrderInv
<1> SUFFICES ASSUME Init PROVE OrderInv
  OBVIOUS
<1>1. InOrder(<<>>, 1, 0)
  BY DEF InOrder
<1>2. QED
  BY <1>1 DEF Init, OrderInv, NextPacket, TalkingPlaces, Impatient

(* Steps that leave the threads and the packets alone. *)
LEMMA SameOrder ==
  ASSUME OrderInv, UNCHANGED <<options, tpc, calls, queue, added>>,
         \A a \in Actors : kpc'[a] \in Impatient => kpc[a] \in Impatient
  PROVE  OrderInv'
BY DEF OrderInv, NextPacket

(* What a step of one socket must keep. *)
LEMMA OneOrder ==
  ASSUME OrderInv, options' = options, NEW s \in Sockets,
         options.forever => \A a \in Actors : kpc'[a] \notin Impatient,
         \A r \in Sockets \ {s} : /\ tpc'[r] = tpc[r] /\ calls'[r] = calls[r]
                                  /\ queue'[r] = queue[r] /\ added'[r] = added[r],
         options.forever =>
           /\ tpc'[s] \in {"unstarted", "new"} => calls'[s] = <<>>
           /\ tpc'[s] \in TalkingPlaces =>
                calls'[s] # <<>> /\ calls'[s][Len(calls'[s])] # <<"disconnect", 0>>
           /\ tpc'[s] \in ServingPlaces \cup {"unstarted"} =>
                InOrder(queue'[s], NextPacket(s)', added'[s])
  PROVE  OrderInv'
<1>1. \A r \in Sockets \ {s} : NextPacket(r)' = NextPacket(r)
  BY DEF NextPacket
<1>2. QED
  BY <1>1 DEF OrderInv

LEMMA LoopOrder ==
  ASSUME IInv, OrderInv, NEW s \in Sockets, s = cur, StartThread \/ AddPacket
  PROVE  OrderInv'
<1>1. CASE StartThread
  <2>1. /\ tpc[s] = "unstarted" /\ calls[s] = <<>>
        /\ tpc' = [tpc EXCEPT ![s] = "new"]
        /\ UNCHANGED <<options, calls, queue, added, kpc>>
    BY <1>1, UdpServerAssumption
    DEF StartThread, Go, IInv, HandInv, TypeOK, StartInv, packetVars, killVars, Born, Sockets
  <2>2. tpc'[s] = "new" /\ \A r \in Sockets \ {s} : tpc'[r] = tpc[r]
    BY <2>1 DEF IInv, TypeOK
  <2>3. NextPacket(s)' = NextPacket(s)
    BY <2>1 DEF NextPacket
  <2>4. options.forever => InOrder(queue[s], NextPacket(s), added[s])
    BY <2>1 DEF OrderInv
  <2>5. QED
    BY <2>1, <2>2, <2>3, <2>4, OneOrder DEF OrderInv, TalkingPlaces
<1>2. CASE AddPacket
  <2>1. options' = options /\ calls' = calls /\ kpc' = kpc
    BY <1>2 DEF AddPacket, killVars
  <2>2. CASE UNCHANGED <<packetVars, tpc>>
    BY <2>1, <2>2, SameOrder DEF packetVars
  <2>3. CASE Enqueue(s)
    <3> DEFINE x == IF data THEN added[s] + 1 ELSE 0
               m == IF data THEN added[s] + 1 ELSE added[s]
    <3>1. /\ added[s] \in Nat /\ queue[s] \in Seq(Nat) /\ x \in Nat /\ m \in Nat
          /\ calls[s] \in Seq(CallSet)
      <4>1. added[s] \in Nat /\ queue[s] \in Seq(Nat)
        BY <2>1, UdpServerAssumption DEF IInv, TypeOK
      <4>2. QED
        BY <2>1, <4>1 DEF IInv, TypeOK, CallSet
    <3>2. /\ added' = [added EXCEPT ![s] = m]
          /\ queue' = [queue EXCEPT ![s] = Append(@, x)]
      <4>1. added' = [added EXCEPT ![s] = m]
        BY <2>3 DEF Enqueue
      <4>2. added'[s] = m
        BY <2>1, <4>1 DEF IInv, TypeOK
      <4>3. QED
        BY <2>3, <4>1, <4>2 DEF Enqueue
    <3> HIDE DEF m
    <3>3. /\ added'[s] = m /\ queue'[s] = Append(queue[s], x)
          /\ \A r \in Sockets \ {s} : added'[r] = added[r] /\ queue'[r] = queue[r]
      BY <2>1, <3>2 DEF IInv, TypeOK
    <3>4. /\ tpc'[s] = tpc[s] \/ (tpc[s] = "suspended" /\ tpc'[s] = "top")
          /\ \A r \in Sockets \ {s} : tpc'[r] = tpc[r]
      BY <2>1, <2>3 DEF Enqueue, IInv, TypeOK
    <3>5. NextPacket(s)' = NextPacket(s) /\ NextPacket(s) \in Nat
      BY <2>1, <3>1 DEF NextPacket
    <3>6. ASSUME options.forever, tpc[s] \in ServingPlaces \cup {"unstarted"}
          PROVE  InOrder(queue'[s], NextPacket(s), m)
      <4>1. InOrder(queue[s], NextPacket(s), added[s])
        BY <2>1, <3>6 DEF OrderInv
      <4>2. (x = 0 /\ m = added[s]) \/ (x = added[s] + 1 /\ m = added[s] + 1)
        BY DEF m
      <4> HIDE DEF x
      <4>3. QED
        BY <3>1, <3>3, <3>5, <4>1, <4>2, AppendInOrder
    <3>7. options.forever =>
            /\ tpc'[s] \in {"unstarted", "new"} => calls'[s] = <<>>
            /\ tpc'[s] \in TalkingPlaces =>
                 calls'[s] # <<>> /\ calls'[s][Len(calls'[s])] # <<"disconnect", 0>>
            /\ tpc'[s] \in ServingPlaces \cup {"unstarted"} =>
                 InOrder(queue'[s], NextPacket(s)', added'[s])
      BY <2>1, <3>3, <3>4, <3>5, <3>6 DEF OrderInv, TalkingPlaces, ServingPlaces
    <3>8. QED
      BY <2>1, <3>3, <3>4, <3>7, OneOrder DEF OrderInv
  <2>4. QED
    BY <1>2, <2>2, <2>3 DEF AddPacket
<1>3. QED
  BY <1>1, <1>2

LEMMA ThreadOrder ==
  ASSUME IInv, OrderInv, NEW s \in Sockets, ThreadStep(s)
  PROVE  OrderInv'
<1>1. /\ options' = options /\ kpc' = kpc /\ added' = added
      /\ \A r \in Sockets \ {s} :
           tpc'[r] = tpc[r] /\ calls'[r] = calls[r] /\ queue'[r] = queue[r]
  BY ThreadMoves DEF ThreadStep, ThreadEffect, killVars
<1>2. /\ tpc \in [Sockets -> ThreadPlaces] /\ queue[s] \in Seq(Nat)
      /\ calls \in [Sockets -> Seq(CallSet)] /\ added[s] \in Nat
  <2>1. queue[s] \in Seq(Nat) /\ added[s] \in Nat
    BY UdpServerAssumption DEF IInv, TypeOK
  <2>2. QED
    BY <2>1 DEF IInv, TypeOK, ThreadPlaces, CallSet
<1>3. ASSUME UNCHANGED <<calls, queue>>,
             tpc[s] \in TalkingPlaces \cup {"told"}, tpc'[s] \notin {"unstarted", "new"},
             tpc'[s] \in TalkingPlaces => tpc[s] \in TalkingPlaces,
             tpc'[s] \in ServingPlaces => tpc[s] \in ServingPlaces
      PROVE  OrderInv'
  BY <1>1, <1>3, OneOrder DEF OrderInv, NextPacket
<1>4. CASE ThreadNew(s)
  <2>1. /\ tpc[s] = "new" /\ tpc'[s] = "top" /\ queue' = queue
        /\ calls' = [calls EXCEPT ![s] = Append(@, <<"new", 0>>)]
    BY <1>2, <1>4, TheCalls DEF ThreadNew, Go, Call
  <2>2. options.forever => calls'[s] = <<<<"new", 0>>>> /\ calls[s] = <<>>
    <3>1. ASSUME options.forever PROVE calls[s] = <<>>
      BY <2>1, <3>1 DEF OrderInv
    <3>2. calls'[s] = Append(calls[s], <<"new", 0>>)
      BY <1>2, <2>1
    <3>3. Append(<<>>, <<"new", 0>>) = <<<<"new", 0>>>>
      OBVIOUS
    <3> HIDE DEF OrderInv, IInv
    <3>4. ASSUME options.forever PROVE calls'[s] = <<<<"new", 0>>>> /\ calls[s] = <<>>
      <4>1. calls[s] = <<>>
        BY <3>1, <3>4
      <4>2. calls'[s] = Append(<<>>, <<"new", 0>>)
        BY <3>2, <4>1
      <4>3. QED
        BY <3>3, <4>1, <4>2, Zenon
    <3>5. QED
      BY <3>4
  <2>3. options.forever => NextPacket(s)' = NextPacket(s)
    BY <2>2 DEF NextPacket
  <2>4. options.forever => InOrder(queue[s], NextPacket(s), added[s])
    BY <2>1 DEF OrderInv, ServingPlaces
  <2>5. options.forever => calls'[s] # <<>> /\ calls'[s][Len(calls'[s])] # <<"disconnect", 0>>
    <3> DEFINE c == <<"new", 0>>
    <3>1. c # <<"disconnect", 0>>
      OBVIOUS
    <3> HIDE DEF c
    <3>2. <<c>> # <<>> /\ <<c>>[Len(<<c>>)] = c
      OBVIOUS
    <3>3. QED
      BY <2>2, <3>1, <3>2 DEF c
  <2>6. options.forever => \A a \in Actors : kpc'[a] \notin Impatient
    BY <1>1 DEF OrderInv
  <2>7. QED
    BY <1>1, <2>1, <2>3, <2>4, <2>5, <2>6, OneOrder
<1>5. CASE Take(s)
  <2> DEFINE x == Head(queue[s])
             c == <<"received", x>>
  <2>1. /\ tpc[s] = "check" /\ tpc'[s] = "callback" /\ queue[s] # <<>> /\ x # 0
        /\ queue'[s] = Tail(queue[s])
        /\ calls' = [calls EXCEPT ![s] = Append(@, c)]
    <3>1. queue \in [Sockets -> Seq(Numbers)]
      BY DEF IInv, TypeOK, Numbers
    <3>2. QED
      BY <1>2, <1>5, <3>1, TheCalls DEF Take, Go, Call
  <2>2. c # <<"disconnect", 0>> /\ c \in CallSet
    BY <1>2, <2>1 DEF CallSet
  <2> HIDE DEF c
  <2>3. /\ Len(calls'[s]) = Len(calls[s]) + 1 /\ calls'[s] # <<>>
        /\ calls'[s][Len(calls'[s])] = c /\ Len(calls[s]) \in Nat
    <3>1. calls[s] \in Seq(CallSet) /\ calls'[s] = Append(calls[s], c)
      BY <1>2, <2>1
    <3>2. \A q \in Seq(CallSet) : /\ Len(Append(q, c)) = Len(q) + 1 /\ Len(q) \in Nat
                                  /\ Append(q, c) # <<>> /\ Append(q, c)[Len(q) + 1] = c
      BY <2>2
    <3>3. QED
      BY <3>1, <3>2
  <2>4. options.forever => calls[s] # <<>>
    BY <2>1 DEF OrderInv, TalkingPlaces
  <2>5. options.forever => NextPacket(s)' = NextPacket(s) + 1 /\ NextPacket(s) \in Nat
    BY <2>3, <2>4 DEF NextPacket
  <2>6. options.forever => InOrder(queue[s], NextPacket(s), added[s])
    BY <2>1 DEF OrderInv, ServingPlaces
  <2>7. options.forever => InOrder(queue'[s], NextPacket(s)', added'[s])
    BY <1>1, <1>2, <2>1, <2>5, <2>6, TailInOrder
  <2>8. options.forever => \A a \in Actors : kpc'[a] \notin Impatient
    BY <1>1 DEF OrderInv
  <2>9. QED
    BY <1>1, <2>1, <2>2, <2>3, <2>7, <2>8, OneOrder
<1>6. CASE ThreadDrain(s)
  <2>1. tpc[s] = "drain" /\ tpc'[s] = "remove" /\ calls' = calls
    BY <1>2, <1>6 DEF ThreadDrain, Go
  <2>2. QED
    BY <1>1, <2>1, OneOrder DEF OrderInv, ServingPlaces, TalkingPlaces
<1>7. CASE ThreadNotify(s)
  <2>1. tpc[s] = "notify" /\ tpc'[s] = "told"
    BY <1>2, <1>7 DEF ThreadNotify, Go
  <2>2. QED
    BY <1>1, <2>1, OneOrder DEF OrderInv, ServingPlaces, TalkingPlaces
<1>8. CASE ThreadTop(s) \/ TakeEmpty(s) \/ NothingThere(s)
  <2>1. UNCHANGED <<calls, queue>> /\ tpc[s] \in {"top", "check"}
        /\ tpc'[s] \in {"drain", "check", "suspend"}
    BY <1>2, <1>8 DEF ThreadTop, TakeEmpty, NothingThere, Go, packetVars
  <2>2. QED
    BY <1>3, <2>1 DEF ServingPlaces, TalkingPlaces
<1>9. CASE ThreadSuspend(s) \/ ThreadReturn(s)
  <2>1. UNCHANGED <<calls, queue>> /\ tpc[s] \in {"suspend", "callback"}
        /\ tpc'[s] \in {"suspended", "top"}
    BY <1>2, <1>9 DEF ThreadSuspend, ThreadReturn, Go, packetVars
  <2>2. QED
    BY <1>3, <2>1 DEF ServingPlaces, TalkingPlaces
<1>10. CASE ThreadRemove(s) \/ ThreadEnd(s)
  <2>1. /\ UNCHANGED <<calls, queue>>
        /\ (tpc[s] = "remove" /\ tpc'[s] = "notify") \/ (tpc[s] = "told" /\ tpc'[s] = "ended")
    BY <1>2, <1>10 DEF ThreadRemove, ThreadEnd, Go, packetVars
  <2>2. QED
    BY <1>3, <2>1 DEF ServingPlaces, TalkingPlaces
<1>11. QED
  BY <1>4, <1>5, <1>6, <1>7, <1>8, <1>9, <1>10 DEF ThreadStep

LEMMA KillOrder ==
  ASSUME IInv, OrderInv, NEW a \in Actors, KillStep(a)
  PROVE  OrderInv'
<1> DEFINE t == target[a]
<1>1. t \in Sockets /\ KillEffect(a, t) /\ options' = options
  BY KillMoves DEF KillStep
<1>2. CASE ~options.forever
  BY <1>1, <1>2 DEF OrderInv
<1>3. CASE options.forever
  <2>1. /\ kpc[a] # "notify" /\ added' = added
        /\ \A b \in Actors : kpc'[b] \notin Impatient
    BY <1>1, <1>3 DEF KillEffect, OrderInv, Impatient
  <2>2. kpc[a] \in LatePlaces => tpc[t] = "ended"
    BY DEF IInv, StartInv
  <2>3. \A r \in Sockets :
          /\ calls'[r] = calls[r]
          /\ queue'[r] = queue[r] \/ tpc'[r] = "ended"
          /\ tpc'[r] \in {tpc[r], "ended"} \/ (tpc[r] = "suspended" /\ tpc'[r] = "top")
    BY <1>1, <2>1, <2>2 DEF KillEffect
  <2>4. \A r \in Sockets : NextPacket(r)' = NextPacket(r)
    BY <2>3 DEF NextPacket
  <2>5. ASSUME NEW r \in Sockets
        PROVE  /\ tpc'[r] \in {"unstarted", "new"} => calls'[r] = <<>>
               /\ tpc'[r] \in TalkingPlaces =>
                    calls'[r] # <<>> /\ calls'[r][Len(calls'[r])] # <<"disconnect", 0>>
               /\ tpc'[r] \in ServingPlaces \cup {"unstarted"} =>
                    InOrder(queue'[r], NextPacket(r)', added'[r])
    BY <1>3, <2>1, <2>3, <2>4 DEF OrderInv, TalkingPlaces, ServingPlaces
  <2>6. QED
    BY <1>1, <2>1, <2>5 DEF OrderInv
<1>4. QED
  BY <1>2, <1>3

LEMMA NextOrder == IInv /\ OrderInv /\ [Next]_vars => OrderInv'
<1> SUFFICES ASSUME IInv, OrderInv, [Next]_vars PROVE OrderInv'
  OBVIOUS
<1> USE DEF loopVars, packetVars, killVars, objectVars, listVars
<1>1. CASE Receive \/ Find \/ Accept \/ Push \/ ServerClear \/ UNCHANGED vars
  <2>1. UNCHANGED <<options, tpc, calls, queue, added, kpc>>
    BY <1>1 DEF Receive, Find, Accept, Push, ServerClear, vars
  <2>2. QED
    BY <2>1, SameOrder
<1>2. CASE StartThread \/ AddPacket
  <2>1. cur \in Sockets
    <3>1. CASE StartThread
      BY <3>1, UdpServerAssumption DEF StartThread, IInv, HandInv, TypeOK, Born, Sockets
    <3>2. CASE AddPacket
      BY <3>2, AddMoves
    <3>3. QED
      BY <1>2, <3>1, <3>2
  <2>2. PICK s \in Sockets : s = cur
    BY <2>1
  <2>3. QED
    BY <1>2, <2>2, LoopOrder
<1>3. CASE kpc[Loop] = "idle" /\ LoopRelease
  <2>1. ReleaseEffect(Loop, cur) /\ UNCHANGED <<options, tpc, calls, queue, added>>
    BY <1>3, StepEffects DEF Effects, LoopRelease
  <2>2. QED
    BY <2>1, SameOrder DEF ReleaseEffect, Impatient
<1>4. ASSUME NEW s \in Sockets, RemoverRelease(s) PROVE OrderInv'
  <2>1. ReleaseEffect(Remover, s) /\ UNCHANGED <<options, tpc, calls, queue, added>>
    BY <1>4, StepEffects DEF Effects, RemoverRelease
  <2>2. QED
    BY <2>1, SameOrder DEF ReleaseEffect, Impatient
<1>5. ASSUME NEW s \in Sockets, UserKill(s) PROVE OrderInv'
  <2>1. UNCHANGED <<options, tpc, calls, queue, added>> /\ kpc' = [kpc EXCEPT ![User] = "resume"]
    BY <1>5 DEF UserKill
  <2>2. \A a \in Actors : kpc'[a] \in Impatient => kpc[a] \in Impatient
    BY <2>1 DEF IInv, TypeOK, Impatient
  <2>3. QED
    BY <2>1, <2>2, SameOrder
<1>6. ASSUME NEW s \in Sockets, ThreadStep(s) PROVE OrderInv'
  BY <1>6, ThreadOrder
<1>7. ASSUME NEW a \in Actors, KillStep(a) PROVE OrderInv'
  BY <1>7, KillOrder
<1>8. QED
  BY <1>1, <1>2, <1>3, <1>4, <1>5, <1>6, <1>7 DEF Next, LoopStep

-----------------------------------------------------------------------------
(* A step calls the application of one socket only, and in order.          *)
LEMMA StepCalls ==
  ASSUME IInv, OrderInv, Next, options.forever, NEW r \in Sockets
  PROVE  Callbacks(r)!Next \/ UNCHANGED calls[r]
<1> USE DEF loopVars, packetVars, killVars, objectVars, listVars
<1>1. CASE UNCHANGED calls
  BY <1>1
<1>2. ASSUME NEW s \in Sockets, ThreadStep(s)
      PROVE  Callbacks(r)!Next \/ UNCHANGED calls[r]
  <2>1. r # s => calls'[r] = calls[r]
    BY <1>2, ThreadMoves DEF ThreadEffect
  <2>2. /\ calls \in [Sockets -> Seq(CallSet)] /\ queue[s] \in Seq(Nat)
        /\ added[s] \in Nat
    <3>1. queue[s] \in Seq(Nat) /\ added[s] \in Nat
      BY UdpServerAssumption DEF IInv, TypeOK
    <3>2. QED
      BY <3>1 DEF IInv, TypeOK, CallSet
  <2>3. CASE ThreadNew(s)
    <3>1. calls[s] = <<>> /\ calls'[s] = Append(calls[s], <<"new", 0>>)
      BY <2>2, <2>3, TheCalls DEF ThreadNew, Call, OrderInv
    <3>2. calls'[s] = <<<<"new", 0>>>>
      BY <3>1
    <3>3. QED
      BY <2>1, <3>1, <3>2
      DEF Callbacks!Next, Callbacks!Announce, Callbacks!OnNewConnection
  <2>4. CASE Take(s)
    <3>1. /\ tpc[s] = "check" /\ queue[s] # <<>> /\ Head(queue[s]) # 0
          /\ calls'[s] = Append(calls[s], <<"received", Head(queue[s])>>)
      BY <2>2, <2>4, TheCalls DEF Take, Call
    <3>2. /\ calls[s] # <<>> /\ calls[s][Len(calls[s])] # <<"disconnect", 0>>
          /\ InOrder(queue[s], Len(calls[s]), added[s])
      BY <3>1 DEF OrderInv, TalkingPlaces, ServingPlaces, NextPacket
    <3>3. Head(queue[s]) = Len(calls[s])
      <4>1. Len(calls[s]) \in Nat
        BY <2>2
      <4>2. QED
        BY <2>2, <3>1, <3>2, <4>1, TailInOrder
    <3>4. QED
      BY <2>1, <3>1, <3>2, <3>3
      DEF Callbacks!Next, Callbacks!Deliver, Callbacks!Connected, Callbacks!OnReceived,
          Callbacks!OnDisconnect
  <2>5. CASE ThreadNotify(s)
    <3>1. /\ tpc[s] = "notify"
          /\ calls'[s] = Append(calls[s], <<"disconnect", 0>>)
      BY <2>2, <2>5, TheCalls DEF ThreadNotify, Call
    <3>2. calls[s] # <<>> /\ calls[s][Len(calls[s])] # <<"disconnect", 0>>
      BY <3>1 DEF OrderInv, TalkingPlaces
    <3>3. QED
      BY <2>1, <3>1, <3>2
      DEF Callbacks!Next, Callbacks!Disconnect, Callbacks!Connected, Callbacks!OnDisconnect
  <2>6. CASE ~(ThreadNew(s) \/ Take(s) \/ ThreadNotify(s))
    BY <1>1, <1>2, <2>6
    DEF ThreadStep, ThreadTop, TakeEmpty, NothingThere, ThreadSuspend, ThreadReturn,
        ThreadDrain, ThreadRemove, ThreadEnd
  <2>7. QED
    BY <2>3, <2>4, <2>5, <2>6
<1>3. ASSUME NEW a \in Actors, KillStep(a) PROVE calls'[r] = calls[r]
  <2>1. KillEffect(a, target[a]) /\ kpc[a] # "notify"
    BY <1>3, KillMoves DEF KillStep, OrderInv, Impatient
  <2>2. QED
    BY <2>1 DEF KillEffect
<1>4. CASE (kpc[Loop] = "idle" /\ Receive) \/ LoopStep \/ ServerClear
  BY <1>1, <1>4
  DEF Receive, LoopStep, Find, Accept, Push, StartThread, AddPacket, LoopRelease, ServerClear
<1>5. ASSUME NEW s \in Sockets, RemoverRelease(s) \/ UserKill(s) PROVE calls' = calls
  BY <1>5 DEF RemoverRelease, UserKill
<1>6. QED
  BY <1>1, <1>2, <1>3, <1>4, <1>5 DEF Next

(* With an infinite wait the application sees every connection as          *)
(* ConnectionCallbacks promises: OnNewConnection, the packets of its       *)
(* client without a gap and in order, OnDisconnect once and last           *)
(* (epAsyncUdpSocket.cpp).                                                 *)
THEOREM CallsKeepOrder == Spec => KeepsCallbackOrder
<1>1. Init => \A s \in Sockets : Callbacks(s)!Init
  BY DEF Init, Callbacks!Init
<1>2. IInv /\ OrderInv /\ [Next]_vars =>
        [options.forever =>
           \A s \in Sockets : Callbacks(s)!Next \/ UNCHANGED calls[s]]_calls
  BY StepCalls DEF vars
<1>3. QED
  BY <1>1, <1>2, InitIInv, NextIInv, InitOrder, NextOrder, PTL DEF Spec, KeepsCallbackOrder
=============================================================================
