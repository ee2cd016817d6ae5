------------------------ MODULE AsyncTcpClientProofs ------------------------
(***************************************************************************)
(* Proofs about AsyncTcpClient, for any threads, any number of sessions    *)
(* and packets and any way to use the client: nothing leaks on any path    *)
(* through Connect, Disconnect and the receiving thread (NothingLeaks),    *)
(* and with an infinite wait the sessions are those that ClientSessions    *)
(* promises (ImplementsSessions).                                          *)
(***************************************************************************)
EXTENDS AsyncTcpClient, TLAPS

Outside == {"idle", "connect", "disconnect"}
Connecting == {"resolve", "socket", "start"}
Cleaning == {"close", "free", "cleanup"}
Disconnecting == {"shutdown", "terminate", "join"}
Places ==
  Outside \cup Connecting \cup Cleaning \cup Disconnecting \cup {"notify", "return"}

(* The part of the type invariant the proofs need. *)
CallTypes ==
  /\ lock \in Actors \cup {Free}
  /\ cpc \in [Actors -> Places]

DataTypes ==
  /\ options \in Options
  /\ killed \in BOOLEAN
  /\ result \in BOOLEAN
  /\ winsock \in Int
  /\ calls \in Seq({"connected", "received", "disconnect"} \X Nat)

Types == CallTypes /\ DataTypes

(* m_generalLock keeps one actor inside of Connect and Disconnect. *)
LockInv == \A a \in Actors : cpc[a] \notin Outside <=> lock = a

(* One start of Winsock is to be given back, or none is. *)
OneStart == Patient => winsock = 2
Back == Patient => winsock = 1

(* What the holder of the lock can rely on, in front of each of its steps. *)
(* Disconnect, and Connect where it answers true, may find everything done *)
(* by the thread at any of them.                                           *)
CallOf(a) ==
  /\ cpc[a] \in Connecting => tpc = "none" /\ ~killed /\ Sessions!Idle /\ OneStart
  /\ cpc[a] \in {"resolve", "socket"} => sock = "invalid"
  /\ cpc[a] = "resolve" => ~result
  /\ cpc[a] \in Cleaning => tpc = "none" /\ (killed \/ (Sessions!Idle /\ OneStart))
  /\ cpc[a] \in {"free", "cleanup"} => sock = "invalid"
  /\ cpc[a] = "cleanup" => ~result
  /\ cpc[a] = "notify" => tpc = "none" /\ killed /\ sock = "invalid" /\ ~result
  /\ cpc[a] \in Disconnecting \cup {"return"} =>
       ~killed /\ (tpc = "none" => Sessions!Idle /\ sock = "invalid" /\ ~result /\ Back)

CallInv == \A a \in Actors : CallOf(a)

KilledInv == killed => ~Patient

(* How far the thread is with its clean-up. *)
ThreadInv ==
  /\ tpc \in {"receive", "callback", "close", "free", "cleanup"} => OneStart
  /\ tpc \in {"receive", "callback", "close", "free", "cleanup", "notify"} =>
       ~Sessions!Idle
  /\ tpc \in {"free", "cleanup", "notify", "told"} => sock = "invalid"
  /\ tpc \in {"cleanup", "notify", "told"} => ~result
  /\ tpc \in {"notify", "told"} => Back
  /\ tpc = "told" => Sessions!Idle

(* The inductive invariant. *)
IInv == Types /\ LockInv /\ CallInv /\ KilledInv /\ ThreadInv /\ NothingLeaks

-----------------------------------------------------------------------------
(* The last call of a longer history. *)
LEMMA LastAppended ==
  ASSUME NEW S, NEW s \in Seq(S), NEW e \in S
  PROVE  /\ Append(s, e) \in Seq(S)
         /\ Append(s, e) # <<>>
         /\ Append(s, e)[Len(Append(s, e))] = e
OBVIOUS

(* What each entry of the history does to the session. *)
LEMMA Entries ==
  ASSUME DataTypes
  PROVE  LET S == Seq({"connected", "received", "disconnect"} \X Nat)
         IN  /\ calls' = Append(calls, Sessions!Connected) => calls' \in S /\ ~Sessions!Idle'
             /\ calls' = Append(calls, Sessions!OnDisconnect) => calls' \in S /\ Sessions!Idle'
             /\ \A n \in Nat :
                  calls' = Append(calls, Sessions!OnReceived(n)) =>
                    calls' \in S /\ ~Sessions!Idle'
<1> DEFINE S == {"connected", "received", "disconnect"} \X Nat
<1>1. calls \in Seq(S)
  BY DEF DataTypes
<1>2. ASSUME NEW e \in S, calls' = Append(calls, e)
      PROVE  calls' \in Seq(S) /\ calls' # <<>> /\ calls'[Len(calls')] = e
  BY <1>1, <1>2, LastAppended
<1>3. /\ <<"connected", 0>> \in S /\ <<"disconnect", 0>> \in S
      /\ \A n \in Nat : <<"received", n>> \in S
  OBVIOUS
<1>4. /\ <<"connected", 0>> # <<"disconnect", 0>>
      /\ \A n \in Nat : <<"received", n>> # <<"disconnect", 0>>
  OBVIOUS
<1> HIDE DEF S
<1>5. calls' = Append(calls, <<"connected", 0>>) => calls' \in Seq(S) /\ ~Sessions!Idle'
  BY <1>2, <1>3, <1>4 DEF Sessions!Idle, Sessions!OnDisconnect, Sessions!Last
<1>6. calls' = Append(calls, <<"disconnect", 0>>) => calls' \in Seq(S) /\ Sessions!Idle'
  BY <1>2, <1>3 DEF Sessions!Idle, Sessions!OnDisconnect, Sessions!Last
<1>7. \A n \in Nat : calls' = Append(calls, <<"received", n>>) => calls' \in Seq(S) /\ ~Sessions!Idle'
  BY <1>2, <1>3, <1>4 DEF Sessions!Idle, Sessions!OnDisconnect, Sessions!Last
<1>8. QED
  BY <1>5, <1>6, <1>7 DEF Sessions!Connected, Sessions!OnDisconnect, Sessions!OnReceived, S

-----------------------------------------------------------------------------
LEMMA InitIInv == Init => IInv
<1> SUFFICES ASSUME Init PROVE IInv
  OBVIOUS
<1>1. Types
  <2>1. cpc \in [Actors -> {"idle"}]
    BY DEF Init
  <2>2. cpc \in [Actors -> Places]
    BY <2>1 DEF Outside, Places
  <2>3. calls \in Seq({"connected", "received", "disconnect"} \X Nat)
    BY DEF Init
  <2>4. winsock \in Int
    BY DEF Init
  <2>5. QED BY <2>2, <2>3, <2>4 DEF Init, Types, CallTypes, DataTypes
<1>2. \A a \in Actors : cpc[a] = "idle" /\ lock # a
  BY AsyncTcpClientAssumption DEF Init, Actors
<1>3. LockInv /\ CallInv
  BY <1>2 DEF LockInv, CallInv, CallOf, Outside, Connecting, Cleaning, Disconnecting
<1>4. KilledInv /\ ThreadInv /\ NothingLeaks
  BY DEF Init, KilledInv, ThreadInv, NothingLeaks, Sessions!Idle
<1>5. QED BY <1>1, <1>3, <1>4 DEF IInv

(* Everything IInv speaks of is unchanged. *)
LEMMA SameIInv ==
  ASSUME IInv, UNCHANGED <<options, lock, cpc, killed, tpc, sock, result, winsock, calls>>
  PROVE  IInv'
BY DEF IInv, Types, CallTypes, DataTypes, LockInv, CallInv, CallOf, KilledInv, ThreadInv, NothingLeaks, Patient,
       OneStart, Back, IsConnectionAlive, Sessions!Idle, Sessions!OnDisconnect,
       Sessions!Last

(* What is said of an actor outside of the calls holds of him anyway. *)
LEMMA OutsideHolds ==
  ASSUME NEW a \in Actors, cpc'[a] \in Outside
  PROVE  CallOf(a)'
BY DEF CallOf, Outside, Connecting, Cleaning, Disconnecting

(* A call begins or ends without the lock. *)
LEMMA OutsideIInv ==
  ASSUME IInv, NEW a \in Actors, NEW p \in Outside, cpc[a] \in Outside,
         cpc' = [cpc EXCEPT ![a] = p],
         killed' = killed \/ (lock = Free /\ killed' = FALSE),
         UNCHANGED <<options, lock, tpc, sock, result, winsock, calls>>
  PROVE  IInv'
<1> USE DEF IInv
<1>1. Types'
  <2>1. p \in Places
    BY DEF Places
  <2>2. cpc' \in [Actors -> Places]
    BY <2>1 DEF Types, CallTypes
  <2>3. killed' \in BOOLEAN
    BY DEF Types, DataTypes
  <2>4. QED BY <2>2, <2>3 DEF Types, CallTypes, DataTypes
<1>2. \A b \in Actors : cpc'[b] = IF b = a THEN p ELSE cpc[b]
  BY DEF Types, CallTypes
<1>3. Sessions!Idle' = Sessions!Idle /\ OneStart' = OneStart /\ Back' = Back
  BY DEF Sessions!Idle, Sessions!OnDisconnect, Sessions!Last, OneStart, Back, Patient
<1>4. LockInv'
  BY <1>2 DEF LockInv
<1>5. CallInv'
  <2> SUFFICES ASSUME NEW b \in Actors PROVE CallOf(b)'
    BY DEF CallInv
  <2>1. CASE cpc'[b] \in Outside
    BY <2>1, OutsideHolds
  <2>2. CASE cpc'[b] \notin Outside
    <3>1. b # a /\ cpc'[b] = cpc[b]
      BY <2>2, <1>2
    <3>2. lock = b /\ lock # Free
      BY <3>1, <2>2, AsyncTcpClientAssumption DEF LockInv, Actors
    <3>3. killed' = killed
      BY <3>2
    <3>4. QED BY <3>1, <3>3, <1>3 DEF CallInv, CallOf
  <2>3. QED BY <2>1, <2>2
<1>6. KilledInv' /\ ThreadInv' /\ NothingLeaks'
  BY <1>3 DEF KilledInv, ThreadInv, NothingLeaks, Patient, IsConnectionAlive, Back
<1>7. QED BY <1>1, <1>4, <1>5, <1>6

(* A step of the actor that has the lock, or takes it: all others are      *)
(* outside.                                                                *)
LEMMA AloneIInv ==
  ASSUME IInv, NEW a \in Actors, NEW p \in Places,
         lock \in {a, Free},
         cpc' = [cpc EXCEPT ![a] = p],
         lock' = IF p \in Outside THEN Free ELSE a,
         CallOf(a)', DataTypes', KilledInv', ThreadInv', NothingLeaks'
  PROVE  IInv'
<1> USE DEF IInv
<1>1. CallTypes'
  BY DEF Types, CallTypes
<1>2. \A b \in Actors : cpc'[b] = IF b = a THEN p ELSE cpc[b]
  BY DEF Types, CallTypes
<1>3. \A b \in Actors : b # Free
  BY AsyncTcpClientAssumption DEF Actors
<1>4. \A b \in Actors : b # a => cpc'[b] \in Outside
  BY <1>2, <1>3 DEF LockInv
<1>5. LockInv'
  BY <1>2, <1>3, <1>4 DEF LockInv
<1>6. CallInv'
  BY <1>4, OutsideHolds DEF CallInv
<1>7. QED BY <1>1, <1>5, <1>6 DEF Types

(* The holder of the lock. *)
LEMMA Holds ==
  ASSUME IInv, NEW a \in Actors, cpc[a] \notin Outside
  PROVE  lock = a /\ lock # Free /\ CallOf(a) /\ cpc[a] \in Places
BY AsyncTcpClientAssumption DEF IInv, LockInv, CallInv, Types, CallTypes, Actors

(* Where an actor is sent. *)
LEMMA Sent ==
  ASSUME IInv, NEW a \in Actors, NEW p, Go(a, p)
  PROVE  cpc' = [cpc EXCEPT ![a] = p] /\ cpc'[a] = p
BY DEF IInv, Types, CallTypes, Go

(* The history is the same. *)
LEMMA SameCalls ==
  ASSUME UNCHANGED calls
  PROVE  Sessions!Idle' = Sessions!Idle
BY DEF Sessions!Idle, Sessions!OnDisconnect, Sessions!Last

-----------------------------------------------------------------------------
(* Connect. *)
LEMMA BeginIInv ==
  ASSUME IInv, NEW a \in Actors, UNCHANGED options, ConnectBegin(a)
  PROVE  IInv'
<1> USE DEF IInv
<1>1. /\ lock = Free /\ tpc = "none" /\ cpc[a] = "connect"
      /\ Sessions!Idle /\ sock = "invalid" /\ ~result /\ Back
  BY DEF ConnectBegin, NothingLeaks, IsConnectionAlive, Back
<1>2. /\ sock' = "invalid" /\ killed' = FALSE
      /\ UNCHANGED <<options, tpc, result, calls>>
  BY DEF ConnectBegin
<1>3. CASE Go(a, "idle") /\ UNCHANGED <<lock, winsock>>
  <2>1. cpc' = [cpc EXCEPT ![a] = "idle"] /\ cpc[a] \in Outside /\ "idle" \in Outside
    BY <1>1, <1>3 DEF Go, Outside
  <2>2. QED BY <1>1, <1>2, <1>3, <2>1, OutsideIInv
<1>4. CASE lock' = a /\ winsock' = winsock + 1 /\ Go(a, "resolve")
  <2>1. Sessions!Idle'
    BY <1>1, <1>2, SameCalls
  <2>2. OneStart'
    BY <1>1, <1>2, <1>4 DEF OneStart, Back, Patient
  <2>3. cpc' = [cpc EXCEPT ![a] = "resolve"] /\ cpc'[a] = "resolve"
    BY <1>4, Sent
  <2>4. "resolve" \in Places \ Outside
    BY DEF Places, Outside, Connecting
  <2>5. CallOf(a)'
    BY <1>1, <1>2, <2>1, <2>2, <2>3
    DEF CallOf, Connecting, Cleaning, Disconnecting
  <2>6. DataTypes'
    <3>1. winsock' \in Int
      BY <1>4 DEF Types, DataTypes
    <3>2. QED BY <1>2, <3>1 DEF Types, DataTypes
  <2>7. KilledInv' /\ ThreadInv'
    BY <1>1, <1>2 DEF KilledInv, ThreadInv
  <2>8. NothingLeaks'
    BY <1>4, AsyncTcpClientAssumption DEF NothingLeaks, Actors
  <2>9. QED
    BY <1>1, <1>4, <2>3, <2>4, <2>5, <2>6, <2>7, <2>8, AloneIInv
<1>5. QED BY <1>3, <1>4 DEF ConnectBegin

LEMMA ResolveIInv ==
  ASSUME IInv, NEW a \in Actors, UNCHANGED options, Resolve(a)
  PROVE  IInv'
<1> USE DEF IInv
<1>1. /\ lock = a /\ lock # Free
      /\ tpc = "none" /\ ~killed /\ Sessions!Idle /\ OneStart /\ sock = "invalid" /\ ~result
  BY Holds DEF Resolve, CallOf, Outside, Connecting
<1>2. UNCHANGED <<options, killed, tpc, sock, calls>>
  BY DEF Resolve
<1>3. Sessions!Idle'
  BY <1>1, <1>2, SameCalls
<1>4. KilledInv' /\ ThreadInv'
  BY <1>1, <1>2 DEF KilledInv, ThreadInv
<1>5. CASE result' = TRUE /\ Go(a, "socket") /\ UNCHANGED <<lock, winsock>>
  <2>1. OneStart'
    BY <1>1, <1>2, <1>5 DEF OneStart, Patient
  <2>2. cpc' = [cpc EXCEPT ![a] = "socket"] /\ cpc'[a] = "socket"
    BY <1>5, Sent
  <2>3. "socket" \in Places \ Outside
    BY DEF Places, Outside, Connecting
  <2>4. CallOf(a)'
    BY <1>1, <1>2, <1>3, <2>1, <2>2 DEF CallOf, Connecting, Cleaning, Disconnecting
  <2>5. DataTypes'
    BY <1>2, <1>5 DEF Types, DataTypes
  <2>6. NothingLeaks'
    BY <1>1, <1>5 DEF NothingLeaks
  <2>7. QED
    BY <1>1, <1>4, <1>5, <2>2, <2>3, <2>4, <2>5, <2>6, AloneIInv
<1>6. CASE winsock' = winsock - 1 /\ Return(a) /\ UNCHANGED result
  <2>1. Back'
    BY <1>1, <1>2, <1>6 DEF OneStart, Back, Patient
  <2>2. cpc' = [cpc EXCEPT ![a] = "idle"] /\ cpc'[a] = "idle" /\ lock' = Free
    BY <1>6, Sent DEF Return
  <2>3. "idle" \in Places \cap Outside
    BY DEF Places, Outside
  <2>4. CallOf(a)'
    BY <2>2, <2>3, OutsideHolds
  <2>5. DataTypes'
    BY <1>2, <1>6 DEF Types, DataTypes
  <2>6. NothingLeaks'
    BY <1>1, <1>2, <1>3, <1>6, <2>1 DEF NothingLeaks, Back
  <2>7. QED
    BY <1>1, <1>4, <2>2, <2>3, <2>4, <2>5, <2>6, AloneIInv
<1>7. QED BY <1>5, <1>6 DEF Resolve

LEMMA SocketIInv ==
  ASSUME IInv, NEW a \in Actors, UNCHANGED options, ConnectSocket(a)
  PROVE  IInv'
<1> USE DEF IInv
<1>1. /\ lock = a /\ lock # Free
      /\ tpc = "none" /\ ~killed /\ Sessions!Idle /\ OneStart
  BY Holds DEF ConnectSocket, CallOf, Outside, Connecting
<1>2. UNCHANGED <<options, lock, killed, tpc, result, winsock, calls>>
  BY DEF ConnectSocket
<1>3. Sessions!Idle' /\ OneStart'
  BY <1>1, <1>2, SameCalls DEF OneStart, Patient
<1>4. KilledInv' /\ ThreadInv'
  BY <1>1, <1>2 DEF KilledInv, ThreadInv
<1>5. PICK p \in {"start", "close"} : Go(a, p) /\ sock' \in {"open", sock}
  BY DEF ConnectSocket
<1>6. cpc' = [cpc EXCEPT ![a] = p] /\ cpc'[a] = p
  BY <1>5, Sent
<1>7. p \in Places \ Outside
  BY DEF Places, Outside, Connecting, Cleaning
<1>8. CallOf(a)'
  BY <1>1, <1>2, <1>3, <1>6 DEF CallOf, Connecting, Cleaning, Disconnecting
<1>9. DataTypes'
  BY <1>2 DEF Types, DataTypes
<1>10. NothingLeaks'
  BY <1>1, <1>2 DEF NothingLeaks
<1>11. QED
  BY <1>1, <1>2, <1>4, <1>6, <1>7, <1>8, <1>9, <1>10, AloneIInv

LEMMA StartIInv ==
  ASSUME IInv, NEW a \in Actors, UNCHANGED options, StartThread(a)
  PROVE  IInv'
<1> USE DEF IInv
<1>1. /\ lock = a /\ lock # Free
      /\ tpc = "none" /\ ~killed /\ Sessions!Idle /\ OneStart
  BY Holds DEF StartThread, CallOf, Outside, Connecting
<1>2. UNCHANGED <<options, lock, killed, sock, result, winsock>>
  BY DEF StartThread, cleanVars
<1>3. KilledInv' /\ OneStart'
  BY <1>1, <1>2 DEF KilledInv, OneStart, Patient
<1>4. CASE /\ tpc' = "receive" /\ Go(a, "return")
           /\ calls' = Append(calls, Sessions!Connected)
  <2>1. /\ calls' \in Seq({"connected", "received", "disconnect"} \X Nat)
        /\ ~Sessions!Idle'
    BY <1>4, Entries DEF Types
  <2>2. cpc' = [cpc EXCEPT ![a] = "return"] /\ cpc'[a] = "return"
    BY <1>4, Sent
  <2>3. "return" \in Places \ Outside
    BY DEF Places, Outside
  <2>4. CallOf(a)'
    BY <1>1, <1>2, <1>4, <2>2 DEF CallOf, Connecting, Cleaning, Disconnecting
  <2>5. DataTypes'
    BY <1>2, <2>1 DEF Types, DataTypes
  <2>6. ThreadInv' /\ NothingLeaks'
    BY <1>3, <1>4, <2>1 DEF ThreadInv, NothingLeaks, IsConnectionAlive
  <2>7. QED
    BY <1>1, <1>2, <1>3, <2>2, <2>3, <2>4, <2>5, <2>6, AloneIInv
<1>5. CASE Go(a, "close") /\ UNCHANGED <<tpc, calls>>
  <2>1. Sessions!Idle'
    BY <1>1, <1>5, SameCalls
  <2>2. cpc' = [cpc EXCEPT ![a] = "close"] /\ cpc'[a] = "close"
    BY <1>5, Sent
  <2>3. "close" \in Places \ Outside
    BY DEF Places, Outside, Cleaning
  <2>4. CallOf(a)'
    BY <1>1, <1>3, <1>5, <2>1, <2>2 DEF CallOf, Connecting, Cleaning, Disconnecting
  <2>5. DataTypes'
    BY <1>2, <1>5 DEF Types, DataTypes
  <2>6. ThreadInv' /\ NothingLeaks'
    BY <1>1, <1>2, <1>5 DEF ThreadInv, NothingLeaks
  <2>7. QED
    BY <1>1, <1>2, <1>3, <1>5, <2>2, <2>3, <2>4, <2>5, <2>6, AloneIInv
<1>6. QED BY <1>4, <1>5 DEF StartThread

(* Connect returns: the thread goes on, or it has ended already. *)
LEMMA ReturnIInv ==
  ASSUME IInv, NEW a \in Actors, UNCHANGED options, ConnectReturn(a)
  PROVE  IInv'
<1> USE DEF IInv
<1>1. /\ lock = a /\ ~killed
      /\ tpc = "none" => Sessions!Idle /\ sock = "invalid" /\ ~result /\ Back
  BY Holds DEF ConnectReturn, CallOf, Outside
<1>2. UNCHANGED <<options, killed, tpc, sock, result, winsock, calls>> /\ Return(a)
  BY DEF ConnectReturn, cleanVars
<1>3. Sessions!Idle' = Sessions!Idle /\ OneStart' = OneStart /\ Back' = Back
  BY <1>2, SameCalls DEF OneStart, Back, Patient
<1>4. cpc' = [cpc EXCEPT ![a] = "idle"] /\ cpc'[a] = "idle" /\ lock' = Free
  BY <1>2, Sent DEF Return
<1>5. "idle" \in Places \cap Outside
  BY DEF Places, Outside
<1>6. CallOf(a)'
  BY <1>4, <1>5, OutsideHolds
<1>7. DataTypes' /\ KilledInv'
  BY <1>1, <1>2 DEF Types, DataTypes, KilledInv
<1>8. ThreadInv'
  BY <1>2, <1>3 DEF ThreadInv
<1>9. NothingLeaks'
  BY <1>1, <1>2, <1>3 DEF NothingLeaks, IsConnectionAlive, Back
<1>10. QED
  BY <1>1, <1>4, <1>5, <1>6, <1>7, <1>8, <1>9, AloneIInv

-----------------------------------------------------------------------------
(* cleanUpClient in Connect, and in Disconnect after it killed the thread. *)
LEMMA CleanUpIInv ==
  ASSUME IInv, NEW a \in Actors, UNCHANGED options, CleanUp(a)
  PROVE  IInv'
<1> USE DEF IInv
<1>1. cpc[a] \in Cleaning
  BY DEF CleanUp, Cleaning
<1>2. lock = a /\ lock # Free /\ tpc = "none" /\ (killed \/ (Sessions!Idle /\ OneStart))
  BY <1>1, Holds DEF CallOf, Outside, Cleaning
<1>3. UNCHANGED <<options, killed, tpc, calls>>
  BY DEF CleanUp
<1>4. Sessions!Idle' = Sessions!Idle
  BY <1>3, SameCalls
<1>5. KilledInv' /\ ThreadInv'
  BY <1>2, <1>3 DEF KilledInv, ThreadInv, Patient
<1>6. CASE cpc[a] = "close" /\ CloseSocket /\ Go(a, "free") /\ UNCHANGED lock
  <2>1. sock' = "invalid" /\ UNCHANGED <<result, winsock>> /\ OneStart' = OneStart
    BY <1>3, <1>6 DEF CloseSocket, OneStart, Patient
  <2>2. cpc' = [cpc EXCEPT ![a] = "free"] /\ cpc'[a] = "free"
    BY <1>6, Sent
  <2>3. "free" \in Places \ Outside
    BY DEF Places, Outside, Cleaning
  <2>4. CallOf(a)'
    BY <1>2, <1>3, <1>4, <2>1, <2>2 DEF CallOf, Connecting, Cleaning, Disconnecting
  <2>5. DataTypes' /\ NothingLeaks'
    BY <1>2, <1>3, <1>6, <2>1 DEF Types, DataTypes, NothingLeaks
  <2>6. QED
    BY <1>2, <1>5, <1>6, <2>2, <2>3, <2>4, <2>5, AloneIInv
<1>7. CASE cpc[a] = "free" /\ FreeResult /\ Go(a, "cleanup") /\ UNCHANGED lock
  <2>1. sock = "invalid" /\ CallOf(a)
    BY <1>7, Holds DEF CallOf, Outside
  <2>2. result' = FALSE /\ UNCHANGED <<sock, winsock>> /\ OneStart' = OneStart
    BY <1>3, <1>7 DEF FreeResult, OneStart, Patient
  <2>3. cpc' = [cpc EXCEPT ![a] = "cleanup"] /\ cpc'[a] = "cleanup"
    BY <1>7, Sent
  <2>4. "cleanup" \in Places \ Outside
    BY DEF Places, Outside, Cleaning
  <2>5. CallOf(a)'
    BY <1>2, <1>3, <1>4, <2>1, <2>2, <2>3 DEF CallOf, Connecting, Cleaning, Disconnecting
  <2>6. DataTypes' /\ NothingLeaks'
    BY <1>2, <1>3, <1>7, <2>2 DEF Types, DataTypes, NothingLeaks
  <2>7. QED
    BY <1>2, <1>5, <1>7, <2>3, <2>4, <2>5, <2>6, AloneIInv
<1>8. CASE cpc[a] = "cleanup" /\ WSACleanup
             /\ IF killed THEN Go(a, "notify") /\ UNCHANGED lock ELSE Return(a)
  <2>1. sock = "invalid" /\ ~result
    BY <1>8, Holds DEF CallOf, Outside
  <2>2. UNCHANGED <<sock, result>> /\ winsock' = IF winsock = 0 THEN 0 ELSE winsock - 1
    BY <1>8 DEF WSACleanup
  <2>3. DataTypes'
    <3>1. winsock' \in Int
      BY <2>2 DEF Types, DataTypes
    <3>2. QED BY <1>3, <2>2, <3>1 DEF Types, DataTypes
  <2>4. CASE killed
    <3>1. cpc' = [cpc EXCEPT ![a] = "notify"] /\ cpc'[a] = "notify" /\ UNCHANGED lock
      BY <1>8, <2>4, Sent
    <3>2. "notify" \in Places \ Outside
      BY DEF Places, Outside
    <3>3. CallOf(a)'
      BY <1>2, <1>3, <2>1, <2>2, <2>4, <3>1 DEF CallOf, Connecting, Cleaning, Disconnecting
    <3>4. NothingLeaks'
      BY <1>2, <3>1 DEF NothingLeaks
    <3>5. QED
      BY <1>2, <1>5, <2>3, <3>1, <3>2, <3>3, <3>4, AloneIInv
  <2>5. CASE ~killed
    <3>1. cpc' = [cpc EXCEPT ![a] = "idle"] /\ cpc'[a] = "idle" /\ lock' = Free
      BY <1>8, <2>5, Sent DEF Return
    <3>2. "idle" \in Places \cap Outside
      BY DEF Places, Outside
    <3>3. CallOf(a)'
      BY <3>1, <3>2, OutsideHolds
    <3>4. Patient' => winsock' = 1
      BY <1>2, <1>3, <2>2, <2>5 DEF OneStart, Patient
    <3>5. NothingLeaks'
      BY <1>2, <1>4, <2>1, <2>2, <2>5, <3>4 DEF NothingLeaks
    <3>6. QED
      BY <1>2, <1>5, <2>3, <3>1, <3>2, <3>3, <3>5, AloneIInv
  <2>6. QED BY <2>4, <2>5
<1>9. QED BY <1>6, <1>7, <1>8 DEF CleanUp

-----------------------------------------------------------------------------
(* Disconnect. *)
LEMMA EnterIInv ==
  ASSUME IInv, NEW a \in Actors, UNCHANGED options, DisconnectEnter(a)
  PROVE  IInv'
<1> USE DEF IInv
<1>1. lock = Free /\ cpc[a] = "disconnect" /\ killed' = FALSE
  BY DEF DisconnectEnter
<1>2. UNCHANGED <<options, tpc, sock, result, winsock, calls>>
  BY DEF DisconnectEnter, cleanVars
<1>3. CASE Go(a, "idle") /\ UNCHANGED lock
  <2>1. cpc' = [cpc EXCEPT ![a] = "idle"] /\ cpc[a] \in Outside /\ "idle" \in Outside
    BY <1>1, <1>3 DEF Go, Outside
  <2>2. QED BY <1>1, <1>2, <1>3, <2>1, OutsideIInv
<1>4. CASE IsConnectionAlive /\ Lock(a) /\ Go(a, "shutdown")
  <2>1. tpc # "none" /\ lock' = a
    BY <1>4 DEF IsConnectionAlive, Lock
  <2>2. cpc' = [cpc EXCEPT ![a] = "shutdown"] /\ cpc'[a] = "shutdown"
    BY <1>4, Sent
  <2>3. "shutdown" \in Places \ Outside
    BY DEF Places, Outside, Disconnecting
  <2>4. CallOf(a)'
    BY <1>1, <1>2, <2>1, <2>2 DEF CallOf, Connecting, Cleaning, Disconnecting
  <2>5. DataTypes' /\ KilledInv'
    BY <1>1, <1>2 DEF Types, DataTypes, KilledInv
  <2>6. ThreadInv'
    BY <1>2, SameCalls DEF ThreadInv, OneStart, Back, Patient
  <2>7. NothingLeaks'
    BY <1>2, <2>1 DEF NothingLeaks, IsConnectionAlive
  <2>8. QED
    BY <1>1, <2>1, <2>2, <2>3, <2>4, <2>5, <2>6, <2>7, AloneIInv
<1>5. QED BY <1>3, <1>4 DEF DisconnectEnter

(* A step of Disconnect up to the end of the thread, that leaves all but   *)
(* the descriptor, or that finds the thread at its end, and kills it then. *)
LEMMA DisconnectIInv ==
  ASSUME IInv, NEW a \in Actors, UNCHANGED options,
         Shutdown(a) \/ Terminate(a) \/ Join(a)
  PROVE  IInv'
<1> USE DEF IInv
<1>1. cpc[a] \in Disconnecting
  BY DEF Shutdown, Terminate, Join, Disconnecting
<1>2. /\ lock = a /\ lock # Free /\ ~killed
      /\ tpc = "none" => Sessions!Idle /\ sock = "invalid" /\ ~result /\ Back
  BY <1>1, Holds DEF CallOf, Outside, Disconnecting
<1>3. UNCHANGED <<options, result, winsock, calls>>
  BY DEF Shutdown, Terminate, Join, cleanVars
<1>4. Sessions!Idle' = Sessions!Idle /\ OneStart' = OneStart /\ Back' = Back
  BY <1>3, SameCalls DEF OneStart, Back, Patient
<1>5. CASE Return(a) /\ UNCHANGED <<killed, tpc, sock>>
           /\ (tpc = "none" \/ sock = "invalid")
  <2>1. cpc' = [cpc EXCEPT ![a] = "idle"] /\ cpc'[a] = "idle" /\ lock' = Free
    BY <1>5, Sent DEF Return
  <2>2. "idle" \in Places \cap Outside
    BY DEF Places, Outside
  <2>3. CallOf(a)'
    BY <2>1, <2>2, OutsideHolds
  <2>4. DataTypes' /\ KilledInv'
    BY <1>2, <1>3, <1>5 DEF Types, DataTypes, KilledInv
  <2>5. ThreadInv'
    BY <1>3, <1>4, <1>5 DEF ThreadInv
  <2>6. NothingLeaks'
    BY <1>2, <1>3, <1>4, <1>5 DEF NothingLeaks, IsConnectionAlive, Back
  <2>7. QED
    BY <1>2, <2>1, <2>2, <2>3, <2>4, <2>5, <2>6, AloneIInv
<1>6. CASE /\ UNCHANGED <<lock, killed, tpc>>
           /\ \/ cpc[a] = "shutdown" /\ sock # "invalid" /\ Go(a, "terminate")
              \/ cpc[a] = "terminate" /\ UNCHANGED sock /\ Go(a, "join")
  <2>1. PICK p \in {"terminate", "join"} : Go(a, p)
    BY <1>6
  <2>2. cpc' = [cpc EXCEPT ![a] = p] /\ cpc'[a] = p
    BY <2>1, Sent
  <2>3. p \in Places \ Outside
    BY DEF Places, Outside, Disconnecting
  <2>4. sock = "invalid" => sock' = "invalid"
    BY <1>6
  <2>5. CallOf(a)'
    BY <1>2, <1>3, <1>4, <1>6, <2>2, <2>4
    DEF CallOf, Connecting, Cleaning, Disconnecting
  <2>6. DataTypes' /\ KilledInv'
    BY <1>2, <1>3, <1>6 DEF Types, DataTypes, KilledInv
  <2>7. ThreadInv'
    BY <1>3, <1>4, <1>6, <2>4 DEF ThreadInv
  <2>8. NothingLeaks'
    BY <1>2, <1>6 DEF NothingLeaks
  <2>9. QED
    BY <1>2, <1>6, <2>2, <2>3, <2>5, <2>6, <2>7, <2>8, AloneIInv
<1>7. CASE ~Patient /\ tpc' = "none" /\ killed' = TRUE /\ Go(a, "close")
           /\ UNCHANGED <<lock, sock>>
  <2>1. cpc' = [cpc EXCEPT ![a] = "close"] /\ cpc'[a] = "close"
    BY <1>7, Sent
  <2>2. "close" \in Places \ Outside
    BY DEF Places, Outside, Cleaning
  <2>3. CallOf(a)'
    BY <1>7, <2>1 DEF CallOf, Connecting, Cleaning, Disconnecting
  <2>4. DataTypes' /\ KilledInv'
    BY <1>3, <1>7 DEF Types, DataTypes, KilledInv, Patient
  <2>5. ThreadInv' /\ NothingLeaks'
    BY <1>2, <1>7 DEF ThreadInv, NothingLeaks
  <2>6. QED
    BY <1>2, <1>7, <2>1, <2>2, <2>3, <2>4, <2>5, AloneIInv
<1>8. QED
  BY <1>5, <1>6, <1>7 DEF Shutdown, Terminate, Join, IsConnectionAlive, Patient, cleanVars

LEMMA NotifyIInv ==
  ASSUME IInv, NEW a \in Actors, UNCHANGED options, DisconnectNotify(a)
  PROVE  IInv'
<1> USE DEF IInv
<1>1. cpc[a] = "notify"
  BY DEF DisconnectNotify
<1>2. lock = a /\ lock # Free /\ tpc = "none" /\ killed /\ sock = "invalid" /\ ~result
  BY <1>1, Holds DEF CallOf, Outside
<1>3. /\ UNCHANGED <<options, killed, tpc, sock, result, winsock>>
      /\ calls' = Append(calls, Sessions!OnDisconnect) /\ Return(a)
  BY DEF DisconnectNotify, cleanVars
<1>4. /\ calls' \in Seq({"connected", "received", "disconnect"} \X Nat)
      /\ Sessions!Idle'
  BY <1>3, Entries DEF Types
<1>5. cpc' = [cpc EXCEPT ![a] = "idle"] /\ cpc'[a] = "idle" /\ lock' = Free
  BY <1>3, Sent DEF Return
<1>6. "idle" \in Places \cap Outside
  BY DEF Places, Outside
<1>7. CallOf(a)'
  BY <1>5, <1>6, OutsideHolds
<1>8. DataTypes'
  BY <1>3, <1>4 DEF Types, DataTypes
<1>9. KilledInv' /\ ThreadInv'
  BY <1>2, <1>3 DEF KilledInv, ThreadInv, Patient
<1>10. NothingLeaks'
  BY <1>2, <1>3, <1>4, <1>9 DEF NothingLeaks, KilledInv
<1>11. QED
  BY <1>2, <1>5, <1>6, <1>7, <1>8, <1>9, <1>10, AloneIInv

-----------------------------------------------------------------------------
(* The thread: what it does leaves the calls where they are. *)
LEMMA ThreadLeavesCalls ==
  ASSUME IInv, tpc # "none", UNCHANGED <<options, callVars>>,
         DataTypes', ThreadInv',
         tpc' = "none" => Sessions!Idle' /\ sock' = "invalid" /\ ~result' /\ Back'
  PROVE  IInv'
<1> USE DEF IInv
<1>1. UNCHANGED <<options, lock, cpc, killed>>
  BY DEF callVars
<1>2. Types' /\ LockInv' /\ KilledInv'
  BY <1>1 DEF Types, CallTypes, LockInv, KilledInv, Patient
<1>3. CallInv'
  BY <1>1 DEF CallInv, CallOf, Cleaning, Connecting, Disconnecting
<1>4. NothingLeaks'
  BY DEF NothingLeaks, IsConnectionAlive, Back
<1>5. QED BY <1>2, <1>3, <1>4

LEMMA ThreadIInv ==
  ASSUME IInv, ThreadStep
  PROVE  IInv'
<1> USE DEF IInv
<1>1. UNCHANGED <<options, callVars>> /\ tpc # "none"
  BY DEF ThreadStep, ThreadReceive, ThreadReturn, ReceiveEnds, ThreadCleanUp,
         ThreadNotify, ThreadEnd
<1>2. Patient' = Patient /\ UNCHANGED <<options, killed>>
  BY <1>1 DEF Patient, callVars
<1>3. CASE ThreadReceive
  <2>1. tpc = "receive" /\ tpc' = "callback" /\ UNCHANGED <<sock, result, winsock>>
    BY <1>3 DEF ThreadReceive, cleanVars
  <2>2. calls # <<>>
    BY <2>1 DEF ThreadInv, Sessions!Idle
  <2>3. Last(calls)[2] + 1 \in Nat
    <3>1. calls[Len(calls)] \in {"connected", "received", "disconnect"} \X Nat
      BY <2>2 DEF Types, DataTypes
    <3>2. Last(calls) \in {"connected", "received", "disconnect"} \X Nat
      BY <3>1 DEF Last
    <3>3. QED BY <3>2
  <2>4. calls' = Append(calls, Sessions!OnReceived(Last(calls)[2] + 1))
    BY <1>3 DEF ThreadReceive
  <2>5. /\ calls' \in Seq({"connected", "received", "disconnect"} \X Nat)
        /\ ~Sessions!Idle'
    BY <2>3, <2>4, Entries DEF Types
  <2>6. DataTypes'
    BY <1>2, <2>1, <2>5 DEF Types, DataTypes
  <2>7. ThreadInv'
    BY <1>2, <2>1, <2>5 DEF ThreadInv, OneStart
  <2>8. QED BY <1>1, <2>1, <2>6, <2>7, ThreadLeavesCalls
<1>4. ASSUME NEW q \in {"receive", "close", "none"}, tpc' = q,
             UNCHANGED <<sock, result, winsock, calls>>,
             q = "receive" => tpc = "callback", q = "close" => tpc = "receive",
             q = "none" => tpc = "told"
      PROVE  IInv'
  <2>1. DataTypes'
    BY <1>2, <1>4 DEF Types, DataTypes
  <2>2. Sessions!Idle' = Sessions!Idle /\ OneStart' = OneStart /\ Back' = Back
    BY <1>2, <1>4, SameCalls DEF OneStart, Back
  <2>3. ThreadInv'
    BY <1>4, <2>2 DEF ThreadInv
  <2>4. QED BY <1>1, <1>4, <2>1, <2>2, <2>3, ThreadLeavesCalls DEF ThreadInv
<1>5. CASE ThreadCleanUp
  <2>1. UNCHANGED calls /\ Sessions!Idle' = Sessions!Idle
    BY <1>5, SameCalls DEF ThreadCleanUp
  <2>2. CASE tpc = "close" /\ CloseSocket /\ tpc' = "free"
    <3>1. sock' = "invalid" /\ UNCHANGED <<result, winsock>>
      BY <2>2 DEF CloseSocket
    <3>2. DataTypes'
      BY <1>2, <2>1, <3>1 DEF Types, DataTypes
    <3>3. ThreadInv'
      BY <1>2, <2>1, <2>2, <3>1 DEF ThreadInv, OneStart
    <3>4. QED BY <1>1, <2>2, <3>2, <3>3, ThreadLeavesCalls
  <2>3. CASE tpc = "free" /\ FreeResult /\ tpc' = "cleanup"
    <3>1. result' = FALSE /\ UNCHANGED <<sock, winsock>>
      BY <2>3 DEF FreeResult
    <3>2. DataTypes'
      BY <1>2, <2>1, <3>1 DEF Types, DataTypes
    <3>3. ThreadInv'
      BY <1>2, <2>1, <2>3, <3>1 DEF ThreadInv, OneStart
    <3>4. QED BY <1>1, <2>3, <3>2, <3>3, ThreadLeavesCalls
  <2>4. CASE tpc = "cleanup" /\ WSACleanup /\ tpc' = "notify"
    <3>1. UNCHANGED <<sock, result>> /\ winsock' = IF winsock = 0 THEN 0 ELSE winsock - 1
      BY <2>4 DEF WSACleanup
    <3>2. winsock' \in Int
      BY <3>1 DEF Types, DataTypes
    <3>3. Back'
      BY <1>2, <2>4, <3>1 DEF ThreadInv, OneStart, Back
    <3>4. DataTypes'
      BY <1>2, <2>1, <3>1, <3>2 DEF Types, DataTypes
    <3>5. ThreadInv'
      BY <2>1, <2>4, <3>1, <3>3 DEF ThreadInv
    <3>6. QED BY <1>1, <2>4, <3>4, <3>5, ThreadLeavesCalls
  <2>5. QED BY <1>5, <2>2, <2>3, <2>4 DEF ThreadCleanUp
<1>6. CASE ThreadNotify
  <2>1. /\ tpc = "notify" /\ tpc' = "told" /\ UNCHANGED <<sock, result, winsock>>
        /\ calls' = Append(calls, Sessions!OnDisconnect)
    BY <1>6 DEF ThreadNotify, cleanVars
  <2>2. /\ calls' \in Seq({"connected", "received", "disconnect"} \X Nat)
        /\ Sessions!Idle'
    BY <2>1, Entries DEF Types
  <2>3. DataTypes'
    BY <1>2, <2>1, <2>2 DEF Types, DataTypes
  <2>4. ThreadInv'
    BY <1>2, <2>1, <2>2 DEF ThreadInv, Back
  <2>5. QED BY <1>1, <2>1, <2>3, <2>4, ThreadLeavesCalls
<1>7. QED
  BY <1>3, <1>4, <1>5, <1>6 DEF ThreadStep, ThreadReturn, ReceiveEnds, ThreadEnd, cleanVars

-----------------------------------------------------------------------------
(* Every step keeps the inductive invariant. *)
LEMMA StepIInv ==
  ASSUME IInv, Next
  PROVE  IInv'
<1>1. ASSUME NEW a \in Actors, Call(a), UNCHANGED options
      PROVE  IInv'
  <2>1. PICK p \in {"connect", "disconnect"} : Go(a, p)
    BY <1>1 DEF Call
  <2>2. cpc[a] \in Outside /\ p \in Outside
    BY <1>1 DEF Call, MayCall, Outside
  <2>3. QED
    BY <1>1, <2>1, <2>2, OutsideIInv DEF Call, Go, cleanVars
<1>2. ASSUME NEW a \in Actors, ConnectAlive(a), UNCHANGED options
      PROVE  IInv'
  <2>1. cpc[a] \in Outside /\ "idle" \in Outside
    BY <1>2 DEF ConnectAlive, Outside
  <2>2. QED
    BY <1>2, <2>1, OutsideIInv DEF ConnectAlive, Go, cleanVars
<1>3. ASSUME NEW a \in Actors, CallStep(a)
      PROVE  IInv'
  BY <1>2, <1>3, BeginIInv, ResolveIInv, SocketIInv, StartIInv, ReturnIInv, CleanUpIInv,
     EnterIInv, DisconnectIInv, NotifyIInv DEF CallStep
<1>4. ASSUME PeerSend \/ PeerClose
      PROVE  IInv'
  BY <1>4, SameIInv DEF PeerSend, PeerClose, callVars, cleanVars
<1>5. QED
  BY <1>1, <1>3, <1>4, ThreadIInv DEF Next

(* The invariant. *)
LEMMA Invariance == Spec => []IInv
<1>1. ASSUME IInv, UNCHANGED vars
      PROVE  IInv'
  BY <1>1, SameIInv DEF vars, callVars, cleanVars
<1>2. IInv /\ [Next]_vars => IInv'
  BY <1>1, StepIInv
<1>3. QED
  BY <1>2, InitIInv, PTL DEF Spec

(* Whatever way the client is used, on every path through Connect,         *)
(* Disconnect and the receiving thread everything is given back.           *)
THEOREM ClientGivesBack == Spec => []NothingLeaks
<1>1. IInv => NothingLeaks
  BY DEF IInv
<1>2. QED
  BY <1>1, Invariance, PTL

-----------------------------------------------------------------------------
(* The history grows in four places: where Connect answers true, in the    *)
(* callbacks of the thread, and where a Disconnect that killed it tells    *)
(* the end itself.                                                         *)
LEMMA StepSessions ==
  ASSUME IInv, Next, Patient
  PROVE  Sessions!Next \/ UNCHANGED calls
<1> USE DEF IInv
<1>1. ASSUME NEW a \in Actors, StartThread(a), calls' # calls
      PROVE  Sessions!Connect
  <2>1. cpc[a] = "start" /\ calls' = Append(calls, Sessions!Connected)
    BY <1>1 DEF StartThread
  <2>2. Sessions!Idle
    BY <2>1, Holds DEF CallOf, Outside, Connecting
  <2>3. QED BY <2>1, <2>2 DEF Sessions!Connect
<1>2. ASSUME NEW a \in Actors, DisconnectNotify(a)
      PROVE  FALSE
  <2>1. cpc[a] = "notify"
    BY <1>2 DEF DisconnectNotify
  <2>2. killed
    BY <2>1, Holds DEF CallOf, Outside
  <2>3. QED BY <2>2 DEF KilledInv
<1>3. CASE ThreadReceive
  <2>1. ~Sessions!Idle
    BY <1>3 DEF ThreadReceive, ThreadInv
  <2>2. QED
    BY <1>3, <2>1 DEF ThreadReceive, Sessions!Next, Sessions!Deliver, Sessions!Last, Last
<1>4. CASE ThreadNotify
  <2>1. ~Sessions!Idle
    BY <1>4 DEF ThreadNotify, ThreadInv
  <2>2. QED
    BY <1>4, <2>1 DEF ThreadNotify, Sessions!Next, Sessions!Disconnect
<1>5. ASSUME NEW a \in Actors,
             \/ Call(a) \/ ConnectAlive(a) \/ ConnectBegin(a) \/ Resolve(a)
             \/ ConnectSocket(a) \/ ConnectReturn(a) \/ CleanUp(a) \/ DisconnectEnter(a)
             \/ Shutdown(a) \/ Terminate(a) \/ Join(a)
      PROVE  UNCHANGED calls
  BY <1>5 DEF Call, ConnectAlive, ConnectBegin, Resolve, ConnectSocket, ConnectReturn,
              CleanUp, DisconnectEnter, Shutdown, Terminate, Join
<1>6. ASSUME ThreadReturn \/ ReceiveEnds \/ ThreadCleanUp \/ ThreadEnd
             \/ PeerSend \/ PeerClose
      PROVE  UNCHANGED calls
  BY <1>6 DEF ThreadReturn, ReceiveEnds, ThreadCleanUp, ThreadEnd, PeerSend, PeerClose
<1>7. QED
  BY <1>1, <1>2, <1>3, <1>4, <1>5, <1>6 DEF Next, CallStep, ThreadStep, Sessions!Next

(* With an infinite wait that is answered with success, the sessions of    *)
(* the application are those that ClientSessions promises.                 *)
THEOREM ClientImplementsSessions == Spec => ImplementsSessions
<1>1. ASSUME IInv, [Next]_vars
      PROVE  [Patient => Sessions!Next]_calls
  <2>1. CASE Next
    BY <1>1, <2>1, StepSessions
  <2>2. CASE UNCHANGED vars
    BY <2>2 DEF vars
  <2>3. QED BY <1>1, <2>1, <2>2
<1>2. IInv /\ [Next]_vars => [Patient => Sessions!Next]_calls
  BY <1>1
<1>3. QED
  BY <1>2, Invariance, PTL DEF Spec, ImplementsSessions

=============================================================================
