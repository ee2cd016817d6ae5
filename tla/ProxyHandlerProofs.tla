------------------------- MODULE ProxyHandlerProofs -------------------------
(***************************************************************************)
(* Proofs about ProxyHandler, for any number of packets and of sessions:   *)
(* the thread of the accepted socket and the thread of the forward client  *)
(* never wait for each other, and the application is told the end of the   *)
(* connection once, after everything else.                                 *)
(***************************************************************************)
EXTENDS ProxyHandler, TLAPS

Connecting == {"connect", "resolve", "socket", "start", "close", "free", "cleanup"}
Disconnecting == {"disconnect", "shutdown", "terminate", "join"}
Ending == {"remove", "end", "wait", "tell", "told", "ended"}

Types ==
  /\ options = Waiting
  /\ cpc \in [Forward!Actors -> {"idle", "return"} \cup Connecting \cup Disconnecting]
  /\ kpc \in [{Thread, Stopper} -> {"idle", "kill", "join", "received", "callback"}]
  /\ told \in Seq({"client", "server", "end"})

(* Who calls the client: the socket's thread connects it once, when there  *)
(* is no thread yet, and disconnects it in the end, which StopServer may   *)
(* do as well.                                                             *)
CallInv ==
  /\ ~killed
  /\ cpc[Socket] \in Connecting => spc = "connect" /\ tpc = "none"
  /\ cpc[Socket] = "return" => spc = "connect"
  /\ cpc[Socket] \in Disconnecting => spc = "wait"
  /\ spc = "new" => tpc = "none"
  /\ cpc[Stopper] \in {"idle"} \cup Disconnecting

(* The client's descriptor is invalid exactly when its thread, if there is *)
(* one, has closed it.                                                     *)
SockInv ==
  /\ tpc \in {"free", "cleanup", "notify", "told"} => sock = "invalid"
  /\ tpc \in {"receive", "callback", "close"} => sock # "invalid"
  /\ cpc[Socket] = "start" => sock # "invalid"

(* The socket's descriptor is invalid before its thread turns to the       *)
(* client; the client's thread is where its callback was called.           *)
KillInv ==
  /\ spc \in Ending => client = "invalid"
  /\ kpc[Thread] \in {"kill", "join"} => tpc = "told"
  /\ kpc[Thread] \in {"received", "callback"} => tpc = "callback"
  /\ kpc[Thread] = "join" => cpc[Socket] \notin {"terminate", "join"}

(* The client receives nothing after Disconnect has returned.              *)
Quiet == tpc \notin {"receive", "callback"}

QuietInv ==
  /\ spc \in {"tell", "told", "ended"} => Quiet
  /\ spc = "wait" /\ cpc[Socket] = "idle" => Quiet

(* The end is told when the socket's thread is past it, and last.          *)
EndInv ==
  \A i \in 1..Len(told) :
    told[i] = "end" => i = Len(told) /\ spc \in {"told", "ended"}

(* The inductive invariant. *)
IInv == Types /\ CallInv /\ SockInv /\ KillInv /\ QuietInv /\ EndInv

-----------------------------------------------------------------------------
LEMMA InitIInv == Init => IInv
<1> SUFFICES ASSUME Init PROVE IInv
  OBVIOUS
<1>1. options = Waiting /\ cpc = [a \in Forward!Actors |-> "idle"] /\ ~killed /\ tpc = "none"
  BY DEF Init, Forward!Init, Options
<1>2. Socket \in Forward!Actors /\ Stopper \in Forward!Actors
  BY DEF Forward!Actors, Users
<1>3. cpc[Socket] = "idle" /\ cpc[Stopper] = "idle"
  BY <1>1, <1>2
<1>4. spc = "new" /\ kpc = [a \in {Thread, Stopper} |-> "idle"] /\ told = <<>>
  BY DEF Init
<1>5. Types
  <2>1. cpc \in [Forward!Actors -> {"idle", "return"} \cup Connecting \cup Disconnecting]
    BY <1>1
  <2>2. kpc \in [{Thread, Stopper} -> {"idle", "kill", "join", "received", "callback"}]
    BY <1>4
  <2>3. told \in Seq({"client", "server", "end"})
    BY <1>4
  <2>4. QED BY <1>1, <2>1, <2>2, <2>3 DEF Types
<1>6. CallInv /\ SockInv
  BY <1>1, <1>3, <1>4 DEF CallInv, SockInv, Connecting, Disconnecting
<1>7. KillInv /\ QuietInv
  BY <1>1, <1>3, <1>4 DEF KillInv, QuietInv, Ending
<1>8. EndInv
  BY <1>4 DEF EndInv
<1>9. QED BY <1>5, <1>6, <1>7, <1>8 DEF IInv

(* Everything IInv speaks of is unchanged. *)
LEMMA SameIInv ==
  ASSUME IInv, UNCHANGED <<options, cpc, killed, tpc, sock, spc, client, kpc, told>>
  PROVE  IInv'
BY DEF IInv, Types, CallInv, SockInv, KillInv, QuietInv, Quiet, EndInv

(* The history and the place that goes with it are unchanged. *)
LEMMA SameEnd ==
  ASSUME EndInv, UNCHANGED <<told, spc>>
  PROVE  EndInv'
BY DEF EndInv

-----------------------------------------------------------------------------
(* Connect and Disconnect of the client: the place of the caller changes.  *)
LEMMA CallIInv ==
  ASSUME IInv, NEW a \in Users, CallStep(a)
  PROVE  IInv'
<1> USE DEF IInv
<1> DEFINE Places == {"idle", "return"} \cup Connecting \cup Disconnecting
<1>1. UNCHANGED <<options, spc, client, kpc, told>>
  BY DEF CallStep, setting, socketVars, proxyVars
<1>2. Socket \in Forward!Actors /\ Stopper \in Forward!Actors /\ a \in Forward!Actors
  BY DEF Forward!Actors, Users
<1>3. a = Socket \/ a = Stopper
  BY DEF Users
<1>4. Socket # Stopper
  BY ProxyAssumption
<1>5. EndInv'
  BY <1>1, SameEnd
<1>6. options.forever /\ options.graceful
  BY DEF Types, Waiting
<1>7. ASSUME NEW p \in Places, Forward!Go(a, p)
      PROVE  /\ Types'
             /\ cpc'[a] = p
             /\ a # Socket => cpc'[Socket] = cpc[Socket]
             /\ a # Stopper => cpc'[Stopper] = cpc[Stopper]
  <2>1. cpc' = [cpc EXCEPT ![a] = p]
    BY <1>7 DEF Forward!Go
  <2>2. cpc' \in [Forward!Actors -> Places]
    BY <2>1, <1>2 DEF Types
  <2>3. Types'
    BY <2>2, <1>1 DEF Types
  <2>4. \A b \in Forward!Actors : cpc'[b] = IF b = a THEN p ELSE cpc[b]
    BY <2>1 DEF Types
  <2>5. QED BY <2>3, <2>4, <1>2
<1>8. CASE Forward!ConnectAlive(a)
  <2>1. /\ Forward!Go(a, "idle") /\ cpc[a] = "connect" /\ tpc # "none"
    BY <1>8 DEF Forward!ConnectAlive, Forward!IsConnectionAlive
  <2>2. FALSE
    BY <2>1, <1>3 DEF CallInv, Connecting, Disconnecting
  <2>3. QED BY <2>2
<1>9. CASE Forward!ConnectBegin(a)
  <2>1. /\ cpc[a] = "connect" /\ sock' = "invalid" /\ ~killed' /\ tpc' = tpc
        /\ Forward!Go(a, "resolve") \/ Forward!Go(a, "idle")
    BY <1>9 DEF Forward!ConnectBegin
  <2>2. a = Socket /\ spc = "connect" /\ tpc = "none"
    BY <2>1, <1>3 DEF CallInv, Connecting, Disconnecting
  <2>3. Types' /\ cpc'[Socket] \in {"resolve", "idle"} /\ cpc'[Stopper] = cpc[Stopper]
    BY <2>1, <2>2, <1>7, <1>4 DEF Connecting
  <2>4. QED
    BY <1>1, <1>5, <2>1, <2>2, <2>3
    DEF CallInv, SockInv, KillInv, QuietInv, Quiet, Connecting, Disconnecting, Ending
<1>10. CASE Forward!Resolve(a)
  <2>1. /\ cpc[a] = "resolve" /\ UNCHANGED <<killed, tpc, sock>>
        /\ Forward!Go(a, "socket") \/ Forward!Go(a, "idle")
    BY <1>10 DEF Forward!Resolve, Forward!Return
  <2>2. a = Socket /\ spc = "connect" /\ tpc = "none"
    BY <2>1, <1>3 DEF CallInv, Connecting, Disconnecting
  <2>3. Types' /\ cpc'[Socket] \in {"socket", "idle"} /\ cpc'[Stopper] = cpc[Stopper]
    BY <2>1, <2>2, <1>7, <1>4 DEF Connecting
  <2>4. QED
    BY <1>1, <1>5, <2>1, <2>2, <2>3
    DEF CallInv, SockInv, KillInv, QuietInv, Quiet, Connecting, Disconnecting, Ending
<1>11. CASE Forward!ConnectSocket(a)
  <2>1. /\ cpc[a] = "socket" /\ UNCHANGED <<killed, tpc>>
        /\ \/ sock' = "open" /\ Forward!Go(a, "start")
           \/ sock' = sock /\ Forward!Go(a, "close")
    BY <1>11 DEF Forward!ConnectSocket
  <2>2. a = Socket /\ spc = "connect" /\ tpc = "none"
    BY <2>1, <1>3 DEF CallInv, Connecting, Disconnecting
  <2>3. /\ Types' /\ cpc'[Stopper] = cpc[Stopper]
        /\ \/ cpc'[Socket] = "start" /\ sock' = "open"
           \/ cpc'[Socket] = "close"
    BY <2>1, <2>2, <1>7, <1>4 DEF Connecting
  <2>4. QED
    BY <1>1, <1>5, <2>1, <2>2, <2>3
    DEF CallInv, SockInv, KillInv, QuietInv, Quiet, Connecting, Disconnecting, Ending
<1>12. CASE Forward!StartThread(a)
  <2>1. /\ cpc[a] = "start" /\ UNCHANGED <<killed, sock>>
        /\ \/ tpc' = "receive" /\ Forward!Go(a, "return")
           \/ tpc' = tpc /\ Forward!Go(a, "close")
    BY <1>12 DEF Forward!StartThread, Forward!cleanVars
  <2>2. a = Socket /\ spc = "connect" /\ tpc = "none" /\ sock # "invalid"
    BY <2>1, <1>3 DEF CallInv, SockInv, Connecting, Disconnecting
  <2>3. /\ Types' /\ cpc'[Stopper] = cpc[Stopper]
        /\ \/ cpc'[Socket] = "return" /\ tpc' = "receive"
           \/ cpc'[Socket] = "close" /\ tpc' = "none"
    BY <2>1, <2>2, <1>7, <1>4 DEF Connecting
  <2>4. QED
    BY <1>1, <1>5, <2>1, <2>2, <2>3
    DEF CallInv, SockInv, KillInv, QuietInv, Quiet, Connecting, Disconnecting, Ending
<1>13. CASE Forward!CleanUp(a)
  <2>1. /\ cpc[a] \in {"close", "free", "cleanup"} /\ UNCHANGED <<killed, tpc>>
        /\ Forward!Go(a, "free") \/ Forward!Go(a, "cleanup") \/ Forward!Go(a, "idle")
    BY <1>13 DEF Forward!CleanUp, Forward!Return, CallInv
  <2>2. a = Socket /\ spc = "connect" /\ tpc = "none"
    BY <2>1, <1>3 DEF CallInv, Connecting, Disconnecting
  <2>3. /\ Types' /\ cpc'[Stopper] = cpc[Stopper]
        /\ cpc'[Socket] \in {"free", "cleanup", "idle"}
    BY <2>1, <2>2, <1>7, <1>4 DEF Connecting
  <2>4. QED
    BY <1>1, <1>5, <2>1, <2>2, <2>3
    DEF CallInv, SockInv, KillInv, QuietInv, Quiet, Connecting, Disconnecting, Ending
<1>14. CASE Forward!DisconnectEnter(a)
  <2>1. /\ cpc[a] = "disconnect" /\ ~killed' /\ UNCHANGED <<tpc, sock>>
        /\ \/ tpc = "none" /\ Forward!Go(a, "idle")
           \/ Forward!Go(a, "shutdown")
    BY <1>14 DEF Forward!DisconnectEnter, Forward!IsConnectionAlive, Forward!cleanVars
  <2>2. a = Socket => spc = "wait"
    BY <2>1 DEF CallInv, Disconnecting
  <2>3. /\ Types'
        /\ a # Socket => cpc'[Socket] = cpc[Socket]
        /\ a # Stopper => cpc'[Stopper] = cpc[Stopper]
        /\ (cpc'[a] = "idle" /\ tpc = "none") \/ cpc'[a] = "shutdown"
    BY <2>1, <1>7 DEF Disconnecting
  <2>4. QED
    BY <1>1, <1>3, <1>5, <2>1, <2>2, <2>3
    DEF CallInv, SockInv, KillInv, QuietInv, Quiet, Connecting, Disconnecting, Ending
<1>15. CASE Forward!Shutdown(a)
  <2>1. /\ cpc[a] = "shutdown" /\ UNCHANGED <<killed, tpc>>
        /\ \/ sock = "invalid" /\ sock' = sock /\ Forward!Go(a, "idle")
           \/ sock # "invalid" /\ sock' = "shut" /\ Forward!Go(a, "terminate")
    BY <1>15 DEF Forward!Shutdown, Forward!Return
  <2>2. a = Socket => spc = "wait"
    BY <2>1 DEF CallInv, Disconnecting
  <2>3. /\ Types'
        /\ a # Socket => cpc'[Socket] = cpc[Socket]
        /\ a # Stopper => cpc'[Stopper] = cpc[Stopper]
        /\ \/ cpc'[a] = "idle" /\ sock = "invalid"
           \/ cpc'[a] = "terminate" /\ sock # "invalid"
    BY <2>1, <1>7 DEF Disconnecting
  <2>4. QED
    BY <1>1, <1>3, <1>5, <2>1, <2>2, <2>3
    DEF CallInv, SockInv, KillInv, QuietInv, Quiet, Connecting, Disconnecting, Ending
<1>16. CASE Forward!Terminate(a)
  <2>1. /\ cpc[a] = "terminate" /\ UNCHANGED <<killed, tpc, sock>>
        /\ \/ tpc # "none" /\ Forward!Go(a, "join")
           \/ tpc = "none" /\ Forward!Go(a, "idle")
    BY <1>16, <1>6 DEF Forward!Terminate, Forward!Return, Forward!IsConnectionAlive,
                       Forward!cleanVars
  <2>2. a = Socket => spc = "wait"
    BY <2>1 DEF CallInv, Disconnecting
  <2>3. /\ Types'
        /\ a # Socket => cpc'[Socket] = cpc[Socket]
        /\ a # Stopper => cpc'[Stopper] = cpc[Stopper]
        /\ cpc'[a] = "join" \/ (cpc'[a] = "idle" /\ tpc = "none")
    BY <2>1, <1>7 DEF Disconnecting
  <2>4. QED
    BY <1>1, <1>3, <1>5, <2>1, <2>2, <2>3
    DEF CallInv, SockInv, KillInv, QuietInv, Quiet, Connecting, Disconnecting, Ending
<1>17. CASE Forward!Join(a)
  <2>1. /\ cpc[a] = "join" /\ UNCHANGED <<killed, tpc, sock>>
        /\ tpc = "none" /\ Forward!Go(a, "idle")
    BY <1>17, <1>6 DEF Forward!Join, Forward!Return, Forward!IsConnectionAlive,
                       Forward!cleanVars
  <2>2. a = Socket => spc = "wait"
    BY <2>1 DEF CallInv, Disconnecting
  <2>3. /\ Types'
        /\ a # Socket => cpc'[Socket] = cpc[Socket]
        /\ a # Stopper => cpc'[Stopper] = cpc[Stopper]
        /\ cpc'[a] = "idle"
    BY <2>1, <1>7
  <2>4. QED
    BY <1>1, <1>3, <1>5, <2>1, <2>2, <2>3
    DEF CallInv, SockInv, KillInv, QuietInv, Quiet, Connecting, Disconnecting, Ending
<1>18. CASE Forward!DisconnectNotify(a)
  <2>1. cpc[a] = "notify"
    BY <1>18 DEF Forward!DisconnectNotify
  <2>2. FALSE
    BY <2>1, <1>2 DEF Types, Connecting, Disconnecting
  <2>3. QED BY <2>2
<1>19. CASE Forward!ConnectReturn(a)
  <2>1. cpc[a] = "return" /\ UNCHANGED <<killed, tpc, sock>> /\ Forward!Go(a, "idle")
    BY <1>19 DEF Forward!ConnectReturn, Forward!Return, Forward!cleanVars
  <2>2. a = Socket /\ spc = "connect"
    BY <2>1, <1>3 DEF CallInv, Connecting, Disconnecting
  <2>3. Types' /\ cpc'[Socket] = "idle" /\ cpc'[Stopper] = cpc[Stopper]
    BY <2>1, <2>2, <1>7, <1>4
  <2>4. QED
    BY <1>1, <1>5, <2>1, <2>2, <2>3
    DEF CallInv, SockInv, KillInv, QuietInv, Quiet, Connecting, Disconnecting, Ending
<1>20. QED
  BY <1>8, <1>9, <1>10, <1>11, <1>12, <1>13, <1>14, <1>15, <1>16, <1>17, <1>18, <1>19
  DEF CallStep, Forward!CallStep

-----------------------------------------------------------------------------
(* A call that begins, from a place outside of the calls. *)
LEMMA EnterCall ==
  ASSUME Types, NEW a \in Users, NEW p \in Disconnecting \cup Connecting, Enter(a, p)
  PROVE  /\ cpc' \in [Forward!Actors -> {"idle", "return"} \cup Connecting \cup Disconnecting]
         /\ cpc'[a] = p
         /\ a = Socket => cpc'[Stopper] = cpc[Stopper]
         /\ a = Stopper => cpc'[Socket] = cpc[Socket]
         /\ UNCHANGED <<killed, tpc, sock>>
<1>1. Socket \in Forward!Actors /\ Stopper \in Forward!Actors /\ a \in Forward!Actors
  BY DEF Forward!Actors, Users
<1>2. cpc' = [cpc EXCEPT ![a] = p] /\ UNCHANGED <<killed, tpc, sock>>
  BY DEF Enter
<1>3. cpc' \in [Forward!Actors -> {"idle", "return"} \cup Connecting \cup Disconnecting]
  BY <1>1, <1>2 DEF Types
<1>4. \A b \in Forward!Actors : cpc'[b] = IF b = a THEN p ELSE cpc[b]
  BY <1>2 DEF Types
<1>5. QED BY <1>1, <1>2, <1>3, <1>4, ProxyAssumption

(* A callback is told. *)
LEMMA Told ==
  ASSUME Types, NEW t \in {"client", "server", "end"}, told' = Append(told, t)
  PROVE  /\ told' \in Seq({"client", "server", "end"})
         /\ Len(told') = Len(told) + 1 /\ told'[Len(told')] = t
         /\ \A i \in 1..Len(told) : told'[i] = told[i]
BY DEF Types

(* The thread of the socket. *)
LEMMA SocketIInv ==
  ASSUME IInv, SocketStep
  PROVE  IInv'
<1> USE DEF IInv
<1>1. UNCHANGED <<options, kpc>>
  BY DEF SocketStep, setting
<1>2. Socket \in Users
  BY DEF Users
<1>3. CASE SocketNew
  <2>1. spc = "new" /\ spc' = "connect" /\ UNCHANGED <<client, told>>
    BY <1>3 DEF SocketNew
  <2>2. Enter(Socket, "connect")
    BY <1>3 DEF SocketNew
  <2>3. /\ cpc' \in [Forward!Actors -> {"idle", "return"} \cup Connecting \cup Disconnecting]
        /\ cpc'[Socket] = "connect" /\ cpc'[Stopper] = cpc[Stopper]
        /\ UNCHANGED <<killed, tpc, sock>>
    BY <2>2, <1>2, EnterCall DEF Connecting
  <2>4. EndInv'
    BY <2>1 DEF EndInv
  <2>5. QED
    BY <1>1, <2>1, <2>3, <2>4
    DEF Types, CallInv, SockInv, KillInv, QuietInv, Quiet, Connecting, Disconnecting, Ending
<1>4. CASE SocketEnd
  <2>1. spc = "end" /\ spc' = "wait" /\ UNCHANGED <<client, told>>
    BY <1>4 DEF SocketEnd
  <2>2. Enter(Socket, "disconnect")
    BY <1>4 DEF SocketEnd
  <2>3. /\ cpc' \in [Forward!Actors -> {"idle", "return"} \cup Connecting \cup Disconnecting]
        /\ cpc'[Socket] = "disconnect" /\ cpc'[Stopper] = cpc[Stopper]
        /\ UNCHANGED <<killed, tpc, sock>>
    BY <2>2, <1>2, EnterCall DEF Disconnecting
  <2>4. EndInv'
    BY <2>1 DEF EndInv
  <2>5. QED
    BY <1>1, <2>1, <2>3, <2>4
    DEF Types, CallInv, SockInv, KillInv, QuietInv, Quiet, Connecting, Disconnecting, Ending
<1>5. CASE SocketBuilt
  <2>1. /\ spc = "connect" /\ spc' = "receive" /\ cpc[Socket] = "idle"
        /\ UNCHANGED <<cpc, killed, tpc, sock, client, told>>
    BY <1>5 DEF SocketBuilt, Back, clientVars
  <2>2. EndInv'
    BY <2>1 DEF EndInv
  <2>3. QED
    BY <1>1, <2>1, <2>2
    DEF Types, CallInv, SockInv, KillInv, QuietInv, Quiet, Connecting, Disconnecting, Ending
<1>6. CASE SocketReceive
  <2>1. /\ spc = "receive" /\ spc' \in {"lock", "close"}
        /\ UNCHANGED <<cpc, killed, tpc, sock, client, told>>
    BY <1>6 DEF SocketReceive, clientVars
  <2>2. EndInv'
    BY <2>1 DEF EndInv
  <2>3. QED
    BY <1>1, <2>1, <2>2
    DEF Types, CallInv, SockInv, KillInv, QuietInv, Quiet, Connecting, Disconnecting, Ending
<1>7. CASE SocketCallback
  <2>1. /\ spc = "lock" /\ spc' = "callback" /\ told' = Append(told, "client")
        /\ UNCHANGED <<cpc, killed, tpc, sock, client>>
    BY <1>7 DEF SocketCallback, clientVars
  <2>2. /\ told' \in Seq({"client", "server", "end"})
        /\ Len(told') = Len(told) + 1 /\ told'[Len(told')] = "client"
        /\ \A i \in 1..Len(told) : told'[i] = told[i]
    BY <2>1, Told
  <2>3. EndInv'
    BY <2>1, <2>2 DEF EndInv, Types
  <2>4. QED
    BY <1>1, <2>1, <2>2, <2>3
    DEF Types, CallInv, SockInv, KillInv, QuietInv, Quiet, Connecting, Disconnecting, Ending
<1>8. CASE SocketReturn
  <2>1. /\ spc = "callback" /\ spc' = "receive"
        /\ UNCHANGED <<cpc, killed, tpc, sock, client, told>>
    BY <1>8 DEF SocketReturn, clientVars
  <2>2. EndInv'
    BY <2>1 DEF EndInv
  <2>3. QED
    BY <1>1, <2>1, <2>2
    DEF Types, CallInv, SockInv, KillInv, QuietInv, Quiet, Connecting, Disconnecting, Ending
<1>9. CASE SocketClose
  <2>1. /\ spc = "close" /\ spc' = "remove" /\ client' = "invalid"
        /\ UNCHANGED <<cpc, killed, tpc, sock, told>>
    BY <1>9 DEF SocketClose, clientVars
  <2>2. EndInv'
    BY <2>1 DEF EndInv
  <2>3. QED
    BY <1>1, <2>1, <2>2
    DEF Types, CallInv, SockInv, KillInv, QuietInv, Quiet, Connecting, Disconnecting, Ending
<1>10. CASE SocketRemove
  <2>1. /\ spc = "remove" /\ spc' = "end"
        /\ UNCHANGED <<cpc, killed, tpc, sock, client, told>>
    BY <1>10 DEF SocketRemove, clientVars
  <2>2. EndInv'
    BY <2>1 DEF EndInv
  <2>3. QED
    BY <1>1, <2>1, <2>2
    DEF Types, CallInv, SockInv, KillInv, QuietInv, Quiet, Connecting, Disconnecting, Ending
<1>11. CASE SocketEndBack
  <2>1. /\ spc = "wait" /\ spc' = "tell" /\ cpc[Socket] = "idle"
        /\ UNCHANGED <<cpc, killed, tpc, sock, client, told>>
    BY <1>11 DEF SocketEndBack, Back, clientVars
  <2>2. EndInv'
    BY <2>1 DEF EndInv
  <2>3. QED
    BY <1>1, <2>1, <2>2
    DEF Types, CallInv, SockInv, KillInv, QuietInv, Quiet, Connecting, Disconnecting, Ending
<1>12. CASE SocketTell
  <2>1. /\ spc = "tell" /\ spc' = "told" /\ told' = Append(told, "end")
        /\ UNCHANGED <<cpc, killed, tpc, sock, client>>
    BY <1>12 DEF SocketTell, clientVars
  <2>2. /\ told' \in Seq({"client", "server", "end"})
        /\ Len(told') = Len(told) + 1 /\ told'[Len(told')] = "end"
        /\ \A i \in 1..Len(told) : told'[i] = told[i]
    BY <2>1, Told
  <2>3. EndInv'
    BY <2>1, <2>2 DEF EndInv, Types
  <2>4. QED
    BY <1>1, <2>1, <2>2, <2>3
    DEF Types, CallInv, SockInv, KillInv, QuietInv, Quiet, Connecting, Disconnecting, Ending
<1>13. CASE SocketEnded
  <2>1. /\ spc = "told" /\ spc' = "ended"
        /\ UNCHANGED <<cpc, killed, tpc, sock, client, told>>
    BY <1>13 DEF SocketEnded, clientVars
  <2>2. EndInv'
    BY <2>1 DEF EndInv
  <2>3. QED
    BY <1>1, <2>1, <2>2
    DEF Types, CallInv, SockInv, KillInv, QuietInv, Quiet, Connecting, Disconnecting, Ending
<1>14. QED
  BY <1>3, <1>4, <1>5, <1>6, <1>7, <1>8, <1>9, <1>10, <1>11, <1>12, <1>13 DEF SocketStep

-----------------------------------------------------------------------------
(* A thread goes on in KillConnection, or in a callback. *)
LEMMA KpcMoves ==
  ASSUME Types, NEW a \in {Thread, Stopper},
         NEW p \in {"idle", "kill", "join", "received", "callback"},
         kpc' = [kpc EXCEPT ![a] = p]
  PROVE  /\ kpc' \in [{Thread, Stopper} -> {"idle", "kill", "join", "received", "callback"}]
         /\ kpc'[a] = p
         /\ a = Stopper => kpc'[Thread] = kpc[Thread]
BY ProxyAssumption DEF Types

(* KillConnection of the socket. *)
LEMMA KillIInv ==
  ASSUME IInv, NEW a \in {Thread, Stopper}, KillEnter(a) \/ KillJoin(a)
  PROVE  IInv'
<1> USE DEF IInv
<1>1. /\ UNCHANGED <<options, cpc, killed, tpc, sock, spc, told>>
      /\ kpc[a] \in {"kill", "join"}
      /\ \/ kpc' = [kpc EXCEPT ![a] = "idle"] /\ client' = client
         \/ /\ kpc' = [kpc EXCEPT ![a] = "join"]
            /\ spc # "ended" /\ client # "invalid"
  BY DEF KillEnter, KillJoin, clientVars, setting, proxyVars
<1>2. /\ kpc' \in [{Thread, Stopper} -> {"idle", "kill", "join", "received", "callback"}]
      /\ \/ kpc'[a] = "idle" /\ client' = client
         \/ kpc'[a] = "join" /\ spc # "ended" /\ client # "invalid"
      /\ a = Stopper => kpc'[Thread] = kpc[Thread]
  BY <1>1, KpcMoves
<1>3. EndInv'
  BY <1>1 DEF EndInv
<1>4. spc \in Ending => client' = "invalid"
  BY <1>2 DEF KillInv
<1>5. kpc'[Thread] = "join" => cpc[Socket] \notin {"terminate", "join"}
  BY <1>2 DEF KillInv, CallInv, Disconnecting, Ending
<1>6. QED
  BY <1>1, <1>2, <1>3, <1>4, <1>5
  DEF Types, CallInv, SockInv, KillInv, QuietInv, Quiet

(* The thread of the forward client. *)
LEMMA ClientIInv ==
  ASSUME IInv, ClientStep
  PROVE  IInv'
<1> USE DEF IInv
<1>1. CASE /\ ClientReceive \/ ClientCallback \/ ClientReturn \/ ClientNotify
           /\ UNCHANGED <<setting, spc, listed, freed, remote, arriving, stopPc, handler,
                          proxyLock>>
  <2>1. UNCHANGED <<options, spc>>
    BY <1>1 DEF setting
  <2>2. CASE ClientReceive
    <3>1. /\ tpc = "receive" /\ tpc' = "callback" /\ UNCHANGED <<client, told, sock, cpc, killed>>
          /\ kpc' = [kpc EXCEPT ![Thread] = "received"]
      BY <2>2 DEF ClientReceive, Forward!ThreadReceive, Forward!callVars, Forward!cleanVars
    <3>2. /\ kpc' \in [{Thread, Stopper} -> {"idle", "kill", "join", "received", "callback"}]
          /\ kpc'[Thread] = "received"
      BY <3>1, KpcMoves
    <3>3. EndInv'
      BY <2>1, <3>1 DEF EndInv
    <3>4. QED
      BY <2>1, <3>1, <3>2, <3>3
      DEF Types, CallInv, SockInv, KillInv, QuietInv, Quiet, Connecting, Disconnecting, Ending
  <2>3. CASE ClientCallback
    <3>1. /\ kpc[Thread] = "received" /\ told' = Append(told, "server")
          /\ UNCHANGED <<client, tpc, sock, cpc, killed>>
          /\ kpc' = [kpc EXCEPT ![Thread] = "callback"]
      BY <2>3 DEF ClientCallback, clientVars
    <3>2. /\ kpc' \in [{Thread, Stopper} -> {"idle", "kill", "join", "received", "callback"}]
          /\ kpc'[Thread] = "callback"
      BY <3>1, KpcMoves
    <3>3. /\ told' \in Seq({"client", "server", "end"})
          /\ Len(told') = Len(told) + 1 /\ told'[Len(told')] = "server"
          /\ \A i \in 1..Len(told) : told'[i] = told[i]
      BY <3>1, Told
    <3>4. spc \notin {"told", "ended"}
      BY <3>1 DEF KillInv, QuietInv, Quiet
    <3>5. EndInv'
      BY <2>1, <3>3, <3>4 DEF EndInv, Types
    <3>6. QED
      BY <2>1, <3>1, <3>2, <3>3, <3>5
      DEF Types, CallInv, SockInv, KillInv, QuietInv, Quiet, Connecting, Disconnecting, Ending
  <2>4. CASE ClientReturn
    <3>1. /\ tpc = "callback" /\ tpc' = "receive" /\ UNCHANGED <<client, told, sock, cpc, killed>>
          /\ kpc' = [kpc EXCEPT ![Thread] = "idle"]
      BY <2>4 DEF ClientReturn, Forward!ThreadReturn, Forward!callVars, Forward!cleanVars
    <3>2. /\ kpc' \in [{Thread, Stopper} -> {"idle", "kill", "join", "received", "callback"}]
          /\ kpc'[Thread] = "idle"
      BY <3>1, KpcMoves
    <3>3. EndInv'
      BY <2>1, <3>1 DEF EndInv
    <3>4. QED
      BY <2>1, <3>1, <3>2, <3>3
      DEF Types, CallInv, SockInv, KillInv, QuietInv, Quiet, Connecting, Disconnecting, Ending
  <2>5. CASE ClientNotify
    <3>1. /\ tpc = "notify" /\ tpc' = "told" /\ UNCHANGED <<client, told, sock, cpc, killed>>
          /\ kpc' = [kpc EXCEPT ![Thread] = "kill"]
      BY <2>5 DEF ClientNotify, Forward!ThreadNotify, Forward!callVars, Forward!cleanVars
    <3>2. /\ kpc' \in [{Thread, Stopper} -> {"idle", "kill", "join", "received", "callback"}]
          /\ kpc'[Thread] = "kill"
      BY <3>1, KpcMoves
    <3>3. EndInv'
      BY <2>1, <3>1 DEF EndInv
    <3>4. QED
      BY <2>1, <3>1, <3>2, <3>3
      DEF Types, CallInv, SockInv, KillInv, QuietInv, Quiet, Connecting, Disconnecting, Ending
  <2>6. QED BY <1>1, <2>2, <2>3, <2>4, <2>5
<1>2. CASE /\ \/ Forward!ReceiveEnds
              \/ Forward!ThreadCleanUp
              \/ kpc[Thread] = "idle" /\ Forward!ThreadEnd
           /\ UNCHANGED <<setting, socketVars, remote, arriving, proxyVars>>
  <2>1. UNCHANGED <<options, spc, client, kpc, told>>
    BY <1>2 DEF setting, socketVars, proxyVars
  <2>2. /\ UNCHANGED <<cpc, killed>>
        /\ \/ tpc = "receive" /\ tpc' = "close" /\ sock' = sock
           \/ tpc = "close" /\ tpc' = "free" /\ sock' = "invalid"
           \/ tpc = "free" /\ tpc' = "cleanup" /\ sock' = sock
           \/ tpc = "cleanup" /\ tpc' = "notify" /\ sock' = sock
           \/ tpc = "told" /\ tpc' = "none" /\ sock' = sock /\ kpc[Thread] = "idle"
    BY <1>2 DEF Forward!ReceiveEnds, Forward!ThreadCleanUp, Forward!ThreadEnd,
                Forward!CloseSocket, Forward!FreeResult, Forward!WSACleanup,
                Forward!callVars, Forward!cleanVars
  <2>3. EndInv'
    BY <2>1 DEF EndInv
  <2>4. kpc[Thread] \notin {"received", "callback"} \/ tpc = "callback"
    BY DEF KillInv
  <2>5. QED
    BY <2>1, <2>2, <2>3, <2>4
    DEF Types, CallInv, SockInv, KillInv, QuietInv, Quiet, Connecting, Disconnecting, Ending
<1>3. CASE KillEnter(Thread) \/ KillJoin(Thread)
  BY <1>3, KillIInv
<1>4. QED BY <1>1, <1>2, <1>3 DEF ClientStep

-----------------------------------------------------------------------------
(* StopServer, its calls, and what happens elsewhere. *)
LEMMA StopIInv ==
  ASSUME IInv, StopServer \/ StopStep
  PROVE  IInv'
<1> USE DEF IInv
<1>1. CASE StopServer
  <2>1. /\ UNCHANGED <<options, cpc, killed, tpc, sock, spc, client, told>>
        /\ \E p \in {"idle", "kill"} : kpc' = [kpc EXCEPT ![Stopper] = p]
    BY <1>1 DEF StopServer, setting, clientVars
  <2>2. /\ kpc' \in [{Thread, Stopper} -> {"idle", "kill", "join", "received", "callback"}]
        /\ kpc'[Thread] = kpc[Thread]
    BY <2>1, KpcMoves
  <2>3. EndInv'
    BY <2>1 DEF EndInv
  <2>4. QED
    BY <2>1, <2>2, <2>3 DEF Types, CallInv, SockInv, KillInv, QuietInv, Quiet
<1>2. CASE KillEnter(Stopper) \/ KillJoin(Stopper)
  BY <1>2, KillIInv
<1>3. CASE /\ StopDelete \/ StopDone
           /\ UNCHANGED <<setting, spc, freed, remote, arriving, handlerLock, told>>
  <2>1. UNCHANGED <<options, spc, client, kpc, told>>
    BY <1>3 DEF StopDelete, StopDone, setting
  <2>2. CASE UNCHANGED clientVars
    BY <2>1, <2>2, SameIInv DEF clientVars
  <2>3. CASE Enter(Stopper, "disconnect")
    <3>1. Stopper \in Users /\ "disconnect" \in Disconnecting
      BY DEF Users, Disconnecting
    <3>2. /\ cpc' \in [Forward!Actors -> {"idle", "return"} \cup Connecting \cup Disconnecting]
          /\ cpc'[Stopper] = "disconnect" /\ cpc'[Socket] = cpc[Socket]
          /\ UNCHANGED <<killed, tpc, sock>>
      BY <2>3, <3>1, EnterCall
    <3>3. EndInv'
      BY <2>1 DEF EndInv
    <3>4. QED
      BY <2>1, <3>1, <3>2, <3>3 DEF Types, CallInv, SockInv, KillInv, QuietInv, Quiet
  <2>4. QED
    BY <1>3, <2>2, <2>3 DEF StopDelete, StopDone, Back
<1>4. QED BY <1>1, <1>2, <1>3 DEF StopStep

LEMMA ElsewhereIInv ==
  ASSUME IInv, Destroy \/ RemoteSend \/ RemoteClose \/ ServerStep \/ UNCHANGED vars
  PROVE  IInv'
<1>1. UNCHANGED <<options, cpc, killed, tpc, sock, spc, client, kpc, told>>
  BY DEF Destroy, RemoteSend, RemoteClose, ServerStep, Forward!PeerSend, Forward!PeerClose,
         Forward!callVars, Forward!cleanVars, vars, clientVars, setting, socketVars, proxyVars
<1>2. QED BY <1>1, SameIInv

LEMMA NextIInv == IInv /\ [Next]_vars => IInv'
<1> SUFFICES ASSUME IInv, [Next]_vars PROVE IInv'
  OBVIOUS
<1>1. CASE SocketStep
  BY <1>1, SocketIInv
<1>2. CASE ClientStep
  BY <1>2, ClientIInv
<1>3. CASE StopServer \/ StopStep
  BY <1>3, StopIInv
<1>4. CASE \E a \in Users : CallStep(a)
  BY <1>4, CallIInv
<1>5. CASE Destroy \/ RemoteSend \/ RemoteClose \/ ServerStep \/ UNCHANGED vars
  BY <1>5, ElsewhereIInv
<1>6. QED BY <1>1, <1>2, <1>3, <1>4, <1>5 DEF Next

(* The socket's thread, in Disconnect, and the client's thread, in         *)
(* KillConnection, never wait for each other (epBaseProxyHandler.cpp 78-84 *)
(* and 92-95), whatever StopServer does beside them.                       *)
THEOREM NobodyWaitsForHisWaiter == Spec => []NoMutualWait
<1>1. IInv => NoMutualWait
  BY DEF IInv, KillInv, NoMutualWait
<1>2. QED
  BY <1>1, InitIInv, NextIInv, PTL DEF Spec

(* OnDisconnect of the proxied connection is called once, and neither      *)
(* thread calls OnReceived after it (epBaseProxyHandler.cpp 73-95).        *)
THEOREM EndIsToldLast == Spec => []ToldOnceAndLast
<1>1. IInv => ToldOnceAndLast
  BY DEF IInv, EndInv, ToldOnceAndLast
<1>2. QED
  BY <1>1, InitIInv, NextIInv, PTL DEF Spec
=============================================================================
