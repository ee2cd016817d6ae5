----------------------------- MODULE ParserList -----------------------------
(***************************************************************************)
(* The parsing thread of version 1.0 (epParserList.cpp), which parses the  *)
(* packets of one connection, or those of all connections of a server, one *)
(* after the other; with the receiving threads that fill its list and end  *)
(* it (epBaseServerWorker.cpp), KillConnection, and StopServer             *)
(* (epBaseServer.cpp).                                                     *)
(*                                                                         *)
(* All waits are infinite, which is the default: nobody is killed, and     *)
(* KillConnection finds what follows its wait already done by the thread.  *)
(* What is done under m_listLock is one step.                              *)
(***************************************************************************)
EXTENDS ParseOrder

setting == <<options, workers>>
listVars == <<list, refs, queue, room, dropped>>
threadVars == <<stop, ppc, current, parsed, missed>>
workerVars == <<sock, listed, received>>
vars == <<setting, listVars, threadVars, pc, target, workerVars>>

(* The connections were accepted and their threads are started.  A shared  *)
(* list was started by the server before.                                  *)
Init ==
  /\ options \in Options
  /\ workers \in IF options.shared THEN {Workers} ELSE {{w} : w \in Workers}
  /\ IF options.shared
     THEN list = "alive" /\ refs = Cardinality(workers) + 1 /\ ppc = "loop"
     ELSE list = "none" /\ refs = 0 /\ ppc = "none"
  /\ queue = <<>> /\ room = FALSE /\ stop = FALSE
  /\ current = Nobody
  /\ pc = [a \in Workers \cup {App, Server} |->
             IF a \in workers THEN "begin" ELSE IF a \in Workers THEN "none" ELSE "idle"]
  /\ target = [a \in {App, Server} |-> Nobody]
  /\ sock = [w \in Workers |-> w \in workers] /\ listed = [w \in Workers |-> w \in workers]
  /\ received = [w \in Workers |-> 0]
  /\ parsed = [w \in Workers |-> <<>>] /\ dropped = {} /\ missed = FALSE

Go(a, where) == pc' = [pc EXCEPT ![a] = where]

-----------------------------------------------------------------------------
(* The parsing thread: ParserList::execute.                                *)

(* Mutant: the parser stays in the list while it works. *)
TakeLate ==
  /\ ppc = "loop" /\ ~stop /\ queue # <<>>
  /\ current' = Head(queue)
  /\ ppc' = "parse"
  /\ UNCHANGED <<stop, queue, room>>

(* Under the lock: the stop event, an empty list, or the first parser. *)
Stopped ==
  /\ ppc = "loop" /\ stop
  /\ stop' = FALSE
  /\ ppc' = "none"
  /\ UNCHANGED <<current, queue, room>>

Empty ==
  /\ ppc = "loop" /\ ~stop /\ queue = <<>>
  /\ ppc' = "suspend"
  /\ UNCHANGED <<stop, current, queue, room>>

Take ==
  /\ ppc = "loop" /\ ~stop /\ queue # <<>>
  /\ current' = Head(queue) /\ queue' = Tail(queue)
  /\ room' = TRUE
  /\ ppc' = "parse"
  /\ UNCHANGED stop

(* After the Unlock. *)
Suspend ==
  /\ ppc = "suspend"
  /\ ppc' = "suspended"
  /\ UNCHANGED <<stop, current, queue, room>>

(* The parser goes to the remover; so does, in the end, the reference to   *)
(* its connection.                                                         *)
ParsePacket ==
  /\ ppc = "parse"
  /\ parsed' = [parsed EXCEPT ![current[1]] = Append(@, current[2])]
  /\ current' = Nobody
  /\ ppc' = "loop"
  /\ UNCHANGED <<stop, queue, room>>

ParserStep ==
  /\ \/ (Stopped \/ Empty \/ Take \/ Suspend) /\ UNCHANGED parsed
     \/ ParsePacket
  /\ UNCHANGED <<setting, list, refs, dropped, missed, pc, target, workerVars>>

(* GetStatus, and Resume if the thread is suspended. *)
Resume ==
  /\ ppc' = IF ppc = "suspended" THEN "loop" ELSE ppc
  /\ missed' = (missed \/ ppc = "suspend")
  /\ UNCHANGED <<current, parsed>>

-----------------------------------------------------------------------------
(* A receiving thread: BaseServerWorker::execute.                          *)

(* StartParse of a list of its own. *)
Begin(w) ==
  /\ pc[w] = "begin"
  /\ Go(w, "receive")
  /\ IF options.shared THEN UNCHANGED <<list, refs, ppc>>
     ELSE list' = "alive" /\ refs' = 1 /\ ppc' = "loop"
  /\ UNCHANGED <<queue, room, dropped, stop, current, parsed, missed, workerVars>>

(* ParserList::Push: under the lock ... *)
Receive(w) ==
  /\ pc[w] = "receive" /\ sock[w]
  /\ received[w] < MaxPackets
  /\ received' = [received EXCEPT ![w] = @ + 1]
  /\ queue' = Append(queue, <<w, received[w] + 1>>)
  /\ Go(w, "look")
  /\ UNCHANGED <<list, refs, room, dropped, threadVars, sock, listed>>

(* ... and after it. *)
Look(w) ==
  /\ pc[w] = "look"
  /\ Resume
  /\ Go(w, "limit")
  /\ UNCHANGED <<listVars, stop, workerVars>>

(* KillConnection holds m_baseWorkerLock until the thread has ended. *)
Locked(w) == \E b \in {App, Server} : pc[b] = "killing" /\ target[b] = w

(* After every packet, and at every turn of the loop of a connection at    *)
(* its limit: GetMaximumParserCount takes m_baseWorkerLock.                *)
Count(w) ==
  /\ ~Locked(w)
  /\ \/ /\ pc[w] = "limit"
        /\ Go(w, IF options.limit = 0 THEN "receive" ELSE "count")
     \/ /\ pc[w] = "count"
        /\ Go(w, IF Len(queue) >= options.limit THEN "wait" ELSE "receive")
  /\ UNCHANGED <<listVars, threadVars, workerVars>>

WaitForListSizeDecrease(w) ==
  /\ pc[w] = "wait"
  /\ room
  /\ room' = FALSE
  /\ Go(w, "count")
  /\ UNCHANGED <<list, refs, queue, dropped, threadVars, workerVars>>

(* recv ends; killConnection stops a list of one's own and gives it back. *)
End(w) ==
  /\ pc[w] = "receive"
  /\ sock' = [sock EXCEPT ![w] = FALSE]
  /\ Go(w, IF options.shared THEN "release" ELSE "stop")
  /\ UNCHANGED <<listVars, threadVars, listed, received>>

Leave(w) ==
  /\ pc[w] = "leave"
  /\ listed' = [listed EXCEPT ![w] = FALSE]
  /\ Go(w, "none")
  /\ UNCHANGED <<listVars, threadVars, sock, received>>

-----------------------------------------------------------------------------
(* StopParse, Clear and ReleaseObj of a list.  m_stopLock is free whenever *)
(* somebody tries it.  The last reference runs the destructor, which does  *)
(* StopParse and Clear again.                                              *)

StopParse(a) ==
  /\ pc[a] = "stop"
  /\ \/ ppc = "none" /\ Go(a, "clear") /\ UNCHANGED stop
     \/ ppc # "none" /\ Go(a, "wake") /\ stop' = TRUE
  /\ UNCHANGED <<listVars, ppc, current, parsed, missed, workerVars>>


Wake(a) ==
  /\ pc[a] = "wake"
  /\ Resume
  /\ Go(a, "join")
  /\ UNCHANGED <<listVars, stop, workerVars>>

(* Mutant: the list is cleared without waiting for its thread. *)
JoinNot(a) ==
  /\ pc[a] = "join"
  /\ Go(a, "clear")
  /\ UNCHANGED <<listVars, threadVars, workerVars>>

(* TerminateAfter. *)
Join(a) ==
  /\ pc[a] = "join"
  /\ ppc = "none"
  /\ Go(a, "clear")
  /\ UNCHANGED <<listVars, threadVars, workerVars>>

Clear(a) ==
  /\ pc[a] = "clear"
  /\ queue' = <<>> /\ dropped' = dropped \cup ToSet(queue)
  /\ room' = TRUE
  /\ Go(a, "release")
  /\ UNCHANGED <<list, refs, threadVars, workerVars>>

ReleaseObj(a) ==
  /\ pc[a] = "release"
  /\ \/ refs > 1 /\ refs' = refs - 1 /\ Go(a, "leave") /\ UNCHANGED list
     \/ refs = 1 /\ refs' = 0 /\ Go(a, "stop") /\ UNCHANGED list
     \/ refs = 0 /\ list' = "freed" /\ Go(a, "leave") /\ UNCHANGED refs
  /\ UNCHANGED <<queue, room, dropped, threadVars, workerVars>>

Release(a) ==
  \/ StopParse(a) \/ Wake(a) \/ Join(a) \/ Clear(a) \/ ReleaseObj(a)

WorkerStep(w) ==
  /\ \/ Begin(w) \/ Look(w) \/ Count(w) \/ WaitForListSizeDecrease(w) \/ Leave(w)
     \/ ~sock[w] /\ End(w)
     \/ Release(w)
  /\ UNCHANGED <<setting, target>>

(* What the peer does: it sends, or it closes its end. *)
PeerStep(w) ==
  /\ Receive(w) \/ (sock[w] /\ End(w))
  /\ UNCHANGED <<setting, target>>

-----------------------------------------------------------------------------
(* KillConnection, by the application and in StopServer.                   *)

KillConnection(w) ==
  /\ pc[App] = "idle"
  /\ Go(App, "kill")
  /\ target' = [target EXCEPT ![App] = w]
  /\ UNCHANGED <<setting, listVars, threadVars, workerVars>>

Back(a) == Go(a, IF a = App THEN "idle" ELSE "leave")

Kill(a) ==
  /\ pc[a] = "kill"
  /\ ~Locked(target[a])
  /\ \/ pc[target[a]] = "none" /\ Back(a) /\ UNCHANGED sock
     \/ /\ pc[target[a]] # "none"
        /\ sock' = [sock EXCEPT ![target[a]] = FALSE]
        /\ Go(a, "killing")
  /\ UNCHANGED <<setting, listVars, threadVars, target, listed, received>>

(* TerminateAfter; the rest was done by the thread. *)
KillJoin(a) ==
  /\ pc[a] = "killing"
  /\ pc[target[a]] = "none"
  /\ listed' = [listed EXCEPT ![target[a]] = FALSE]
  /\ Back(a)
  /\ UNCHANGED <<setting, listVars, threadVars, target, sock, received>>

(* The accept thread has ended: a shared list is stopped first, then one   *)
(* connection after the other is killed.                                   *)
StopServer ==
  /\ pc[Server] = "idle"
  /\ Go(Server, IF options.shared THEN "stop" ELSE "leave")
  /\ UNCHANGED <<setting, listVars, threadVars, target, workerVars>>

KillNext ==
  /\ pc[Server] = "leave"
  /\ \/ /\ \E w \in workers : listed[w] /\ target' = [target EXCEPT ![Server] = w]
        /\ Go(Server, "kill")
     \/ (\A w \in workers : ~listed[w]) /\ Go(Server, "done") /\ UNCHANGED target
  /\ UNCHANGED <<setting, listVars, threadVars, workerVars>>

AppStep == Kill(App) \/ KillJoin(App)

ServerStep ==
  \/ Kill(Server) \/ KillJoin(Server) \/ KillNext
  \/ Release(Server) /\ UNCHANGED <<setting, target>>

-----------------------------------------------------------------------------
Next ==
  \/ ParserStep
  \/ \E w \in workers : WorkerStep(w) \/ PeerStep(w) \/ KillConnection(w)
  \/ AppStep \/ ServerStep \/ StopServer

Spec == Init /\ [][Next]_vars

(* Threads run.  Nobody has to send, to close, or to call. *)
Fairness ==
  /\ WF_vars(ParserStep)
  /\ \A w \in Workers : WF_vars(w \in workers /\ WorkerStep(w))
  /\ SF_vars(AppStep) /\ SF_vars(ServerStep)

FairSpec == Spec /\ Fairness

-----------------------------------------------------------------------------
(* The thread that is killed is on its way from a packet to the next, and  *)
(* needs the lock that KillConnection holds: a deadlock.                   *)
Caught ==
  LET w == target[App] IN Locked(w) /\ pc[w] \in {"limit", "count"}


(* It returns at all.  It fails: GetMaximumParserCount takes the lock that *)
(* KillConnection holds while it waits for the thread.                     *)
KillAlwaysReturns ==
  (pc[App] # "idle" /\ (~options.shared \/ options.limit = 0))
    ~> (pc[App] = "idle" \/ missed)

(* A packet in the list is parsed while the thread exists.  It fails: the  *)
(* thread may suspend itself after Push has looked at its status.          *)
QueueIsParsed ==
  (queue # <<>> /\ ppc # "none" /\ ~stop) ~> (queue = <<>> \/ stop \/ ppc = "parse")

(* A receiving thread does not wait beside an empty list.  It fails when a *)
(* list is shared: one event wakes one of two.                             *)
RoomIsSeen ==
  \A w \in Workers :
    (pc[w] = "wait" /\ queue = <<>>) ~> (pc[w] # "wait" \/ queue # <<>> \/ missed)

(* StopServer comes back.  It fails: it stops the parsing thread while     *)
(* receiving threads wait for it to make room.                             *)
StopReturns == (pc[Server] # "idle") ~> (pc[Server] = "done" \/ missed)
=============================================================================
