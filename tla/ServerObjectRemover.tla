------------------------- MODULE ServerObjectRemover -------------------------
(***************************************************************************)
(* The asynchronous releaser behind every ServerObjectList of              *)
(* EpServerEngine 2.0 (epServerObjectRemover.cpp).  Objects taken out of a *)
(* list are queued here; a worker thread, which suspends itself whenever   *)
(* it finds the queue empty, calls ReleaseObj on each.  The destructor     *)
(* stops the worker and releases what is left.                             *)
(*                                                                         *)
(* Every critical section of m_listLock is one action: no other lock is    *)
(* taken inside one.  The class is private to ServerObjectList, which      *)
(* calls Push under its own list lock: one push is in progress at a time   *)
(* and ppc is one program counter.  That, and that nobody pushes once the  *)
(* destructor began, is a guard of the environment in Next; that the list  *)
(* keeps to it is checked in ServerObjectList.                             *)
(***************************************************************************)
EXTENDS ReleaseOrder, Functions

ASSUME RemoverAssumption == NoObj \notin Objects

vars == <<waitForever, queue, status, wpc, inHand, stopEvent, ppc, spc, pushed, released>>

WorkerPC == {"created", "top", "suspending", "suspended", "drain", "release",
             "ended", "killed"}
StopPC == {"idle", "signalled", "join", "drain", "done"}

TypeOK ==
  /\ waitForever \in BOOLEAN
  /\ queue \in Seq(Objects)
  /\ status \in {"STARTED", "SUSPENDED", "TERMINATED"}
  /\ wpc \in WorkerPC
  /\ inHand \in Objects \cup {NoObj}
  /\ stopEvent \in BOOLEAN
  /\ ppc \in {"idle", "check"}
  /\ spc \in StopPC
  /\ pushed \in Seq(Objects)
  /\ released \in Seq(Objects)

(* The constructor takes the wait time and starts the worker; Start        *)
(* may fail and its result is not looked at.                               *)
Init ==
  /\ waitForever \in BOOLEAN
  /\ queue = <<>>
  /\ \/ status = "SUSPENDED" /\ wpc = "created"
     \/ status = "TERMINATED" /\ wpc = "ended"
  /\ inHand = NoObj
  /\ stopEvent = FALSE
  /\ ppc = "idle"
  /\ spc = "idle"
  /\ pushed = <<>>
  /\ released = <<>>

-----------------------------------------------------------------------------
(* Push(obj): the enqueueing under m_listLock, then, outside it, the look  *)
(* at the worker's status.                                                 *)
Push(o) ==
  /\ queue' = Append(queue, o)
  /\ pushed' = Append(pushed, o)
  /\ ppc' = "check"
  /\ UNCHANGED <<waitForever, status, wpc, inHand, stopEvent, spc, released>>

(* Thread::Resume on a suspended worker (external). *)
ResumeIfSuspended ==
  status' = IF status = "SUSPENDED" THEN "STARTED" ELSE status

(* Mutant: the caller forgets to resume the worker. *)
PushCheckForgets ==
  /\ ppc = "check"
  /\ ppc' = "idle"
  /\ UNCHANGED <<waitForever, queue, status, wpc, inHand, stopEvent, spc, pushed, released>>

PushCheck ==
  /\ ppc = "check"
  /\ ResumeIfSuspended
  /\ ppc' = "idle"
  /\ UNCHANGED <<waitForever, queue, wpc, inHand, stopEvent, spc, pushed, released>>

-----------------------------------------------------------------------------
(* The worker, execute(). *)

(* One pop of the drain loop: front and pop under the lock, or leave the   *)
(* loop when the queue is empty.                                           *)
PopOrLoop ==
  \/ /\ queue # <<>>
     /\ inHand' = Head(queue)
     /\ queue' = Tail(queue)
     /\ wpc' = "release"
  \/ /\ queue = <<>>
     /\ wpc' = "top"
     /\ UNCHANGED <<queue, inHand>>

(* A worker created suspended enters execute() once resumed. *)
WorkerStart ==
  /\ wpc = "created"
  /\ status = "STARTED"
  /\ wpc' = "top"
  /\ UNCHANGED <<waitForever, queue, status, inHand, stopEvent, ppc, spc, pushed, released>>

(* Top of the loop: poll the stop event and leave; or find the queue empty *)
(* and drop the lock; or start to drain.                                   *)
WorkerTop ==
  /\ wpc = "top"
  /\ \/ /\ stopEvent
        /\ stopEvent' = FALSE
        /\ wpc' = "ended"
        /\ status' = "TERMINATED"
        /\ UNCHANGED <<queue, inHand>>
     \/ /\ ~stopEvent
        /\ queue = <<>>
        /\ wpc' = "suspending"
        /\ UNCHANGED <<queue, status, inHand, stopEvent>>
     \/ /\ ~stopEvent
        /\ queue # <<>>
        /\ PopOrLoop
        /\ UNCHANGED <<status, stopEvent>>
  /\ UNCHANGED <<waitForever, ppc, spc, pushed, released>>

(* Suspend() itself, after the lock was dropped. *)
WorkerSuspend ==
  /\ wpc = "suspending"
  /\ wpc' = "suspended"
  /\ status' = "SUSPENDED"
  /\ UNCHANGED <<waitForever, queue, inHand, stopEvent, ppc, spc, pushed, released>>

(* The next test of the drain loop, on return from Suspend or ReleaseObj. *)
WorkerDrain ==
  /\ \/ wpc = "suspended" /\ status = "STARTED"
     \/ wpc = "drain"
  /\ PopOrLoop
  /\ UNCHANGED <<waitForever, status, stopEvent, ppc, spc, pushed, released>>

(* ReleaseObj on the popped object has returned. *)
WorkerRelease ==
  /\ wpc = "release"
  /\ released' = Append(released, inHand)
  /\ inHand' = NoObj
  /\ wpc' = "drain"
  /\ UNCHANGED <<waitForever, queue, status, stopEvent, ppc, spc, pushed>>

Worker == WorkerStart \/ WorkerTop \/ WorkerSuspend \/ WorkerDrain \/ WorkerRelease

-----------------------------------------------------------------------------
(* The destructor.                                                         *)

(* stopRemover: nothing to do for a terminated worker, else raise the stop *)
(* event.                                                                  *)
StopSignal ==
  /\ spc = "idle"
  /\ \/ /\ status = "TERMINATED"
        /\ spc' = "drain"
        /\ UNCHANGED stopEvent
     \/ /\ status # "TERMINATED"
        /\ stopEvent' = TRUE
        /\ spc' = "signalled"
  /\ UNCHANGED <<waitForever, queue, status, wpc, inHand, ppc, pushed, released>>

StopResume ==
  /\ spc = "signalled"
  /\ ResumeIfSuspended
  /\ spc' = "join"
  /\ UNCHANGED <<waitForever, queue, wpc, inHand, stopEvent, ppc, pushed, released>>

(* TerminateAfter(m_waitTime): the worker has ended, or the wait is finite *)
(* and the worker is killed wherever it is.                                *)
StopJoin ==
  /\ spc = "join"
  /\ \/ wpc = "ended" /\ UNCHANGED <<wpc, status>>
     \/ ~waitForever /\ wpc # "ended" /\ wpc' = "killed" /\ status' = "TERMINATED"
  /\ spc' = "drain"
  /\ UNCHANGED <<waitForever, queue, inHand, stopEvent, ppc, pushed, released>>

(* Mutant: the destructor does not look at the queue. *)
StopDrainSkips ==
  /\ spc = "drain"
  /\ spc' = "done"
  /\ UNCHANGED <<waitForever, queue, status, wpc, inHand, stopEvent, ppc, pushed, released>>

(* The destructor releases what is left in the queue. *)
StopDrain ==
  /\ spc = "drain"
  /\ \/ /\ queue # <<>>
        /\ released' = Append(released, Head(queue))
        /\ queue' = Tail(queue)
        /\ UNCHANGED spc
     \/ /\ queue = <<>>
        /\ spc' = "done"
        /\ UNCHANGED <<queue, released>>
  /\ UNCHANGED <<waitForever, status, wpc, inHand, stopEvent, ppc, pushed>>

Stop ==
  \/ ppc = "idle" /\ StopSignal
  \/ StopResume
  \/ StopJoin
  \/ StopDrain

-----------------------------------------------------------------------------
(* A list hands an object over at most once: it erases the object in the   *)
(* same critical section.                                                  *)
PushFresh ==
  /\ ppc = "idle"
  /\ spc = "idle"
  /\ \E o \in Objects \ Range(pushed) : Push(o)

(* The destroyed remover stays as it is. *)
Destroyed == spc = "done" /\ UNCHANGED vars

Next == PushFresh \/ PushCheck \/ Worker \/ Stop \/ Destroyed

Spec == Init /\ [][Next]_vars

(* A caller that began Push, the worker and a destructor that began all    *)
(* keep running; nobody has to push or to destroy.                         *)
Fairness ==
  /\ WF_vars(PushCheck)
  /\ WF_vars(Worker)
  /\ WF_vars(StopResume)
  /\ WF_vars(StopJoin)
  /\ WF_vars(StopDrain)

FairSpec == Spec /\ Fairness

-----------------------------------------------------------------------------
(* The worker holds an object exactly between its pop and its ReleaseObj,  *)
(* and a destructor that passed the join, or a terminated status, means a  *)
(* worker that takes no further step.  With FifoConservation and           *)
(* StopReleasesAll this is inductive: see ServerObjectListProofs.          *)
WorkerStopped == wpc \in {"ended", "killed"}

PhaseInv ==
  /\ wpc # "killed" => (inHand # NoObj <=> wpc = "release")
  /\ waitForever => wpc # "killed"
  /\ status = "TERMINATED" => WorkerStopped
  /\ spc \in {"drain", "done"} => WorkerStopped
  /\ spc = "done" => queue = <<>>

(* Whatever is queued when a caller of Push finds the worker asleep gets   *)
(* released: the wake-up covers the whole queue, also objects left behind  *)
(* by an earlier push that was overtaken by Suspend.  A worker killed by   *)
(* the destructor may keep one.                                            *)
SleeperIsWoken ==
  \A o \in Objects :
    (waitForever /\ ppc = "check" /\ status = "SUSPENDED" /\ o \in Range(queue))
      ~> o \in Range(released)

(* What the list promises for Remove and Clear, "it also releases the      *)
(* object": every object handed over is eventually released.  Push may     *)
(* read the status between the worker's Unlock and its Suspend.            *)
EveryPushReleased ==
  \A o \in Objects : (status # "TERMINATED" /\ o \in Range(queue)) ~> o \in Range(released)

(* A destructor that waits for the worker comes back.                      *)
StopReturns == spc = "join" ~> spc = "done"
=============================================================================
