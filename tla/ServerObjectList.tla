-------------------------- MODULE ServerObjectList --------------------------
(***************************************************************************)
(* A ServerObjectList of EpServerEngine 2.0 (epServerObjectList.cpp) with  *)
(* the objects in it (epBaseServerObject.cpp), their reference counts      *)
(* (SmartObject) and the ServerObjectRemover that releases them.  The      *)
(* actors are the ones an AsyncTcpSocket or a server has:                  *)
(*   - the owner, one thread that creates objects, pushes them, starts     *)
(*     them, drops its own reference and, when the list is at its limit,   *)
(*     waits for the list to shrink;                                       *)
(*   - the thread of each object, which ends by taking the object out of   *)
(*     the list (removeSelfFromContainer);                                 *)
(*   - a thread that clears the list, or destroys it;                      *)
(*   - the remover's worker.                                               *)
(* m_listLock and the m_containerLock of each object are explicit: two     *)
(* operations take them in opposite orders.  The remover's own lock is not *)
(* (see ServerObjectRemover).                                              *)
(*                                                                         *)
(* Objects are the objects the owner may create; the constants and the     *)
(* variables of the remover come from ReleaseOrder.                        *)
(***************************************************************************)
EXTENDS ReleaseOrder, SequencesExt

CONSTANTS
  MaxCount,     (* the limit on the list; 0 is PROCESSOR_LIMIT_INFINITE    *)
  MayClear,     (* some thread clears the list while the owner uses it     *)
  MayDestroy    (* the list is destroyed once the owner is idle            *)

Clearer == "clearer"
Free == "free"

ASSUME ListAssumption ==
  /\ NoObj \notin Objects /\ Objects \cap {Free, Clearer} = {}
  /\ MaxCount \in Nat
  /\ {MayClear, MayDestroy} \subseteq BOOLEAN

VARIABLES
  (* the list *)
  list,           (* m_objectList                                          *)
  listLock,       (* holder of m_listLock: Free, Clearer or an object      *)
  sizeEvent,      (* m_sizeEvent, auto reset                               *)
  (* the objects *)
  refCount,       (* SmartObject::m_refCount                               *)
  life,           (* unborn, alive, dying (its destructor runs), dead      *)
  container,      (* m_container points to the list                        *)
  containerLock,  (* m_containerLock is held by the object's own thread    *)
  tpc,            (* where the object's thread is                          *)
  (* the other threads *)
  opc, cur,       (* the owner and the object it is dealing with           *)
  cpc, cidx       (* the clearer and its position in the list              *)

removerVars == <<waitForever, queue, status, wpc, inHand, stopEvent, ppc, spc, pushed, released>>
objectVars == <<refCount, life>>
ownerVars == <<opc, cur>>
clearVars == <<cpc, cidx>>
vars == <<removerVars, list, listLock, sizeEvent, objectVars, container,
          containerLock, tpc, ownerVars, clearVars>>

Remover == INSTANCE ServerObjectRemover

TypeOK ==
  /\ Remover!TypeOK
  /\ list \in Seq(Objects)
  /\ listLock \in Objects \cup {Free, Clearer}
  /\ sizeEvent \in BOOLEAN
  /\ refCount \in [Objects -> 0..2]
  /\ life \in [Objects -> {"unborn", "alive", "dying", "dead"}]
  /\ container \in [Objects -> BOOLEAN]
  /\ containerLock \in [Objects -> BOOLEAN]
  /\ tpc \in [Objects -> {"none", "run", "locked", "search", "check", "erase",
                          "detach", "ended"}]
  /\ opc \in {"idle", "push", "start", "release", "delete", "count", "wait"}
  /\ cur \in Objects \cup {NoObj}
  /\ cpc \in {"idle", "loop", "push", "check", "destroying"}
  /\ cidx \in Nat

(* The wait time of the list is infinite here; the killing of the worker   *)
(* after a finite one is in ServerObjectRemover.                           *)
Init ==
  /\ Remover!Init
  /\ waitForever
  /\ list = <<>>
  /\ listLock = Free
  /\ sizeEvent = FALSE
  /\ refCount = [o \in Objects |-> 0]
  /\ life = [o \in Objects |-> "unborn"]
  /\ container = [o \in Objects |-> FALSE]
  /\ containerLock = [o \in Objects |-> FALSE]
  /\ tpc = [o \in Objects |-> "none"]
  /\ opc = "idle"
  /\ cur = NoObj
  /\ cpc = "idle"
  /\ cidx = 1

-----------------------------------------------------------------------------
(* SmartObject.                                                            *)

(* Mutant: the count is looked at before it is decremented. *)
ReleaseRefLate(o) ==
  /\ refCount' = [refCount EXCEPT ![o] = @ - 1]
  /\ life' = [life EXCEPT ![o] = IF refCount[o] = 0 THEN "dying" ELSE @]

(* ReleaseObj: drop one reference; the last one starts the destructor on   *)
(* the calling thread.                                                     *)
ReleaseRef(o) ==
  /\ refCount' = [refCount EXCEPT ![o] = @ - 1]
  /\ life' = [life EXCEPT ![o] = IF refCount[o] = 1 THEN "dying" ELSE @]

(* Mutant: the destructor does not wait. *)
DestroyableAtOnce(o) == life[o] = "dying"

(* The destructor of an object waits for the object's thread, takes the    *)
(* object out of its container (by then it is in none) and frees it.       *)
Destroyable(o) ==
  /\ life[o] = "dying"
  /\ tpc[o] = "ended"
  /\ ~containerLock[o]

-----------------------------------------------------------------------------
(* The owner.                                                              *)

Create(o) ==
  /\ opc = "idle"
  /\ cpc # "destroying"
  /\ life[o] = "unborn"
  /\ life' = [life EXCEPT ![o] = "alive"]
  /\ refCount' = [refCount EXCEPT ![o] = 1]
  /\ cur' = o
  /\ opc' = "push"
  /\ UNCHANGED <<removerVars, list, listLock, sizeEvent, container,
                 containerLock, tpc, clearVars>>

ListPush ==
  /\ opc = "push"
  /\ listLock = Free
  /\ refCount' = [refCount EXCEPT ![cur] = @ + 1]
  /\ list' = Append(list, cur)
  /\ container' = [container EXCEPT ![cur] = TRUE]
  /\ opc' = "start"
  /\ UNCHANGED <<removerVars, listLock, sizeEvent, life, containerLock, tpc,
                 cur, clearVars>>

StartThread ==
  /\ opc = "start"
  /\ tpc' = [tpc EXCEPT ![cur] = "run"]
  /\ opc' = "release"
  /\ UNCHANGED <<removerVars, list, listLock, sizeEvent, objectVars, container,
                 containerLock, cur, clearVars>>

OwnerRelease ==
  /\ opc = "release"
  /\ ReleaseRef(cur)
  /\ opc' = IF refCount[cur] = 1 THEN "delete" ELSE "count"
  /\ UNCHANGED <<removerVars, list, listLock, sizeEvent, container,
                 containerLock, tpc, cur, clearVars>>

OwnerDelete ==
  /\ opc = "delete"
  /\ Destroyable(cur)
  /\ life' = [life EXCEPT ![cur] = "dead"]
  /\ opc' = "count"
  /\ UNCHANGED <<removerVars, list, listLock, sizeEvent, refCount, container,
                 containerLock, tpc, cur, clearVars>>

(* The loop `while (Count() >= max) WaitForListSizeDecrease()` of the      *)
(* accept and receive loops.                                               *)
AtLimit == MaxCount # 0 /\ Len(list) >= MaxCount

OwnerCount ==
  /\ opc = "count"
  /\ listLock = Free
  /\ opc' = IF AtLimit THEN "wait" ELSE "idle"
  /\ UNCHANGED <<removerVars, list, listLock, sizeEvent, objectVars, container,
                 containerLock, tpc, cur, clearVars>>

WaitForListSizeDecrease ==
  /\ opc = "wait"
  /\ sizeEvent
  /\ sizeEvent' = FALSE
  /\ opc' = "count"
  /\ UNCHANGED <<removerVars, list, listLock, objectVars, container,
                 containerLock, tpc, cur, clearVars>>

OwnerStep == ListPush \/ StartThread \/ OwnerRelease \/ OwnerDelete \/ OwnerCount
             \/ WaitForListSizeDecrease

-----------------------------------------------------------------------------
(* The thread of an object: its work is done, removeSelfFromContainer.     *)

SelfLockContainer(o) ==
  /\ tpc[o] = "run"
  /\ ~containerLock[o]
  /\ containerLock' = [containerLock EXCEPT ![o] = TRUE]
  /\ tpc' = [tpc EXCEPT ![o] = "locked"]
  /\ UNCHANGED <<removerVars, list, listLock, sizeEvent, objectVars, container,
                 ownerVars, clearVars>>

(* With a container: enter its Remove.  Without one: nothing to do.        *)
SelfEnterRemove(o) ==
  /\ tpc[o] = "locked"
  /\ \/ /\ container[o]
        /\ listLock = Free
        /\ listLock' = o
        /\ tpc' = [tpc EXCEPT ![o] = "search"]
     \/ /\ ~container[o]
        /\ tpc' = [tpc EXCEPT ![o] = "detach"]
        /\ UNCHANGED listLock
  /\ UNCHANGED <<removerVars, list, sizeEvent, objectVars, container,
                 containerLock, ownerVars, clearVars>>

(* Remove(obj): hand the object to the remover ...                         *)
SelfRemove(o) ==
  /\ tpc[o] = "search"
  /\ o \in Range(list)
  /\ Remover!Push(o)
  /\ tpc' = [tpc EXCEPT ![o] = "check"]
  /\ UNCHANGED <<list, listLock, sizeEvent, objectVars, container,
                 containerLock, ownerVars, clearVars>>

(* ... which looks at the worker's status ...                              *)
SelfRemoveCheck(o) ==
  /\ tpc[o] = "check"
  /\ Remover!PushCheck
  /\ tpc' = [tpc EXCEPT ![o] = "erase"]
  /\ UNCHANGED <<list, listLock, sizeEvent, objectVars, container,
                 containerLock, ownerVars, clearVars>>

(* ... then erase it, searching from the back, signal and unlock.          *)
Erase(s, o) ==
  RemoveAt(s, SelectLastInSeq(s, LAMBDA x : x = o))

(* Mutant: Remove does not signal the size event. *)
SelfEraseSilent(o) ==
  /\ tpc[o] = "erase"
  /\ list' = Erase(list, o)
  /\ listLock' = Free
  /\ tpc' = [tpc EXCEPT ![o] = "detach"]
  /\ UNCHANGED <<removerVars, sizeEvent, objectVars, container, containerLock,
                 ownerVars, clearVars>>

SelfErase(o) ==
  /\ tpc[o] = "erase"
  /\ list' = Erase(list, o)
  /\ sizeEvent' = TRUE
  /\ listLock' = Free
  /\ tpc' = [tpc EXCEPT ![o] = "detach"]
  /\ UNCHANGED <<removerVars, objectVars, container, containerLock, ownerVars,
                 clearVars>>

SelfDetach(o) ==
  /\ tpc[o] = "detach"
  /\ container' = [container EXCEPT ![o] = FALSE]
  /\ containerLock' = [containerLock EXCEPT ![o] = FALSE]
  /\ tpc' = [tpc EXCEPT ![o] = "ended"]
  /\ UNCHANGED <<removerVars, list, listLock, sizeEvent, objectVars, ownerVars,
                 clearVars>>

ObjectThread(o) ==
  \/ SelfLockContainer(o)
  \/ SelfEnterRemove(o)
  \/ SelfRemove(o)
  \/ SelfRemoveCheck(o)
  \/ SelfErase(o)
  \/ SelfDetach(o)

-----------------------------------------------------------------------------
(* Clear(), also the first half of the list's destructor.                  *)

ClearBegin ==
  /\ MayClear
  /\ cpc = "idle"
  /\ listLock = Free
  /\ listLock' = Clearer
  /\ cpc' = "loop"
  /\ cidx' = 1
  /\ UNCHANGED <<removerVars, list, sizeEvent, objectVars, container,
                 containerLock, tpc, ownerVars>>

(* setContainer(NULL) takes the container lock of the object.              *)
ClearDetach ==
  /\ cpc = "loop"
  /\ cidx <= Len(list)
  /\ ~containerLock[list[cidx]]
  /\ container' = [container EXCEPT ![list[cidx]] = FALSE]
  /\ cpc' = "push"
  /\ UNCHANGED <<removerVars, list, listLock, sizeEvent, objectVars,
                 containerLock, tpc, ownerVars, cidx>>

ClearPush ==
  /\ cpc = "push"
  /\ Remover!Push(list[cidx])
  /\ cpc' = "check"
  /\ UNCHANGED <<list, listLock, sizeEvent, objectVars, container,
                 containerLock, tpc, ownerVars, cidx>>

ClearCheck ==
  /\ cpc = "check"
  /\ Remover!PushCheck
  /\ cidx' = cidx + 1
  /\ cpc' = "loop"
  /\ UNCHANGED <<list, listLock, sizeEvent, objectVars, container,
                 containerLock, tpc, ownerVars>>

(* Mutant: Clear hands the objects over and keeps them. *)
ClearEndKeeps ==
  /\ cpc = "loop"
  /\ cidx > Len(list)
  /\ sizeEvent' = TRUE
  /\ listLock' = Free
  /\ cpc' = "idle"
  /\ cidx' = 1
  /\ UNCHANGED <<removerVars, list, objectVars, container, containerLock, tpc, ownerVars>>

ClearEnd ==
  /\ cpc = "loop"
  /\ cidx > Len(list)
  /\ list' = <<>>
  /\ sizeEvent' = TRUE
  /\ listLock' = Free
  /\ cpc' = "idle"
  /\ cidx' = 1
  /\ UNCHANGED <<removerVars, objectVars, container, containerLock, tpc, ownerVars>>

ClearStep == ClearDetach \/ ClearPush \/ ClearCheck \/ ClearEnd

-----------------------------------------------------------------------------
(* The list's destructor after its Clear: the remover's destructor.  The   *)
(* owner of the list runs it when it uses the list no more.                *)
DestroyBegin ==
  /\ MayDestroy
  /\ cpc = "idle"
  /\ opc = "idle"
  /\ list = <<>>
  /\ cpc' = "destroying"
  /\ UNCHANGED <<removerVars, list, listLock, sizeEvent, objectVars, container,
                 containerLock, tpc, ownerVars, cidx>>

StopSignal ==
  /\ cpc = "destroying"
  /\ Remover!StopSignal
  /\ UNCHANGED <<list, listLock, sizeEvent, objectVars, container,
                 containerLock, tpc, ownerVars, clearVars>>

StopStep ==
  /\ Remover!StopResume \/ Remover!StopJoin
  /\ UNCHANGED <<list, listLock, sizeEvent, objectVars, container,
                 containerLock, tpc, ownerVars, clearVars>>

-----------------------------------------------------------------------------
(* ReleaseObj by the remover, which returns (Returned) at once unless it   *)
(* drops the last reference: then it runs the destructor of the object.    *)
ReleaseBy(o, Returned) ==
  /\ \/ /\ refCount[o] > 1
        /\ ReleaseRef(o)
        /\ Returned
     \/ /\ refCount[o] = 1
        /\ ReleaseRef(o)
        /\ UNCHANGED removerVars
     \/ /\ Destroyable(o)
        /\ life' = [life EXCEPT ![o] = "dead"]
        /\ Returned
        /\ UNCHANGED refCount
  /\ UNCHANGED <<list, listLock, sizeEvent, container, containerLock, tpc,
                 ownerVars, clearVars>>

WorkerReleaseObj == wpc = "release" /\ ReleaseBy(inHand, Remover!WorkerRelease)

StopReleaseObj ==
  spc = "drain" /\ queue # <<>> /\ ReleaseBy(Head(queue), Remover!StopDrain)

StopEnd ==
  /\ queue = <<>>
  /\ Remover!StopDrain
  /\ UNCHANGED <<list, listLock, sizeEvent, objectVars, container,
                 containerLock, tpc, ownerVars, clearVars>>

(* The other steps of the worker touch the remover only. *)
WorkerStep ==
  /\ \/ Remover!WorkerStart
     \/ Remover!WorkerTop
     \/ Remover!WorkerSuspend
     \/ Remover!WorkerDrain
  /\ UNCHANGED <<list, listLock, sizeEvent, objectVars, container,
                 containerLock, tpc, ownerVars, clearVars>>

-----------------------------------------------------------------------------
Next ==
  \/ \E o \in Objects : Create(o)
  \/ OwnerStep
  \/ \E o \in Objects : ObjectThread(o)
  \/ ClearBegin
  \/ ClearStep
  \/ DestroyBegin
  \/ StopSignal
  \/ StopStep
  \/ StopReleaseObj
  \/ StopEnd
  \/ WorkerStep
  \/ WorkerReleaseObj

Spec == Init /\ [][Next]_vars

(* Threads that began an operation go on with it, and the code of an       *)
(* object's thread comes to its end.  Nobody has to create, clear or       *)
(* destroy.                                                                *)
Fairness ==
  /\ WF_vars(OwnerStep)
  /\ \A o \in Objects : WF_vars(ObjectThread(o))
  /\ WF_vars(ClearStep)
  /\ WF_vars(StopSignal \/ StopStep \/ StopReleaseObj \/ StopEnd)
  /\ WF_vars(WorkerStep)
  /\ WF_vars(WorkerReleaseObj)

FairSpec == Spec /\ Fairness

-----------------------------------------------------------------------------
(* Who holds a reference to an object. *)
OwnerHolds(o) == cur = o /\ opc \in {"push", "start", "release"}
ListHolds(o) == o \in Range(list) /\ o \notin Range(pushed)
RemoverHolds(o) == (o \in Range(queue) \/ inHand = o) /\ life[o] # "dying"

Count(b) == IF b THEN 1 ELSE 0

(* The reference count is the number of holders - the owner's local        *)
(* variable, the list, the remover - and the destructor runs exactly when  *)
(* there is none.  It must hold in the middle of Remove and Clear too,     *)
(* where an object handed to the remover is still in the vector.           *)
RefCountExact ==
  \A o \in Objects :
    /\ refCount[o] = Count(OwnerHolds(o)) + Count(ListHolds(o)) + Count(RemoverHolds(o))
    /\ life[o] = "alive" <=> refCount[o] > 0

(* No thread goes on with an object that was deleted: not the owner        *)
(* between Push and its ReleaseObj, not the object's own thread, which     *)
(* still writes m_container after handing the object to the remover, not   *)
(* the remover; and whoever gets the list lock finds living objects.       *)
NoUseAfterFree ==
  \A o \in Objects : life[o] = "dead" =>
    /\ tpc[o] = "ended"
    /\ ~OwnerHolds(o)
    /\ o \notin Range(queue) /\ inHand # o
    /\ listLock = Free => o \notin Range(list)

(* Outside the two critical sections m_container points to the list        *)
(* exactly for the objects in it, so removeSelfFromContainer never enters  *)
(* Remove for an object that Clear took away.                              *)
ContainerAgrees ==
  \A o \in Objects :
    /\ listLock = Free /\ ~containerLock[o] => (container[o] <=> o \in Range(list))
    /\ tpc[o] = "search" => o \in Range(list)

(* All of it: an object is referred to by those who think they do, lives   *)
(* as long, and knows the list it is in.                                   *)
ObjectsAreSound == TypeOK /\ RefCountExact /\ NoUseAfterFree /\ ContainerAgrees

(* How far an object has come, and who may still touch it, as the registry *)
(* sees it.                                                                *)
PhaseOf(o) ==
  IF life[o] = "unborn" THEN "new"
  ELSE IF life[o] = "dead" THEN "destroyed"
  ELSE IF o \in Range(pushed) THEN "retired"
  ELSE IF o \in Range(list) THEN "listed" ELSE "held"

UsersOf(o) ==
  (IF OwnerHolds(o) THEN {"creator"} ELSE {}) \cup
  (IF tpc[o] \in {"none", "ended"} THEN {} ELSE {"thread"})

Registry == INSTANCE ServerObjectRegistry WITH
  phase <- [o \in Objects |-> PhaseOf(o)],
  users <- [o \in Objects |-> UsersOf(o)]

(* The list keeps the promise of ServerObjectRegistry. *)
ImplementsRegistry == Registry!Spec

(* The list uses its remover as the remover's specification expects: one   *)
(* push at a time, every object once, none after the destructor began.     *)
UsesRemoverProperly == Remover!Spec

(* An owner waiting for room gets it, if the threads of the objects end,   *)
(* unless somebody is stuck inside Clear.                                  *)
OwnerGetsRoom == opc = "wait" ~> opc = "idle" \/ cpc # "idle"

(* Clear comes back. *)
ClearReturns == cpc = "loop" ~> cpc = "idle"
=============================================================================
