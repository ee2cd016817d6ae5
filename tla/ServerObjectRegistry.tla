------------------------ MODULE ServerObjectRegistry ------------------------
(***************************************************************************)
(* What a ServerObjectList promises to the server and the sockets that use *)
(* it, without locks, reference counts, queues or a remover thread: an     *)
(* object is listed at most once, is taken out of the list at most once,   *)
(* and is destroyed only after that and only when neither its creator nor  *)
(* its own thread uses it any more.                                        *)
(***************************************************************************)
CONSTANT Objects

VARIABLES
  phase,   (* new -> held -> listed -> retired -> destroyed                *)
  users    (* who may still touch the object: its creator, its thread      *)

vars == <<phase, users>>

Init ==
  /\ phase = [o \in Objects |-> "new"]
  /\ users = [o \in Objects |-> {}]

(* The creator makes the object. *)
Hold(o) ==
  /\ phase[o] = "new"
  /\ phase' = [phase EXCEPT ![o] = "held"]
  /\ users' = [users EXCEPT ![o] = {"creator"}]

(* The creator puts it into the list. *)
Enlist(o) ==
  /\ phase[o] = "held"
  /\ phase' = [phase EXCEPT ![o] = "listed"]
  /\ UNCHANGED users

(* The creator starts the object's thread, then forgets the object. *)
Begin(o) ==
  /\ phase[o] \in {"listed", "retired"}
  /\ users[o] = {"creator"}
  /\ users' = [users EXCEPT ![o] = @ \cup {"thread"}]
  /\ UNCHANGED phase

Leave(o, u) ==
  /\ phase[o] \in {"listed", "retired"}
  /\ u \in users[o]
  /\ users' = [users EXCEPT ![o] = @ \ {u}]
  /\ UNCHANGED phase

(* Remove by the object's own thread, or Clear by anybody. *)
Retire(o) ==
  /\ phase[o] = "listed"
  /\ phase' = [phase EXCEPT ![o] = "retired"]
  /\ UNCHANGED users

Destroy(o) ==
  /\ phase[o] = "retired"
  /\ users[o] = {}
  /\ phase' = [phase EXCEPT ![o] = "destroyed"]
  /\ UNCHANGED users

Next ==
  \E o \in Objects :
    \/ Hold(o) \/ Enlist(o) \/ Begin(o) \/ Retire(o) \/ Destroy(o)
    \/ \E u \in {"creator", "thread"} : Leave(o, u)

Spec == Init /\ [][Next]_vars
=============================================================================
