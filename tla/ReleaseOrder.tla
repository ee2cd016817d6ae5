---------------------------- MODULE ReleaseOrder ----------------------------
(***************************************************************************)
(* The state of a ServerObjectRemover (epServerObjectRemover.h) and what   *)
(* it promises about the objects handed to it, in terms of that state      *)
(* alone: ServerObjectRemover, and ServerObjectList with the remover it    *)
(* contains, both extend this module.                                      *)
(***************************************************************************)
EXTENDS Naturals, Sequences

CONSTANTS
  Objects,     (* the BaseServerObjects that may be handed to the remover  *)
  NoObj        (* the worker holds no object                               *)

VARIABLES
  waitForever, (* m_waitTime is WAITTIME_INIFINITE: the worker is not killed *)
  queue,     (* m_objectList, front first                                  *)
  status,    (* Thread::m_status of the worker                             *)
  wpc,       (* where the worker is in execute()                           *)
  inHand,    (* popped and about to be released                            *)
  stopEvent, (* m_threadStopEvent, auto reset                              *)
  ppc,       (* where the caller of Push is                                *)
  spc,       (* where the destructor is                                    *)
  pushed,    (* history: objects in the order of the pushes                *)
  released   (* history: objects in the order of ReleaseObj                *)

(* What the worker holds, as a sequence of length at most one. *)
InHand == IF inHand = NoObj THEN <<>> ELSE <<inHand>>

(* Objects are released in the order they were pushed, and at every moment *)
(* each pushed object is exactly once in one place: released, in the       *)
(* worker's hand or in the queue (push 190-197, execute 219-226, the       *)
(* destructor 105-110).                                                    *)
FifoConservation == wpc # "killed" => released \o InHand \o queue = pushed

(* The promise of the comment in the destructor: with an infinite wait, a  *)
(* destructor that returns has released every object ever pushed.          *)
StopReleasesAll == spc = "done" /\ waitForever => released = pushed

(* Nothing is lost, or released twice or too late. *)
ReleasesInOrder == FifoConservation /\ StopReleasesAll
=============================================================================
