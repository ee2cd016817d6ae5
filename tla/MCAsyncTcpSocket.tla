-------------------------- MODULE MCAsyncTcpSocket --------------------------
(* Model checking of AsyncTcpSocket. *)
EXTENDS AsyncTcpSocket

Setting(async, max, forever, killInCallback, graceful) ==
  [async |-> async, max |-> max, forever |-> forever,
   killInCallback |-> killInCallback, graceful |-> graceful]

(* The defaults of ServerOps and AsyncTcpSocket: asynchronous receive, no  *)
(* limit, an infinite wait.                                                *)
Defaults == {Setting(TRUE, 0, TRUE, FALSE, TRUE)}

(* Callbacks on the socket's own thread.                                   *)
Plain == {Setting(FALSE, 0, TRUE, FALSE, TRUE)}

(* Besides: an application that kills the connection in OnReceived; one    *)
(* processor at a time; the same with a finite wait and a TerminateAfter   *)
(* that does not tell a thread that ended from one that never ran.         *)
AllSettings ==
  Defaults \cup Plain \cup
  {Setting(FALSE, 0, TRUE, TRUE, TRUE), Setting(TRUE, 1, TRUE, FALSE, TRUE),
   Setting(TRUE, 1, FALSE, FALSE, FALSE)}
=============================================================================
