-------------------------- MODULE MCAsyncTcpClient --------------------------
(* Model checking of AsyncTcpClient. *)
EXTENDS AsyncTcpClient

(* An infinite wait, also with callbacks that call the client; a finite    *)
(* wait; a TerminateAfter that does not call an earlier end graceful.      *)
AllSettings ==
  {[forever |-> TRUE, graceful |-> TRUE, inside |-> FALSE],
   [forever |-> TRUE, graceful |-> TRUE, inside |-> TRUE],
   [forever |-> FALSE, graceful |-> TRUE, inside |-> FALSE],
   [forever |-> TRUE, graceful |-> FALSE, inside |-> FALSE]}
=============================================================================
