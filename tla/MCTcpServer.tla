---------------------------- MODULE MCTcpServer ----------------------------
(* Model checking of TcpServer. *)
EXTENDS TcpServer

Setting(sync, forever, shutdowns, setLimit, faults) ==
  [sync |-> sync, forever |-> forever, shutdowns |-> shutdowns,
   setLimit |-> setLimit, faults |-> faults]

(* An AsyncTcpServer: StartServer and StopServer only, with an infinite    *)
(* wait.                                                                   *)
Plain == Setting(FALSE, TRUE, FALSE, FALSE, FALSE)

(* Besides: a finite wait, ShutdownAllClient, a limit that moves, an       *)
(* accept that fails; and a SyncTcpServer with either wait.                *)
AllSettings ==
  {Plain,
   Setting(FALSE, FALSE, FALSE, FALSE, FALSE), Setting(FALSE, TRUE, TRUE, FALSE, FALSE),
   Setting(FALSE, TRUE, FALSE, TRUE, FALSE), Setting(FALSE, TRUE, FALSE, FALSE, TRUE),
   Setting(TRUE, TRUE, FALSE, FALSE, FALSE), Setting(TRUE, FALSE, FALSE, FALSE, FALSE)}

MovingLimit == {Setting(FALSE, TRUE, FALSE, TRUE, FALSE)}

PlainOnly == {Plain}

AllLimits == 0..1
=============================================================================
