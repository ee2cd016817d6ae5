-------------------------- MODULE MCAsyncUdpServer --------------------------
(* Model checking of AsyncUdpServer. *)
EXTENDS AsyncUdpServer

Setting(forever, faults, shutdowns, kills, limit, peers) ==
  [forever |-> forever, faults |-> faults, shutdowns |-> shutdowns, kills |-> kills,
   limit |-> limit, peers |-> peers]

One == {CHOOSE c \in Clients : TRUE}

(* Two clients with a limit of one and with none, and a recvfrom that      *)
(* fails; one client, and the application kills it, with an infinite and   *)
(* with a finite wait, or clears the list.                                 *)
AllSettings ==
  {Setting(TRUE, FALSE, FALSE, FALSE, 1, Clients),
   Setting(TRUE, FALSE, FALSE, FALSE, 0, Clients),
   Setting(TRUE, TRUE, FALSE, FALSE, 0, Clients),
   Setting(TRUE, FALSE, FALSE, TRUE, 0, One),
   Setting(FALSE, FALSE, FALSE, TRUE, 0, One),
   Setting(TRUE, FALSE, TRUE, FALSE, 0, One)}
=============================================================================
