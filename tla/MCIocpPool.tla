----------------------------- MODULE MCIocpPool -----------------------------
(* Model checking of IocpPool. *)
EXTENDS IocpPool

Setting(forever, stops, chains, eager, conns, kinds) ==
  [forever |-> forever, stops |-> stops, chains |-> chains, eager |-> eager,
   conns |-> conns, kinds |-> kinds]

One == {CHOOSE c \in Conns : TRUE}

(* Jobs of all kinds; a server that is stopped with an infinite and with a *)
(* finite wait; callbacks that make jobs; workers that report themselves   *)
(* before their first job; and jobs of two connections.                    *)
AllSettings ==
  {Setting(TRUE, FALSE, FALSE, FALSE, One, {"send", "receive", "disconnect"}),
   Setting(TRUE, TRUE, FALSE, FALSE, One, {"receive"}),
   Setting(FALSE, TRUE, FALSE, FALSE, One, {"receive"}),
   Setting(TRUE, FALSE, TRUE, TRUE, One, {"receive"}),
   Setting(TRUE, FALSE, FALSE, FALSE, Conns, {"receive"})}

TwoConnections == {Setting(TRUE, FALSE, FALSE, FALSE, Conns, {"receive"})}
=============================================================================
