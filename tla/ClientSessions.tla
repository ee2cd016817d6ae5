--------------------------- MODULE ClientSessions ---------------------------
(***************************************************************************)
(* What the application is promised by ClientInterface and                 *)
(* ClientCallbackInterface about a client whose packets are not handed to  *)
(* threads of their own: a session begins where a Connect that will answer *)
(* true has started the receiving thread, brings the packets of the server *)
(* once and in order, and ends with OnDisconnect, once; and the next       *)
(* session begins after that.  Its callbacks need not wait until Connect   *)
(* has returned.                                                           *)
(***************************************************************************)
EXTENDS Naturals, SequencesExt

VARIABLE calls    (* sessions begun and the callbacks, oldest first        *)

Connected == <<"connected", 0>>
OnReceived(i) == <<"received", i>>    (* the i-th packet of the session    *)
OnDisconnect == <<"disconnect", 0>>

Idle == calls = <<>> \/ Last(calls) = OnDisconnect

Init == calls = <<>>

Connect == Idle /\ calls' = Append(calls, Connected)
Deliver == ~Idle /\ calls' = Append(calls, OnReceived(Last(calls)[2] + 1))
Disconnect == ~Idle /\ calls' = Append(calls, OnDisconnect)

Next == Connect \/ Deliver \/ Disconnect

Spec == Init /\ [][Next]_calls
=============================================================================
