------------------------ MODULE ConnectionCallbacks ------------------------
(***************************************************************************)
(* What the application is promised by ServerCallbackInterface about one   *)
(* connection whose packets are not handed to threads of their own:        *)
(* OnNewConnection first, then every packet once and in the order the peer *)
(* sent it, then OnDisconnect, once and last.                              *)
(***************************************************************************)
EXTENDS Naturals, Sequences

VARIABLE calls   (* the callbacks begun so far, oldest first               *)

OnNewConnection == <<"new", 0>>
OnReceived(i) == <<"received", i>>     (* the i-th packet of the peer      *)
OnDisconnect == <<"disconnect", 0>>

Connected == calls # <<>> /\ calls[Len(calls)] # OnDisconnect

Init == calls = <<>>

Announce == calls = <<>> /\ calls' = <<OnNewConnection>>

Deliver == Connected /\ calls' = Append(calls, OnReceived(Len(calls)))

Disconnect == Connected /\ calls' = Append(calls, OnDisconnect)

Next == Announce \/ Deliver \/ Disconnect

Spec == Init /\ [][Next]_calls
=============================================================================
