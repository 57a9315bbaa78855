------------------------- MODULE MCMailserverFiles -------------------------
EXTENDS MailserverFiles

(* One user and one Deliver thread: one delivered message and one Pickup *)
(* that reads it are enough for readMessage to return with its file open. *)
MCUsers      == {"u1"}
MCDeliverers == {"p1"}
MCIds        == {1}
MCShortMsgs  == {<<7>>}
=============================================================================
