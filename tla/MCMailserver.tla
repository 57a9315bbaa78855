---------------------------- MODULE MCMailserver ----------------------------
EXTENDS MailserverRefinement

(* Two users, two concurrent Deliver threads, two random ids: enough for  *)
(* two Delivers to collide on a spool name and on a mailbox name.         *)
MCUsers      == {"u1", "u2"}
MCDeliverers == {"p1", "p2"}
MCIds        == {1, 2}

(* Messages shorter than a chunk (ChunkSize = 2): read in one readAt.     *)
MCShortMsgs == {<<7>>}

(* Messages of one and of three chunks' worth of bytes.                  *)
MCLongMsgs == {<<7>>, <<7, 8>>}

MCReadBound == ReadBound(4)
=============================================================================
