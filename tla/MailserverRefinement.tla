------------------------- MODULE MailserverRefinement -------------------------
(* Mailserver implements MailStore.  The refinement mapping reads the     *)
(* abstract state off the files and the sessions' local state:            *)
(*   - a user's mailbox is the messages linked in the user's directory,   *)
(*     each with the contents its file holds now;                         *)
(*   - a Deliverer has delivered once its file is in a mailbox, or was    *)
(*     deleted from one;                                                  *)
(*   - a session has taken its snapshot at FS.list: the snapshot is the   *)
(*     messages readMessage has read, and the names it has still to read  *)
(*     with their files' contents;                                        *)
(*   - Pickup's result is what it returned, once it has returned.        *)
(* So Deliver takes effect at FS.link, Pickup at FS.list, and Delete at   *)
(* FS.delete; every other step of the implementation is a stutter.        *)
EXTENDS Mailserver

Contents(inode) == data[inode]

StoreMailbox ==
  [u \in Users |-> {[id |-> id, contents |-> Contents(mbox[u][id])] :
                      id \in {i \in Ids : mbox[u][i] # NoFile}}]

StoreLinked ==
  {p \in Deliverers : p \in deleted \/ \E u \in Users, id \in Ids : mbox[u][id] = p}

StorePhase ==
  [u \in Users |-> CASE spc[u] = "idle"             -> "idle"
                     [] spc[u] = "list"             -> "locked"
                     [] spc[u] \in {"loop", "read"} -> "picking"
                     [] spc[u] = "picked"           -> "picked"]

(* The messages read so far and the listed names not read yet.          *)
StorePicked ==
  [u \in Users |->
     IF spc[u] \in {"loop", "read", "picked"}
     THEN {[id |-> messages[u][k].id, contents |-> Contents(messages[u][k].src)] :
             k \in DOMAIN messages[u]}
          \cup {[id |-> names[u][i], contents |-> Contents(mbox[u][names[u][i]])] :
                  i \in idx[u] + 1 .. Len(names[u])}
     ELSE {}]

StoreResult ==
  [u \in Users |->
     IF spc[u] = "picked"
     THEN {[id |-> messages[u][k].id, contents |-> messages[u][k].contents] :
             k \in DOMAIN messages[u]}
     ELSE {}]

Store == INSTANCE MailStore WITH
           mailbox <- StoreMailbox, linked <- StoreLinked, to <- duser, msg <- dmsg,
           phase <- StorePhase, picked <- StorePicked, result <- StoreResult

(* The mail server behaves as the abstract mail store: every delivered    *)
(* message appears once, whole, under a fresh id, and stays until its     *)
(* user deletes it after Pickup returned it; Pickup returns exactly the   *)
(* mailbox as FS.list saw it, with every message's full contents, though  *)
(* Deliver threads write, link and retry concurrently and crashes fall    *)
(* anywhere.                                                              *)
StoreSpec == Store!Spec

=============================================================================
