----------------------------- MODULE MailStore -----------------------------
(* What the mail server promises, without files, spool or retries: each   *)
(* user has a set of messages, each under an id unique in that mailbox.   *)
(* Deliver adds its message to its user's mailbox at once and at most     *)
(* once.  A session locks the mailbox, takes a snapshot of it, returns    *)
(* the snapshot, deletes some of the messages it returned and unlocks.    *)
(* A crash ends every session and keeps every delivered message.         *)
EXTENDS Naturals

CONSTANTS Users, Deliverers, Ids, Msgs

VARIABLES
  mailbox,  \* [Users -> SUBSET Message]
  linked,   \* the Deliverers whose message has been added
  to,       \* the user each Deliverer delivers to
  msg,      \* the message each Deliverer delivers
  phase,    \* each user's session: idle, locked, picking or picked
  picked,   \* the snapshot the session took of its mailbox
  result    \* what the session's Pickup returned

storeVars == <<mailbox, linked, to, msg, phase, picked, result>>

Message == [id : Ids, contents : Msgs]

IdsIn(box) == {m.id : m \in box}

Init ==
  /\ mailbox = [u \in Users |-> {}]
  /\ linked = {}
  /\ to \in [Deliverers -> Users]
  /\ msg \in [Deliverers -> Msgs]
  /\ phase = [u \in Users |-> "idle"]
  /\ picked = [u \in Users |-> {}]
  /\ result = [u \in Users |-> {}]

(* Deliverer p's message appears under an id its mailbox does not use.   *)
Deliver(p) ==
  /\ p \notin linked
  /\ \E id \in Ids \ IdsIn(mailbox[to[p]]) :
       mailbox' = [mailbox EXCEPT ![to[p]] = @ \cup {[id |-> id, contents |-> msg[p]]}]
  /\ linked' = linked \cup {p}
  /\ UNCHANGED <<to, msg, phase, picked, result>>

Lock(u) ==
  /\ phase[u] = "idle"
  /\ phase' = [phase EXCEPT ![u] = "locked"]
  /\ UNCHANGED <<mailbox, linked, to, msg, picked, result>>

Snapshot(u) ==
  /\ phase[u] = "locked"
  /\ phase' = [phase EXCEPT ![u] = "picking"]
  /\ picked' = [picked EXCEPT ![u] = mailbox[u]]
  /\ UNCHANGED <<mailbox, linked, to, msg, result>>

Return(u) ==
  /\ phase[u] = "picking"
  /\ phase' = [phase EXCEPT ![u] = "picked"]
  /\ result' = [result EXCEPT ![u] = picked[u]]
  /\ UNCHANGED <<mailbox, linked, to, msg, picked>>

(* Only a message the session returned, and only once.                   *)
Remove(u) ==
  /\ phase[u] = "picked"
  /\ \E m \in result[u] \cap mailbox[u] :
       mailbox' = [mailbox EXCEPT ![u] = @ \ {m}]
  /\ UNCHANGED <<linked, to, msg, phase, picked, result>>

Unlock(u) ==
  /\ phase[u] = "picked"
  /\ phase' = [phase EXCEPT ![u] = "idle"]
  /\ picked' = [picked EXCEPT ![u] = {}]
  /\ result' = [result EXCEPT ![u] = {}]
  /\ UNCHANGED <<mailbox, linked, to, msg>>

Crash ==
  /\ phase' = [u \in Users |-> "idle"]
  /\ picked' = [u \in Users |-> {}]
  /\ result' = [u \in Users |-> {}]
  /\ UNCHANGED <<mailbox, linked, to, msg>>

Next ==
  \/ \E p \in Deliverers : Deliver(p)
  \/ \E u \in Users : Lock(u) \/ Snapshot(u) \/ Return(u) \/ Remove(u) \/ Unlock(u)
  \/ Crash

Spec == Init /\ [][Next]_storeVars

=============================================================================
