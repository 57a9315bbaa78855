------------------------------ MODULE KVStore ------------------------------
(* What the simpledb Database promises its clients: one map from keys to  *)
(* values.  A client calls Read or Write, the call takes effect at one    *)
(* atomic step somewhere between the call and its return, and a Read     *)
(* returns what the map holds at that step (None for a missing key).     *)
CONSTANTS Clients, Keys, Vals, None

VARIABLES
  store,  \* [Keys -> Vals \cup {None}]
  call,   \* each client's call that has not taken effect yet
  out     \* what each client's last Read returned

kvVars == <<store, call, out>>

NoCall == [op |-> "none", key |-> None, val |-> None]

Init ==
  /\ store = [k \in Keys |-> None]
  /\ call = [c \in Clients |-> NoCall]
  /\ out = [c \in Clients |-> None]

BeginRead(c, k) ==
  /\ call[c] = NoCall
  /\ call' = [call EXCEPT ![c] = [op |-> "read", key |-> k, val |-> None]]
  /\ UNCHANGED <<store, out>>

Read(c) ==
  /\ call[c].op = "read"
  /\ out' = [out EXCEPT ![c] = store[call[c].key]]
  /\ call' = [call EXCEPT ![c] = NoCall]
  /\ UNCHANGED store

BeginWrite(c, k, v) ==
  /\ call[c] = NoCall
  /\ call' = [call EXCEPT ![c] = [op |-> "write", key |-> k, val |-> v]]
  /\ UNCHANGED <<store, out>>

Write(c) ==
  /\ call[c].op = "write"
  /\ store' = [store EXCEPT ![call[c].key] = call[c].val]
  /\ call' = [call EXCEPT ![c] = NoCall]
  /\ UNCHANGED out

Next ==
  \E c \in Clients :
    \/ \E k \in Keys : BeginRead(c, k)
    \/ Read(c)
    \/ \E k \in Keys, v \in Vals : BeginWrite(c, k, v)
    \/ Write(c)

Spec == Init /\ [][Next]_kvVars

=============================================================================
