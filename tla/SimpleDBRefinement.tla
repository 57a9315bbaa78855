------------------------- MODULE SimpleDBRefinement -------------------------
(* SimpleDBDatabase implements KVStore.  The refinement mapping reads the *)
(* abstract map and calls off the Database and its clients' steps:        *)
(*   - the map holds, for each key, what Read would find first: wbuffer,  *)
(*     then rbuffer, then the table;                                      *)
(*   - a Read takes effect at ReadBuffers, where it looks at the buffers; *)
(*     a miss there has already decided its result, the table's, so the  *)
(*     table steps that follow are stutters;                              *)
(*   - a Write takes effect at WriteAlter, when its mapAlter finishes;    *)
(*     taking and giving back bufferL are stutters.                       *)
EXTENDS SimpleDBDatabase

KVContents ==
  [k \in Keys |-> IF wbuffer[k] # None THEN wbuffer[k]
                  ELSE IF rbuffer[k] # None THEN rbuffer[k]
                  ELSE TableRead(k)]

KVCall ==
  [c \in Clients |->
     CASE pc[c] \in {"racq", "lookup"} -> [op |-> "read", key |-> key[c], val |-> None]
       [] pc[c] \in {"wacq", "altering"} -> [op |-> "write", key |-> key[c], val |-> val[c]]
       [] OTHER -> [op |-> "none", key |-> None, val |-> None]]

(* After a miss in the buffers, the Read's result is the table's.        *)
KVOut ==
  [c \in Clients |-> IF pc[c] \in {"tacq", "table"} THEN TableRead(key[c]) ELSE res[c]]

KV == INSTANCE KVStore WITH store <- KVContents, call <- KVCall, out <- KVOut

(* The Database is linearizable: every run of concurrent Reads and Writes *)
(* is a run of one atomic map, each call taking effect at one step inside *)
(* it.  This rests on bufferL: Read looks at wbuffer only as a reader, so *)
(* no Write's mapAlter is half done when it looks.                        *)
KVSpec == KV!Spec

=============================================================================
