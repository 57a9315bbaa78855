-------------------------- MODULE SimpleDBDatabase --------------------------
(* The simpledb Database (part_001 264-330): NewDb, and any number of      *)
(* clients calling Read and Write concurrently.  Read takes bufferL as a   *)
(* reader, looks the key up in wbuffer and then rbuffer, and otherwise     *)
(* takes tableL as a reader and calls TableRead.  Write takes bufferL as   *)
(* the writer and alters wbuffer.                                         *)
(*                                                                         *)
(* Locks follow goose's Data.lockAcquire (module GooseLock): a reader      *)
(* waits while a writer holds the lock, a writer while anyone holds it.   *)
(* A map operation is not atomic in goose: a                              *)
(* Data.mapGet that overlaps an unfinished Data.mapAlter of the same map  *)
(* is a data race, and its result is any entry (undefined behaviour).     *)
(* Write's mapAlter therefore spans two steps, WriteAcquire starting it    *)
(* and WriteAlter finishing it.                                            *)
(*                                                                         *)
(* Nothing in the program writes rbuffer, the table or tableL as a writer *)
(* (compaction is not part of it): they keep what NewDb gave them.        *)
EXTENDS Naturals, GooseLock

CONSTANTS
  Clients,  \* threads that call Read and Write on the one Database
  Keys,     \* uint64 keys
  Vals,     \* values (byte slices) a Write may store
  None      \* a key absent from a map: Read returns (nil, false)

ASSUME None \notin Vals

VARIABLES
  wbuffer,  \* *db.wbuffer: [Keys -> Entry]
  rbuffer,  \* *db.rbuffer
  bufferL,  \* db.bufferL: [readers, writer]
  tableL,   \* db.tableL
  pc,       \* where each client is in its current call
  key,      \* the call's k
  val,      \* Write's v (None during a Read)
  res       \* what the client's last Read returned

vars == <<wbuffer, rbuffer, bufferL, tableL, pc, key, val, res>>

Entry == Vals \cup {None}

EmptyMap == [k \in Keys |-> None]

(* A Write between starting and finishing its Data.mapAlter of wbuffer.  *)
Altering == \E c \in Clients : pc[c] = "altering"

(* Data.mapGet m k: the entry, or any entry if it races with a mapAlter. *)
mapGet(m, k) == IF Altering THEN Entry ELSE {m[k]}

(* CreateTable p: a new index map, FS.create p, FS.close, FS.open p: an   *)
(* empty index over an empty file.                                       *)
CreateTable == [Index |-> EmptyMap, File |-> <<>>]

(* TableRead t k on the table NewDb made: nothing adds to its index, so  *)
(* Data.mapGet misses and it returns (nil, false) without reading File.  *)
TableRead(k) == CreateTable.Index[k]

ReadPending == {"racq", "lookup", "tacq", "table"}

(* NewDb: two empty value buffers, fresh locks and an empty table.       *)
Init ==
  /\ wbuffer = EmptyMap
  /\ rbuffer = EmptyMap
  /\ bufferL = FreeLock
  /\ tableL = FreeLock
  /\ pc = [c \in Clients |-> "idle"]
  /\ key = [c \in Clients |-> CHOOSE k \in Keys : TRUE]
  /\ val = [c \in Clients |-> None]
  /\ res = [c \in Clients |-> None]

-----------------------------------------------------------------------------
(* Read                                                                    *)

(* A client calls Read db k.                                             *)
ReadCall(c, k) ==
  /\ pc[c] = "idle"
  /\ pc' = [pc EXCEPT ![c] = "racq"]
  /\ key' = [key EXCEPT ![c] = k]
  /\ val' = [val EXCEPT ![c] = None]
  /\ UNCHANGED <<wbuffer, rbuffer, bufferL, tableL, res>>

(* Mutant of ReadAcquire: the reader does not wait for the writer.       *)
ReadAcquireIgnoresWriter(c) ==
  /\ pc[c] = "racq"
  /\ bufferL' = lockAcquire(bufferL, "Reader")
  /\ pc' = [pc EXCEPT ![c] = "lookup"]
  /\ UNCHANGED <<wbuffer, rbuffer, tableL, key, val, res>>

(* Read: Data.lockAcquire db.bufferL Reader.                             *)
ReadAcquire(c) ==
  /\ pc[c] = "racq"
  /\ CanAcquire(bufferL, "Reader")
  /\ bufferL' = lockAcquire(bufferL, "Reader")
  /\ pc' = [pc EXCEPT ![c] = "lookup"]
  /\ UNCHANGED <<wbuffer, rbuffer, tableL, key, val, res>>

(* Read: mapGet wbuffer k; if found, release bufferL and return it; else *)
(* mapGet rbuffer k, the same; else go on to the table.                  *)
ReadBuffers(c) ==
  /\ pc[c] = "lookup"
  /\ \E v \in mapGet(wbuffer, key[c]) :
       LET v2 == rbuffer[key[c]] IN
       IF v # None \/ v2 # None
       THEN /\ bufferL' = lockRelease(bufferL, "Reader")
            /\ res' = [res EXCEPT ![c] = IF v # None THEN v ELSE v2]
            /\ pc' = [pc EXCEPT ![c] = "idle"]
       ELSE /\ pc' = [pc EXCEPT ![c] = "tacq"]
            /\ UNCHANGED <<bufferL, res>>
  /\ UNCHANGED <<wbuffer, rbuffer, tableL, key, val>>

(* Read: Data.lockAcquire db.tableL Reader.                              *)
ReadTableAcquire(c) ==
  /\ pc[c] = "tacq"
  /\ CanAcquire(tableL, "Reader")
  /\ tableL' = lockAcquire(tableL, "Reader")
  /\ pc' = [pc EXCEPT ![c] = "table"]
  /\ UNCHANGED <<wbuffer, rbuffer, bufferL, key, val, res>>

(* Read: TableRead tbl k, release tableL, release bufferL, return.       *)
ReadTable(c) ==
  /\ pc[c] = "table"
  /\ tableL' = lockRelease(tableL, "Reader")
  /\ bufferL' = lockRelease(bufferL, "Reader")
  /\ res' = [res EXCEPT ![c] = TableRead(key[c])]
  /\ pc' = [pc EXCEPT ![c] = "idle"]
  /\ UNCHANGED <<wbuffer, rbuffer, key, val>>

-----------------------------------------------------------------------------
(* Write                                                                   *)

(* A client calls Write db k v.                                          *)
WriteCall(c, k, v) ==
  /\ pc[c] = "idle"
  /\ pc' = [pc EXCEPT ![c] = "wacq"]
  /\ key' = [key EXCEPT ![c] = k]
  /\ val' = [val EXCEPT ![c] = v]
  /\ UNCHANGED <<wbuffer, rbuffer, bufferL, tableL, res>>

(* Write: Data.lockAcquire db.bufferL Writer, readPtr db.wbuffer, and    *)
(* Data.mapAlter buf k starts.                                           *)
WriteAcquire(c) ==
  /\ pc[c] = "wacq"
  /\ CanAcquire(bufferL, "Writer")
  /\ bufferL' = lockAcquire(bufferL, "Writer")
  /\ pc' = [pc EXCEPT ![c] = "altering"]
  /\ UNCHANGED <<wbuffer, rbuffer, tableL, key, val, res>>

(* Write: Data.mapAlter buf k (fun _ => Some v) finishes.                *)
WriteAlter(c) ==
  /\ pc[c] = "altering"
  /\ wbuffer' = [wbuffer EXCEPT ![key[c]] = val[c]]
  /\ pc' = [pc EXCEPT ![c] = "release"]
  /\ UNCHANGED <<rbuffer, bufferL, tableL, key, val, res>>

(* Mutant of WriteRelease: the lock is released in the wrong mode.       *)
WriteReleaseAsReader(c) ==
  /\ pc[c] = "release"
  /\ bufferL' = lockRelease(bufferL, "Reader")
  /\ pc' = [pc EXCEPT ![c] = "idle"]
  /\ UNCHANGED <<wbuffer, rbuffer, tableL, key, val, res>>

(* Write: Data.lockRelease db.bufferL Writer.                            *)
WriteRelease(c) ==
  /\ pc[c] = "release"
  /\ bufferL' = lockRelease(bufferL, "Writer")
  /\ pc' = [pc EXCEPT ![c] = "idle"]
  /\ UNCHANGED <<wbuffer, rbuffer, tableL, key, val, res>>

-----------------------------------------------------------------------------
Next ==
  \E c \in Clients :
    \/ \E k \in Keys : ReadCall(c, k)
    \/ ReadAcquire(c)
    \/ ReadBuffers(c)
    \/ ReadTableAcquire(c)
    \/ ReadTable(c)
    \/ \E k \in Keys, v \in Vals : WriteCall(c, k, v)
    \/ WriteAcquire(c)
    \/ WriteAlter(c)
    \/ WriteRelease(c)

Spec == Init /\ [][Next]_vars

-----------------------------------------------------------------------------
(* Properties                                                              *)

TypeOK ==
  /\ wbuffer \in [Keys -> Entry]
  /\ rbuffer \in [Keys -> Entry]
  /\ bufferL \in LockState
  /\ tableL \in LockState
  /\ pc \in [Clients -> ReadPending \cup {"idle", "wacq", "altering", "release"}]
  /\ key \in [Clients -> Keys]
  /\ val \in [Clients -> Entry]
  /\ res \in [Clients -> Entry]

=============================================================================
