----------------------------- MODULE Mailserver -----------------------------
(***************************************************************************)
(* The mail server of src/internal/examples/mailserver/mailserver.gold.v:  *)
(* Deliver threads write a message to a temporary file in SpoolDir and     *)
(* link it into the recipient's directory under a random "msg<id>" name;   *)
(* a user's session Picks up all messages under the per-user lock,         *)
(* Deletes some of them and Unlocks.  A crash loses every thread, fd and   *)
(* lock; the file system survives, and Recover re-creates the locks and    *)
(* empties SpoolDir before the server runs again.                          *)
(*                                                                         *)
(* Every FS.*, lock and Globals operation is one atomic step, as in the    *)
(* Goose semantics; the local computation between two of them is folded   *)
(* into the step that follows it.  A file is an inode: the Deliver thread  *)
(* that created it names it, and data[p] holds its bytes.  getUserDir      *)
(* gives each user a directory of its own, so mbox[u] is user u's          *)
(* directory, keyed by the id of "msg" ++ uint64_to_string id; SpoolDir    *)
(* files are keyed by the id of uint64_to_string id.                       *)
(***************************************************************************)
EXTENDS Naturals, Sequences, FiniteSets, SequencesExt

CONSTANTS
  Users,       \* the user numbers 0 .. NumUsers-1
  Deliverers,  \* threads that each run one Deliver call (and its inode)
  Ids,         \* the values Data.randomUint64 may return
  Msgs,        \* message contents (byte sequences) a Deliver may carry
  ChunkSize,   \* the 4096-byte read and write unit of readMessage/writeTmp
  MaxCrashes,  \* bound on the number of crashes
  NoFile,      \* directory entry that names no file
  DeleteOnce   \* the client passes each message it picked to Delete once

ASSUME ChunkSize \in Nat \ {0}
ASSUME MaxCrashes \in Nat
ASSUME NoFile \notin Deliverers
ASSUME DeleteOnce \in BOOLEAN

VARIABLES
  spool,     \* SpoolDir: [Ids -> inode or NoFile]
  mbox,      \* user directories: [Users -> [Ids -> inode or NoFile]]
  data,      \* file contents: [Deliverers -> Seq(byte)]
  locks,     \* the per-user locks of Globals: [Users -> held?]
  dpc,       \* program counter of each Deliver thread
  duser,     \* Deliver's user argument
  dmsg,      \* Deliver's msg argument
  did,       \* the loop variable id of createTmp / Deliver's link loop
  tmpName,   \* the spool name writeTmp returned (created by createTmp)
  wbuf,      \* the loop variable buf of writeTmp
  spc,       \* program counter of each user's session
  names,     \* Pickup's names (result of FS.list userDir)
  idx,       \* Pickup's loop variable i
  rfile,     \* the file readMessage opened
  pf,        \* readMessage's loop variable pf (partialFile: off, data)
  messages,  \* Pickup's messages; src is the inode read (history)
  asked,     \* the picked messages the client has passed to Delete
  deleted,   \* inodes removed by Delete (history)
  rpc,       \* recovery: "initLocks", "delete" or "running"
  spooled,   \* Recover's spooled (FS.list SpoolDir)
  ridx,      \* Recover's loop variable i
  crashes    \* number of crashes so far

fsVars      == <<spool, mbox, data>>
deliverVars == <<dpc, duser, dmsg, did, tmpName, wbuf>>
sessionVars == <<spc, names, idx, rfile, pf, messages, asked>>
recoverVars == <<rpc, spooled, ridx, crashes>>
vars == <<fsVars, locks, deliverVars, sessionVars, deleted, recoverVars>>

Inodes == Deliverers
Entry  == Inodes \cup {NoFile}

(* FS.readAt f off n: at most n bytes of the file from offset off.        *)
readAt(content, off, n) ==
  IF off >= Len(content) THEN <<>>
  ELSE SubSeq(content, off + 1, IF off + n < Len(content) THEN off + n ELSE Len(content))

(* slice.take / slice.skip                                                 *)
take(n, s) == SubSeq(s, 1, n)
skip(n, s) == SubSeq(s, n + 1, Len(s))

(* FS.list dir: the names present in a directory, in some fixed order.   *)
list(dir) == SetToSeq({id \in Ids : dir[id] # NoFile})

Running == rpc = "running"

-----------------------------------------------------------------------------
(* Deliver (and writeTmp, createTmp)                                       *)

(* Deliver: getUserDir, then writeTmp calls createTmp, which draws initID. *)
DeliverStart(p) ==
  /\ Running
  /\ dpc[p] = "start"
  /\ \E id \in Ids : did' = [did EXCEPT ![p] = id]
  /\ dpc' = [dpc EXCEPT ![p] = "create"]
  /\ UNCHANGED <<fsVars, locks, duser, dmsg, tmpName, wbuf, sessionVars,
                 deleted, recoverVars>>

(* createTmp: FS.create SpoolDir fname succeeds; the file is new and empty. *)
createTmpOk(p) ==
  /\ Running
  /\ dpc[p] = "create"
  /\ spool[did[p]] = NoFile
  /\ spool' = [spool EXCEPT ![did[p]] = p]
  /\ data' = [data EXCEPT ![p] = <<>>]
  /\ tmpName' = [tmpName EXCEPT ![p] = did[p]]
  /\ wbuf' = [wbuf EXCEPT ![p] = dmsg[p]]
  /\ dpc' = [dpc EXCEPT ![p] = "write"]
  /\ UNCHANGED <<mbox, locks, duser, dmsg, did, sessionVars, deleted, recoverVars>>

(* createTmp: the name is taken, so draw a new random id and retry.       *)
createTmpRetry(p) ==
  /\ Running
  /\ dpc[p] = "create"
  /\ spool[did[p]] # NoFile
  /\ \E id \in Ids : did' = [did EXCEPT ![p] = id]
  /\ UNCHANGED <<fsVars, locks, dpc, duser, dmsg, tmpName, wbuf, sessionVars,
                 deleted, recoverVars>>

(* Mutant of writeTmpLast: the final short piece of buf is not appended. *)
writeTmpLastDropped(p) ==
  /\ Running
  /\ dpc[p] = "write"
  /\ Len(wbuf[p]) < ChunkSize
  /\ dpc' = [dpc EXCEPT ![p] = "close"]
  /\ UNCHANGED <<fsVars, locks, duser, dmsg, did, tmpName, wbuf,
                 sessionVars, deleted, recoverVars>>

(* writeTmp: the rest of buf is shorter than a chunk: append it, stop.    *)
writeTmpLast(p) ==
  /\ Running
  /\ dpc[p] = "write"
  /\ Len(wbuf[p]) < ChunkSize
  /\ data' = [data EXCEPT ![p] = @ \o wbuf[p]]
  /\ dpc' = [dpc EXCEPT ![p] = "close"]
  /\ UNCHANGED <<spool, mbox, locks, duser, dmsg, did, tmpName, wbuf,
                 sessionVars, deleted, recoverVars>>

(* writeTmp: append one chunk and continue with the rest of buf.          *)
writeTmpChunk(p) ==
  /\ Running
  /\ dpc[p] = "write"
  /\ Len(wbuf[p]) >= ChunkSize
  /\ data' = [data EXCEPT ![p] = @ \o take(ChunkSize, wbuf[p])]
  /\ wbuf' = [wbuf EXCEPT ![p] = skip(ChunkSize, @)]
  /\ UNCHANGED <<spool, mbox, locks, dpc, duser, dmsg, did, tmpName,
                 sessionVars, deleted, recoverVars>>

(* writeTmp: FS.close f and return the name; Deliver draws initID.        *)
writeTmpClose(p) ==
  /\ Running
  /\ dpc[p] = "close"
  /\ \E id \in Ids : did' = [did EXCEPT ![p] = id]
  /\ dpc' = [dpc EXCEPT ![p] = "link"]
  /\ UNCHANGED <<fsVars, locks, duser, dmsg, tmpName, wbuf, sessionVars,
                 deleted, recoverVars>>

(* Mutant of DeliverLinkOk: a link that replaces an existing target.     *)
DeliverLinkOverwrite(p) ==
  /\ Running
  /\ dpc[p] = "link"
  /\ mbox' = [mbox EXCEPT ![duser[p]][did[p]] = spool[tmpName[p]]]
  /\ dpc' = [dpc EXCEPT ![p] = "deltmp"]
  /\ UNCHANGED <<spool, data, locks, duser, dmsg, did, tmpName, wbuf,
                 sessionVars, deleted, recoverVars>>

(* Mutant of DeliverLinkOk: the branches of "if ok" swapped, so a        *)
(* successful link draws a new id and links again.                       *)
DeliverLinkLoops(p) ==
  /\ Running
  /\ dpc[p] = "link"
  /\ mbox[duser[p]][did[p]] = NoFile
  /\ mbox' = [mbox EXCEPT ![duser[p]][did[p]] = spool[tmpName[p]]]
  /\ \E id \in Ids : did' = [did EXCEPT ![p] = id]
  /\ UNCHANGED <<spool, data, locks, dpc, duser, dmsg, tmpName, wbuf,
                 sessionVars, deleted, recoverVars>>

(* Deliver: FS.link SpoolDir tmpName userDir ("msg" ++ id) succeeds.      *)
DeliverLinkOk(p) ==
  /\ Running
  /\ dpc[p] = "link"
  /\ mbox[duser[p]][did[p]] = NoFile
  /\ mbox' = [mbox EXCEPT ![duser[p]][did[p]] = spool[tmpName[p]]]
  /\ dpc' = [dpc EXCEPT ![p] = "deltmp"]
  /\ UNCHANGED <<spool, data, locks, duser, dmsg, did, tmpName, wbuf,
                 sessionVars, deleted, recoverVars>>

(* Mutant of DeliverLinkRetry: Continue initID instead of a new id.      *)
DeliverLinkRetrySameId(p) ==
  /\ Running
  /\ dpc[p] = "link"
  /\ mbox[duser[p]][did[p]] # NoFile
  /\ UNCHANGED <<fsVars, locks, dpc, duser, dmsg, did, tmpName, wbuf,
                 sessionVars, deleted, recoverVars>>

(* Deliver: the link target exists, so draw a new random id and retry.   *)
DeliverLinkRetry(p) ==
  /\ Running
  /\ dpc[p] = "link"
  /\ mbox[duser[p]][did[p]] # NoFile
  /\ \E id \in Ids : did' = [did EXCEPT ![p] = id]
  /\ UNCHANGED <<fsVars, locks, dpc, duser, dmsg, tmpName, wbuf, sessionVars,
                 deleted, recoverVars>>

(* Mutant of DeliverDeleteTmp: deletes the spool name of the link loop's *)
(* id instead of tmpName.                                                *)
DeliverDeleteWrongTmp(p) ==
  /\ Running
  /\ dpc[p] = "deltmp"
  /\ spool' = [spool EXCEPT ![did[p]] = NoFile]
  /\ dpc' = [dpc EXCEPT ![p] = "done"]
  /\ UNCHANGED <<mbox, data, locks, duser, dmsg, did, tmpName, wbuf,
                 sessionVars, deleted, recoverVars>>

(* Deliver: FS.delete SpoolDir tmpName, and Deliver returns.              *)
DeliverDeleteTmp(p) ==
  /\ Running
  /\ dpc[p] = "deltmp"
  /\ spool' = [spool EXCEPT ![tmpName[p]] = NoFile]
  /\ dpc' = [dpc EXCEPT ![p] = "done"]
  /\ UNCHANGED <<mbox, data, locks, duser, dmsg, did, tmpName, wbuf,
                 sessionVars, deleted, recoverVars>>

-----------------------------------------------------------------------------
(* A user's session: Pickup, then Delete of picked messages, then Unlock. *)

(* Pickup: Globals.getX, Data.sliceRead ls user, lockAcquire l Writer.    *)
PickupLock(u) ==
  /\ Running
  /\ spc[u] = "idle"
  /\ ~ locks[u]
  /\ locks' = [locks EXCEPT ![u] = TRUE]
  /\ spc' = [spc EXCEPT ![u] = "list"]
  /\ UNCHANGED <<fsVars, deliverVars, names, idx, rfile, pf, messages,
                 asked, deleted, recoverVars>>

(* Pickup: names <- FS.list userDir; messages starts empty; i = 0.        *)
PickupList(u) ==
  /\ Running
  /\ spc[u] = "list"
  /\ names' = [names EXCEPT ![u] = list(mbox[u])]
  /\ messages' = [messages EXCEPT ![u] = <<>>]
  /\ idx' = [idx EXCEPT ![u] = 0]
  /\ spc' = [spc EXCEPT ![u] = "loop"]
  /\ UNCHANGED <<fsVars, locks, deliverVars, rfile, pf, asked, deleted, recoverVars>>

(* Pickup loop: i = slice.length names, so return the messages.          *)
PickupReturn(u) ==
  /\ Running
  /\ spc[u] = "loop"
  /\ idx[u] = Len(names[u])
  /\ spc' = [spc EXCEPT ![u] = "picked"]
  /\ UNCHANGED <<fsVars, locks, deliverVars, names, idx, rfile, pf, messages,
                 asked, deleted, recoverVars>>

(* Pickup loop: name <- names[i]; readMessage opens userDir/name and     *)
(* starts from partialFile{off: 0, data: nil}.                           *)
readMessageOpen(u) ==
  LET name == names[u][idx[u] + 1] IN
  /\ Running
  /\ spc[u] = "loop"
  /\ idx[u] < Len(names[u])
  /\ mbox[u][name] # NoFile
  /\ rfile' = [rfile EXCEPT ![u] = mbox[u][name]]
  /\ pf' = [pf EXCEPT ![u] = [off |-> 0, data |-> <<>>]]
  /\ spc' = [spc EXCEPT ![u] = "read"]
  /\ UNCHANGED <<fsVars, locks, deliverVars, names, idx, messages,
                 asked, deleted, recoverVars>>

(* readMessage: the chunk read is short, so the file is complete; Pickup *)
(* appends Message{Id: name, Contents: msg} and continues with i + 1.    *)
readMessageDone(u) ==
  LET buf     == readAt(data[rfile[u]], pf[u].off, ChunkSize)
      newData == pf[u].data \o buf
  IN
  /\ Running
  /\ spc[u] = "read"
  /\ Len(buf) < ChunkSize
  /\ messages' = [messages EXCEPT ![u] =
        Append(@, [id |-> names[u][idx[u] + 1], contents |-> newData,
                   src |-> rfile[u]])]
  /\ idx' = [idx EXCEPT ![u] = @ + 1]
  /\ spc' = [spc EXCEPT ![u] = "loop"]
  /\ UNCHANGED <<fsVars, locks, deliverVars, names, rfile, pf, asked,
                 deleted, recoverVars>>

(* readMessage: a full chunk was read; the loop continues with           *)
(* partialFile{off: pf.off, data: newData} (the offset is not advanced). *)
readMessageMore(u) ==
  LET buf     == readAt(data[rfile[u]], pf[u].off, ChunkSize)
      newData == pf[u].data \o buf
  IN
  /\ Running
  /\ spc[u] = "read"
  /\ Len(buf) >= ChunkSize
  /\ pf' = [pf EXCEPT ![u] = [off |-> pf[u].off, data |-> newData]]
  /\ UNCHANGED <<fsVars, locks, deliverVars, spc, names, idx, rfile,
                 messages, asked, deleted, recoverVars>>

(* Mutant of Delete: the entry under msgID is recorded as deleted even  *)
(* when the name is already gone.                                         *)
DeleteTwice(u, k) ==
  LET msgID == messages[u][k].id IN
  /\ Running
  /\ mbox' = [mbox EXCEPT ![u][msgID] = NoFile]
  /\ deleted' = deleted \cup {mbox[u][msgID]}
  /\ UNCHANGED <<spool, data, locks, deliverVars, spc, names, idx, rfile, pf,
                 messages, recoverVars>>

(* Delete: FS.delete userDir msgID, by name alone.  Deleting a name that  *)
(* is no longer there leaves the directory as it is.                     *)
Delete(u, k) ==
  LET msgID == messages[u][k].id IN
  /\ Running
  /\ mbox' = [mbox EXCEPT ![u][msgID] = NoFile]
  /\ deleted' = deleted \cup ({mbox[u][msgID]} \ {NoFile})
  /\ UNCHANGED <<spool, data, locks, deliverVars, spc, names, idx, rfile, pf,
                 messages, recoverVars>>

(* The client calls Delete, holding the lock since Pickup returned, with  *)
(* the Id of a message Pickup returned.  With DeleteOnce it never passes  *)
(* the same message twice; without, it may repeat a Delete (a retry).     *)
ClientDelete(u) ==
  /\ spc[u] = "picked"
  /\ \E k \in DOMAIN messages[u] :
       /\ DeleteOnce => messages[u][k] \notin asked
       /\ Delete(u, k)
       /\ asked' = asked \cup {messages[u][k]}

(* Unlock: Globals.getX, Data.sliceRead locks user, lockRelease Writer.  *)
Unlock(u) ==
  /\ Running
  /\ spc[u] = "picked"
  /\ locks' = [locks EXCEPT ![u] = FALSE]
  /\ spc' = [spc EXCEPT ![u] = "idle"]
  /\ UNCHANGED <<fsVars, deliverVars, names, idx, rfile, pf, messages,
                 asked, deleted, recoverVars>>

-----------------------------------------------------------------------------
(* Crash and Recover                                                       *)

(* A crash loses every running call, open file and lock; files survive.  *)
(* A Deliver that had not started yet may still start after recovery.    *)
Crash ==
  /\ crashes < MaxCrashes
  /\ crashes' = crashes + 1
  /\ rpc' = "initLocks"
  /\ dpc' = [p \in Deliverers |->
               IF dpc[p] \in {"start", "done"} THEN dpc[p] ELSE "crashed"]
  /\ spc' = [u \in Users |-> "idle"]
  /\ UNCHANGED <<fsVars, locks, duser, dmsg, did, tmpName, wbuf, names, idx,
                 rfile, pf, messages, asked, deleted, spooled, ridx>>

(* Recover: initLocks builds NumUsers fresh locks and Globals.setX them; *)
(* then spooled <- FS.list SpoolDir and i = 0.                           *)
RecoverInit ==
  /\ rpc = "initLocks"
  /\ locks' = [u \in Users |-> FALSE]
  /\ spooled' = list(spool)
  /\ ridx' = 0
  /\ rpc' = "delete"
  /\ UNCHANGED <<fsVars, deliverVars, sessionVars, deleted, crashes>>

(* Recover loop: FS.delete SpoolDir spooled[i]; continue with i + 1.     *)
RecoverDelete ==
  /\ rpc = "delete"
  /\ ridx < Len(spooled)
  /\ spool' = [spool EXCEPT ![spooled[ridx + 1]] = NoFile]
  /\ ridx' = ridx + 1
  /\ UNCHANGED <<mbox, data, locks, deliverVars, sessionVars, deleted, rpc,
                 spooled, crashes>>

(* Mutant of RecoverDone: the loop stops one file early.                 *)
RecoverDoneEarly ==
  /\ rpc = "delete"
  /\ ridx + 1 >= Len(spooled)
  /\ rpc' = "running"
  /\ UNCHANGED <<fsVars, locks, deliverVars, sessionVars, deleted, spooled,
                 ridx, crashes>>

(* Recover loop: i = slice.length spooled; the server runs again.        *)
RecoverDone ==
  /\ rpc = "delete"
  /\ ridx = Len(spooled)
  /\ rpc' = "running"
  /\ UNCHANGED <<fsVars, locks, deliverVars, sessionVars, deleted, spooled,
                 ridx, crashes>>

-----------------------------------------------------------------------------
(* The server starts with an empty file system by running Recover.       *)
Init ==
  /\ spool = [id \in Ids |-> NoFile]
  /\ mbox = [u \in Users |-> [id \in Ids |-> NoFile]]
  /\ data = [p \in Deliverers |-> <<>>]
  /\ locks = [u \in Users |-> FALSE]
  /\ dpc = [p \in Deliverers |-> "start"]
  /\ duser \in [Deliverers -> Users]
  /\ dmsg \in [Deliverers -> Msgs]
  /\ did = [p \in Deliverers |-> CHOOSE id \in Ids : TRUE]
  /\ tmpName = [p \in Deliverers |-> CHOOSE id \in Ids : TRUE]
  /\ wbuf = [p \in Deliverers |-> <<>>]
  /\ spc = [u \in Users |-> "idle"]
  /\ names = [u \in Users |-> <<>>]
  /\ idx = [u \in Users |-> 0]
  /\ rfile = [u \in Users |-> NoFile]
  /\ pf = [u \in Users |-> [off |-> 0, data |-> <<>>]]
  /\ messages = [u \in Users |-> <<>>]
  /\ asked = {}
  /\ deleted = {}
  /\ rpc = "initLocks"
  /\ spooled = <<>>
  /\ ridx = 0
  /\ crashes = 0

DeliverStep(p) ==
  \/ DeliverStart(p)
  \/ createTmpOk(p)
  \/ createTmpRetry(p)
  \/ writeTmpLast(p)
  \/ writeTmpChunk(p)
  \/ writeTmpClose(p)
  \/ DeliverLinkOk(p)
  \/ DeliverLinkRetry(p)
  \/ DeliverDeleteTmp(p)

SessionStep(u) ==
  \/ PickupLock(u)
  \/ PickupList(u)
  \/ PickupReturn(u)
  \/ readMessageOpen(u)
  \/ readMessageDone(u)
  \/ readMessageMore(u)
  \/ ClientDelete(u)
  \/ Unlock(u)

RecoverStep == RecoverInit \/ RecoverDelete \/ RecoverDone

Next ==
  \/ \E p \in Deliverers : DeliverStep(p)
  \/ \E u \in Users : SessionStep(u)
  \/ RecoverStep
  \/ Crash

Spec == Init /\ [][Next]_vars

(* Each thread is scheduled as long as it can run, and Recover runs to   *)
(* the end.  Data.randomUint64 eventually draws an id whose name is free *)
(* when one is: strong fairness on the successful create and link.       *)
(* Crashes and a user's choice to Pickup, Delete or Unlock are not       *)
(* forced.                                                               *)
Fairness ==
  /\ \A p \in Deliverers : /\ WF_vars(DeliverStep(p))
                           /\ SF_vars(createTmpOk(p))
                           /\ SF_vars(DeliverLinkOk(p))
  /\ \A u \in Users : WF_vars(PickupList(u) \/ PickupReturn(u)
                              \/ readMessageOpen(u) \/ readMessageDone(u)
                              \/ readMessageMore(u))
  /\ WF_vars(RecoverStep)

FairSpec == Spec /\ Fairness

-----------------------------------------------------------------------------
(* Properties                                                              *)

TypeOK ==
  /\ spool \in [Ids -> Entry]
  /\ mbox \in [Users -> [Ids -> Entry]]
  /\ data \in [Deliverers -> Seq(UNION {ToSet(m) : m \in Msgs})]
  /\ locks \in [Users -> BOOLEAN]
  /\ dpc \in [Deliverers -> {"start", "create", "write", "close", "link",
                             "deltmp", "done", "crashed"}]
  /\ duser \in [Deliverers -> Users]
  /\ dmsg \in [Deliverers -> Msgs]
  /\ did \in [Deliverers -> Ids]
  /\ tmpName \in [Deliverers -> Ids]
  /\ spc \in [Users -> {"idle", "list", "loop", "read", "picked"}]
  /\ idx \in [Users -> Nat]
  /\ rfile \in [Users -> Entry]
  /\ deleted \subseteq Inodes
  /\ rpc \in {"initLocks", "delete", "running"}
  /\ crashes \in 0 .. MaxCrashes

(* Durability: once Deliver has returned, the message stays in its       *)
(* recipient's directory until that user Deletes it, through concurrent  *)
(* Delivers that link under the same random names, crashes and Recover.  *)
DeliveredDurable ==
  \A p \in Deliverers :
    dpc[p] = "done" =>
      \/ p \in deleted
      \/ \E id \in Ids : mbox[duser[p]][id] = p

(* No duplicates: a message file is linked under at most one name, and   *)
(* only into the directory of the user it was delivered to, however the  *)
(* link loop of Deliver retries and wherever a crash falls.              *)
DeliveredOnce ==
  \A p \in Inodes :
    \A u, v \in Users, i, j \in Ids :
      mbox[u][i] = p /\ mbox[v][j] = p => u = v /\ i = j /\ u = duser[p]

(* Pickup returns whole messages only: every message it read has the     *)
(* full contents its Deliver wrote and was addressed to this user, even  *)
(* though Deliver appends chunks while Pickup lists and reads.           *)
PickupWholeMessages ==
  \A u \in Users :
    \A k \in DOMAIN messages[u] :
      /\ messages[u][k].contents = dmsg[messages[u][k].src]
      /\ duser[messages[u][k].src] = u

(* Recover leaves no stale temporary file: while the server runs, every  *)
(* file in SpoolDir belongs to a Deliver that is still running and has   *)
(* not deleted it yet.                                                   *)
SpoolOnlyLive ==
  Running =>
    \A id \in Ids :
      spool[id] # NoFile =>
        dpc[spool[id]] \in {"write", "close", "link", "deltmp"}

(* readMessage reads the file in order: the bytes it has gathered are    *)
(* the prefix of the file up to its offset, so a message longer than a   *)
(* chunk is read once and completely.                                    *)
ReadTracksOffset ==
  \A u \in Users :
    spc[u] = "read" =>
      /\ pf[u].off = Len(pf[u].data)
      /\ IsPrefix(pf[u].data, data[rfile[u]])

(* Deliver terminates: a Deliver that has started either returns or is  *)
(* ended by a crash, although its random spool and mailbox names may     *)
(* collide with those of the other Delivers and of messages delivered    *)
(* earlier.                                                              *)
DeliverTerminates ==
  \A p \in Deliverers : dpc[p] = "create" ~> dpc[p] \in {"done", "crashed"}

(* Bound on the bytes readMessage may gather, for runs whose messages    *)
(* are at least a chunk long.                                            *)
ReadBound(max) == \A u \in Users : Len(pf[u].data) <= max

=============================================================================
