--------------------------- MODULE MailserverFiles ---------------------------
(* The mail server with the file descriptors it holds.  FS.create and      *)
(* FS.open return a descriptor, FS.close releases it, and a crash releases *)
(* all of them (goose's FS model loses open files on a crash).  Every      *)
(* action of Mailserver is taken as it is; the ones that call FS.create,   *)
(* FS.open or FS.close also change fds, and every other leaves it alone.   *)
EXTENDS Mailserver

VARIABLE
  fds    \* open descriptors: the caller holding one, and the inode it reads or writes

filesVars == <<vars, fds>>

Handle(owner, inode) == [by |-> owner, file |-> inode]

FilesInit == Init /\ fds = {}

(* createTmp: f <- FS.create SpoolDir fname returns an open descriptor.   *)
createTmpOpen(p) ==
  /\ createTmpOk(p)
  /\ fds' = fds \cup {Handle(p, p)}

(* writeTmp: FS.close f once the whole buffer is appended.               *)
writeTmpRelease(p) ==
  /\ writeTmpClose(p)
  /\ fds' = fds \ {Handle(p, p)}

(* readMessage: f <- FS.open userDir name.  Nothing in readMessage or in  *)
(* Pickup closes f.                                                       *)
readMessageOpenFile(u) ==
  /\ readMessageOpen(u)
  /\ fds' = fds \cup {Handle(u, rfile'[u])}

(* A crash loses every open descriptor.                                  *)
CrashFiles ==
  /\ Crash
  /\ fds' = {}

(* The steps that open or close nothing.                                 *)
KeepFiles ==
  /\ \/ \E p \in Deliverers : \/ DeliverStart(p)
                               \/ createTmpRetry(p)
                               \/ writeTmpLast(p)
                               \/ writeTmpChunk(p)
                               \/ DeliverLinkOk(p)
                               \/ DeliverLinkRetry(p)
                               \/ DeliverDeleteTmp(p)
     \/ \E u \in Users : \/ PickupLock(u)
                         \/ PickupList(u)
                         \/ PickupReturn(u)
                         \/ readMessageDone(u)
                         \/ readMessageMore(u)
                         \/ ClientDelete(u)
                         \/ Unlock(u)
     \/ RecoverStep
  /\ UNCHANGED fds

FilesNext ==
  \/ \E p \in Deliverers : createTmpOpen(p) \/ writeTmpRelease(p)
  \/ \E u \in Users : readMessageOpenFile(u)
  \/ CrashFiles
  \/ KeepFiles

FilesSpec == FilesInit /\ [][FilesNext]_filesVars

-----------------------------------------------------------------------------
(* Every open descriptor belongs to a call that is still running and will *)
(* close it: a Deliver between FS.create and writeTmp's FS.close, or a     *)
(* readMessage between FS.open and its return.  readMessage returns the    *)
(* file's contents without FS.close, so each message Pickup reads leaves a *)
(* descriptor open until the next crash; a server that never crashes runs  *)
(* out of descriptors.                                                    *)
DescriptorsHeldByRunningCalls ==
  \A h \in fds :
    \/ h.by \in Deliverers /\ dpc[h.by] \in {"write", "close"}
    \/ h.by \in Users /\ spc[h.by] = "read" /\ rfile[h.by] = h.file

=============================================================================
