----------------------------- MODULE GooseLock -----------------------------
(* goose's lock as the translated programs use it: Data.newLock makes a    *)
(* free lock, Data.lockAcquire l m blocks until l can be granted in mode   *)
(* m, Data.lockRelease l m gives it back.  A lock is a reader count and a  *)
(* writer flag.  A reader waits while a writer holds the lock and a writer *)
(* while anyone holds it; nothing makes a reader wait for a writer that is *)
(* only waiting.                                                           *)
EXTENDS Naturals

LockState == [readers : Nat, writer : BOOLEAN]

(* Data.newLock                                                            *)
FreeLock == [readers |-> 0, writer |-> FALSE]

(* Mutant of CanAcquire: a writer waits only for another writer.         *)
CanAcquireWriterIgnoresReaders(l, m) == ~ l.writer

(* Data.lockAcquire l m can return.                                       *)
CanAcquire(l, m) == ~ l.writer /\ (m = "Writer" => l.readers = 0)

lockAcquire(l, m) ==
  IF m = "Reader" THEN [l EXCEPT !.readers = @ + 1] ELSE [l EXCEPT !.writer = TRUE]

(* Mutant of lockRelease: the mode is ignored, a reader is given back.   *)
lockReleaseAlwaysReader(l, m) == [l EXCEPT !.readers = @ - 1]

lockRelease(l, m) ==
  IF m = "Reader" THEN [l EXCEPT !.readers = @ - 1] ELSE [l EXCEPT !.writer = FALSE]

=============================================================================
