---------------------------- MODULE GooseLocking ----------------------------
(* The locking examples among goose's example programs (part_001 52-62).  *)
(* DoSomeLocking l takes l as the writer and gives it back, then takes it  *)
(* as a reader twice and gives both back.  MakeLock makes a new lock and   *)
(* calls DoSomeLocking on it.  DoSomeLocking is exported and takes its     *)
(* lock as an argument, so its callers may run it at the same time on a    *)
(* lock they share.  Each caller here makes one call: DoSomeLocking on the *)
(* Shared lock, or MakeLock.  Every lock call is one step.                 *)
EXTENDS Naturals, Sequences, GooseLock

CONSTANTS
  Callers,  \* threads that each make one call
  Shared    \* the lock the DoSomeLocking callers pass

ASSUME Shared \notin Callers

VARIABLES
  locks,    \* every lock: Shared, and for each caller the one its MakeLock makes
  pc,       \* "idle", "running" or "done"
  step,     \* the index of the caller's next lock call in DoSomeLocking
  lockOf,   \* the l its DoSomeLocking runs on
  holds     \* how the caller holds that lock, as a LockState (history)

vars == <<locks, pc, step, lockOf, holds>>

(* Caller c's MakeLock names its new lock c.                              *)
Locks == {Shared} \cup Callers

(* The body of DoSomeLocking: its lock calls, in order.                   *)
DoSomeLocking ==
  << <<"acquire", "Writer">>, <<"release", "Writer">>,
     <<"acquire", "Reader">>, <<"acquire", "Reader">>,
     <<"release", "Reader">>, <<"release", "Reader">> >>

Op(c) == DoSomeLocking[step[c]]

(* The caller's lock call is done: on to the next, or return.            *)
Advance(c) ==
  /\ step' = [step EXCEPT ![c] = @ + 1]
  /\ pc' = [pc EXCEPT ![c] = IF step[c] = Len(DoSomeLocking) THEN "done" ELSE @]

(* A lock no MakeLock has made yet is never used: it is shown free.      *)
Init ==
  /\ locks = [l \in Locks |-> FreeLock]
  /\ pc = [c \in Callers |-> "idle"]
  /\ step = [c \in Callers |-> 1]
  /\ lockOf = [c \in Callers |-> Shared]
  /\ holds = [c \in Callers |-> FreeLock]

(* A caller calls DoSomeLocking on the lock it shares with the others.   *)
CallDoSomeLocking(c) ==
  /\ pc[c] = "idle"
  /\ pc' = [pc EXCEPT ![c] = "running"]
  /\ UNCHANGED <<locks, step, lockOf, holds>>

(* MakeLock: l <- Data.newLock; DoSomeLocking l.                          *)
MakeLock(c) ==
  /\ pc[c] = "idle"
  /\ locks' = [locks EXCEPT ![c] = FreeLock]
  /\ lockOf' = [lockOf EXCEPT ![c] = c]
  /\ pc' = [pc EXCEPT ![c] = "running"]
  /\ UNCHANGED <<step, holds>>

(* DoSomeLocking: Data.lockAcquire l m, once the lock can be granted.    *)
Acquire(c) ==
  LET l == lockOf[c]
      m == Op(c)[2]
  IN
  /\ pc[c] = "running"
  /\ Op(c)[1] = "acquire"
  /\ CanAcquire(locks[l], m)
  /\ locks' = [locks EXCEPT ![l] = lockAcquire(@, m)]
  /\ holds' = [holds EXCEPT ![c] = lockAcquire(@, m)]
  /\ Advance(c)
  /\ UNCHANGED lockOf

(* DoSomeLocking: Data.lockRelease l m; the last one returns.            *)
Release(c) ==
  LET l == lockOf[c]
      m == Op(c)[2]
  IN
  /\ pc[c] = "running"
  /\ Op(c)[1] = "release"
  /\ locks' = [locks EXCEPT ![l] = lockRelease(@, m)]
  /\ holds' = [holds EXCEPT ![c] = lockRelease(@, m)]
  /\ Advance(c)
  /\ UNCHANGED lockOf

Next ==
  \E c \in Callers :
    \/ CallDoSomeLocking(c)
    \/ MakeLock(c)
    \/ Acquire(c)
    \/ Release(c)

Spec == Init /\ [][Next]_vars

-----------------------------------------------------------------------------
(* Properties                                                              *)

TypeOK ==
  /\ locks \in [Locks -> LockState]
  /\ pc \in [Callers -> {"idle", "running", "done"}]
  /\ step \in [Callers -> 1 .. Len(DoSomeLocking) + 1]
  /\ lockOf \in [Callers -> Locks]
  /\ holds \in [Callers -> LockState]

(* A caller holding its lock as the writer is its only holder, and a      *)
(* lock's reader count is the number of reader holds its callers have:    *)
(* the writer section of DoSomeLocking (lines 53-54) never overlaps the   *)
(* reader section (55-58) of a caller sharing the lock.                   *)
WriterExcludesOthers ==
  \A c \in Callers :
    /\ holds[c].writer =>
         \A d \in Callers \ {c} : lockOf[d] = lockOf[c] => holds[d] = FreeLock
    /\ locks[lockOf[c]].writer =
         \E d \in Callers : lockOf[d] = lockOf[c] /\ holds[d].writer

=============================================================================
