------------------------------- MODULE RWLock -------------------------------
(***************************************************************************)
(* The queue reader-writer lock of include/rwlock.h.  The word cnts is the *)
(* pair of a writer byte wr (0, _QW_WAITING or _QW_LOCKED) and a reader    *)
(* count rd in units of _QR_BIAS.  Slow paths wait their turn on the       *)
(* spinlock slock, taken here by what it promises (FifoLock, implemented   *)
(* by TicketSpinlock).  The threads read- or write-lock and unlock in turn *)
(* for ever.                                                               *)
(*                                                                         *)
(* A read of cnts followed by a compare-and-swap of the value read is one  *)
(* step: when the two disagree the code goes where the failed test goes.   *)
(* An operator named Faulty... is a variant of the next definition with a  *)
(* defect that some property must detect.                                  *)
(***************************************************************************)
EXTENDS Naturals, FiniteSets, Sequences, SequencesExt

CONSTANT Threads

ASSUME ThreadsFinite == IsFiniteSet(Threads)

VARIABLES wr,           \* writer byte of cnts
          rd,           \* reader count of cnts
          queue,        \* slock: the threads in the wait queue
          granted,      \* slock: its head has been let in
          pc

vars == <<wr, rd, queue, granted, pc>>

Slock == INSTANCE FifoLock

(* Program points.  "r_*" are in __read_lock, "w_*" in __write_lock.       *)
ReaderPoints == {"r_back", "r_ask", "r_queue", "r_spin", "r_add", "r_until",
                 "r_leave", "reading"}
WriterPoints == {"w_ask", "w_queue", "w_try", "w_flag", "w_drain", "w_leave",
                 "writing"}

(* Where a thread has added its _QR_BIAS, may read, may write.             *)
Biased  == {t \in Threads : pc[t] \in {"r_back", "r_until", "r_leave", "reading"}}
Readers == {t \in Threads : pc[t] \in {"r_leave", "reading"}}
Writers == {t \in Threads : pc[t] \in {"w_leave", "writing"}}

(* Where a thread owns slock.                                              *)
Heads == {t \in Threads : pc[t] \in {"r_spin", "r_add", "r_until", "r_leave",
                                     "w_try", "w_flag", "w_drain", "w_leave"}}

TypeOK == /\ wr \in {"free", "waiting", "locked"}
          /\ rd \in Nat
          /\ queue \in Seq(Threads)
          /\ granted \in BOOLEAN
          /\ pc \in [Threads -> {"idle"} \cup ReaderPoints \cup WriterPoints]

Init == /\ wr = "free"
        /\ rd = 0
        /\ Slock!Init
        /\ pc = [t \in Threads |-> "idle"]

Goto(t, from, to) == pc[t] = from /\ pc' = [pc EXCEPT ![t] = to]
cnts == <<wr, rd>>
slock == <<queue, granted>>

-----------------------------------------------------------------------------
(* spin_lock(&lock->slock) and spin_unlock(&lock->slock).                  *)
JoinQueue(t, ask, wait, in) ==
    /\ Goto(t, ask, IF queue = <<>> THEN in ELSE wait)
    /\ Slock!Request(t)
    /\ UNCHANGED cnts

HeadOfQueue(t, wait, in) ==
    /\ Goto(t, wait, in)
    /\ Slock!Acquire(t)
    /\ UNCHANGED cnts

LeaveQueue(t, from, to) ==
    /\ Goto(t, from, to)
    /\ Slock!Release(t)
    /\ UNCHANGED cnts

-----------------------------------------------------------------------------
(* Ignores a waiting writer.                                               *)
FaultyReadLock(t) ==
    /\ Goto(t, "idle", IF wr # "locked" THEN "reading" ELSE "r_back")
    /\ rd' = rd + 1
    /\ UNCHANGED <<wr, slock>>

(* __read_lock: add the bias; a writer byte sends the thread to the slow   *)
(* path with its bias still counted.                                       *)
ReadLock(t) ==
    /\ Goto(t, "idle", IF wr = "free" THEN "reading" ELSE "r_back")
    /\ rd' = rd + 1
    /\ UNCHANGED <<wr, slock>>

(* Queues with the bias still counted.                                     *)
FaultyReadBackOff(t) == Goto(t, "r_back", "r_ask") /\ UNCHANGED <<cnts, slock>>

(* The slow path takes the bias back before it queues.                     *)
ReadBackOff(t) ==
    /\ Goto(t, "r_back", "r_ask")
    /\ rd' = rd - 1
    /\ UNCHANGED <<wr, slock>>

ReadQueue(t) ==
    \/ JoinQueue(t, "r_ask", "r_queue", "r_spin")
    \/ HeadOfQueue(t, "r_queue", "r_spin")

(* At the head: wait for a zero writer byte.                               *)
ReadSpin(t) ==
    /\ Goto(t, "r_spin", "r_add")
    /\ wr = "free"
    /\ UNCHANGED <<cnts, slock>>

(* A fast-path writer may have locked since; with the bias counted, the    *)
(* reader then only waits for that writer (rspin_until_writer_unlock).     *)
ReadAdd(t) ==
    /\ Goto(t, "r_add", IF wr = "locked" THEN "r_until" ELSE "r_leave")
    /\ rd' = rd + 1
    /\ UNCHANGED <<wr, slock>>

ReadUntil(t) ==
    /\ Goto(t, "r_until", "r_leave")
    /\ wr # "locked"
    /\ UNCHANGED <<cnts, slock>>

ReadLeave(t) == LeaveQueue(t, "r_leave", "reading")

ReadUnlock(t) ==
    /\ Goto(t, "reading", "idle")
    /\ rd' = rd - 1
    /\ UNCHANGED <<wr, slock>>

-----------------------------------------------------------------------------
(* __write_lock: 0 -> _QW_LOCKED or the slow path.                         *)
WriteLock(t) ==
    /\ IF wr = "free" /\ rd = 0
          THEN Goto(t, "idle", "writing") /\ wr' = "locked"
          ELSE Goto(t, "idle", "w_ask") /\ UNCHANGED wr
    /\ UNCHANGED <<rd, slock>>

WriteQueue(t) ==
    \/ JoinQueue(t, "w_ask", "w_queue", "w_try")
    \/ HeadOfQueue(t, "w_queue", "w_try")

(* Leaves the queue before it has the lock.                                *)
FaultyWriteTry(t) ==
    IF wr = "free" /\ rd = 0
      THEN Goto(t, "w_try", "w_leave") /\ wr' = "locked" /\ UNCHANGED <<rd, slock>>
      ELSE LeaveQueue(t, "w_try", "w_flag")

(* At the head: one more attempt at the whole word.                        *)
WriteTry(t) ==
    /\ IF wr = "free" /\ rd = 0
          THEN Goto(t, "w_try", "w_leave") /\ wr' = "locked"
          ELSE Goto(t, "w_try", "w_flag") /\ UNCHANGED wr
    /\ UNCHANGED <<rd, slock>>

(* First loop: raise _QW_WAITING when no writer byte is set.               *)
WriteFlag(t) ==
    /\ Goto(t, "w_flag", "w_drain")
    /\ wr = "free"
    /\ wr' = "waiting"
    /\ UNCHANGED <<rd, slock>>

(* Does not wait for the readers.                                          *)
FaultyWriteDrain(t) ==
    /\ Goto(t, "w_drain", "w_leave")
    /\ wr = "waiting"
    /\ wr' = "locked"
    /\ UNCHANGED <<rd, slock>>

(* Second loop: _QW_WAITING -> _QW_LOCKED once no bias is counted.         *)
WriteDrain(t) ==
    /\ Goto(t, "w_drain", "w_leave")
    /\ wr = "waiting" /\ rd = 0
    /\ wr' = "locked"
    /\ UNCHANGED <<rd, slock>>

WriteLeave(t) == LeaveQueue(t, "w_leave", "writing")

WriteUnlock(t) ==
    /\ Goto(t, "writing", "idle")
    /\ wr' = "free"
    /\ UNCHANGED <<rd, slock>>

-----------------------------------------------------------------------------
(* The rest of an operation once it has started, and an unlock.            *)
Continue(t) ==
    \/ ReadBackOff(t) \/ ReadQueue(t) \/ ReadSpin(t) \/ ReadAdd(t)
    \/ ReadUntil(t) \/ ReadLeave(t) \/ ReadUnlock(t)
    \/ WriteQueue(t) \/ WriteTry(t) \/ WriteDrain(t)
    \/ WriteLeave(t) \/ WriteUnlock(t)

Next == \E t \in Threads :
            ReadLock(t) \/ WriteLock(t) \/ WriteFlag(t) \/ Continue(t)

(* Threads keep running, so a step that stays enabled is taken.  WriteFlag *)
(* has no fairness: its compare-and-swap fails whenever a reader came or   *)
(* went since the read, so readers may keep a writer that has not raised   *)
(* its flag out for ever.                                                  *)
Fairness == \A t \in Threads : WF_vars(Continue(t))

Spec == Init /\ [][Next]_vars /\ Fairness
-----------------------------------------------------------------------------
(* A writer excludes readers and other writers, through both fast paths,   *)
(* both slow paths and the back-off of a reader (rwlock.h:75-168).         *)
Exclusion ==
    \A w \in Writers : Readers = {} /\ Writers = {w}

(* The threads inside the slow path's critical section own slock: only the *)
(* owner raises and clears the waiting flag (rwlock.h:119-155).            *)
SlockOwned == \A t \in Heads : Slock!Holds(t)

(* The inductive invariant: the reader count is the number of biases not   *)
(* taken back, the writer byte is _QW_LOCKED exactly while a thread may    *)
(* write, and it is _QW_WAITING only while the owner of slock drains the   *)
(* readers.                                                                *)
CountExact == rd = Cardinality(Biased)
ByteExact  == /\ wr = "locked" <=> Writers # {}
              /\ \A t, u \in Writers : t = u
FlagOwned  == wr = "waiting" => \E t \in Threads : pc[t] = "w_drain"
Counted    == TypeOK /\ CountExact /\ ByteExact /\ Exclusion
IInv       == Counted /\ SlockOwned /\ FlagOwned

(* Once a writer has raised _QW_WAITING no reader enters before it does:   *)
(* the flag turns the fast path off, and slock keeps the slow path out.    *)
WriterPreference ==
    [][wr = "waiting" /\ wr' = "waiting" => Readers' \subseteq Readers]_vars

(* A writer that has raised its flag gets the lock although threads keep   *)
(* calling read_lock and write_lock, and so does a reader that has counted *)
(* itself in while a writer wrote.                                         *)
AdmittedProceeds ==
    \A t \in Threads : /\ (pc[t] = "w_drain") ~> (pc[t] = "writing")
                       /\ (pc[t] = "r_until") ~> (pc[t] = "reading")
=============================================================================
