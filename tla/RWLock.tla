------------------------------- MODULE RWLock -------------------------------
(***************************************************************************)
(* Class RWLock of src/src/lib/handler/webget.cpp, the spin lock that      *)
(* guards the files of cache/.  One action per atomic access of the class, *)
(* so that the interleavings are those of the compiled code; WRITE_FIRST   *)
(* is TRUE, as in the only object of the class (cache_rw_lock).            *)
(*                                                                         *)
(* m_write_thread_id is not atomic, and other threads read it while its    *)
(* owner writes it.  The code only ever asks whether it equals the         *)
(* caller's own id, and only the caller stores that value, so every value  *)
(* the race can deliver gives the same answer as an atomic read.           *)
(*                                                                         *)
(* Readers and Writers are the threads that call readLock() and            *)
(* writeLock(); the two sets may overlap, a thread of the server does      *)
(* both.  No caller nests its calls (webGet and flushCache release in the  *)
(* block that acquires).                                                   *)
(***************************************************************************)
EXTENDS Integers, FiniteSets

CONSTANTS
  Readers,
  Writers,
  NullThread,         \* NULL_THREAD, the id of no thread
  SpuriousFailures    \* can compare_exchange_weak fail on an unmoved counter?
                      \* (it can on ARM, it cannot on x86-64)

Threads == Readers \cup Writers

ASSUME RWLockAssumption ==
  /\ IsFiniteSet(Threads)
  /\ NullThread \notin Threads
  /\ SpuriousFailures \in BOOLEAN

WRITE_LOCK_STATUS == -1
FREE_STATUS == 0

VARIABLES
  lockCount,          \* m_lockCount: readers inside, or WRITE_LOCK_STATUS
  writeWaitCount,     \* m_writeWaitCount
  writeThread,        \* m_write_thread_id
  pc,                 \* where each thread is
  count               \* the local "count" of readLock()

vars == <<lockCount, writeWaitCount, writeThread, pc, count>>

ReadEntry == {"loadCount", "loadWait", "readCas"}
Exclusive == {"granted", "setId", "writing", "release"}
PC == {"idle", "reading", "writeCas", "thrown"} \cup ReadEntry \cup Exclusive

Init ==
  /\ lockCount = FREE_STATUS
  /\ writeWaitCount = 0
  /\ writeThread = NullThread
  /\ pc = [t \in Threads |-> "idle"]
  /\ count = [t \in Threads |-> 0]

Goto(t, from, to) ==
  /\ pc[t] = from
  /\ pc' = [pc EXCEPT ![t] = to]

-----------------------------------------------------------------------------
(***************************************************************************)
(* readLock(): the inner loop loads the two counters until no writer holds *)
(* or awaits the lock; the outer one retries the compare-and-swap.         *)
(***************************************************************************)
ReadLock(t) ==
  /\ Goto(t, "idle", IF writeThread = t THEN "reading" ELSE "loadCount")
  /\ UNCHANGED <<lockCount, writeWaitCount, writeThread, count>>

LoadCount(t) ==
  /\ Goto(t, "loadCount",
          IF lockCount = WRITE_LOCK_STATUS THEN "loadCount" ELSE "loadWait")
  /\ count' = [count EXCEPT ![t] = lockCount]
  /\ UNCHANGED <<lockCount, writeWaitCount, writeThread>>

\* Mutant: WRITE_FIRST false, announced writers are not looked at.
LoadWaitReadersFirst(t) ==
  /\ Goto(t, "loadWait", "readCas")
  /\ UNCHANGED <<lockCount, writeWaitCount, writeThread, count>>

LoadWait(t) ==
  /\ Goto(t, "loadWait", IF writeWaitCount > 0 THEN "loadCount" ELSE "readCas")
  /\ UNCHANGED <<lockCount, writeWaitCount, writeThread, count>>

\* Mutant: a plain store where the code compares and swaps.
ReadCasPlainStore(t) ==
  /\ Goto(t, "readCas", "reading")
  /\ lockCount' = count[t] + 1
  /\ UNCHANGED <<writeWaitCount, writeThread, count>>

ReadCas(t) ==
  /\ lockCount = count[t]
  /\ Goto(t, "readCas", "reading")
  /\ lockCount' = count[t] + 1
  /\ UNCHANGED <<writeWaitCount, writeThread, count>>

\* A failed swap stores what it found in "count", which LoadCount overwrites.
ReadCasFails(t) ==
  /\ lockCount # count[t] \/ SpuriousFailures
  /\ Goto(t, "readCas", "loadCount")
  /\ count' = [count EXCEPT ![t] = lockCount]
  /\ UNCHANGED <<lockCount, writeWaitCount, writeThread>>

ReadUnlock(t) ==
  /\ Goto(t, "reading", "idle")
  /\ lockCount' = IF writeThread = t THEN lockCount ELSE lockCount - 1
  /\ UNCHANGED <<writeWaitCount, writeThread, count>>

-----------------------------------------------------------------------------
(***************************************************************************)
(* writeLock(): announce, swap FREE for WRITE, withdraw the announcement,  *)
(* then record the owner.  A failed swap changes nothing.                  *)
(***************************************************************************)
WriteLock(t) ==
  /\ Goto(t, "idle", IF writeThread = t THEN "writing" ELSE "writeCas")
  /\ writeWaitCount' = IF writeThread = t THEN writeWaitCount
                                          ELSE writeWaitCount + 1
  /\ UNCHANGED <<lockCount, writeThread, count>>

\* Mutant: the writer takes the lock from the readers inside.
WriteCasExchange(t) ==
  /\ lockCount # WRITE_LOCK_STATUS
  /\ Goto(t, "writeCas", "granted")
  /\ lockCount' = WRITE_LOCK_STATUS
  /\ UNCHANGED <<writeWaitCount, writeThread, count>>

WriteCas(t) ==
  /\ lockCount = FREE_STATUS
  /\ Goto(t, "writeCas", "granted")
  /\ lockCount' = WRITE_LOCK_STATUS
  /\ UNCHANGED <<writeWaitCount, writeThread, count>>

\* Mutant: the announcement is never withdrawn.
StopWaitingForgotten(t) ==
  /\ Goto(t, "granted", "setId")
  /\ UNCHANGED <<lockCount, writeWaitCount, writeThread, count>>

StopWaiting(t) ==
  /\ Goto(t, "granted", "setId")
  /\ writeWaitCount' = writeWaitCount - 1
  /\ UNCHANGED <<lockCount, writeThread, count>>

SetWriteThread(t) ==
  /\ Goto(t, "setId", "writing")
  /\ writeThread' = t
  /\ UNCHANGED <<lockCount, writeWaitCount, count>>

\* writeUnlock() throws on a mismatch; its callers run it from a destructor
\* (defer.h), where an exception ends the process.
WriteUnlock(t) ==
  LET mismatch == writeThread # t \/ lockCount # WRITE_LOCK_STATUS
  IN /\ Goto(t, "writing", IF mismatch THEN "thrown" ELSE "release")
     /\ writeThread' = IF mismatch THEN writeThread ELSE NullThread
     /\ UNCHANGED <<lockCount, writeWaitCount, count>>

StoreFree(t) ==
  /\ Goto(t, "release", "idle")
  /\ lockCount' = FREE_STATUS
  /\ UNCHANGED <<writeWaitCount, writeThread, count>>

-----------------------------------------------------------------------------
ReaderStep(t) ==
  \/ LoadCount(t) \/ LoadWait(t) \/ ReadCas(t) \/ ReadCasFails(t)
  \/ ReadUnlock(t)

WriterStep(t) ==
  \/ WriteCas(t) \/ StopWaiting(t) \/ SetWriteThread(t)
  \/ WriteUnlock(t) \/ StoreFree(t)

Next ==
  \/ \E t \in Readers : ReadLock(t) \/ ReaderStep(t)
  \/ \E t \in Writers : WriteLock(t) \/ WriterStep(t)

Spec == Init /\ [][Next]_vars

(***************************************************************************)
(* A thread that has called the lock keeps running: the operating system   *)
(* schedules it, and what it does inside (reading or writing a file) ends. *)
(* Nobody is obliged to call readLock() or writeLock().                    *)
(***************************************************************************)
Fairness ==
  /\ \A t \in Readers : WF_vars(ReaderStep(t))
  /\ \A t \in Writers : WF_vars(WriterStep(t))

-----------------------------------------------------------------------------
ReadersInside == {t \in Threads : pc[t] = "reading"}
WritersInside == {t \in Threads : pc[t] \in Exclusive}

TypeOK ==
  /\ lockCount \in Nat \cup {WRITE_LOCK_STATUS}
  /\ writeWaitCount \in Nat
  /\ writeThread \in Threads \cup {NullThread}
  /\ pc \in [Threads -> PC]
  /\ count \in [Threads -> Nat \cup {WRITE_LOCK_STATUS}]

\* Nobody reads or writes a cache file while another thread writes one: the
\* purpose of cache_rw_lock in webGet and flushCache.
MutualExclusion ==
  \A t \in WritersInside :
    /\ ReadersInside = {}
    /\ WritersInside = {t}

\* m_lockCount is exactly the number of readers inside, or the writer mark:
\* a count that drifts would shut writers out for ever or let one in early.
CountIsExact ==
  lockCount = IF WritersInside # {} THEN WRITE_LOCK_STATUS
                                    ELSE Cardinality(ReadersInside)

\* m_writeWaitCount is the number of announced writers: were it left above
\* zero, no reader would ever get in again.
WaitCountIsExact ==
  writeWaitCount = Cardinality({t \in Threads : pc[t] \in {"writeCas", "granted"}})

\* m_write_thread_id names a thread only while that thread is inside, so a
\* later readLock() of the same thread cannot slip past the lock.
OwnerIsInside ==
  \A t \in Threads : writeThread = t <=> pc[t] = "writing"

\* writeUnlock() never throws, so no destructor of defer.h ends the process.
NeverThrows == \A t \in Threads : pc[t] # "thrown"

\* What the lock keeps about its threads is exact at every step of every
\* thread: the two counters, the owner, and so the check of writeUnlock().
BooksAreExact == CountIsExact /\ WaitCountIsExact /\ OwnerIsInside /\ NeverThrows

-----------------------------------------------------------------------------
\* The lock behaves as a shared/exclusive lock whose readers and writer are
\* the threads inside; the exclusive section starts with the successful swap
\* of writeLock() and ends with the store of writeUnlock().
SE == INSTANCE SharedExclusive WITH readers <- ReadersInside,
                                    writers <- WritersInside

ImplementsSharedExclusive == SE!Spec

\* WRITE_FIRST keeps readers from starving writers: when a writer has announced
\* itself, some writer gets the lock, however many readers keep coming.
WritersGetIn ==
  (\E t \in Writers : pc[t] = "writeCas") ~> (\E t \in Writers : pc[t] = "writing")

\* Neither spin loop can spin for ever with nobody inside: whenever a thread
\* is in readLock() or writeLock(), some thread gets in.
SomeoneGetsIn ==
  (\E t \in Threads : pc[t] \in ReadEntry \cup {"writeCas"})
    ~> (\E t \in Threads : pc[t] \in {"reading", "writing"})

\* Neither kind of call is kept out for ever by those that come and go.
Progress == WritersGetIn /\ SomeoneGetsIn
=============================================================================
