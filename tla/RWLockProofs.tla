---------------------------- MODULE RWLockProofs ----------------------------
(***************************************************************************)
(* Proofs about RWLock for any finite set of threads: the inductive        *)
(* invariant of the lock, mutual exclusion, the refinement of              *)
(* SharedExclusive, and that readers do not overtake a writer.             *)
(***************************************************************************)
EXTENDS MCRWLock, FiniteSetTheorems, TLAPS

Announced == {t \in Threads : pc[t] \in {"writeCas", "granted"}}

\* What a reader brought from its inner loop is never the writer mark, so its
\* swap cannot turn WRITE_LOCK_STATUS into FREE_STATUS.
LoadedIsNat == \A t \in Threads : pc[t] \in {"loadWait", "readCas"} => count[t] \in Nat

IInv ==
  /\ TypeOK
  /\ MutualExclusion
  /\ CountIsExact
  /\ WaitCountIsExact
  /\ OwnerIsInside
  /\ NeverThrows
  /\ LoadedIsNat

-----------------------------------------------------------------------------
\* The sets that the counters count are finite, and their cardinalities are
\* natural numbers.
LEMMA InsideFinite ==
  /\ IsFiniteSet(ReadersInside) /\ Cardinality(ReadersInside) \in Nat
  /\ IsFiniteSet(Announced) /\ Cardinality(Announced) \in Nat
<1>1. ReadersInside \subseteq Threads /\ Announced \subseteq Threads
  BY DEF ReadersInside, Announced
<1>2. IsFiniteSet(ReadersInside) /\ IsFiniteSet(Announced)
  BY <1>1, FS_Subset, RWLockAssumption
<1> QED
  BY <1>2, FS_CardinalityType

\* They still are after any step.
LEMMA InsideFiniteNext ==
  Cardinality(ReadersInside)' \in Nat /\ Cardinality(Announced)' \in Nat
<1>1. ReadersInside' \subseteq Threads /\ Announced' \subseteq Threads
  BY DEF ReadersInside, Announced
<1>2. IsFiniteSet(ReadersInside') /\ IsFiniteSet(Announced')
  BY <1>1, FS_Subset, RWLockAssumption
<1> QED
  BY <1>2, FS_CardinalityType

\* The initial state satisfies the invariant.
LEMMA InitIInv == Init => IInv
<1> SUFFICES ASSUME Init PROVE IInv
  OBVIOUS
<1> USE DEF Init
<1>1. TypeOK
  BY DEF TypeOK, PC, WRITE_LOCK_STATUS, FREE_STATUS
<1>2. ReadersInside = {} /\ WritersInside = {} /\ Announced = {}
  BY DEF ReadersInside, WritersInside, Announced, Exclusive
<1>3. Cardinality({}) = 0
  BY FS_EmptySet
<1>4. CountIsExact /\ WaitCountIsExact /\ MutualExclusion
  BY <1>2, <1>3 DEF CountIsExact, WaitCountIsExact, MutualExclusion, Announced, FREE_STATUS
<1>5. OwnerIsInside
  BY RWLockAssumption DEF OwnerIsInside
<1>6. NeverThrows /\ LoadedIsNat
  BY DEF NeverThrows, LoadedIsNat
<1> QED
  BY <1>1, <1>4, <1>5, <1>6 DEF IInv

-----------------------------------------------------------------------------
\* A thread that moves from one place to another enters or leaves the counted
\* sets by where it arrives; the other threads stay where they were.
LEMMA GotoMoves ==
  ASSUME pc \in [Threads -> PC], NEW t \in Threads, NEW from, NEW to, Goto(t, from, to)
  PROVE  /\ pc[t] = from /\ pc'[t] = to
         /\ \A u \in Threads : u # t => pc'[u] = pc[u]
         /\ ReadersInside' = IF to = "reading" THEN ReadersInside \cup {t}
                                               ELSE ReadersInside \ {t}
         /\ WritersInside' = IF to \in Exclusive THEN WritersInside \cup {t}
                                                 ELSE WritersInside \ {t}
         /\ Announced' = IF to \in {"writeCas", "granted"} THEN Announced \cup {t}
                                                          ELSE Announced \ {t}
<1>1. pc[t] = from /\ pc'[t] = to /\ \A u \in Threads : u # t => pc'[u] = pc[u]
  BY DEF Goto
<1>2. ReadersInside' = IF to = "reading" THEN ReadersInside \cup {t}
                                        ELSE ReadersInside \ {t}
  BY <1>1 DEF ReadersInside
<1>3. WritersInside' = IF to \in Exclusive THEN WritersInside \cup {t}
                                          ELSE WritersInside \ {t}
  BY <1>1 DEF WritersInside
<1>4. Announced' = IF to \in {"writeCas", "granted"} THEN Announced \cup {t}
                                                    ELSE Announced \ {t}
  BY <1>1 DEF Announced
<1> QED
  BY <1>1, <1>2, <1>3, <1>4

\* The two cardinalities after such a move.
LEMMA GotoCounts ==
  ASSUME pc \in [Threads -> PC], NEW t \in Threads, NEW from, NEW to, Goto(t, from, to)
  PROVE  /\ Cardinality(ReadersInside') =
              Cardinality(ReadersInside)
                + (IF to = "reading" THEN 1 ELSE 0) - (IF from = "reading" THEN 1 ELSE 0)
         /\ Cardinality(Announced') =
              Cardinality(Announced)
                + (IF to \in {"writeCas", "granted"} THEN 1 ELSE 0)
                - (IF from \in {"writeCas", "granted"} THEN 1 ELSE 0)
<1>1. t \in ReadersInside <=> from = "reading"
  BY GotoMoves DEF ReadersInside
<1>2. t \in Announced <=> from \in {"writeCas", "granted"}
  BY GotoMoves DEF Announced
<1>3. Cardinality(ReadersInside \cup {t}) =
        IF from = "reading" THEN Cardinality(ReadersInside) ELSE Cardinality(ReadersInside) + 1
  BY <1>1, InsideFinite, FS_AddElement
<1>4. Cardinality(ReadersInside \ {t}) =
        IF from = "reading" THEN Cardinality(ReadersInside) - 1 ELSE Cardinality(ReadersInside)
  BY <1>1, InsideFinite, FS_RemoveElement
<1>5. Cardinality(Announced \cup {t}) =
        IF from \in {"writeCas", "granted"} THEN Cardinality(Announced)
                                           ELSE Cardinality(Announced) + 1
  BY <1>2, InsideFinite, FS_AddElement
<1>6. Cardinality(Announced \ {t}) =
        IF from \in {"writeCas", "granted"} THEN Cardinality(Announced) - 1
                                           ELSE Cardinality(Announced)
  BY <1>2, InsideFinite, FS_RemoveElement
<1>7. Cardinality(ReadersInside) \in Nat /\ Cardinality(Announced) \in Nat
  BY InsideFinite
<1>0. /\ pc[t] = from
      /\ ReadersInside' = IF to = "reading" THEN ReadersInside \cup {t}
                                            ELSE ReadersInside \ {t}
      /\ Announced' = IF to \in {"writeCas", "granted"} THEN Announced \cup {t}
                                                       ELSE Announced \ {t}
  BY GotoMoves
<1>8. Cardinality(ReadersInside') =
        Cardinality(ReadersInside)
          + (IF to = "reading" THEN 1 ELSE 0) - (IF from = "reading" THEN 1 ELSE 0)
  BY <1>3, <1>4, <1>7, <1>0
<1>9. Cardinality(Announced') =
        Cardinality(Announced)
          + (IF to \in {"writeCas", "granted"} THEN 1 ELSE 0)
          - (IF from \in {"writeCas", "granted"} THEN 1 ELSE 0)
  BY <1>5, <1>6, <1>7, <1>0
<1> QED
  BY <1>8, <1>9

-----------------------------------------------------------------------------
\* readLock() enters its loop: OwnerIsInside shows that an idle thread does
\* not own the lock.
LEMMA ReadLockStep ==
  ASSUME IInv, NEW t \in Threads, ReadLock(t)
  PROVE  IInv'
<1>1. Goto(t, "idle", "loadCount")
  BY DEF ReadLock, Goto, IInv, OwnerIsInside
<1>2. /\ pc \in [Threads -> PC]
      /\ Cardinality(ReadersInside) \in Nat /\ Cardinality(ReadersInside)' \in Nat
      /\ Cardinality(Announced) \in Nat /\ Cardinality(Announced)' \in Nat
  BY InsideFinite, InsideFiniteNext DEF IInv, TypeOK
<1>3. /\ Cardinality(ReadersInside)' = Cardinality(ReadersInside)
      /\ Cardinality(Announced)' = Cardinality(Announced)
  BY <1>1, <1>2, GotoCounts
<1>5. MutualExclusion'
  BY <1>1, <1>2
     DEF ReadLock, Goto, IInv, MutualExclusion, CountIsExact, ReadersInside, WritersInside, Exclusive, WRITE_LOCK_STATUS
<1>6. CountIsExact'
  BY <1>1, <1>2, <1>3
     DEF ReadLock, Goto, IInv, CountIsExact, MutualExclusion, OwnerIsInside, LoadedIsNat, TypeOK, ReadersInside,
         WritersInside, Exclusive, WRITE_LOCK_STATUS, FREE_STATUS
<1>7. WaitCountIsExact'
  BY <1>1, <1>2, <1>3 DEF ReadLock, IInv, OwnerIsInside, Goto, WaitCountIsExact, Announced
<1>8. TypeOK'
  <2>1. lockCount' \in Nat \cup {WRITE_LOCK_STATUS} /\ writeWaitCount' \in Nat
    BY <1>2, <1>6, <1>7 DEF CountIsExact, WaitCountIsExact, Announced
  <2> QED
    BY <2>1, <1>1 DEF ReadLock, Goto, IInv, TypeOK, PC, ReadEntry, Exclusive
<1>9. OwnerIsInside' /\ NeverThrows'
  BY <1>1, <1>2, RWLockAssumption
     DEF ReadLock, Goto, IInv, OwnerIsInside, NeverThrows, MutualExclusion, WritersInside, Exclusive, CountIsExact
<1>10. LoadedIsNat'
  BY <1>1, <1>2 DEF ReadLock, Goto, IInv, TypeOK, LoadedIsNat, WRITE_LOCK_STATUS
<1> QED
  BY <1>5, <1>6, <1>7, <1>8, <1>9, <1>10 DEF IInv

\* The inner loop leaves with a count only when no writer holds the lock.
LEMMA LoadCountStep ==
  ASSUME IInv, NEW t \in Threads, LoadCount(t)
  PROVE  IInv'
<1>1. Goto(t, "loadCount", IF lockCount = WRITE_LOCK_STATUS THEN "loadCount" ELSE "loadWait")
  BY DEF LoadCount, Goto, IInv, OwnerIsInside
<1>2. /\ pc \in [Threads -> PC]
      /\ Cardinality(ReadersInside) \in Nat /\ Cardinality(ReadersInside)' \in Nat
      /\ Cardinality(Announced) \in Nat /\ Cardinality(Announced)' \in Nat
  BY InsideFinite, InsideFiniteNext DEF IInv, TypeOK
<1>3. /\ Cardinality(ReadersInside)' = Cardinality(ReadersInside)
      /\ Cardinality(Announced)' = Cardinality(Announced)
  BY <1>1, <1>2, GotoCounts
<1>5. MutualExclusion'
  BY <1>1, <1>2
     DEF LoadCount, Goto, IInv, MutualExclusion, CountIsExact, ReadersInside, WritersInside, Exclusive, WRITE_LOCK_STATUS
<1>6. CountIsExact'
  BY <1>1, <1>2, <1>3
     DEF LoadCount, Goto, IInv, CountIsExact, MutualExclusion, OwnerIsInside, LoadedIsNat, TypeOK, ReadersInside,
         WritersInside, Exclusive, WRITE_LOCK_STATUS, FREE_STATUS
<1>7. WaitCountIsExact'
  BY <1>1, <1>2, <1>3 DEF LoadCount, IInv, OwnerIsInside, Goto, WaitCountIsExact, Announced
<1>8. TypeOK'
  <2>1. lockCount' \in Nat \cup {WRITE_LOCK_STATUS} /\ writeWaitCount' \in Nat
    BY <1>2, <1>6, <1>7 DEF CountIsExact, WaitCountIsExact, Announced
  <2> QED
    BY <2>1, <1>1 DEF LoadCount, Goto, IInv, TypeOK, PC, ReadEntry, Exclusive
<1>9. OwnerIsInside' /\ NeverThrows'
  BY <1>1, <1>2, RWLockAssumption
     DEF LoadCount, Goto, IInv, OwnerIsInside, NeverThrows, MutualExclusion, WritersInside, Exclusive, CountIsExact
<1>10. LoadedIsNat'
  BY <1>1, <1>2 DEF LoadCount, Goto, IInv, TypeOK, LoadedIsNat, WRITE_LOCK_STATUS
<1> QED
  BY <1>5, <1>6, <1>7, <1>8, <1>9, <1>10 DEF IInv

\* The test of m_writeWaitCount changes nothing that is counted.
LEMMA LoadWaitStep ==
  ASSUME IInv, NEW t \in Threads, LoadWait(t)
  PROVE  IInv'
<1>1. Goto(t, "loadWait", IF writeWaitCount > 0 THEN "loadCount" ELSE "readCas")
  BY DEF LoadWait, Goto, IInv, OwnerIsInside
<1>2. /\ pc \in [Threads -> PC]
      /\ Cardinality(ReadersInside) \in Nat /\ Cardinality(ReadersInside)' \in Nat
      /\ Cardinality(Announced) \in Nat /\ Cardinality(Announced)' \in Nat
  BY InsideFinite, InsideFiniteNext DEF IInv, TypeOK
<1>3. /\ Cardinality(ReadersInside)' = Cardinality(ReadersInside)
      /\ Cardinality(Announced)' = Cardinality(Announced)
  BY <1>1, <1>2, GotoCounts
<1>5. MutualExclusion'
  BY <1>1, <1>2
     DEF LoadWait, Goto, IInv, MutualExclusion, CountIsExact, ReadersInside, WritersInside, Exclusive, WRITE_LOCK_STATUS
<1>6. CountIsExact'
  BY <1>1, <1>2, <1>3
     DEF LoadWait, Goto, IInv, CountIsExact, MutualExclusion, OwnerIsInside, LoadedIsNat, TypeOK, ReadersInside,
         WritersInside, Exclusive, WRITE_LOCK_STATUS, FREE_STATUS
<1>7. WaitCountIsExact'
  BY <1>1, <1>2, <1>3 DEF LoadWait, IInv, OwnerIsInside, Goto, WaitCountIsExact, Announced
<1>8. TypeOK'
  <2>1. lockCount' \in Nat \cup {WRITE_LOCK_STATUS} /\ writeWaitCount' \in Nat
    BY <1>2, <1>6, <1>7 DEF CountIsExact, WaitCountIsExact, Announced
  <2> QED
    BY <2>1, <1>1 DEF LoadWait, Goto, IInv, TypeOK, PC, ReadEntry, Exclusive
<1>9. OwnerIsInside' /\ NeverThrows'
  BY <1>1, <1>2, RWLockAssumption
     DEF LoadWait, Goto, IInv, OwnerIsInside, NeverThrows, MutualExclusion, WritersInside, Exclusive, CountIsExact
<1>10. LoadedIsNat'
  BY <1>1, <1>2 DEF LoadWait, Goto, IInv, TypeOK, LoadedIsNat, WRITE_LOCK_STATUS
<1> QED
  BY <1>5, <1>6, <1>7, <1>8, <1>9, <1>10 DEF IInv

\* A reader enters: the counter it swaps was not the writer mark, so no
\* writer is inside.
LEMMA ReadCasStep ==
  ASSUME IInv, NEW t \in Threads, ReadCas(t)
  PROVE  IInv'
<1>1. Goto(t, "readCas", "reading")
  BY DEF ReadCas, Goto, IInv, OwnerIsInside
<1>2. /\ pc \in [Threads -> PC]
      /\ Cardinality(ReadersInside) \in Nat /\ Cardinality(ReadersInside)' \in Nat
      /\ Cardinality(Announced) \in Nat /\ Cardinality(Announced)' \in Nat
  BY InsideFinite, InsideFiniteNext DEF IInv, TypeOK
<1>3. /\ Cardinality(ReadersInside)' = Cardinality(ReadersInside) + 1
      /\ Cardinality(Announced)' = Cardinality(Announced)
  BY <1>1, <1>2, GotoCounts
<1>5. MutualExclusion'
  BY <1>1, <1>2
     DEF ReadCas, Goto, IInv, MutualExclusion, CountIsExact, LoadedIsNat, ReadersInside, WritersInside, Exclusive, WRITE_LOCK_STATUS
<1>6. CountIsExact'
  BY <1>1, <1>2, <1>3
     DEF ReadCas, Goto, IInv, CountIsExact, MutualExclusion, OwnerIsInside, LoadedIsNat, TypeOK, ReadersInside,
         WritersInside, Exclusive, WRITE_LOCK_STATUS, FREE_STATUS
<1>7. WaitCountIsExact'
  BY <1>1, <1>2, <1>3 DEF ReadCas, IInv, OwnerIsInside, Goto, WaitCountIsExact, Announced
<1>8. TypeOK'
  <2>1. lockCount' \in Nat \cup {WRITE_LOCK_STATUS} /\ writeWaitCount' \in Nat
    BY <1>2, <1>6, <1>7 DEF CountIsExact, WaitCountIsExact, Announced
  <2> QED
    BY <2>1, <1>1 DEF ReadCas, Goto, IInv, TypeOK, PC, ReadEntry, Exclusive
<1>9. OwnerIsInside' /\ NeverThrows'
  BY <1>1, <1>2, RWLockAssumption
     DEF ReadCas, Goto, IInv, OwnerIsInside, NeverThrows, MutualExclusion, WritersInside, Exclusive, CountIsExact
<1>10. LoadedIsNat'
  BY <1>1, <1>2 DEF ReadCas, Goto, IInv, TypeOK, LoadedIsNat, WRITE_LOCK_STATUS
<1> QED
  BY <1>5, <1>6, <1>7, <1>8, <1>9, <1>10 DEF IInv

\* A failed swap sends the reader back to its loop.
LEMMA ReadCasFailsStep ==
  ASSUME IInv, NEW t \in Threads, ReadCasFails(t)
  PROVE  IInv'
<1>1. Goto(t, "readCas", "loadCount")
  BY DEF ReadCasFails, Goto, IInv, OwnerIsInside
<1>2. /\ pc \in [Threads -> PC]
      /\ Cardinality(ReadersInside) \in Nat /\ Cardinality(ReadersInside)' \in Nat
      /\ Cardinality(Announced) \in Nat /\ Cardinality(Announced)' \in Nat
  BY InsideFinite, InsideFiniteNext DEF IInv, TypeOK
<1>3. /\ Cardinality(ReadersInside)' = Cardinality(ReadersInside)
      /\ Cardinality(Announced)' = Cardinality(Announced)
  BY <1>1, <1>2, GotoCounts
<1>5. MutualExclusion'
  BY <1>1, <1>2
     DEF ReadCasFails, Goto, IInv, MutualExclusion, CountIsExact, ReadersInside, WritersInside, Exclusive, WRITE_LOCK_STATUS
<1>6. CountIsExact'
  BY <1>1, <1>2, <1>3
     DEF ReadCasFails, Goto, IInv, CountIsExact, MutualExclusion, OwnerIsInside, LoadedIsNat, TypeOK, ReadersInside,
         WritersInside, Exclusive, WRITE_LOCK_STATUS, FREE_STATUS
<1>7. WaitCountIsExact'
  BY <1>1, <1>2, <1>3 DEF ReadCasFails, IInv, OwnerIsInside, Goto, WaitCountIsExact, Announced
<1>8. TypeOK'
  <2>1. lockCount' \in Nat \cup {WRITE_LOCK_STATUS} /\ writeWaitCount' \in Nat
    BY <1>2, <1>6, <1>7 DEF CountIsExact, WaitCountIsExact, Announced
  <2> QED
    BY <2>1, <1>1 DEF ReadCasFails, Goto, IInv, TypeOK, PC, ReadEntry, Exclusive
<1>9. OwnerIsInside' /\ NeverThrows'
  BY <1>1, <1>2, RWLockAssumption
     DEF ReadCasFails, Goto, IInv, OwnerIsInside, NeverThrows, MutualExclusion, WritersInside, Exclusive, CountIsExact
<1>10. LoadedIsNat'
  BY <1>1, <1>2 DEF ReadCasFails, Goto, IInv, TypeOK, LoadedIsNat, WRITE_LOCK_STATUS
<1> QED
  BY <1>5, <1>6, <1>7, <1>8, <1>9, <1>10 DEF IInv

\* A reader leaves: it does not own the lock, so it takes itself off the
\* count.
LEMMA ReadUnlockStep ==
  ASSUME IInv, NEW t \in Threads, ReadUnlock(t)
  PROVE  IInv'
<1>1. Goto(t, "reading", "idle")
  BY DEF ReadUnlock, Goto, IInv, OwnerIsInside
<1>2. /\ pc \in [Threads -> PC]
      /\ Cardinality(ReadersInside) \in Nat /\ Cardinality(ReadersInside)' \in Nat
      /\ Cardinality(Announced) \in Nat /\ Cardinality(Announced)' \in Nat
  BY InsideFinite, InsideFiniteNext DEF IInv, TypeOK
<1>3. /\ Cardinality(ReadersInside)' = Cardinality(ReadersInside) - 1
      /\ Cardinality(Announced)' = Cardinality(Announced)
  BY <1>1, <1>2, GotoCounts
<1>5. MutualExclusion'
  BY <1>1, <1>2
     DEF ReadUnlock, Goto, IInv, MutualExclusion, CountIsExact, ReadersInside, WritersInside, Exclusive, WRITE_LOCK_STATUS
<1>6. CountIsExact'
  BY <1>1, <1>2, <1>3
     DEF ReadUnlock, Goto, IInv, CountIsExact, MutualExclusion, OwnerIsInside, LoadedIsNat, TypeOK, ReadersInside,
         WritersInside, Exclusive, WRITE_LOCK_STATUS, FREE_STATUS
<1>7. WaitCountIsExact'
  BY <1>1, <1>2, <1>3 DEF ReadUnlock, IInv, OwnerIsInside, Goto, WaitCountIsExact, Announced
<1>8. TypeOK'
  <2>1. lockCount' \in Nat \cup {WRITE_LOCK_STATUS} /\ writeWaitCount' \in Nat
    BY <1>2, <1>6, <1>7 DEF CountIsExact, WaitCountIsExact, Announced
  <2> QED
    BY <2>1, <1>1 DEF ReadUnlock, Goto, IInv, TypeOK, PC, ReadEntry, Exclusive
<1>9. OwnerIsInside' /\ NeverThrows'
  BY <1>1, <1>2, RWLockAssumption
     DEF ReadUnlock, Goto, IInv, OwnerIsInside, NeverThrows, MutualExclusion, WritersInside, Exclusive, CountIsExact
<1>10. LoadedIsNat'
  BY <1>1, <1>2 DEF ReadUnlock, Goto, IInv, TypeOK, LoadedIsNat, WRITE_LOCK_STATUS
<1> QED
  BY <1>5, <1>6, <1>7, <1>8, <1>9, <1>10 DEF IInv

\* writeLock() announces the writer.
LEMMA WriteLockStep ==
  ASSUME IInv, NEW t \in Threads, WriteLock(t)
  PROVE  IInv'
<1>1. Goto(t, "idle", "writeCas")
  BY DEF WriteLock, Goto, IInv, OwnerIsInside
<1>2. /\ pc \in [Threads -> PC]
      /\ Cardinality(ReadersInside) \in Nat /\ Cardinality(ReadersInside)' \in Nat
      /\ Cardinality(Announced) \in Nat /\ Cardinality(Announced)' \in Nat
  BY InsideFinite, InsideFiniteNext DEF IInv, TypeOK
<1>3. /\ Cardinality(ReadersInside)' = Cardinality(ReadersInside)
      /\ Cardinality(Announced)' = Cardinality(Announced) + 1
  BY <1>1, <1>2, GotoCounts
<1>5. MutualExclusion'
  BY <1>1, <1>2
     DEF WriteLock, Goto, IInv, MutualExclusion, CountIsExact, ReadersInside, WritersInside, Exclusive, WRITE_LOCK_STATUS
<1>6. CountIsExact'
  BY <1>1, <1>2, <1>3
     DEF WriteLock, Goto, IInv, CountIsExact, MutualExclusion, OwnerIsInside, LoadedIsNat, TypeOK, ReadersInside,
         WritersInside, Exclusive, WRITE_LOCK_STATUS, FREE_STATUS
<1>7. WaitCountIsExact'
  BY <1>1, <1>2, <1>3 DEF WriteLock, IInv, OwnerIsInside, Goto, WaitCountIsExact, Announced
<1>8. TypeOK'
  <2>1. lockCount' \in Nat \cup {WRITE_LOCK_STATUS} /\ writeWaitCount' \in Nat
    BY <1>2, <1>6, <1>7 DEF CountIsExact, WaitCountIsExact, Announced
  <2> QED
    BY <2>1, <1>1 DEF WriteLock, Goto, IInv, TypeOK, PC, ReadEntry, Exclusive
<1>9. OwnerIsInside' /\ NeverThrows'
  BY <1>1, <1>2, RWLockAssumption
     DEF WriteLock, Goto, IInv, OwnerIsInside, NeverThrows, MutualExclusion, WritersInside, Exclusive, CountIsExact
<1>10. LoadedIsNat'
  BY <1>1, <1>2 DEF WriteLock, Goto, IInv, TypeOK, LoadedIsNat, WRITE_LOCK_STATUS
<1> QED
  BY <1>5, <1>6, <1>7, <1>8, <1>9, <1>10 DEF IInv

\* A writer enters: the counter is FREE_STATUS, so nobody is inside.
LEMMA WriteCasStep ==
  ASSUME IInv, NEW t \in Threads, WriteCas(t)
  PROVE  IInv'
<1>1. Goto(t, "writeCas", "granted")
  BY DEF WriteCas, Goto, IInv, OwnerIsInside
<1>2. /\ pc \in [Threads -> PC]
      /\ Cardinality(ReadersInside) \in Nat /\ Cardinality(ReadersInside)' \in Nat
      /\ Cardinality(Announced) \in Nat /\ Cardinality(Announced)' \in Nat
  BY InsideFinite, InsideFiniteNext DEF IInv, TypeOK
<1>3. /\ Cardinality(ReadersInside)' = Cardinality(ReadersInside)
      /\ Cardinality(Announced)' = Cardinality(Announced)
  BY <1>1, <1>2, GotoCounts
<1>4. ReadersInside = {} /\ WritersInside = {}
  <2>1. WritersInside = {} /\ Cardinality(ReadersInside) = 0
    BY DEF WriteCas, IInv, CountIsExact, WRITE_LOCK_STATUS, FREE_STATUS
  <2> QED
    BY <2>1, InsideFinite, FS_EmptySet
<1>5. MutualExclusion'
  BY <1>1, <1>2, <1>4
     DEF WriteCas, Goto, IInv, MutualExclusion, CountIsExact, ReadersInside, WritersInside, Exclusive, WRITE_LOCK_STATUS
<1>6. CountIsExact'
  BY <1>1, <1>2, <1>3, <1>4
     DEF WriteCas, Goto, IInv, CountIsExact, MutualExclusion, OwnerIsInside, LoadedIsNat, TypeOK, ReadersInside,
         WritersInside, Exclusive, WRITE_LOCK_STATUS, FREE_STATUS
<1>7. WaitCountIsExact'
  BY <1>1, <1>2, <1>3 DEF WriteCas, IInv, OwnerIsInside, Goto, WaitCountIsExact, Announced
<1>8. TypeOK'
  <2>1. lockCount' \in Nat \cup {WRITE_LOCK_STATUS} /\ writeWaitCount' \in Nat
    BY <1>2, <1>6, <1>7 DEF CountIsExact, WaitCountIsExact, Announced
  <2> QED
    BY <2>1, <1>1 DEF WriteCas, Goto, IInv, TypeOK, PC, ReadEntry, Exclusive
<1>9. OwnerIsInside' /\ NeverThrows'
  BY <1>1, <1>2, RWLockAssumption
     DEF WriteCas, Goto, IInv, OwnerIsInside, NeverThrows, MutualExclusion, WritersInside, Exclusive, CountIsExact
<1>10. LoadedIsNat'
  BY <1>1, <1>2 DEF WriteCas, Goto, IInv, TypeOK, LoadedIsNat, WRITE_LOCK_STATUS
<1> QED
  BY <1>5, <1>6, <1>7, <1>8, <1>9, <1>10 DEF IInv

\* The writer withdraws its announcement.
LEMMA StopWaitingStep ==
  ASSUME IInv, NEW t \in Threads, StopWaiting(t)
  PROVE  IInv'
<1>1. Goto(t, "granted", "setId")
  BY DEF StopWaiting, Goto, IInv, OwnerIsInside
<1>2. /\ pc \in [Threads -> PC]
      /\ Cardinality(ReadersInside) \in Nat /\ Cardinality(ReadersInside)' \in Nat
      /\ Cardinality(Announced) \in Nat /\ Cardinality(Announced)' \in Nat
  BY InsideFinite, InsideFiniteNext DEF IInv, TypeOK
<1>3. /\ Cardinality(ReadersInside)' = Cardinality(ReadersInside)
      /\ Cardinality(Announced)' = Cardinality(Announced) - 1
  BY <1>1, <1>2, GotoCounts
<1>5. MutualExclusion'
  BY <1>1, <1>2
     DEF StopWaiting, Goto, IInv, MutualExclusion, CountIsExact, ReadersInside, WritersInside, Exclusive, WRITE_LOCK_STATUS
<1>6. CountIsExact'
  BY <1>1, <1>2, <1>3
     DEF StopWaiting, Goto, IInv, CountIsExact, MutualExclusion, OwnerIsInside, LoadedIsNat, TypeOK, ReadersInside,
         WritersInside, Exclusive, WRITE_LOCK_STATUS, FREE_STATUS
<1>7. WaitCountIsExact'
  BY <1>1, <1>2, <1>3 DEF StopWaiting, IInv, OwnerIsInside, Goto, WaitCountIsExact, Announced
<1>8. TypeOK'
  <2>1. lockCount' \in Nat \cup {WRITE_LOCK_STATUS} /\ writeWaitCount' \in Nat
    BY <1>2, <1>6, <1>7 DEF CountIsExact, WaitCountIsExact, Announced
  <2> QED
    BY <2>1, <1>1 DEF StopWaiting, Goto, IInv, TypeOK, PC, ReadEntry, Exclusive
<1>9. OwnerIsInside' /\ NeverThrows'
  BY <1>1, <1>2, RWLockAssumption
     DEF StopWaiting, Goto, IInv, OwnerIsInside, NeverThrows, MutualExclusion, WritersInside, Exclusive, CountIsExact
<1>10. LoadedIsNat'
  BY <1>1, <1>2 DEF StopWaiting, Goto, IInv, TypeOK, LoadedIsNat, WRITE_LOCK_STATUS
<1> QED
  BY <1>5, <1>6, <1>7, <1>8, <1>9, <1>10 DEF IInv

\* The writer inside records its id.
LEMMA SetWriteThreadStep ==
  ASSUME IInv, NEW t \in Threads, SetWriteThread(t)
  PROVE  IInv'
<1>1. Goto(t, "setId", "writing")
  BY DEF SetWriteThread, Goto, IInv, OwnerIsInside
<1>2. /\ pc \in [Threads -> PC]
      /\ Cardinality(ReadersInside) \in Nat /\ Cardinality(ReadersInside)' \in Nat
      /\ Cardinality(Announced) \in Nat /\ Cardinality(Announced)' \in Nat
  BY InsideFinite, InsideFiniteNext DEF IInv, TypeOK
<1>3. /\ Cardinality(ReadersInside)' = Cardinality(ReadersInside)
      /\ Cardinality(Announced)' = Cardinality(Announced)
  BY <1>1, <1>2, GotoCounts
<1>5. MutualExclusion'
  BY <1>1, <1>2
     DEF SetWriteThread, Goto, IInv, MutualExclusion, CountIsExact, ReadersInside, WritersInside, Exclusive, WRITE_LOCK_STATUS
<1>6. CountIsExact'
  BY <1>1, <1>2, <1>3
     DEF SetWriteThread, Goto, IInv, CountIsExact, MutualExclusion, OwnerIsInside, LoadedIsNat, TypeOK, ReadersInside,
         WritersInside, Exclusive, WRITE_LOCK_STATUS, FREE_STATUS
<1>7. WaitCountIsExact'
  BY <1>1, <1>2, <1>3 DEF SetWriteThread, IInv, OwnerIsInside, Goto, WaitCountIsExact, Announced
<1>8. TypeOK'
  <2>1. lockCount' \in Nat \cup {WRITE_LOCK_STATUS} /\ writeWaitCount' \in Nat
    BY <1>2, <1>6, <1>7 DEF CountIsExact, WaitCountIsExact, Announced
  <2> QED
    BY <2>1, <1>1 DEF SetWriteThread, Goto, IInv, TypeOK, PC, ReadEntry, Exclusive
<1>9. OwnerIsInside' /\ NeverThrows'
  BY <1>1, <1>2, RWLockAssumption
     DEF SetWriteThread, Goto, IInv, OwnerIsInside, NeverThrows, MutualExclusion, WritersInside, Exclusive, CountIsExact
<1>10. LoadedIsNat'
  BY <1>1, <1>2 DEF SetWriteThread, Goto, IInv, TypeOK, LoadedIsNat, WRITE_LOCK_STATUS
<1> QED
  BY <1>5, <1>6, <1>7, <1>8, <1>9, <1>10 DEF IInv

\* writeUnlock() finds its own id and the writer mark, and does not throw.
LEMMA WriteUnlockStep ==
  ASSUME IInv, NEW t \in Threads, WriteUnlock(t)
  PROVE  IInv'
<1>1. Goto(t, "writing", "release")
  BY DEF WriteUnlock, Goto, IInv, OwnerIsInside, CountIsExact, WritersInside, Exclusive
<1>2. /\ pc \in [Threads -> PC]
      /\ Cardinality(ReadersInside) \in Nat /\ Cardinality(ReadersInside)' \in Nat
      /\ Cardinality(Announced) \in Nat /\ Cardinality(Announced)' \in Nat
  BY InsideFinite, InsideFiniteNext DEF IInv, TypeOK
<1>3. /\ Cardinality(ReadersInside)' = Cardinality(ReadersInside)
      /\ Cardinality(Announced)' = Cardinality(Announced)
  BY <1>1, <1>2, GotoCounts
<1>5. MutualExclusion'
  BY <1>1, <1>2
     DEF WriteUnlock, Goto, IInv, MutualExclusion, CountIsExact, ReadersInside, WritersInside, Exclusive, WRITE_LOCK_STATUS
<1>6. CountIsExact'
  BY <1>1, <1>2, <1>3
     DEF WriteUnlock, Goto, IInv, CountIsExact, MutualExclusion, OwnerIsInside, LoadedIsNat, TypeOK, ReadersInside,
         WritersInside, Exclusive, WRITE_LOCK_STATUS, FREE_STATUS
<1>7. WaitCountIsExact'
  BY <1>1, <1>2, <1>3 DEF WriteUnlock, IInv, OwnerIsInside, Goto, WaitCountIsExact, Announced
<1>8. TypeOK'
  <2>1. lockCount' \in Nat \cup {WRITE_LOCK_STATUS} /\ writeWaitCount' \in Nat
    BY <1>2, <1>6, <1>7 DEF CountIsExact, WaitCountIsExact, Announced
  <2> QED
    BY <2>1, <1>1 DEF WriteUnlock, Goto, IInv, TypeOK, PC, ReadEntry, Exclusive
<1>9. OwnerIsInside' /\ NeverThrows'
  BY <1>1, <1>2, RWLockAssumption
     DEF WriteUnlock, Goto, IInv, OwnerIsInside, NeverThrows, MutualExclusion, WritersInside, Exclusive, CountIsExact
<1>10. LoadedIsNat'
  BY <1>1, <1>2 DEF WriteUnlock, Goto, IInv, TypeOK, LoadedIsNat, WRITE_LOCK_STATUS
<1> QED
  BY <1>5, <1>6, <1>7, <1>8, <1>9, <1>10 DEF IInv

\* The last store of the writer frees the lock: it was alone inside.
LEMMA StoreFreeStep ==
  ASSUME IInv, NEW t \in Threads, StoreFree(t)
  PROVE  IInv'
<1>1. Goto(t, "release", "idle")
  BY DEF StoreFree, Goto, IInv, OwnerIsInside
<1>2. /\ pc \in [Threads -> PC]
      /\ Cardinality(ReadersInside) \in Nat /\ Cardinality(ReadersInside)' \in Nat
      /\ Cardinality(Announced) \in Nat /\ Cardinality(Announced)' \in Nat
  BY InsideFinite, InsideFiniteNext DEF IInv, TypeOK
<1>3. /\ Cardinality(ReadersInside)' = Cardinality(ReadersInside)
      /\ Cardinality(Announced)' = Cardinality(Announced)
  BY <1>1, <1>2, GotoCounts
<1>4. ReadersInside' = {} /\ WritersInside' = {} /\ Cardinality(ReadersInside)' = 0
  <2>1. ReadersInside = {} /\ WritersInside = {t}
    BY <1>1 DEF Goto, IInv, MutualExclusion, WritersInside, Exclusive
  <2>2. ReadersInside' = {} /\ WritersInside' = {}
    BY <2>1, <1>1, <1>2, GotoMoves DEF Exclusive
  <2> QED
    BY <2>2, FS_EmptySet
<1>5. MutualExclusion'
  BY <1>1, <1>2, <1>4
     DEF StoreFree, Goto, IInv, MutualExclusion, CountIsExact, ReadersInside, WritersInside, Exclusive, WRITE_LOCK_STATUS
<1>6. CountIsExact'
  BY <1>1, <1>2, <1>3, <1>4
     DEF StoreFree, Goto, IInv, CountIsExact, MutualExclusion, OwnerIsInside, LoadedIsNat, TypeOK, ReadersInside,
         WritersInside, Exclusive, WRITE_LOCK_STATUS, FREE_STATUS
<1>7. WaitCountIsExact'
  BY <1>1, <1>2, <1>3 DEF StoreFree, IInv, OwnerIsInside, Goto, WaitCountIsExact, Announced
<1>8. TypeOK'
  <2>1. lockCount' \in Nat \cup {WRITE_LOCK_STATUS} /\ writeWaitCount' \in Nat
    BY <1>2, <1>6, <1>7 DEF CountIsExact, WaitCountIsExact, Announced
  <2> QED
    BY <2>1, <1>1 DEF StoreFree, Goto, IInv, TypeOK, PC, ReadEntry, Exclusive
<1>9. OwnerIsInside' /\ NeverThrows'
  BY <1>1, <1>2, RWLockAssumption
     DEF StoreFree, Goto, IInv, OwnerIsInside, NeverThrows, MutualExclusion, WritersInside, Exclusive, CountIsExact
<1>10. LoadedIsNat'
  BY <1>1, <1>2 DEF StoreFree, Goto, IInv, TypeOK, LoadedIsNat, WRITE_LOCK_STATUS
<1> QED
  BY <1>5, <1>6, <1>7, <1>8, <1>9, <1>10 DEF IInv

-----------------------------------------------------------------------------
\* IInv is inductive.
LEMMA NextIInv == IInv /\ [Next]_vars => IInv'
<1> SUFFICES ASSUME IInv, [Next]_vars PROVE IInv'
  OBVIOUS
<1>1. ASSUME NEW t \in Threads, ReadLock(t) \/ ReaderStep(t) PROVE IInv'
  BY <1>1, ReadLockStep, LoadCountStep, LoadWaitStep, ReadCasStep, ReadCasFailsStep,
     ReadUnlockStep DEF ReaderStep
<1>2. ASSUME NEW t \in Threads, WriteLock(t) \/ WriterStep(t) PROVE IInv'
  BY <1>2, WriteLockStep, WriteCasStep, StopWaitingStep, SetWriteThreadStep,
     WriteUnlockStep, StoreFreeStep DEF WriterStep
<1>3. CASE UNCHANGED vars
  BY <1>3 DEF vars, IInv, TypeOK, MutualExclusion, CountIsExact, WaitCountIsExact,
     OwnerIsInside, NeverThrows, LoadedIsNat, ReadersInside, WritersInside
<1> QED
  BY <1>1, <1>2, <1>3 DEF Next, Threads

\* IInv holds in every state that any schedule of the threads reaches.
THEOREM Invariance == Spec => []IInv
<1> QED
  BY InitIInv, NextIInv, PTL DEF Spec

\* Type correctness, for every finite set of threads: in particular the two
\* counters, one of them unsigned, never fall below their range.
THEOREM TypeCorrect == Spec => []TypeOK
<1>1. IInv => TypeOK
  BY DEF IInv
<1> QED
  BY <1>1, Invariance, PTL

\* While a thread writes a cache file, no other thread is inside the lock.
THEOREM LockIsExclusive == Spec => []MutualExclusion
<1>1. IInv => MutualExclusion
  BY DEF IInv
<1> QED
  BY <1>1, Invariance, PTL

\* The two counters of the lock are exactly the numbers they stand for, and
\* its owner is the thread that writes.
THEOREM CountersAreExact == Spec => []BooksAreExact
<1>1. IInv => BooksAreExact
  BY DEF IInv, BooksAreExact
<1> QED
  BY <1>1, Invariance, PTL

\* writeUnlock() never throws out of the destructor that calls it.
THEOREM UnlockNeverThrows == Spec => []NeverThrows
<1>1. IInv => NeverThrows
  BY DEF IInv
<1> QED
  BY <1>1, Invariance, PTL

-----------------------------------------------------------------------------
\* The detailed lock implements the abstract shared/exclusive lock: the
\* successful swaps and the two releases are the abstract operations, every
\* other step leaves both sets of threads alone.
LEMMA StepSimulation ==
  ASSUME IInv, [Next]_vars
  PROVE  [SE!Next]_(SE!seVars)
<1> USE DEF SE!seVars
<1>0. pc \in [Threads -> PC]
  BY DEF IInv, TypeOK
<1>1. ASSUME NEW t \in Threads, ReadCas(t) PROVE SE!BeginRead(t)
  <2>1. Goto(t, "readCas", "reading") /\ t \notin ReadersInside
    BY <1>1 DEF ReadCas, Goto, ReadersInside
  <2>2. WritersInside = {}
    BY <1>1, <2>1 DEF ReadCas, Goto, IInv, CountIsExact, LoadedIsNat, WRITE_LOCK_STATUS
  <2>3. ReadersInside' = ReadersInside \cup {t} /\ WritersInside' = WritersInside
    BY <1>0, <2>1, <2>2, GotoMoves DEF Exclusive
  <2> QED
    BY <2>1, <2>2, <2>3 DEF SE!BeginRead
<1>2. ASSUME NEW t \in Threads, ReadUnlock(t) PROVE SE!EndRead(t)
  <2>1. Goto(t, "reading", "idle") /\ t \in ReadersInside /\ t \notin WritersInside
    BY <1>2 DEF ReadUnlock, Goto, ReadersInside, WritersInside, Exclusive
  <2>2. ReadersInside' = ReadersInside \ {t} /\ WritersInside' = WritersInside
    BY <1>0, <2>1, GotoMoves DEF Exclusive
  <2> QED
    BY <2>1, <2>2 DEF SE!EndRead
<1>3. ASSUME NEW t \in Threads, WriteCas(t) PROVE SE!BeginWrite(t)
  <2>1. Goto(t, "writeCas", "granted")
    BY <1>3 DEF WriteCas
  <2>2. WritersInside = {} /\ Cardinality(ReadersInside) = 0
    BY <1>3 DEF WriteCas, IInv, CountIsExact, WRITE_LOCK_STATUS, FREE_STATUS
  <2>3. ReadersInside = {}
    BY <2>2, InsideFinite, FS_EmptySet
  <2>4. ReadersInside' = ReadersInside /\ WritersInside' = {t}
    BY <1>0, <2>1, <2>2, <2>3, GotoMoves DEF Exclusive
  <2> QED
    BY <2>2, <2>3, <2>4 DEF SE!BeginWrite
<1>4. ASSUME NEW t \in Threads, StoreFree(t) PROVE SE!EndWrite(t)
  <2>1. Goto(t, "release", "idle") /\ t \in WritersInside /\ t \notin ReadersInside
    BY <1>4 DEF StoreFree, Goto, ReadersInside, WritersInside, Exclusive
  <2>2. ReadersInside' = ReadersInside /\ WritersInside' = WritersInside \ {t}
    BY <1>0, <2>1, GotoMoves DEF Exclusive
  <2> QED
    BY <2>1, <2>2 DEF SE!EndWrite
<1>5. ASSUME NEW t \in Threads,
             \/ ReadLock(t) \/ LoadCount(t) \/ LoadWait(t) \/ ReadCasFails(t)
             \/ WriteLock(t) \/ StopWaiting(t) \/ SetWriteThread(t) \/ WriteUnlock(t)
      PROVE  UNCHANGED <<ReadersInside, WritersInside>>
  <2>1. writeThread = t <=> pc[t] = "writing"
    BY DEF IInv, OwnerIsInside
  <2>2. pc[t] = "writing" => lockCount = WRITE_LOCK_STATUS
    BY DEF IInv, CountIsExact, WritersInside, Exclusive
  <2>3. \A u \in Threads : (pc[u] = "reading" <=> pc'[u] = "reading")
                          /\ (pc[u] \in Exclusive <=> pc'[u] \in Exclusive)
    BY <1>0, <1>5, <2>1, <2>2
       DEF Goto, ReadLock, LoadCount, LoadWait, ReadCasFails, WriteLock, StopWaiting,
           SetWriteThread, WriteUnlock, Exclusive
  <2> QED
    BY <2>3 DEF ReadersInside, WritersInside
<1>6. CASE UNCHANGED vars
  BY <1>6 DEF vars, ReadersInside, WritersInside
<1>7. ASSUME NEW t \in Threads,
             ReadLock(t) \/ ReaderStep(t) \/ WriteLock(t) \/ WriterStep(t)
      PROVE  [SE!Next]_(SE!seVars)
  BY <1>1, <1>2, <1>3, <1>4, <1>5, <1>7 DEF ReaderStep, WriterStep, SE!Next
<1> QED
  BY <1>6, <1>7 DEF Next, Threads

\* RWLock implements the abstract shared/exclusive lock, for any finite set of
\* threads: an interleaving of its atomic accesses lets nobody in that the
\* abstract lock would keep out.
THEOREM Refinement == Spec => ImplementsSharedExclusive
<1>1. Init => SE!Init
  BY DEF Init, SE!Init, ReadersInside, WritersInside, Exclusive
<1>2. IInv /\ [Next]_vars => [SE!Next]_(SE!seVars)
  BY StepSimulation
<1> QED
  BY <1>1, <1>2, Invariance, PTL DEF Spec, ImplementsSharedExclusive, SE!Spec

-----------------------------------------------------------------------------
\* A thread is only barred for as long as some writer waits, which is what
\* keeps it in its loop.
BarredWait == NoOvertaking /\ barred \subseteq Readers /\ (barred # {} => writeWaitCount > 0)

\* One step of a reader that is, or becomes, barred.
LEMMA BarredStaysOut ==
  ASSUME IInv, BarredWait, [MCNext]_mcVars, NEW t \in barred'
  PROVE  pc'[t] \in {"loadCount", "loadWait"}
<1>1. CASE UNCHANGED mcVars
  BY <1>1 DEF mcVars, vars, BarredWait, NoOvertaking
<1>2. CASE MCNext
  <2>1. /\ t \in Readers /\ t \in Threads /\ Next
        /\ t \in barred \/ (pc[t] = "idle" /\ pc'[t] \in ReadEntry)
    BY <1>2 DEF MCNext, Threads
  <2>2. pc \in [Threads -> PC]
    BY DEF IInv, TypeOK
  <2>3. CASE t \in barred
    <3>1. pc[t] \in {"loadCount", "loadWait"} /\ writeWaitCount > 0
      BY <2>3 DEF BarredWait, NoOvertaking
    <3>2. ASSUME NEW u \in Threads,
                 ReadLock(u) \/ ReaderStep(u) \/ WriteLock(u) \/ WriterStep(u)
          PROVE  pc'[t] \in {"loadCount", "loadWait"}
      <4>1. CASE u # t
        <5>1. pc'[t] = pc[t]
          BY <2>1, <2>2, <3>2, <4>1
             DEF ReadLock, ReaderStep, WriteLock, WriterStep, LoadCount, LoadWait, ReadCas,
                 ReadCasFails, ReadUnlock, WriteCas, StopWaiting, SetWriteThread, WriteUnlock,
                 StoreFree, Goto
        <5> QED BY <3>1, <5>1
      <4>2. CASE u = t
        BY <2>1, <2>2, <3>1, <3>2, <4>2
           DEF ReadLock, ReaderStep, WriteLock, WriterStep, LoadCount, LoadWait, ReadCas,
               ReadCasFails, ReadUnlock, WriteCas, StopWaiting, SetWriteThread, WriteUnlock,
               StoreFree, Goto
      <4> QED BY <4>1, <4>2
    <3> QED BY <2>1, <3>2 DEF Next, Threads
  <2>4. CASE pc[t] = "idle" /\ pc'[t] \in ReadEntry
    <3>1. ASSUME NEW u \in Threads,
                 ReadLock(u) \/ ReaderStep(u) \/ WriteLock(u) \/ WriterStep(u)
          PROVE  pc'[t] \in {"loadCount", "loadWait"}
      BY <2>1, <2>2, <2>4, <3>1
         DEF ReadLock, ReaderStep, WriteLock, WriterStep, LoadCount, LoadWait, ReadCas,
             ReadCasFails, ReadUnlock, WriteCas, StopWaiting, SetWriteThread, WriteUnlock,
             StoreFree, Goto, ReadEntry
    <3> QED BY <2>1, <3>1 DEF Next, Threads
  <2> QED BY <2>1, <2>3, <2>4
<1> QED BY <1>1, <1>2

LEMMA NextBarredWait == IInv /\ BarredWait /\ [MCNext]_mcVars => BarredWait'
<1> SUFFICES ASSUME IInv, BarredWait, [MCNext]_mcVars PROVE BarredWait'
  OBVIOUS
<1>1. NoOvertaking'
  BY BarredStaysOut DEF NoOvertaking
<1>2. (barred \subseteq Readers /\ (barred # {} => writeWaitCount > 0))'
  BY DEF MCNext, mcVars, vars, BarredWait
<1> QED BY <1>1, <1>2 DEF BarredWait

\* A reader that calls readLock() while a writer waits does not get in before
\* it, however many threads there are: WRITE_FIRST holds.
THEOREM WritersFirst == MCSpec => []NoOvertaking
<1>1. MCInit => IInv /\ BarredWait
  BY InitIInv DEF MCInit, BarredWait, NoOvertaking
<1>2. IInv /\ BarredWait /\ [MCNext]_mcVars => (IInv /\ BarredWait)'
  <2>1. [MCNext]_mcVars => [Next]_vars
    BY DEF MCNext, mcVars
  <2> QED BY <2>1, NextIInv, NextBarredWait
<1>3. BarredWait => NoOvertaking
  BY DEF BarredWait
<1> QED BY <1>1, <1>2, <1>3, PTL DEF MCSpec
=============================================================================
