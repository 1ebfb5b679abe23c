------------------------------ MODULE MCRWLock ------------------------------
(***************************************************************************)
(* RWLock with history variables, for TLC.                                 *)
(***************************************************************************)
EXTENDS RWLock

CONSTANT MaxSpurious    \* how often a compare-and-swap fails for no reason

VARIABLES
  barred,    \* readers that called readLock() while a writer was already
             \* waiting, for as long as some writer waits
  spurious   \* swaps of readLock() that failed on an unmoved counter

mcVars == <<vars, barred, spurious>>

MCInit == Init /\ barred = {} /\ spurious = 0

FailsForNothing(t) ==
  pc[t] = "readCas" /\ pc'[t] = "loadCount" /\ lockCount = count[t]

MCNext ==
  /\ Next
  /\ barred' =
       {t \in Readers :
          /\ writeWaitCount' > 0
          /\ \/ t \in barred
             \/ writeWaitCount > 0 /\ pc[t] = "idle" /\ pc'[t] \in ReadEntry}
  /\ spurious' = IF \E t \in Readers : FailsForNothing(t) THEN spurious + 1
                                                         ELSE spurious
  /\ spurious' <= MaxSpurious

MCSpec == MCInit /\ [][MCNext]_mcVars /\ Fairness

\* A reader that arrives while a writer waits does not overtake it: it stays
\* in the loop of readLock() until no writer waits (WRITE_FIRST).
NoOvertaking == \A t \in barred : pc[t] \in {"loadCount", "loadWait"}
=============================================================================
