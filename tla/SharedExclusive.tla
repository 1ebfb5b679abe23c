--------------------------- MODULE SharedExclusive ---------------------------
(***************************************************************************)
(* What a shared/exclusive lock promises, whatever it is made of: any      *)
(* number of threads may read together, or one thread may write alone.     *)
(* RWLock.tla shows that class RWLock of webget.cpp implements it, and     *)
(* WebCache.tla uses it as the lock that guards the files of cache/.       *)
(***************************************************************************)
CONSTANT Threads

VARIABLES
  readers,   \* the threads between readLock() and readUnlock()
  writers    \* the threads between writeLock() and writeUnlock()

seVars == <<readers, writers>>

Init ==
  /\ readers = {}
  /\ writers = {}

BeginRead(t) ==
  /\ t \notin readers
  /\ writers = {}
  /\ readers' = readers \cup {t}
  /\ UNCHANGED writers

EndRead(t) ==
  /\ t \in readers
  /\ readers' = readers \ {t}
  /\ UNCHANGED writers

BeginWrite(t) ==
  /\ readers = {}
  /\ writers = {}
  /\ writers' = {t}
  /\ UNCHANGED readers

EndWrite(t) ==
  /\ t \in writers
  /\ writers' = writers \ {t}
  /\ UNCHANGED readers

Next ==
  \E t \in Threads : BeginRead(t) \/ EndRead(t) \/ BeginWrite(t) \/ EndWrite(t)

Spec == Init /\ [][Next]_seVars
=============================================================================
