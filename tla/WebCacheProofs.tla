--------------------------- MODULE WebCacheProofs ---------------------------
(***************************************************************************)
(* Proofs about WebCache, for any number of threads, urls and versions:    *)
(* answers are whole, the cache covers an outage, and hits are no older    *)
(* than their TTL.                                                         *)
(***************************************************************************)
EXTENDS MCWebCache, TLAPS

Fetches == [status : {0, 200, 500}, aborted : BOOLEAN, body : Contents, header : Contents]

Reading == {"hitBody", "fallbackHeader"}
Saving  == {"saveBody", "saveHeader", "saveHeaderBytes"}

\* A step of one thread.
Step(t) == WebGet(t) \/ Flush(t) \/ \E c \in Calls : Call(t, c)

Busy(t) == pc[t] \notin {"idle", "flush"}

TypeOK ==
  /\ clock \in Nat /\ crashes \in Nat /\ origin \in [Urls -> Versions]
  /\ body \in [Urls -> Contents \cup {Absent}]
  /\ header \in [Urls -> Contents \cup {Absent}]
  /\ mtime \in [Urls -> Nat]
  /\ pc \in [Threads -> PC] /\ DOMAIN call = Threads
  /\ fetched \in [Threads -> Fetches] /\ answer \in [Threads -> Reply]
  /\ \A t \in Threads : Busy(t) => call[t] \in Calls

\* Who is inside the lock, and that a writer is alone.
LockIsHeld ==
  /\ readers = {t \in Threads : pc[t] \in Reading}
  /\ writers = {t \in Threads : pc[t] \in Saving \cup {"flush"}}
  /\ writers # {} => readers = {}
  /\ \A t, w \in writers : t = w

Base == TypeOK /\ LockIsHeld

-----------------------------------------------------------------------------
LEMMA UrlIsThere ==
  ASSUME NEW t \in Threads, TypeOK, Busy(t)
  PROVE  call[t] \in Calls /\ url(t) \in Urls /\ call[t].ttl \in Nat /\ call[t].headers \in BOOLEAN
BY WebCacheAssumption DEF TypeOK, Urls, url

LEMMA InitBase == Init => Base
BY WebCacheAssumption
   DEF Init, Base, TypeOK, LockIsHeld, Lock!Init, NotFetched, NoReply, Fetches, Reply, Contents,
       Versions, PC, Busy, Reading, Saving, Urls

\* What a download can end with.
LEMMA OutcomesAre ==
  ASSUME NEW t, NEW o \in Outcomes(t)
  PROVE  \/ \E st \in {0, 200, 500} : o = Outcome(t, st, FALSE)
         \/ o = Outcome(t, 200, TRUE)
<1>1. CASE Aborts
  BY <1>1, Zenon DEF Outcomes
<1>2. CASE ~Aborts
  BY <1>2, Zenon DEF Outcomes
<1> QED BY <1>1, <1>2

\* What a return of webGet leaves behind.
LEMMA ReturnTypes ==
  ASSUME TypeOK, NEW t \in Threads, NEW from, NEW reply \in Reply, Return(t, from, reply)
  PROVE  /\ pc' \in [Threads -> PC] /\ DOMAIN call' = Threads
         /\ fetched' \in [Threads -> Fetches] /\ answer' \in [Threads -> Reply]
         /\ \A s \in Threads : Busy(s)' => call'[s] \in Calls
<1>1. NotFetched \in Fetches
  BY DEF NotFetched, Fetches, Contents
<1> QED BY <1>1 DEF TypeOK, Return, Goto, PC, Busy

\* What a step of webGet that stays inside it, or leaves it, does to the types.
LEMMA TypeStep ==
  ASSUME TypeOK, NEW t \in Threads, Step(t)
  PROVE  TypeOK'
<1> USE WebCacheAssumption DEF Goto, Return, Busy, PC
<1>1. ASSUME NEW c \in Calls, Call(t, c) PROVE TypeOK'
  BY <1>1 DEF TypeOK, Call, world, files, locks, NoReply, Reply, Contents
<1>2. CASE Stat(t)
  BY <1>2 DEF TypeOK, Stat, world, files, locks
<1>3. CASE Hit(t)
  <2>1. FileGet(header, url(t)) \in Contents
    BY <1>3, UrlIsThere DEF Hit, TypeOK, FileGet, Contents
  <2>2. fetched' \in [Threads -> Fetches]
    <3> DEFINE h == IF call[t].headers THEN FileGet(header, url(t)) ELSE fetched[t].header
    <3>1. fetched[t] \in Fetches /\ h \in Contents
      BY <2>1 DEF TypeOK, Fetches
    <3>2. fetched' = [fetched EXCEPT ![t] = [fetched[t] EXCEPT !.header = h]]
      BY <1>3, Zenon DEF Hit
    <3> HIDE DEF h
    <3> QED BY <3>1, <3>2 DEF TypeOK, Fetches
  <2> QED BY <1>3, <2>2 DEF TypeOK, Hit, world, files
<1>4. CASE HitBody(t)
  <2>1. FileGet(body, url(t)) \in Contents
    BY <1>4, UrlIsThere DEF HitBody, TypeOK, FileGet, Contents
  <2>2. [body |-> FileGet(body, url(t)), header |-> fetched[t].header] \in Reply
    BY <2>1 DEF TypeOK, Fetches, Reply
  <2> QED BY <1>4, <2>2, ReturnTypes DEF TypeOK, HitBody, world, files
<1>5. CASE CurlGet(t)
  <2>1. Outcomes(t) \subseteq Fetches
    <3>1. url(t) \in Urls
      BY <1>5, UrlIsThere DEF CurlGet
    <3>2. origin[url(t)] \in Contents /\ Empty \in Contents /\ ErrorHead \in Contents
      BY <3>1 DEF TypeOK, Contents
    <3> SUFFICES ASSUME NEW o \in Outcomes(t) PROVE o \in Fetches
      OBVIOUS
    <3>3. CASE \E st \in {0, 200, 500} : o = Outcome(t, st, FALSE)
      BY <3>2, <3>3 DEF Outcome, Fetches
    <3>4. CASE o = Outcome(t, 200, TRUE)
      BY <3>2, <3>4 DEF Outcome, Fetches
    <3> QED BY <3>3, <3>4, OutcomesAre
  <2> QED BY <1>5, <2>1 DEF TypeOK, CurlGet, world, files, locks
<1>6. CASE ReturnUncached(t) \/ NoFallback(t)
  <2>1. [body |-> fetched[t].body, header |-> fetched[t].header] \in Reply
    BY DEF TypeOK, Fetches, Reply
  <2> QED BY <1>6, <2>1, ReturnTypes DEF TypeOK, ReturnUncached, NoFallback, world, files
<1>7. CASE StartSave(t) \/ StartFallback(t)
  BY <1>7 DEF TypeOK, StartSave, StartFallback, world, files, locks
<1>8. CASE Save(t)
  BY <1>8, UrlIsThere DEF TypeOK, Save, world, Contents
<1>9. CASE SaveBody(t)
  <2>1. /\ [body |-> fetched[t].body, header |-> fetched[t].header] \in Reply
        /\ fetched[t].body \in Contents
    BY DEF TypeOK, Fetches, Reply
  <2>2. body' \in [Urls -> Contents \cup {Absent}] /\ mtime' \in [Urls -> Nat]
    BY <1>9, <2>1, UrlIsThere DEF TypeOK, SaveBody, WriteBody
  <2>3. CASE call[t].headers
    BY <1>9, <2>2, <2>3 DEF TypeOK, SaveBody, WriteBody, world
  <2>4. CASE ~call[t].headers
    BY <1>9, <2>1, <2>2, <2>4, ReturnTypes DEF TypeOK, SaveBody, WriteBody, world
  <2> QED BY <2>3, <2>4
<1>10. CASE SaveHeader(t)
  BY <1>10, UrlIsThere DEF TypeOK, SaveHeader, world, locks, Contents
<1>11. CASE SaveHeaderBytes(t)
  <2>1. /\ [body |-> fetched[t].body, header |-> fetched[t].header] \in Reply
        /\ fetched[t].header \in Contents
    BY DEF TypeOK, Fetches, Reply
  <2>2. header' \in [Urls -> Contents \cup {Absent}]
    BY <1>11, <2>1, UrlIsThere DEF TypeOK, SaveHeaderBytes
  <2> QED BY <1>11, <2>1, <2>2, ReturnTypes DEF TypeOK, SaveHeaderBytes, world
<1>12. CASE Fallback(t)
  <2>1. FileGet(body, url(t)) \in Contents
    BY <1>12, UrlIsThere DEF Fallback, TypeOK, FileGet, Contents
  <2> QED BY <1>12, <2>1 DEF TypeOK, Fallback, world, files, Fetches
<1>13. CASE FallbackHeader(t)
  <2>1. FileGet(header, url(t)) \in Contents
    BY <1>13, UrlIsThere DEF FallbackHeader, TypeOK, FileGet, Contents
  <2>2. [body |-> fetched[t].body, header |-> IF call[t].headers THEN FileGet(header, url(t))
                                              ELSE fetched[t].header] \in Reply
    BY <2>1 DEF TypeOK, Fetches, Reply
  <2> QED BY <1>13, <2>2, ReturnTypes DEF TypeOK, FallbackHeader, world, files
<1>14. CASE Flush(t) \/ FlushDone(t)
  BY <1>14 DEF TypeOK, Flush, FlushDone, world, files
<1>15. CASE FlushFile(t)
  BY <1>15 DEF TypeOK, FlushFile, world, locks, threads
<1> QED BY <1>1, <1>2, <1>3, <1>4, <1>5, <1>6, <1>7, <1>8, <1>9, <1>10, <1>11, <1>12, <1>13, <1>14, <1>15
        DEF Step, WebGet

LEMMA LockStep ==
  ASSUME Base, NEW t \in Threads, Step(t)
  PROVE  LockIsHeld'
<1> USE DEF Base, TypeOK, LockIsHeld, Goto, Return, PC, Reading, Saving
<1>1. ASSUME NEW c \in Calls, Call(t, c) PROVE LockIsHeld'
  BY <1>1 DEF Call, locks
<1>2. CASE Stat(t) \/ CurlGet(t) \/ ReturnUncached(t) \/ NoFallback(t)
  BY <1>2 DEF Stat, CurlGet, ReturnUncached, NoFallback, locks
<1>3. CASE StartSave(t) \/ StartFallback(t) \/ SaveHeader(t) \/ FlushFile(t)
  BY <1>3 DEF StartSave, StartFallback, SaveHeader, FlushFile, locks, threads
<1>4. CASE Hit(t) \/ Fallback(t)
  BY <1>4 DEF Hit, Fallback, Lock!BeginRead
<1>5. CASE HitBody(t) \/ FallbackHeader(t)
  BY <1>5 DEF HitBody, FallbackHeader, Lock!EndRead
<1>6. CASE Save(t) \/ Flush(t)
  BY <1>6 DEF Save, Flush, Lock!BeginWrite
<1>7. CASE SaveBody(t)
  BY <1>7 DEF SaveBody, locks, Lock!EndWrite
<1>8. CASE SaveHeaderBytes(t) \/ FlushDone(t)
  BY <1>8 DEF SaveHeaderBytes, FlushDone, Lock!EndWrite
<1> QED BY <1>1, <1>2, <1>3, <1>4, <1>5, <1>6, <1>7, <1>8 DEF Step, WebGet

LEMMA NextBase == Base /\ [Next]_vars => Base'
<1> SUFFICES ASSUME Base, [Next]_vars PROVE Base'
  OBVIOUS
<1>1. ASSUME NEW t \in Threads, Step(t) PROVE Base'
  BY <1>1, TypeStep, LockStep DEF Base
<1>2. ASSUME NEW u \in Urls, Publish(u) PROVE Base'
  BY <1>2, WebCacheAssumption
     DEF Base, TypeOK, LockIsHeld, Publish, files, locks, threads, Busy, Versions
<1>3. CASE Tick
  BY <1>3 DEF Base, TypeOK, LockIsHeld, Tick, files, locks, threads, Busy
<1>4. CASE Crash
  BY <1>4, WebCacheAssumption
     DEF Base, TypeOK, LockIsHeld, Crash, files, PC, Busy, Reading, Saving, NotFetched, NoReply,
         Fetches, Reply, Contents
<1>5. CASE UNCHANGED vars
  BY <1>5 DEF Base, TypeOK, LockIsHeld, vars, world, files, locks, threads, Busy
<1> QED BY <1>1, <1>2, <1>3, <1>4, <1>5 DEF Next, Step

-----------------------------------------------------------------------------
\* A step of one thread leaves the calls of the others alone.
LEMMA OthersStay ==
  ASSUME TypeOK, NEW t \in Threads, NEW s \in Threads, s # t, Step(t)
  PROVE  pc'[s] = pc[s] /\ call'[s] = call[s] /\ fetched'[s] = fetched[s] /\ answer'[s] = answer[s]
<1> USE DEF TypeOK, Goto, Return
<1>1. ASSUME NEW c \in Calls, Call(t, c)
      PROVE  pc'[s] = pc[s] /\ call'[s] = call[s] /\ fetched'[s] = fetched[s] /\ answer'[s] = answer[s]
  BY <1>1 DEF Call
<1> QED BY <1>1 DEF Step, WebGet, Stat, Hit, HitBody, CurlGet, ReturnUncached, StartSave, Save, SaveBody,
                SaveHeader, SaveHeaderBytes, NoFallback, StartFallback, Fallback, FallbackHeader,
                FlushFile, FlushDone, Flush, threads

\* Who changes a file is alone in the lock.
LEMMA WriterIsAlone ==
  ASSUME Base, NEW t \in Threads, Step(t), files' # files
  PROVE  /\ pc[t] \in {"save", "flush"} \cup Saving
         /\ \A s \in Threads : s # t => pc[s] \notin Reading \cup Saving \cup {"flush"}
<1>1. Save(t) \/ SaveBody(t) \/ SaveHeader(t) \/ SaveHeaderBytes(t) \/ FlushFile(t)
  BY DEF Step, WebGet, Stat, Hit, HitBody, CurlGet, ReturnUncached, StartSave, NoFallback, StartFallback,
         Fallback, FallbackHeader, FlushDone, Flush, Call, files
<1>2. CASE Save(t)
  BY <1>2 DEF Base, LockIsHeld, Save, Goto, Lock!BeginWrite
<1>3. CASE SaveBody(t) \/ SaveHeader(t) \/ SaveHeaderBytes(t) \/ FlushFile(t)
  <2>1. pc[t] \in Saving \cup {"flush"}
    BY <1>3 DEF SaveBody, SaveHeader, SaveHeaderBytes, FlushFile, Goto, Return, Saving
  <2>2. t \in writers /\ readers = {}
    BY <2>1 DEF Base, LockIsHeld
  <2> QED BY <2>1, <2>2 DEF Base, LockIsHeld
<1> QED BY <1>1, <1>2, <1>3

-----------------------------------------------------------------------------
\* What a thread has downloaded: one version, or nothing, until it returns.
FetchIsWhole(t) ==
  LET f == fetched[t]
      got == f.status = 200 /\ ~f.aborted
  IN  /\ pc[t] \in {"fetched", "save", "fallback"} \cup Saving =>
           /\ got => f.body \in Versions /\ (call[t].headers => f.header = f.body)
           /\ ~got => f.body = Empty
           /\ f.header # Torn
      /\ pc[t] \in {"save"} \cup Saving => f.status = 200
      /\ pc[t] \in {"fallback", "fallbackHeader"} => f.status # 200
      /\ pc[t] \in {"saveHeader", "saveHeaderBytes"} => call[t].headers
      /\ f.aborted => f.status = 200 /\ pc[t] \in {"fetched", "save"} \cup Saving

Fetched == \A t \in Threads : FetchIsWhole(t)

LEMMA NextFetched == Base /\ Fetched /\ [Next]_vars => Fetched'
<1> SUFFICES ASSUME Base, Fetched, [Next]_vars PROVE Fetched'
  OBVIOUS
<1>1. ASSUME NEW t \in Threads, Step(t) PROVE FetchIsWhole(t)'
  <2> USE <1>1 DEF Base, TypeOK, Fetched, FetchIsWhole, Goto, Return, Saving
  <2>1. ASSUME NEW c \in Calls, Call(t, c) PROVE FetchIsWhole(t)'
    BY <2>1 DEF Call
  <2>2. CASE Stat(t) \/ FlushFile(t) \/ Flush(t) \/ FlushDone(t)
    BY <2>2 DEF Stat, FlushFile, Flush, FlushDone, threads
  <2>3. CASE HitBody(t) \/ ReturnUncached(t) \/ NoFallback(t) \/ FallbackHeader(t) \/ SaveHeaderBytes(t)
    BY <2>3 DEF HitBody, ReturnUncached, NoFallback, FallbackHeader, SaveHeaderBytes, NotFetched
  <2>4. CASE CurlGet(t)
    <3>1. PICK o \in Outcomes(t) : fetched' = [fetched EXCEPT ![t] = o]
      BY <2>4 DEF CurlGet
    <3>3. origin[url(t)] \in Versions
      BY <2>4, UrlIsThere DEF CurlGet, Busy
    <3>4. fetched'[t] = o /\ pc'[t] = "fetched" /\ call'[t] = call[t]
      BY <2>4, <3>1 DEF CurlGet
    <3>5. Torn \notin {Empty, ErrorHead} \cup Versions
      BY WebCacheAssumption DEF Versions
    <3>6. CASE \E st \in {0, 200, 500} : o = Outcome(t, st, FALSE)
      BY <3>3, <3>4, <3>5, <3>6 DEF Outcome
    <3>7. CASE o = Outcome(t, 200, TRUE)
      BY <3>3, <3>4, <3>5, <3>7 DEF Outcome
    <3> QED BY <3>6, <3>7, OutcomesAre
  <2>5. CASE StartSave(t) \/ StartFallback(t) \/ Save(t) \/ SaveHeader(t)
    BY <2>5 DEF StartSave, StartFallback, Save, SaveHeader
  <2>6. CASE SaveBody(t)
    BY <2>6 DEF SaveBody, NotFetched
  <2>7. CASE Fallback(t)
    BY <2>7 DEF Fallback
  <2>8. CASE Hit(t)
    <3>1. fetched[t] \in Fetches
      OBVIOUS
    <3>2. fetched'[t].status = fetched[t].status /\ fetched'[t].aborted = fetched[t].aborted
      BY <2>8, <3>1 DEF Hit, Fetches
    <3> QED BY <2>8, <3>2 DEF Hit
  <2> QED BY <2>1, <2>2, <2>3, <2>4, <2>5, <2>6, <2>7, <2>8 DEF Step, WebGet
<1>2. ASSUME NEW t \in Threads, Step(t), NEW s \in Threads, s # t PROVE FetchIsWhole(s)'
  BY <1>2, OthersStay DEF Base, Fetched, FetchIsWhole
<1>3. CASE Crash
  BY <1>3 DEF Crash, Fetched, FetchIsWhole, NotFetched, Saving
<1>4. CASE UNCHANGED threads
  BY <1>4 DEF threads, Fetched, FetchIsWhole
<1>5. ASSUME NEW u \in Urls, Publish(u) PROVE UNCHANGED threads
  BY <1>5 DEF Publish
<1>6. CASE UNCHANGED vars \/ Tick
  BY <1>4, <1>6 DEF vars, Tick
<1> QED BY <1>1, <1>2, <1>3, <1>4, <1>5, <1>6 DEF Next, Step, Fetched

-----------------------------------------------------------------------------
\* A file is torn only while somebody writes it, so nobody reads it then.
NothingTorn ==
  /\ \A u \in Urls :
       /\ body[u] = Torn => \E w \in Threads : pc[w] = "saveBody" /\ url(w) = u
       /\ header[u] = Torn => \E w \in Threads : pc[w] = "saveHeaderBytes" /\ url(w) = u
  /\ \A t \in Threads : /\ answer[t].body # Torn /\ answer[t].header # Torn
                         /\ fetched[t].body # Torn /\ fetched[t].header # Torn

LEMMA ReadersSeeNoTear ==
  ASSUME Base, NothingTorn, NEW u \in Urls, writers = {}
  PROVE  FileGet(body, u) # Torn /\ FileGet(header, u) # Torn
<1>1. Empty # Torn
  BY WebCacheAssumption
<1> QED BY <1>1 DEF Base, LockIsHeld, NothingTorn, FileGet, Saving

\* No step of a thread tears what others, or it, will hand out.
LEMMA TornStep ==
  ASSUME Base, Fetched, NothingTorn, NEW t \in Threads, Step(t)
  PROVE  NothingTorn'
<1> DEFINE Mine == /\ answer'[t].body # Torn /\ answer'[t].header # Torn
                   /\ fetched'[t].body # Torn /\ fetched'[t].header # Torn
<1>1. Mine
  <2>1. Empty # Torn /\ ErrorHead # Torn /\ \A v \in Versions : v # Torn
    BY WebCacheAssumption DEF Versions
  <2>2. /\ answer[t].body # Torn /\ answer[t].header # Torn
        /\ fetched[t].body # Torn /\ fetched[t].header # Torn
        /\ t \in DOMAIN answer /\ t \in DOMAIN fetched
    BY DEF NothingTorn, Base, TypeOK
  <2>3. ASSUME NEW c \in Calls, Call(t, c) PROVE Mine
    BY <2>1, <2>2, <2>3 DEF Call, NoReply
  <2>4. CASE UNCHANGED <<fetched, answer>>
    BY <2>2, <2>4
  <2>5. CASE Stat(t) \/ Flush(t) \/ FlushDone(t) \/ FlushFile(t) \/ StartSave(t) \/ StartFallback(t)
             \/ Save(t) \/ SaveHeader(t)
    BY <2>4, <2>5 DEF Stat, Flush, FlushDone, FlushFile, StartSave, StartFallback, Save, SaveHeader, threads
  <2>6. CASE ReturnUncached(t) \/ NoFallback(t) \/ SaveHeaderBytes(t)
    BY <2>1, <2>2, <2>6 DEF ReturnUncached, NoFallback, SaveHeaderBytes, Return, NotFetched
  <2>7. CASE SaveBody(t)
    BY <2>1, <2>2, <2>4, <2>7 DEF SaveBody, Return, NotFetched
  <2>8. ASSUME Hit(t) \/ HitBody(t) \/ Fallback(t) \/ FallbackHeader(t)
        PROVE  FileGet(body, url(t)) # Torn /\ FileGet(header, url(t)) # Torn
    <3>1. writers = {}
      BY <2>8 DEF Hit, HitBody, Fallback, FallbackHeader, Lock!BeginRead, Lock!EndRead, Base, LockIsHeld
    <3>2. url(t) \in Urls
      BY <2>8, UrlIsThere DEF Hit, HitBody, Fallback, FallbackHeader, Goto, Return, Base, Busy
    <3> QED BY <3>1, <3>2, ReadersSeeNoTear
  <2>9. CASE Hit(t)
    <3>1. fetched[t] \in Fetches
      BY DEF Base, TypeOK
    <3>2. /\ fetched'[t].body = fetched[t].body /\ answer' = answer
          /\ fetched'[t].header \in {FileGet(header, url(t)), fetched[t].header}
      BY <2>2, <2>9, <3>1 DEF Hit, Fetches
    <3> QED BY <2>2, <2>8, <2>9, <3>2
  <2>10. CASE HitBody(t)
    BY <2>1, <2>2, <2>8, <2>10 DEF HitBody, Return, NotFetched
  <2>11. CASE Fallback(t)
    <3>1. fetched[t] \in Fetches
      BY DEF Base, TypeOK
    <3>2. /\ fetched'[t].body = FileGet(body, url(t)) /\ answer' = answer
          /\ fetched'[t].header = fetched[t].header
      BY <2>2, <2>11, <3>1 DEF Fallback, Fetches
    <3> QED BY <2>2, <2>8, <2>11, <3>2
  <2>12. CASE FallbackHeader(t)
    BY <2>1, <2>2, <2>8, <2>12 DEF FallbackHeader, Return, NotFetched
  <2>13. CASE CurlGet(t)
    <3>1. PICK o \in Outcomes(t) : fetched'[t] = o
      BY <2>2, <2>13 DEF CurlGet
    <3>2. origin[url(t)] \in Versions
      BY <2>13, UrlIsThere DEF CurlGet, Goto, Busy, Base, TypeOK
    <3>3. o.body # Torn /\ o.header # Torn
      <4>1. CASE \E st \in {0, 200, 500} : o = Outcome(t, st, FALSE)
        BY <2>1, <3>2, <4>1 DEF Outcome
      <4>2. CASE o = Outcome(t, 200, TRUE)
        BY <2>1, <3>2, <4>2 DEF Outcome
      <4> QED BY <4>1, <4>2, OutcomesAre
    <3> QED BY <2>2, <2>13, <3>1, <3>3 DEF CurlGet
  <2> HIDE DEF Mine
  <2> QED BY <2>3, <2>5, <2>6, <2>7, <2>9, <2>10, <2>11, <2>12, <2>13 DEF Step, WebGet
<1>2. ASSUME NEW u \in Urls
      PROVE  /\ body'[u] = Torn => \E w \in Threads : pc'[w] = "saveBody" /\ url(w)' = u
             /\ header'[u] = Torn => \E w \in Threads : pc'[w] = "saveHeaderBytes" /\ url(w)' = u
  <2>1. Absent # Torn /\ fetched[t].body # Torn /\ fetched[t].header # Torn
    BY WebCacheAssumption DEF NothingTorn
  <2>2. \A s \in Threads : s # t => pc'[s] = pc[s] /\ url(s)' = url(s)
    BY OthersStay DEF Base, url
  <2>3. CASE UNCHANGED <<body, header>> /\ pc[t] \notin {"saveBody", "saveHeaderBytes"}
    BY <2>2, <2>3 DEF NothingTorn
  <2>4. ASSUME NEW c \in Calls, Call(t, c)
        PROVE  UNCHANGED <<body, header>> /\ pc[t] \notin {"saveBody", "saveHeaderBytes"}
    BY <2>4 DEF Call, Goto, files
  <2>5. CASE Stat(t) \/ Hit(t) \/ HitBody(t) \/ CurlGet(t) \/ ReturnUncached(t) \/ StartSave(t)
             \/ NoFallback(t) \/ StartFallback(t) \/ Fallback(t) \/ FallbackHeader(t) \/ FlushDone(t)
             \/ Flush(t)
    BY <2>3, <2>5 DEF Stat, Hit, HitBody, CurlGet, ReturnUncached, StartSave, NoFallback, StartFallback,
                      Fallback, FallbackHeader, FlushDone, Flush, Goto, Return, files
  <2>6. CASE Save(t)
    BY <2>2, <2>6 DEF Save, Goto, NothingTorn, Base, TypeOK, url
  <2>7. CASE SaveBody(t)
    <3>1. pc[t] = "saveBody" /\ header' = header
      BY <2>7 DEF SaveBody, WriteBody, Goto, Return
    <3>2. body'[u] = IF u = url(t) THEN fetched[t].body ELSE body[u]
      BY <2>7 DEF SaveBody, WriteBody, Base, TypeOK
    <3> QED BY <2>1, <2>2, <3>1, <3>2 DEF NothingTorn
  <2>8. CASE SaveHeader(t)
    <3>1. pc[t] = "saveHeader" /\ pc'[t] = "saveHeaderBytes" /\ body' = body /\ url(t)' = url(t)
      BY <2>8 DEF SaveHeader, Goto, Base, TypeOK, url
    <3>2. header'[u] = IF u = url(t) THEN Torn ELSE header[u]
      BY <2>8 DEF SaveHeader, Base, TypeOK
    <3> QED BY <2>2, <3>1, <3>2 DEF NothingTorn
  <2>9. CASE SaveHeaderBytes(t)
    <3>1. pc[t] = "saveHeaderBytes" /\ body' = body
      BY <2>9 DEF SaveHeaderBytes, Goto, Return
    <3>2. header'[u] = IF u = url(t) THEN fetched[t].header ELSE header[u]
      BY <2>9 DEF SaveHeaderBytes, Base, TypeOK
    <3> QED BY <2>1, <2>2, <3>1, <3>2 DEF NothingTorn
  <2>10. CASE FlushFile(t)
    BY <2>1, <2>2, <2>10 DEF FlushFile, threads, NothingTorn, Base, TypeOK, url
  <2> QED BY <2>3, <2>4, <2>5, <2>6, <2>7, <2>8, <2>9, <2>10 DEF Step, WebGet
<1>3. ASSUME NEW s \in Threads, s # t
      PROVE  /\ answer'[s].body # Torn /\ answer'[s].header # Torn
             /\ fetched'[s].body # Torn /\ fetched'[s].header # Torn
  BY <1>3, OthersStay DEF Base, NothingTorn
<1> QED BY <1>1, <1>2, <1>3 DEF NothingTorn

-----------------------------------------------------------------------------
(* Where everybody asks for the headers and no transfer breaks off, the two *)
(* files of a url are of one download whenever nobody writes them.          *)

Coherent(u) == header[u] = body[u] /\ body[u] \in Versions \cup {Absent}
BeingWritten(u) == \E w \in Threads : pc[w] = "flush" \/ (pc[w] \in Saving /\ url(w) = u)

CallIsOfOneDownload(t) ==
  /\ ~fetched[t].aborted /\ (Busy(t) => call[t].headers)
  /\ pc[t] \in {"saveHeader", "saveHeaderBytes"} => body[url(t)] = fetched[t].body
  /\ pc[t] = "hitBody" => fetched[t].header = FileGet(header, url(t))
  /\ pc[t] = "fallbackHeader" => fetched[t].body = FileGet(body, url(t))
  /\ ~Busy(t) /\ answer[t].body \in Versions => answer[t].header = answer[t].body

FilesAgree ==
  /\ \A u \in Urls : Coherent(u) \/ BeingWritten(u)
  /\ \A t \in Threads : CallIsOfOneDownload(t)

LEMMA ReadersSeeOneDownload ==
  ASSUME Base, FilesAgree, NEW u \in Urls, writers = {}
  PROVE  FileGet(header, u) = FileGet(body, u)
<1>1. ~BeingWritten(u)
  BY DEF BeingWritten, Base, LockIsHeld
<1> QED BY <1>1 DEF FilesAgree, Coherent, FileGet

\* One step keeps the two files of a url together.
LEMMA CoherentStep ==
  ASSUME Base, Fetched, FilesAgree, NEW t \in Threads, Step(t), NEW u \in Urls
  PROVE  (Coherent(u) \/ BeingWritten(u))'
<1>1. \A s \in Threads : s # t => pc'[s] = pc[s] /\ url(s)' = url(s)
  BY OthersStay DEF Base, url
<1>2. CASE UNCHANGED <<body, header>> /\ pc[t] \notin Saving \cup {"flush"}
  BY <1>1, <1>2 DEF FilesAgree, Coherent, BeingWritten
<1>3. ASSUME NEW c \in Calls, Call(t, c)
      PROVE  UNCHANGED <<body, header>> /\ pc[t] \notin Saving \cup {"flush"}
  BY <1>3 DEF Call, Goto, files, Saving
<1>4. CASE Stat(t) \/ Hit(t) \/ HitBody(t) \/ CurlGet(t) \/ ReturnUncached(t) \/ StartSave(t)
           \/ NoFallback(t) \/ StartFallback(t) \/ Fallback(t) \/ FallbackHeader(t) \/ Flush(t)
  BY <1>2, <1>4 DEF Stat, Hit, HitBody, CurlGet, ReturnUncached, StartSave, NoFallback, StartFallback,
                    Fallback, FallbackHeader, Flush, Goto, Return, files, Saving
<1>5. ASSUME pc'[t] = "flush" \/ (pc'[t] \in Saving /\ url(t)' = u)
      PROVE  BeingWritten(u)'
  BY <1>5 DEF BeingWritten
<1>6. CASE FlushFile(t)
  BY <1>5, <1>6 DEF FlushFile, threads
<1>7. CASE FlushDone(t)
  BY <1>7 DEF FlushDone, files, Coherent
<1>8. CASE Save(t) \/ SaveBody(t) \/ SaveHeader(t)
  <2>1. call[t].headers
    BY <1>8, UrlIsThere DEF FilesAgree, CallIsOfOneDownload, Save, SaveBody, SaveHeader, Goto, Return, Busy, Base
  <2>2. pc'[t] \in Saving /\ url(t)' = url(t) /\ pc[t] # "flush"
    BY <1>8, <2>1 DEF Save, SaveBody, SaveHeader, Goto, Saving, Base, TypeOK, url
  <2>3. CASE u = url(t)
    BY <1>5, <2>2, <2>3
  <2>4. CASE u # url(t)
    <3>1. body'[u] = body[u] /\ header'[u] = header[u]
      BY <1>8, <2>4 DEF Save, SaveBody, WriteBody, SaveHeader, Base, TypeOK
    <3> QED BY <1>1, <2>2, <2>4, <3>1 DEF FilesAgree, Coherent, BeingWritten
  <2> QED BY <2>3, <2>4
<1>9. CASE SaveHeaderBytes(t)
  <2>1. pc[t] = "saveHeaderBytes" /\ body' = body
    BY <1>9 DEF SaveHeaderBytes, Return, Goto
  <2>2. header'[u] = IF u = url(t) THEN fetched[t].header ELSE header[u]
    BY <1>9 DEF SaveHeaderBytes, Base, TypeOK
  <2>3. CASE u = url(t)
    <3>1. call[t].headers /\ ~fetched[t].aborted /\ body[u] = fetched[t].body
      BY <2>1, <2>3 DEF FilesAgree, CallIsOfOneDownload, Busy
    <3>2. fetched[t].header = fetched[t].body /\ fetched[t].body \in Versions
      BY <2>1, <3>1 DEF Fetched, FetchIsWhole, Saving
    <3> QED BY <2>1, <2>2, <2>3, <3>1, <3>2 DEF Coherent
  <2>4. CASE u # url(t)
    BY <1>1, <2>1, <2>2, <2>4 DEF FilesAgree, Coherent, BeingWritten
  <2> QED BY <2>3, <2>4
<1> QED BY <1>2, <1>3, <1>4, <1>6, <1>7, <1>8, <1>9 DEF Step, WebGet

\* A call goes on with what it has of one download, and answers with it.
LEMMA OwnCallStep ==
  ASSUME Base, Fetched, FilesAgree, NEW t \in Threads, Step(t),
         ~fetched'[t].aborted, pc[t] = "idle" /\ Busy(t)' => call'[t].headers
  PROVE  CallIsOfOneDownload(t)'
<1> USE DEF CallIsOfOneDownload, Busy
<1>1. /\ pc \in [Threads -> PC] /\ DOMAIN call = Threads
      /\ fetched[t] \in Fetches /\ t \in DOMAIN fetched /\ t \in DOMAIN answer
  BY DEF Base, TypeOK
<1>2. CallIsOfOneDownload(t) /\ FetchIsWhole(t)
  BY DEF FilesAgree, Fetched
<1>3. Empty \notin Versions
  BY WebCacheAssumption DEF Versions
<1>4. ASSUME NEW c \in Calls, Call(t, c) PROVE CallIsOfOneDownload(t)'
  BY <1>1, <1>3, <1>4 DEF Call, Goto, NoReply
<1>5. CASE Stat(t) \/ CurlGet(t) \/ StartSave(t) \/ StartFallback(t) \/ Save(t)
  BY <1>1, <1>2, <1>5 DEF Stat, CurlGet, StartSave, StartFallback, Save, Goto
<1>6. CASE Flush(t) \/ FlushFile(t) \/ FlushDone(t)
  BY <1>1, <1>2, <1>6 DEF Flush, FlushFile, FlushDone, Goto, threads
<1>7. ASSUME Hit(t) \/ HitBody(t) \/ Fallback(t) \/ FallbackHeader(t)
      PROVE  FileGet(header, url(t)) = FileGet(body, url(t))
  <2>1. writers = {}
    BY <1>7 DEF Hit, HitBody, Fallback, FallbackHeader, Lock!BeginRead, Lock!EndRead, Base, LockIsHeld
  <2>2. url(t) \in Urls
    BY <1>7, UrlIsThere DEF Hit, HitBody, Fallback, FallbackHeader, Goto, Return, Base
  <2> QED BY <2>1, <2>2, ReadersSeeOneDownload
<1>8. CASE Hit(t)
  <2>1. call[t].headers /\ pc'[t] = "hitBody" /\ call' = call /\ UNCHANGED <<body, header>>
    BY <1>1, <1>2, <1>8 DEF Hit, Goto, files
  <2>2. fetched'[t].header = FileGet(header, url(t))
    BY <1>1, <1>8, <2>1 DEF Hit, Fetches
  <2> QED BY <2>1, <2>2 DEF url, FileGet
<1>9. CASE Fallback(t)
  <2>1. call[t].headers /\ pc'[t] = "fallbackHeader" /\ call' = call /\ UNCHANGED <<body, header>>
    BY <1>1, <1>2, <1>9 DEF Fallback, Goto, files
  <2>2. fetched'[t].body = FileGet(body, url(t))
    BY <1>1, <1>9 DEF Fallback, Fetches
  <2> QED BY <2>1, <2>2 DEF url, FileGet
<1>10. CASE HitBody(t)
  BY <1>1, <1>2, <1>7, <1>10 DEF HitBody, Return, Goto
<1>11. CASE FallbackHeader(t)
  BY <1>1, <1>2, <1>7, <1>11 DEF FallbackHeader, Return, Goto
<1>12. CASE ReturnUncached(t) \/ NoFallback(t) \/ SaveHeaderBytes(t)
  BY <1>1, <1>2, <1>3, <1>12 DEF ReturnUncached, NoFallback, SaveHeaderBytes, Return, Goto, FetchIsWhole, Saving
<1>13. CASE SaveBody(t)
  <2>1. /\ call[t].headers /\ pc'[t] = "saveHeader" /\ UNCHANGED <<call, fetched>>
        /\ body' = [body EXCEPT ![url(t)] = fetched[t].body]
    BY <1>1, <1>2, <1>13 DEF SaveBody, WriteBody, Goto, Return
  <2>2. url(t) \in Urls
    BY <1>13, UrlIsThere DEF SaveBody, Goto, Return, Base
  <2> QED BY <2>1, <2>2 DEF Base, TypeOK, url
<1>14. CASE SaveHeader(t)
  BY <1>1, <1>2, <1>14 DEF SaveHeader, Goto, url
<1> QED BY <1>4, <1>5, <1>6, <1>8, <1>9, <1>10, <1>11, <1>12, <1>13, <1>14 DEF Step, WebGet

LEMMA OtherCallStep ==
  ASSUME Base, FilesAgree, NEW t \in Threads, Step(t), NEW s \in Threads, s # t
  PROVE  CallIsOfOneDownload(s)'
<1>1. pc'[s] = pc[s] /\ call'[s] = call[s] /\ fetched'[s] = fetched[s] /\ answer'[s] = answer[s]
  BY OthersStay DEF Base
<1>2. pc[s] \in Reading \cup Saving => UNCHANGED <<body, header>>
  BY WriterIsAlone DEF files
<1> QED BY <1>1, <1>2 DEF FilesAgree, CallIsOfOneDownload, Busy, FileGet, url, Reading, Saving

LEMMA NextTorn ==
  Base /\ Fetched /\ (crashes = 0 => NothingTorn) /\ [Next]_vars => (crashes = 0 => NothingTorn)'
<1> SUFFICES ASSUME Base, Fetched, crashes = 0 => NothingTorn, [Next]_vars, crashes' = 0
             PROVE  NothingTorn'
  OBVIOUS
<1>1. ASSUME NEW t \in Threads, Step(t) PROVE NothingTorn'
  <2>1. crashes' = crashes
    BY <1>1 DEF Step, WebGet, Stat, Hit, HitBody, CurlGet, ReturnUncached, StartSave, Save, SaveBody,
                WriteBody, SaveHeader, SaveHeaderBytes, NoFallback, StartFallback, Fallback,
                FallbackHeader, FlushFile, FlushDone, Flush, Call, world
  <2> QED BY <1>1, <2>1, TornStep
<1>2. ASSUME UNCHANGED <<crashes, files, threads>> PROVE NothingTorn'
  BY <1>2 DEF NothingTorn, files, threads, url
<1>3. CASE Tick \/ (\E u \in Urls : Publish(u)) \/ UNCHANGED vars
  BY <1>2, <1>3 DEF Tick, Publish, vars, world
<1>4. ~Crash
  BY DEF Crash, Base, TypeOK
<1> QED BY <1>1, <1>3, <1>4 DEF Next, Step

\* Where those who call ask for the headers and nothing breaks off, the files and
\* the calls stay together.
LEMMA AgreeStep ==
  ASSUME Base, Fetched, FilesAgree, [Next]_vars, crashes' = crashes,
         \A t \in Threads : ~fetched'[t].aborted,
         \A t \in Threads : Calling(t) => call'[t].headers
  PROVE  FilesAgree'
<1>1. ASSUME UNCHANGED <<files, threads>> PROVE FilesAgree'
  BY <1>1 DEF FilesAgree, Coherent, BeingWritten, CallIsOfOneDownload, Busy, FileGet, files,
              threads, url
<1>2. CASE Tick \/ (\E u \in Urls : Publish(u)) \/ UNCHANGED vars
  BY <1>1, <1>2 DEF Tick, Publish, vars
<1>3. ~Crash
  BY DEF Crash, Base, TypeOK
<1>4. ASSUME NEW t \in Threads, Step(t) PROVE FilesAgree'
  <2>1. \A u \in Urls : (Coherent(u) \/ BeingWritten(u))'
    BY <1>4, CoherentStep
  <2>2. pc[t] = "idle" /\ Busy(t)' => call'[t].headers
    <3> SUFFICES ASSUME pc[t] = "idle", Busy(t)' PROVE call'[t].headers
      OBVIOUS
    <3>1. \E c \in Calls : Call(t, c)
      BY <1>4 DEF Step, WebGet, Stat, Hit, HitBody, CurlGet, ReturnUncached, StartSave, Save, SaveBody,
                  SaveHeader, SaveHeaderBytes, NoFallback, StartFallback, Fallback, FallbackHeader,
                  FlushFile, FlushDone, Flush, Goto, Return, Busy, Base, TypeOK
    <3>2. Calling(t)
      BY <3>1 DEF Call, Calling, Goto, Base, TypeOK
    <3> QED BY <3>2
  <2>3. CallIsOfOneDownload(t)'
    BY <1>4, <2>2, OwnCallStep
  <2>4. \A s \in Threads : s # t => CallIsOfOneDownload(s)'
    BY <1>4, OtherCallStep
  <2> QED BY <2>1, <2>3, <2>4 DEF FilesAgree
<1> QED BY <1>2, <1>3, <1>4 DEF Next, Step

LEMMA NextAgree ==
  /\ Base /\ Fetched /\ (use = "subscription" => FilesAgree) /\ [MCNext]_mcVars
  => (use = "subscription" => FilesAgree)'
<1> SUFFICES ASSUME Base, Fetched, use = "subscription" => FilesAgree, [MCNext]_mcVars,
                    use' = "subscription"
             PROVE  FilesAgree'
  OBVIOUS
<1>1. FilesAgree /\ [Next]_vars /\ use = "subscription"
  BY DEF MCNext, mcVars
<1>2. CASE UNCHANGED mcVars
  BY <1>1, <1>2 DEF mcVars, vars, FilesAgree, Coherent, BeingWritten, CallIsOfOneDownload, Busy,
                    FileGet, files, threads, url
<1>3. CASE MCNext
  <2>1. crashes' = crashes /\ \A s \in Threads : ~fetched'[s].aborted
    BY <1>1, <1>3 DEF MCNext, Broken
  <2>2. \A t \in Threads : Calling(t) => call'[t].headers
    BY <1>1, <1>3 DEF MCNext, CallsOf
  <2> QED BY <1>1, <2>1, <2>2, AgreeStep
<1> QED BY <1>2, <1>3

LEMMA InitAgrees == Init => Fetched /\ NothingTorn /\ FilesAgree
<1> SUFFICES ASSUME Init PROVE Fetched /\ NothingTorn /\ FilesAgree
  OBVIOUS
<1>1. Empty # Torn /\ Absent # Torn /\ Empty \notin Versions
  BY WebCacheAssumption DEF Versions
<1>2. Fetched
  <2>1. \A t \in Threads : pc[t] = "idle" /\ ~fetched[t].aborted
    BY DEF Init, NotFetched
  <2> QED BY <2>1 DEF Fetched, FetchIsWhole, Saving
<1>3. NothingTorn
  BY <1>1 DEF Init, NothingTorn, NotFetched, NoReply
<1>4. FilesAgree
  BY <1>1 DEF Init, FilesAgree, Coherent, CallIsOfOneDownload, Busy, NotFetched, NoReply
<1> QED BY <1>2, <1>3, <1>4

-----------------------------------------------------------------------------
\* While the process lives no call of webGet() hands out a file another thread is
\* half way through writing: for any threads and urls, callers with and without
\* headers, transfers that break off, and flushes.
THEOREM NoAnswerIsTorn == Spec => []NoTornAnswer
<1> DEFINE Inv == Base /\ Fetched /\ (crashes = 0 => NothingTorn)
<1>1. Init => Inv
  BY InitBase, InitAgrees
<1>2. Inv /\ [Next]_vars => Inv'
  BY NextBase, NextFetched, NextTorn
<1>3. Inv => NoTornAnswer
  BY DEF NoTornAnswer, NothingTorn
<1> QED BY <1>1, <1>2, <1>3, PTL DEF Spec

\* The headers of an answer with content are those its body came with.
HeadersOfTheBody ==
  \A t \in Threads :
    pc[t] = "idle" /\ answer[t].body \in Versions => answer[t].header = answer[t].body

\* No step breaks a transfer off where none may.
LEMMA NothingBreaksOff ==
  ASSUME ~Aborts, Base, [Next]_vars, \A t \in Threads : ~fetched[t].aborted
  PROVE  \A t \in Threads : ~fetched'[t].aborted
<1>1. ASSUME NEW t \in Threads, Step(t) PROVE ~fetched'[t].aborted
  <2>1. fetched \in [Threads -> Fetches] /\ fetched[t] \in Fetches
    BY DEF Base, TypeOK
  <2>2. CASE CurlGet(t)
    BY <2>1, <2>2 DEF CurlGet, Outcomes, Outcome
  <2>3. CASE Hit(t) \/ Fallback(t)
    BY <2>1, <2>3 DEF Hit, Fallback, Fetches
  <2>4. CASE HitBody(t) \/ ReturnUncached(t) \/ NoFallback(t) \/ FallbackHeader(t) \/ SaveHeaderBytes(t)
    BY <2>1, <2>4 DEF HitBody, ReturnUncached, NoFallback, FallbackHeader, SaveHeaderBytes, Return, NotFetched
  <2>5. CASE SaveBody(t)
    BY <2>1, <2>5 DEF SaveBody, Return, NotFetched
  <2>6. CASE UNCHANGED fetched
    BY <2>6
  <2>7. ASSUME NEW c \in Calls, Call(t, c) PROVE UNCHANGED fetched
    BY <2>7 DEF Call
  <2>8. CASE Stat(t) \/ StartSave(t) \/ Save(t) \/ SaveHeader(t) \/ StartFallback(t) \/ Flush(t)
             \/ FlushFile(t) \/ FlushDone(t)
    BY <2>6, <2>8 DEF Stat, StartSave, Save, SaveHeader, StartFallback, Flush, FlushFile, FlushDone, threads
  <2> QED BY <1>1, <2>2, <2>3, <2>4, <2>5, <2>6, <2>7, <2>8 DEF Step, WebGet
<1>2. ASSUME NEW t \in Threads, Step(t), NEW s \in Threads, s # t PROVE ~fetched'[s].aborted
  BY <1>2, OthersStay DEF Base
<1>3. CASE UNCHANGED threads
  BY <1>3 DEF threads
<1>4. CASE Tick \/ (\E u \in Urls : Publish(u)) \/ UNCHANGED vars
  BY <1>3, <1>4 DEF Tick, Publish, vars
<1>5. CASE Crash
  BY <1>5 DEF Crash, NotFetched
<1> QED BY <1>1, <1>2, <1>4, <1>5 DEF Next, Step

\* Where everybody asks for the headers, no transfer breaks off and the process is
\* not killed, a caller gets the headers its body came with, fetched, found in the
\* cache or fallen back on: for any threads and urls, with and without a TTL, and
\* flushes.  None of the three can be spared: a caller without headers replaces
\* the body of a cached pair alone, as an end of the process between the two files
\* does, and a transfer that broke off saves headers with no body.
THEOREM HeadersStayWithTheirBody ==
  ASSUME \A c \in Calls : c.headers, ~Aborts, MaxCrashes = 0
  PROVE  Spec => []HeadersOfTheBody
<1> DEFINE Inv == Base /\ Fetched /\ FilesAgree /\ crashes = 0
<1>1. Init => Inv
  BY InitBase, InitAgrees DEF Init
<1>2. Inv /\ [Next]_vars => Inv'
  <2> SUFFICES ASSUME Inv, [Next]_vars PROVE Inv'
    OBVIOUS
  <2>1. Base' /\ Fetched'
    BY NextBase, NextFetched
  <2>2. crashes' = crashes
    <3>1. ~Crash
      BY DEF Crash
    <3>2. ASSUME NEW t \in Threads, Step(t) PROVE crashes' = crashes
      BY <3>2 DEF Step, WebGet, Stat, Hit, HitBody, CurlGet, ReturnUncached, StartSave, Save, SaveBody,
                  WriteBody, SaveHeader, SaveHeaderBytes, NoFallback, StartFallback, Fallback,
                  FallbackHeader, FlushFile, FlushDone, Flush, Call, world
    <3>3. CASE Tick \/ (\E u \in Urls : Publish(u)) \/ UNCHANGED vars
      BY <3>3 DEF Tick, Publish, vars, world
    <3> QED BY <3>1, <3>2, <3>3 DEF Next, Step
  <2>3. \A t \in Threads : ~fetched'[t].aborted
    BY NothingBreaksOff DEF FilesAgree, CallIsOfOneDownload
  <2>4. ASSUME NEW t \in Threads, Calling(t) PROVE call'[t].headers
    <3>1. call'[t] \in Calls
      BY <2>1, <2>4 DEF Calling, Base, TypeOK, Busy
    <3> QED BY <3>1
  <2> HIDE DEF Inv
  <2>5. FilesAgree'
    BY <2>2, <2>3, <2>4, AgreeStep DEF Inv
  <2> QED BY <2>1, <2>2, <2>5 DEF Inv
<1>3. Inv => HeadersOfTheBody
  BY DEF HeadersOfTheBody, FilesAgree, CallIsOfOneDownload, Busy
<1> QED BY <1>1, <1>2, <1>3, PTL DEF Spec

\* AnswersAreWhole of the run, for any number of threads and versions: on its one
\* url, used in one of its two ways; the headers are spoken of in the behaviours
\* that use it as a subscription.
THEOREM AnswersStayWhole == MCSpec => []AnswersAreWhole
<1> DEFINE Inv == /\ Base /\ Fetched
                  /\ crashes = 0 => NothingTorn
                  /\ use = "subscription" => FilesAgree
<1>1. MCInit => Inv
  BY InitBase, InitAgrees DEF MCInit
<1>2. Inv /\ [MCNext]_mcVars => Inv'
  <2> SUFFICES ASSUME Inv, [MCNext]_mcVars PROVE Inv'
    OBVIOUS
  <2>1. [Next]_vars
    BY DEF MCNext, mcVars
  <2> QED BY <2>1, NextBase, NextFetched, NextTorn, NextAgree
<1>3. Inv => AnswersAreWhole
  BY DEF AnswersAreWhole, NoTornAnswer, NothingTorn, FilesAgree, CallIsOfOneDownload, Busy
<1> QED BY <1>1, <1>2, <1>3, PTL DEF MCSpec

-----------------------------------------------------------------------------
(* Where the cache may be fallen back on, a covered call finds a whole file *)
(* under its url, or one that is being replaced by a whole file.            *)

Backed(u) ==
  \/ body[u] \in Versions
  \/ body[u] = Torn /\ \E w \in Threads : pc[w] = "saveBody" /\ url(w) = u

Unharmed == \A s \in Threads : pc[s] # "flush" /\ ~fetched[s].aborted

CoverHolds(t) ==
  /\ pc[t] = "idle" => answer[t].body \in Versions
  /\ Busy(t) => call[t].ttl > 0 /\ Backed(url(t))
  /\ pc[t] = "fallbackHeader" => fetched[t].body \in Versions

Outage ==
  serveCacheOnFetchFail =>
    /\ covered \subseteq Threads
    /\ covered # {} => Unharmed
    /\ \A t \in covered : CoverHolds(t)

LEMMA BackedStep ==
  ASSUME Base, Fetched, Unharmed, NEW t \in Threads, Step(t), NEW u \in Urls, Backed(u)
  PROVE  Backed(u)'
<1>1. \A s \in Threads : s # t => pc'[s] = pc[s] /\ url(s)' = url(s)
  BY OthersStay DEF Base, url
<1>2. CASE body' = body /\ pc[t] # "saveBody"
  BY <1>1, <1>2 DEF Backed
<1>3. CASE Save(t)
  <2>1. pc'[t] = "saveBody" /\ url(t)' = url(t) /\ pc[t] # "saveBody"
    BY <1>3 DEF Save, Goto, Base, TypeOK, url
  <2>2. body'[u] = IF u = url(t) THEN Torn ELSE body[u]
    BY <1>3 DEF Save, Base, TypeOK
  <2> QED BY <1>1, <2>1, <2>2 DEF Backed
<1>4. CASE SaveBody(t)
  <2>1. pc[t] = "saveBody"
    BY <1>4 DEF SaveBody, Goto, Return
  <2>2. fetched[t].body \in Versions
    BY <2>1 DEF Fetched, FetchIsWhole, Saving, Unharmed
  <2>3. body'[u] = IF u = url(t) THEN fetched[t].body ELSE body[u]
    BY <1>4 DEF SaveBody, WriteBody, Base, TypeOK
  <2> QED BY <1>1, <2>1, <2>2, <2>3 DEF Backed
<1>5. ~FlushFile(t)
  BY DEF FlushFile, Unharmed
<1> QED BY <1>2, <1>3, <1>4, <1>5
        DEF Step, WebGet, Stat, Hit, HitBody, CurlGet, ReturnUncached, StartSave, SaveHeader, SaveHeaderBytes,
            NoFallback, StartFallback, Fallback, FallbackHeader, FlushDone, Flush, Call, Goto, Return, files

\* Nobody reads a file while it is replaced.
LEMMA BackedReads ==
  ASSUME Base, writers = {}, NEW u, Backed(u)
  PROVE  FileGet(body, u) \in Versions
<1>1. body[u] \in Versions
  BY DEF Backed, Base, LockIsHeld, Saving
<1> QED BY <1>1, WebCacheAssumption DEF FileGet, Versions

LEMMA OwnCoverStep ==
  ASSUME Base, Fetched, Unharmed, serveCacheOnFetchFail, NEW t \in Threads, Step(t), CoverHolds(t),
         ~Calling(t), pc'[t] # "flush"
  PROVE  CoverHolds(t)'
<1> USE DEF CoverHolds, Busy
<1>1. /\ pc \in [Threads -> PC] /\ DOMAIN call = Threads
      /\ fetched[t] \in Fetches /\ t \in DOMAIN fetched /\ t \in DOMAIN answer
  BY DEF Base, TypeOK
<1>2. FetchIsWhole(t) /\ ~fetched[t].aborted /\ pc[t] # "flush"
  BY DEF Fetched, Unharmed
<1>3. ASSUME Busy(t) PROVE url(t) \in Urls /\ call[t].ttl > 0 /\ Backed(url(t))' /\ Backed(url(t))
  <2>1. url(t) \in Urls /\ call[t].ttl > 0 /\ Backed(url(t))
    BY <1>3, UrlIsThere DEF Base
  <2>2. url(t)' = url(t) \/ pc[t] = "idle"
    BY DEF Step, WebGet, Stat, Hit, HitBody, CurlGet, ReturnUncached, StartSave, Save, SaveBody, SaveHeader,
           SaveHeaderBytes, NoFallback, StartFallback, Fallback, FallbackHeader, FlushFile, FlushDone, Flush,
           Call, Goto, Return, threads, url
  <2>3. \A u \in Urls : Backed(u) => Backed(u)'
    BY BackedStep
  <2> QED BY <1>3, <2>1, <2>2, <2>3 DEF Busy
<1>4. ASSUME NEW c \in Calls, Call(t, c) PROVE FALSE
  BY <1>1, <1>4 DEF Call, Calling, Goto
<1>5. CASE Stat(t) \/ CurlGet(t) \/ StartSave(t) \/ StartFallback(t) \/ Save(t) \/ SaveHeader(t) \/ Hit(t)
  BY <1>1, <1>2, <1>3, <1>5 DEF Stat, CurlGet, StartSave, StartFallback, Save, SaveHeader, Hit, Goto, url
<1>6. ~Flush(t) /\ ~FlushFile(t) /\ ~FlushDone(t)
  BY <1>1, <1>2 DEF Flush, FlushFile, FlushDone, Goto
<1>7. ASSUME Busy(t), Lock!BeginRead(t) \/ Lock!EndRead(t)
      PROVE  FileGet(body, url(t)) \in Versions
  <2>1. writers = {}
    BY <1>7 DEF Lock!BeginRead, Lock!EndRead, Base, LockIsHeld
  <2> QED BY <1>3, <1>7, <2>1, BackedReads
<1>8. CASE HitBody(t)
  BY <1>1, <1>7, <1>8 DEF HitBody, Return, Goto
<1>9. CASE Fallback(t)
  BY <1>1, <1>3, <1>7, <1>9 DEF Fallback, Goto, Fetches, url
<1>10. CASE FallbackHeader(t)
  BY <1>1, <1>10 DEF FallbackHeader, Return, Goto
<1>11. ~ReturnUncached(t)
  BY <1>2, <1>3, UrlIsThere DEF ReturnUncached, Return, Goto, Base
<1>12. ~NoFallback(t)
  <2> SUFFICES ASSUME NoFallback(t) PROVE FALSE
    OBVIOUS
  <2>1. Backed(url(t)) /\ body[url(t)] = Absent
    BY <1>1, <1>3, Zenon DEF NoFallback, Return, Goto, ServesCache
  <2> QED BY <2>1, WebCacheAssumption DEF Backed, Versions
<1>13. CASE SaveBody(t) \/ SaveHeaderBytes(t)
  <2>1. pc[t] \in Saving /\ Busy(t)
    BY <1>13 DEF SaveBody, SaveHeaderBytes, Return, Goto, Saving
  <2>2. fetched[t].body \in Versions
    BY <1>2, <2>1 DEF FetchIsWhole
  <2> QED BY <1>1, <1>3, <1>13, <2>1, <2>2 DEF SaveBody, SaveHeaderBytes, Return, Goto, url
<1> QED BY <1>4, <1>5, <1>6, <1>8, <1>9, <1>10, <1>11, <1>12, <1>13 DEF Step, WebGet

LEMMA OtherCoverStep ==
  ASSUME Base, Fetched, Unharmed, NEW t \in Threads, Step(t), NEW s \in Threads, s # t, CoverHolds(s)
  PROVE  CoverHolds(s)'
<1>1. pc'[s] = pc[s] /\ call'[s] = call[s] /\ fetched'[s] = fetched[s] /\ answer'[s] = answer[s]
  BY OthersStay DEF Base
<1>2. ASSUME Busy(s) PROVE Backed(url(s))'
  <2>1. url(s) \in Urls /\ Backed(url(s)) /\ url(s)' = url(s)
    BY <1>1, <1>2, UrlIsThere DEF Base, CoverHolds, url
  <2>2. \A u \in Urls : Backed(u) => Backed(u)'
    BY BackedStep
  <2> QED BY <2>1, <2>2
<1> QED BY <1>1, <1>2 DEF CoverHolds, Busy

LEMMA CallIsCovered ==
  ASSUME Base, NEW t \in Threads, NEW c \in Calls, Call(t, c), c.ttl > 0, body[c.url] \in Versions
  PROVE  CoverHolds(t)'
<1>1. /\ pc'[t] = "stat" /\ call'[t] = c /\ body' = body
  BY DEF Base, TypeOK, Call, Goto, files
<1>2. Backed(url(t))'
  BY <1>1 DEF Backed, url
<1> QED BY <1>1, <1>2 DEF CoverHolds

LEMMA NextOutage == Base /\ Fetched /\ Outage /\ [MCNext]_mcVars => Outage'
<1> SUFFICES ASSUME Base, Fetched, Outage, [MCNext]_mcVars, serveCacheOnFetchFail
             PROVE  /\ covered' \subseteq Threads
                    /\ covered' # {} => Unharmed'
                    /\ \A t \in covered' : CoverHolds(t)'
  BY DEF Outage
<1>1. CASE UNCHANGED mcVars
  BY <1>1 DEF mcVars, vars, files, threads, Outage, Unharmed, CoverHolds, Busy, Backed, url
<1>2. CASE MCNext /\ Endangered
  BY <1>2 DEF MCNext
<1>3. CASE MCNext /\ ~Endangered
  <2>1. /\ covered' = {t \in Threads : IF Calling(t) THEN call'[t].ttl > 0 /\ body[call'[t].url] \in Versions
                                                     ELSE t \in covered}
        /\ Next
    BY <1>3, Zenon DEF MCNext
  <2>2. crashes' = crashes /\ Unharmed'
    BY <1>3 DEF Endangered, Broken, Unharmed
  <2> SUFFICES ASSUME NEW t \in Threads, t \in covered' PROVE CoverHolds(t)'
    BY <2>1, <2>2
  <2>3. ASSUME Calling(t) PROVE CoverHolds(t)'
    <3>1. call'[t].ttl > 0 /\ body[call'[t].url] \in Versions
      BY <2>1, <2>3
    <3>2. PICK c \in Calls : Call(t, c)
      <4>1. ASSUME NEW s \in Threads, Step(s) PROVE s = t
        BY <2>3, <4>1, OthersStay DEF Base, Calling
      <4>2. Step(t)
        BY <2>1, <2>3, <4>1 DEF Next, Step, Tick, Publish, threads, Crash, Calling
      <4> QED BY <2>3, <4>2
              DEF Step, WebGet, Stat, Hit, HitBody, CurlGet, ReturnUncached, StartSave, Save, SaveBody,
                  SaveHeader, SaveHeaderBytes, NoFallback, StartFallback, Fallback, FallbackHeader,
                  FlushFile, FlushDone, Flush, Goto, Return, Calling, Base, TypeOK
    <3>3. call'[t] = c
      BY <3>2 DEF Call, Base, TypeOK
    <3> QED BY <3>1, <3>2, <3>3, CallIsCovered
  <2>4. ASSUME ~Calling(t) PROVE CoverHolds(t)'
    <3>1. t \in covered /\ Unharmed /\ CoverHolds(t)
      BY <2>1, <2>4 DEF Outage
    <3>2. ASSUME NEW s \in Threads, Step(s) PROVE CoverHolds(t)'
      <4>1. pc'[t] # "flush"
        BY <2>2 DEF Unharmed
      <4>2. CASE s = t
        BY <2>4, <3>1, <3>2, <4>1, <4>2, OwnCoverStep
      <4> QED BY <3>1, <3>2, <4>2, OtherCoverStep
    <3>3. CASE Tick \/ \E u \in Urls : Publish(u)
      BY <3>1, <3>3 DEF Tick, Publish, files, threads, CoverHolds, Busy, Backed, url
    <3>4. ~Crash
      BY <2>2 DEF Crash, Base, TypeOK
    <3> QED BY <2>1, <3>2, <3>3, <3>4 DEF Next, Step
  <2> QED BY <2>3, <2>4
<1> QED BY <1>1, <1>2, <1>3

\* With serve_cache_on_fetch_fail, a call of webGet() whose url was cached when
\* it came hands out content, whatever its own download ends with.
THEOREM OutageIsCovered == MCSpec => []OutageServesCache
<1> DEFINE Inv == Base /\ Fetched /\ Outage
<1>1. MCInit => Inv
  <2>1. ASSUME MCInit PROVE Fetched
    <3>1. \A t \in Threads : pc[t] = "idle" /\ ~fetched[t].aborted
      BY <2>1 DEF MCInit, Init, NotFetched
    <3> QED BY <3>1 DEF Fetched, FetchIsWhole, Saving
  <2>2. MCInit => Outage
    BY DEF MCInit, Outage
  <2> QED BY <2>1, <2>2, InitBase DEF MCInit
<1>2. Inv /\ [MCNext]_mcVars => Inv'
  <2>1. [MCNext]_mcVars => [Next]_vars
    BY DEF MCNext, mcVars
  <2> QED BY <2>1, NextBase, NextFetched, NextOutage
<1>3. Inv => OutageServesCache
  BY DEF Outage, OutageServesCache, CoverHolds
<1> QED BY <1>1, <1>2, <1>3, PTL DEF MCSpec

-----------------------------------------------------------------------------
\* A thread on its way to read the cached file found it young enough, and the
\* file has been replaced by younger ones only, or flushed.
FoundYoung(t) ==
  LET u == url(t)
  IN  pc[t] \in {"hit", "hitBody"} =>
        /\ statAt[t] \in Nat /\ statAt[t] <= clock
        /\ body[u] = Absent \/ mtime[u] + call[t].ttl >= statAt[t]

LEMMA NextYoung ==
  Base /\ (\A t \in Threads : FoundYoung(t)) /\ [MCNext]_mcVars => \A t \in Threads : FoundYoung(t)'
<1> SUFFICES ASSUME Base, \A t \in Threads : FoundYoung(t), [MCNext]_mcVars, NEW t \in Threads
             PROVE  FoundYoung(t)'
  OBVIOUS
<1>1. CASE UNCHANGED mcVars
  BY <1>1 DEF mcVars, vars, files, threads, world, FoundYoung, url
<1>2. CASE MCNext
  <2>1. /\ Next
        /\ statAt'[t] = IF pc'[t] \notin {"hit", "hitBody"} THEN 0
                        ELSE IF pc[t] = "stat" THEN clock ELSE statAt[t]
    BY <1>2 DEF MCNext
  <2> SUFFICES ASSUME pc'[t] \in {"hit", "hitBody"}
               PROVE  /\ statAt'[t] \in Nat /\ statAt'[t] <= clock'
                      /\ body'[url(t)'] = Absent \/ mtime'[url(t)'] + call'[t].ttl >= statAt'[t]
    BY DEF FoundYoung
  <2>2. clock \in Nat /\ mtime \in [Urls -> Nat] /\ body \in [Urls -> Contents \cup {Absent}]
    BY DEF Base, TypeOK
  <2>3. CASE Tick \/ \E u \in Urls : Publish(u)
    BY <2>1, <2>2, <2>3 DEF Tick, Publish, files, threads, FoundYoung, url
  <2>4. ~Crash
    BY DEF Crash
  <2>5. ASSUME NEW s \in Threads, Step(s) PROVE clock' = clock
    BY <2>5 DEF Step, WebGet, Stat, Hit, HitBody, CurlGet, ReturnUncached, StartSave, Save, SaveBody,
                WriteBody, SaveHeader, SaveHeaderBytes, NoFallback, StartFallback, Fallback,
                FallbackHeader, FlushFile, FlushDone, Flush, Call, world
  <2>6. CASE Step(t)
    <3> pc \in [Threads -> PC]
      BY DEF Base, TypeOK
    <3>0. ASSUME NEW c \in Calls PROVE ~Call(t, c)
      BY DEF Call, Goto
    <3>1. Stat(t) \/ Hit(t)
      <4>1. \/ Stat(t) \/ Hit(t) \/ (pc'[t] = pc[t] /\ FlushFile(t))
            \/ pc'[t] \in {"idle", "fetched", "save", "saveHeader", "saveBody", "saveHeaderBytes",
                          "fallback", "fallbackHeader", "flush"}
        BY <2>6, <3>0
           DEF Step, WebGet, HitBody, CurlGet, ReturnUncached, StartSave, Save, SaveBody, SaveHeader,
               SaveHeaderBytes, NoFallback, StartFallback, Fallback, FallbackHeader, FlushFile,
               FlushDone, Flush, Goto, Return, threads
      <4> QED BY <4>1 DEF FlushFile
    <3>2. url(t)' = url(t) /\ call'[t] = call[t] /\ UNCHANGED files
      BY <3>1 DEF Stat, Hit, url
    <3>3. url(t) \in Urls /\ call[t].ttl \in Nat
      BY <3>1, UrlIsThere DEF Stat, Hit, Goto, Busy, Base
    <3>4. CASE Stat(t)
      BY <2>1, <2>2, <2>5, <2>6, <3>2, <3>3, <3>4 DEF Stat, Goto, files, Base, TypeOK
    <3>5. CASE Hit(t)
      BY <2>1, <2>5, <2>6, <3>2, <3>5 DEF Hit, Goto, files, FoundYoung, url
    <3> QED BY <3>1, <3>4, <3>5
  <2>7. ASSUME NEW s \in Threads, Step(s), s # t
        PROVE  /\ statAt'[t] \in Nat /\ statAt'[t] <= clock'
               /\ body'[url(t)'] = Absent \/ mtime'[url(t)'] + call'[t].ttl >= statAt'[t]
    <3>1. pc'[t] = pc[t] /\ call'[t] = call[t] /\ url(t)' = url(t) /\ clock' = clock
      BY <2>5, <2>7, OthersStay DEF Base, url
    <3>2. url(t) \in Urls /\ call[t].ttl \in Nat
      BY <3>1, UrlIsThere DEF Busy, Base
    <3>3. statAt'[t] = statAt[t] /\ statAt[t] \in Nat /\ statAt[t] <= clock
      BY <2>1, <3>1 DEF FoundYoung
    <3>4. \/ body'[url(t)] = Absent
          \/ mtime'[url(t)] = clock
          \/ body'[url(t)] = body[url(t)] /\ mtime'[url(t)] = mtime[url(t)]
      <4>1. CASE files' = files
        BY <4>1 DEF files
      <4>2. CASE Save(s) \/ SaveBody(s)
        BY <2>2, <3>2, <4>2 DEF Save, SaveBody, WriteBody
      <4>3. CASE FlushFile(s)
        BY <2>2, <3>2, <4>3 DEF FlushFile
      <4>4. CASE SaveHeader(s) \/ SaveHeaderBytes(s)
        BY <4>4 DEF SaveHeader, SaveHeaderBytes
      <4> QED BY <2>7, <4>1, <4>2, <4>3, <4>4
              DEF Step, WebGet, Stat, Hit, HitBody, CurlGet, ReturnUncached, StartSave, NoFallback,
                  StartFallback, Fallback, FallbackHeader, FlushDone, Flush, Call, files
    <3> QED BY <2>2, <3>1, <3>2, <3>3, <3>4 DEF FoundYoung
  <2> QED BY <2>1, <2>3, <2>4, <2>6, <2>7 DEF Next, Step
<1> QED BY <1>1, <1>2

\* What webGet() serves as a hit was written no longer than its TTL before the
\* stat() that let it through, although that stat() takes no lock.
THEOREM HitsAreFresh == MCSpec => HitIsFresh
<1> DEFINE Inv == Base /\ \A t \in Threads : FoundYoung(t)
<1>1. MCInit => Inv
  <2>1. Init => \A t \in Threads : pc[t] = "idle"
    BY DEF Init
  <2> QED BY <2>1, InitBase DEF MCInit, FoundYoung
<1>2. Inv /\ [MCNext]_mcVars => Inv'
  <2>1. [MCNext]_mcVars => [Next]_vars
    BY DEF MCNext, mcVars
  <2> QED BY <2>1, NextBase, NextYoung
<1> DEFINE Young == \A t \in Threads :
                      LET u == call[t].url
                      IN pc[t] = "hitBody" /\ pc'[t] = "idle" /\ crashes' = crashes
                           => body[u] = Absent \/ mtime[u] + call[t].ttl >= statAt[t]
<1>3. Inv /\ [MCNext]_mcVars => [Young]_mcVars
  BY DEF FoundYoung, url
<1> QED BY <1>1, <1>2, <1>3, PTL DEF MCSpec, HitIsFresh
=============================================================================
