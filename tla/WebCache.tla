------------------------------ MODULE WebCache ------------------------------
(***************************************************************************)
(* The download cache of src/src/lib/handler/webget.cpp: webGet() with its *)
(* files cache/<md5> and cache/<md5>_header, curlGet() as the cache sees   *)
(* it, and flushCache().  The lock around the files is SharedExclusive,    *)
(* which RWLock is proved to implement.                                    *)
(*                                                                         *)
(* What a URL serves is a version number that grows when its origin        *)
(* publishes; a file holds the bytes of a version, no bytes (Empty), or    *)
(* the beginning of something (Torn: fopen("wb") has truncated it and      *)
(* fclose has not run).  stat() and fileExist() run outside the lock.      *)
(***************************************************************************)
EXTENDS Integers

CONSTANTS
  Threads,            \* request threads of the server
  Calls,              \* what they ask: [url, ttl, headers] records
  MaxVersion,         \* bound: versions an origin publishes
  MaxClock,           \* bound: seconds that pass
  MaxCrashes,         \* bound: times the process is killed and restarted
  Flushes,            \* is /flushcache called?
  Aborts,             \* may a transfer break off after its 200 status line?
                      \* (time-out of 15 s, max_allowed_download_size)
  serveCacheOnFetchFail,
  Absent, Empty, Torn, ErrorHead

Urls == {c.url : c \in Calls}
Versions == 1 .. MaxVersion
Contents == Versions \cup {Empty, Torn, ErrorHead}

ASSUME WebCacheAssumption ==
  /\ MaxVersion \in Nat \ {0} /\ MaxClock \in Nat /\ MaxCrashes \in Nat
  /\ \A c \in Calls : c.ttl \in Nat /\ c.headers \in BOOLEAN
  /\ {Flushes, Aborts, serveCacheOnFetchFail} \subseteq BOOLEAN
  /\ {Absent, Empty, Torn, ErrorHead} \cap Nat = {}
  /\ Torn \notin {Absent, Empty, ErrorHead} /\ Absent \notin {Empty, ErrorHead}
  /\ Empty # ErrorHead

VARIABLES
  clock, origin, crashes,          \* the world
  body, header, mtime,             \* the files of cache/, by url
  readers, writers,                \* cache_rw_lock
  pc, call, fetched,               \* each thread inside webGet
  answer                           \* what its last webGet returned

world   == <<clock, origin, crashes>>
files   == <<body, header, mtime>>
locks   == <<readers, writers>>
threads == <<pc, call, fetched, answer>>
vars    == <<world, files, locks, threads>>

Lock == INSTANCE SharedExclusive

Reply == [body : Contents, header : Contents]
NoReply == [body |-> Empty, header |-> Empty]
NotFetched == [status |-> 0, aborted |-> FALSE, body |-> Empty, header |-> Empty]
PC == {"idle", "stat", "hit", "hitBody", "fetch", "fetched", "save", "saveBody",
       "saveHeader", "saveHeaderBytes", "fallback", "fallbackHeader", "flush"}

Init ==
  /\ clock = 0
  /\ crashes = 0
  /\ origin = [u \in Urls |-> 1]
  /\ body = [u \in Urls |-> Absent]
  /\ header = [u \in Urls |-> Absent]
  /\ mtime = [u \in Urls |-> 0]
  /\ Lock!Init
  /\ pc = [t \in Threads |-> "idle"]
  /\ call = [t \in Threads |-> CHOOSE c \in Calls : TRUE]
  /\ fetched = [t \in Threads |-> NotFetched]
  /\ answer = [t \in Threads |-> NoReply]

Goto(t, from, to) ==
  /\ pc[t] = from
  /\ pc' = [pc EXCEPT ![t] = to]

Return(t, from, reply) ==
  /\ Goto(t, from, "idle")
  /\ answer' = [answer EXCEPT ![t] = reply]
  /\ fetched' = [fetched EXCEPT ![t] = NotFetched]
  /\ UNCHANGED call

url(t) == call[t].url

\* fileGet of a file that does not exist returns an empty string.
FileGet(file, u) == IF file[u] = Absent THEN Empty ELSE file[u]

-----------------------------------------------------------------------------
(* The origin and the clock *)

Publish(u) ==
  /\ origin[u] < MaxVersion
  /\ origin' = [origin EXCEPT ![u] = @ + 1]
  /\ UNCHANGED <<clock, crashes, files, locks, threads>>

Tick ==
  /\ clock < MaxClock
  /\ clock' = clock + 1
  /\ UNCHANGED <<origin, crashes, files, locks, threads>>

-----------------------------------------------------------------------------
(* webGet: is there a cached file, and is it young enough? *)

Call(t, c) ==
  /\ Goto(t, "idle", IF c.ttl > 0 THEN "stat" ELSE "fetch")
  /\ call' = [call EXCEPT ![t] = c]
  /\ answer' = [answer EXCEPT ![t] = NoReply]
  /\ UNCHANGED <<world, files, locks, fetched>>

\* Mutant: the age of the file is not looked at.
StatAnyAge(t) ==
  /\ Goto(t, "stat", IF body[url(t)] # Absent THEN "hit" ELSE "fetch")
  /\ UNCHANGED <<world, files, locks, call, fetched, answer>>

Stat(t) ==
  LET cached == body[url(t)] # Absent
      within == clock - mtime[url(t)] <= call[t].ttl
  IN /\ Goto(t, "stat", IF cached /\ within THEN "hit" ELSE "fetch")
     /\ UNCHANGED <<world, files, locks, call, fetched, answer>>

\* The cached header file is read first, under the read lock ...
Hit(t) ==
  /\ Goto(t, "hit", "hitBody")
  /\ Lock!BeginRead(t)
  /\ fetched' = [fetched EXCEPT ![t].header =
                   IF call[t].headers THEN FileGet(header, url(t)) ELSE @]
  /\ UNCHANGED <<world, files, call, answer>>

\* ... then the body, and the lock is released on return.
HitBody(t) ==
  /\ Return(t, "hitBody", [body |-> FileGet(body, url(t)), header |-> fetched[t].header])
  /\ Lock!EndRead(t)
  /\ UNCHANGED <<world, files>>

-----------------------------------------------------------------------------
(***************************************************************************)
(* curlGet: the status is that of the last response, the headers are       *)
(* appended as they come, and the content is cleared unless the transfer   *)
(* ended well with status 200.  The retry loop leaves after its first      *)
(* attempt (max_fails >= fail_count holds from the start).                 *)
(***************************************************************************)
Outcome(t, status, aborted) ==
  [status  |-> status,
   aborted |-> aborted,
   body    |-> IF status = 200 /\ ~aborted THEN origin[url(t)] ELSE Empty,
   header  |-> IF ~call[t].headers \/ status = 0 THEN Empty
               ELSE IF status = 200 THEN origin[url(t)] ELSE ErrorHead]

Outcomes(t) ==
  {Outcome(t, s, FALSE) : s \in {0, 200, 500}}
    \cup (IF Aborts THEN {Outcome(t, 200, TRUE)} ELSE {})

CurlGet(t) ==
  /\ Goto(t, "fetch", "fetched")
  /\ \E o \in Outcomes(t) : fetched' = [fetched EXCEPT ![t] = o]
  /\ UNCHANGED <<world, files, locks, call, answer>>

\* Without a TTL the content goes straight back to the caller.
ReturnUncached(t) ==
  /\ call[t].ttl = 0
  /\ Return(t, "fetched", [body |-> fetched[t].body, header |-> fetched[t].header])
  /\ UNCHANGED <<world, files, locks>>

-----------------------------------------------------------------------------
(* webGet: status 200 is saved.  fopen("wb") truncates, fclose completes. *)

\* Mutant: whatever came back is saved, whatever its status.
SaveAnyStatus(t) ==
  /\ call[t].ttl > 0
  /\ Goto(t, "fetched", "save")
  /\ UNCHANGED <<world, files, locks, call, fetched, answer>>

StartSave(t) ==
  /\ call[t].ttl > 0
  /\ fetched[t].status = 200
  /\ Goto(t, "fetched", "save")
  /\ UNCHANGED <<world, files, locks, call, fetched, answer>>

Save(t) ==
  /\ Goto(t, "save", "saveBody")
  /\ Lock!BeginWrite(t)
  /\ body' = [body EXCEPT ![url(t)] = Torn]
  /\ mtime' = [mtime EXCEPT ![url(t)] = clock]
  /\ UNCHANGED <<world, header, call, fetched, answer>>

WriteBody(t) ==
  /\ body' = [body EXCEPT ![url(t)] = fetched[t].body]
  /\ mtime' = [mtime EXCEPT ![url(t)] = clock]
  /\ UNCHANGED <<world, header>>

\* Mutant: the lock covers the body only.
SaveBodyReleasesEarly(t) ==
  /\ WriteBody(t)
  /\ Goto(t, "saveBody", IF call[t].headers THEN "saveHeader" ELSE "idle")
  /\ writers' = {}
  /\ answer' = IF call[t].headers THEN answer
               ELSE [answer EXCEPT ![t] = [body |-> fetched[t].body, header |-> fetched[t].header]]
  /\ UNCHANGED <<readers, call, fetched>>

\* The header file is written only for a caller that asked for the headers.
SaveBody(t) ==
  /\ WriteBody(t)
  /\ \/ /\ call[t].headers
        /\ Goto(t, "saveBody", "saveHeader")
        /\ UNCHANGED <<locks, call, fetched, answer>>
     \/ /\ ~call[t].headers
        /\ Return(t, "saveBody", [body |-> fetched[t].body, header |-> fetched[t].header])
        /\ Lock!EndWrite(t)

SaveHeader(t) ==
  /\ Goto(t, "saveHeader", "saveHeaderBytes")
  /\ header' = [header EXCEPT ![url(t)] = Torn]
  /\ UNCHANGED <<world, body, mtime, locks, call, fetched, answer>>

SaveHeaderBytes(t) ==
  /\ header' = [header EXCEPT ![url(t)] = fetched[t].header]
  /\ Return(t, "saveHeaderBytes", [body |-> fetched[t].body, header |-> fetched[t].header])
  /\ writers' = writers \ {t}
  /\ UNCHANGED <<world, body, mtime, readers>>

-----------------------------------------------------------------------------
(* webGet: any other status falls back on the cached file, if allowed. *)

ServesCache(t) == body[url(t)] # Absent /\ serveCacheOnFetchFail

NoFallback(t) ==
  /\ call[t].ttl > 0
  /\ fetched[t].status # 200
  /\ ~ServesCache(t)
  /\ Return(t, "fetched", [body |-> fetched[t].body, header |-> fetched[t].header])
  /\ UNCHANGED <<world, files, locks>>

StartFallback(t) ==
  /\ call[t].ttl > 0
  /\ fetched[t].status # 200
  /\ ServesCache(t)
  /\ Goto(t, "fetched", "fallback")
  /\ UNCHANGED <<world, files, locks, call, fetched, answer>>

\* The body is read first here, then the header file.
Fallback(t) ==
  /\ Goto(t, "fallback", "fallbackHeader")
  /\ Lock!BeginRead(t)
  /\ fetched' = [fetched EXCEPT ![t].body = FileGet(body, url(t))]
  /\ UNCHANGED <<world, files, call, answer>>

FallbackHeader(t) ==
  /\ Return(t, "fallbackHeader",
            [body   |-> fetched[t].body,
             header |-> IF call[t].headers THEN FileGet(header, url(t))
                                           ELSE fetched[t].header])
  /\ Lock!EndRead(t)
  /\ UNCHANGED <<world, files>>

-----------------------------------------------------------------------------
(* flushCache, called by the /flushcache handler: file after file *)

Flush(t) ==
  /\ Flushes
  /\ Goto(t, "idle", "flush")
  /\ Lock!BeginWrite(t)
  /\ UNCHANGED <<world, files, call, fetched, answer>>

FlushFile(t) ==
  /\ pc[t] = "flush"
  /\ \E u \in Urls :
       \/ /\ body[u] # Absent
          /\ body' = [body EXCEPT ![u] = Absent]
          /\ mtime' = [mtime EXCEPT ![u] = 0]
          /\ UNCHANGED header
       \/ /\ header[u] # Absent
          /\ header' = [header EXCEPT ![u] = Absent]
          /\ UNCHANGED <<body, mtime>>
  /\ UNCHANGED <<world, locks, threads>>

FlushDone(t) ==
  /\ \A u \in Urls : body[u] = Absent /\ header[u] = Absent
  /\ Goto(t, "flush", "idle")
  /\ Lock!EndWrite(t)
  /\ UNCHANGED <<world, files, call, fetched, answer>>

-----------------------------------------------------------------------------
\* The process is killed and started again: only the files survive.
Crash ==
  /\ crashes < MaxCrashes
  /\ crashes' = crashes + 1
  /\ readers' = {} /\ writers' = {}
  /\ pc' = [t \in Threads |-> "idle"]
  /\ fetched' = [t \in Threads |-> NotFetched]
  /\ answer' = [t \in Threads |-> NoReply]
  /\ UNCHANGED <<clock, origin, files, call>>

WebGet(t) ==
  \/ Stat(t) \/ Hit(t) \/ HitBody(t)
  \/ CurlGet(t) \/ ReturnUncached(t)
  \/ StartSave(t) \/ Save(t) \/ SaveBody(t) \/ SaveHeader(t) \/ SaveHeaderBytes(t)
  \/ NoFallback(t) \/ StartFallback(t) \/ Fallback(t) \/ FallbackHeader(t)
  \/ FlushFile(t) \/ FlushDone(t)

Next ==
  \/ \E t \in Threads : (\E c \in Calls : Call(t, c)) \/ WebGet(t) \/ Flush(t)
  \/ \E u \in Urls : Publish(u)
  \/ Tick
  \/ Crash

Spec == Init /\ [][Next]_vars

-----------------------------------------------------------------------------
\* While the process lives, no caller of webGet is handed a file that another
\* thread is half way through writing, although the checks that decide to read
\* it (stat, fileExist) take no lock.
NoTornAnswer ==
  crashes = 0 =>
    \A t \in Threads : answer[t].body # Torn /\ answer[t].header # Torn
=============================================================================
