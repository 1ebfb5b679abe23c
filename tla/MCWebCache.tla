----------------------------- MODULE MCWebCache -----------------------------
(***************************************************************************)
(* WebCache for TLC, with history variables.  The url is used in one of    *)
(* two ways in each behaviour: as a subscription, whose headers everybody  *)
(* asks for and one caller without cache, beside /flushcache; or by        *)
(* some with and by others without headers, two at a time, with transfers  *)
(* that break off and a restart of the process.                            *)
(***************************************************************************)
EXTENDS WebCache, FiniteSets, TLC

CONSTANT u1

VARIABLES
  use,        \* "subscription" or "mixed"
  covered,    \* threads whose url was cached whole when they called webGet,
              \* and that no flush, crash or broken transfer has met since
  statAt      \* when each thread looked at the age of the cached file

mcVars == <<vars, use, covered, statAt>>

CallsOf ==
  [subscription |-> {[url |-> u1, ttl |-> 1, headers |-> TRUE],
                     [url |-> u1, ttl |-> 0, headers |-> TRUE]},
   mixed        |-> {[url |-> u1, ttl |-> 1, headers |-> TRUE],
                     [url |-> u1, ttl |-> 1, headers |-> FALSE]}]

AllCalls == UNION {CallsOf[k] : k \in DOMAIN CallsOf}

MCInit ==
  /\ Init
  /\ use \in DOMAIN CallsOf
  /\ covered = {} /\ statAt = [t \in Threads |-> 0]

Calling(t) == pc[t] = "idle" /\ pc'[t] \in {"stat", "fetch"}

Broken == \E t \in Threads : fetched'[t].aborted

Endangered == Broken \/ crashes' # crashes \/ \E t \in Threads : pc'[t] = "flush"

MCNext ==
  /\ Next
  /\ \A t \in Threads : Calling(t) => call'[t] \in CallsOf[use]
  /\ use = "subscription" => crashes' = crashes /\ ~Broken
  /\ use = "mixed" => Cardinality({t \in Threads : pc'[t] # "idle"}) <= 2
                     /\ \A t \in Threads : pc'[t] # "flush"
  /\ covered' =
       IF Endangered THEN {}
       ELSE {t \in Threads :
               IF Calling(t) THEN call'[t].ttl > 0 /\ body[call'[t].url] \in Versions
                             ELSE t \in covered}
  /\ statAt' = [t \in Threads |-> IF pc'[t] \notin {"hit", "hitBody"} THEN 0
                              ELSE IF pc[t] = "stat" THEN clock ELSE statAt[t]]
  /\ UNCHANGED use

MCSpec == MCInit /\ [][MCNext]_mcVars

Symmetry == Permutations(Threads)

\* An answer is one download: while the process lives its body is never torn,
\* and the headers a caller gets with a body (they hold the traffic quota of the
\* subscription) are those of the same download, whichever of fetch, cache hit
\* and fall-back it came from: the two files are written and read under one lock.
AnswersAreWhole ==
  /\ NoTornAnswer
  /\ use = "subscription" =>
       \A t \in Threads :
         pc[t] = "idle" /\ answer[t].body \in Versions => answer[t].header = answer[t].body

\* With serve_cache_on_fetch_fail, a caller whose url was in the cache when it
\* asked gets content, however its download fails and whatever the other
\* callers save meanwhile (unless a flush, or a transfer that breaks off after
\* its status line, intervenes).
OutageServesCache ==
  serveCacheOnFetchFail =>
    \A t \in covered : pc[t] = "idle" => answer[t].body \in Versions

\* A file served as a cache hit was written no longer than its TTL before the
\* check that let it through, even when it is read much later than that check.
HitIsFresh ==
  [][\A t \in Threads :
       LET u == call[t].url
       IN pc[t] = "hitBody" /\ pc'[t] = "idle" /\ crashes' = crashes
            => body[u] = Absent \/ mtime[u] + call[t].ttl >= statAt[t]]_mcVars
=============================================================================
