-------------------------- MODULE WebRoutingProofs --------------------------
(***************************************************************************)
(* Proofs about WebRouting, for any workers, any requests and any          *)
(* preference files: reloads leave the redirects and the root of one file, *)
(* and a request that meets none is answered by them.                      *)
(***************************************************************************)
EXTENDS MCWebRouting, WellFoundedInduction, TLAPS

-----------------------------------------------------------------------------
(* The redirects of a preference file: what FoldLeft does, pair by pair.  A *)
(* set of numbers that is not empty has a least one; that stands in for     *)
(* induction.                                                               *)

LEMMA LeastNumber ==
  ASSUME NEW T \in SUBSET Nat, T # {}
  PROVE  \E k \in T : \A l \in T : k <= l
<1> DEFINE R == OpToRel(<, Nat)
<1>1. PICK k \in T : \A l \in T : ~(<<l, k>> \in R)
  BY NatLessThanWellFounded, WFMin
<1>2. ASSUME NEW l \in Nat, NEW m \in Nat, l < m
      PROVE  <<l, m>> \in R
  <2>1. <<l, m>> \in Nat \X Nat /\ <<l, m>>[1] < <<l, m>>[2]
    BY <1>2
  <2> QED BY <2>1 DEF OpToRel
<1> HIDE DEF R
<1>3. ASSUME NEW l \in T
      PROVE  k <= l
  <2>1. l \in Nat /\ k \in Nat
    BY <1>1
  <2>2. ~(l < k)
    BY <1>1, <1>2, <1>3, <2>1
  <2> QED BY <2>1, <2>2
<1> QED BY <1>1, <1>3

LEMMA MaxIsGreatest ==
  ASSUME NEW n \in Nat, NEW t \in SUBSET (1..n), t # {}
  PROVE  Max(t) \in t /\ \A y \in t : y <= Max(t)
<1> DEFINE T == {k \in Nat : \A y \in t : y <= k}
<1>1. n \in T
  OBVIOUS
<1>2. PICK k \in T : \A l \in T : k <= l
  BY <1>1, LeastNumber
<1>3. k \in t
  <2>1. SUFFICES ASSUME k \notin t PROVE FALSE
    OBVIOUS
  <2>2. \A y \in t : y \in Nat /\ y # 0 /\ y <= k - 1
    BY <2>1
  <2>3. k - 1 \in Nat
    <3>1. PICK y \in t : TRUE
      OBVIOUS
    <3>2. y \in Nat /\ y # 0 /\ y <= k /\ k \in Nat
      BY <2>2, <3>1
    <3> QED BY <3>2
  <2>4. k - 1 \in T
    BY <2>2, <2>3
  <2> QED BY <1>2, <2>2, <2>4
<1>4. \E x \in t : \A y \in t : x >= y
  BY <1>2, <1>3
<1> QED BY <1>4 DEF Max

\* f folds the subsets of the first n pairs of s.
IsFold(f, s, n) ==
  f = [t \in SUBSET (1..n) |-> IF t = {} THEN <<>> ELSE Store(f[t \ {Max(t)}], s[Max(t)])]

LEMMA FoldGrows ==
  ASSUME NEW s, NEW n \in Nat, NEW f, IsFold(f, s, n)
  PROVE  \E g : IsFold(g, s, n + 1)
<1> DEFINE g == [t \in SUBSET (1..n + 1) |->
                   IF n + 1 \in t THEN Store(f[t \ {n + 1}], s[n + 1]) ELSE f[t]]
<1>1. \A t \in SUBSET (1..n) : n + 1 \notin t /\ t \in SUBSET (1..n + 1) /\ g[t] = f[t]
  OBVIOUS
<1>2. ASSUME NEW t \in SUBSET (1..n + 1)
      PROVE  g[t] = IF t = {} THEN <<>> ELSE Store(g[t \ {Max(t)}], s[Max(t)])
  <2>1. CASE n + 1 \in t
    <3>1. Max(t) = n + 1
      <4>1. Max(t) \in t /\ \A y \in t : y <= Max(t)
        <5>1. n + 1 \in Nat
          OBVIOUS
        <5> QED BY <2>1, <5>1, MaxIsGreatest
      <4>2. Max(t) \in 1..n + 1 /\ n + 1 <= Max(t)
        BY <2>1, <4>1
      <4> HIDE DEF g
      <4> QED BY <4>2
    <3>2. t \ {n + 1} \in SUBSET (1..n)
      OBVIOUS
    <3>3. g[t \ {n + 1}] = f[t \ {n + 1}]
      BY <1>1, <3>2
    <3> QED BY <2>1, <3>1, <3>3
  <2>2. CASE n + 1 \notin t
    <3>1. t \in SUBSET (1..n)
      BY <2>2
    <3>2. g[t] = f[t]
      BY <1>1, <3>1
    <3>3. f[t] = IF t = {} THEN <<>> ELSE Store(f[t \ {Max(t)}], s[Max(t)])
      BY <3>1 DEF IsFold
    <3>4. t \ {Max(t)} \in SUBSET (1..n)
      BY <3>1
    <3>5. g[t \ {Max(t)}] = f[t \ {Max(t)}]
      BY <1>1, <3>4
    <3> QED BY <3>2, <3>3, <3>5
  <2> QED BY <2>1, <2>2
<1>3. IsFold(g, s, n + 1)
  <2>1. g = [t \in SUBSET (1..n + 1) |-> g[t]]
    OBVIOUS
  <2> HIDE DEF g
  <2> QED BY <1>2, <2>1 DEF IsFold
<1> QED BY <1>3

LEMMA FoldExists ==
  ASSUME NEW s, NEW n \in Nat
  PROVE  \E f : IsFold(f, s, n)
<1> DEFINE T == {k \in Nat : ~\E f : IsFold(f, s, k)}
<1>1. SUFFICES ASSUME n \in T PROVE FALSE
  OBVIOUS
<1>2. PICK k \in T : \A l \in T : k <= l
  BY <1>1, LeastNumber
<1>3. CASE k = 0
  <2> DEFINE f == [t \in SUBSET (1..0) |-> <<>>]
  <2>1. 1..0 = {}
    OBVIOUS
  <2>2. \A t \in SUBSET (1..0) : t = {} /\ f[t] = <<>>
    BY <2>1
  <2>3. IsFold(f, s, 0)
    BY <2>2, Zenon DEF IsFold
  <2> QED BY <1>2, <1>3, <2>3
<1>4. CASE k # 0
  <2>1. k - 1 \in Nat /\ k - 1 \notin T /\ (k - 1) + 1 = k
    BY <1>2, <1>4
  <2>2. PICK f : IsFold(f, s, k - 1)
    BY <2>1
  <2>3. \E g : IsFold(g, s, k)
    <3>1. \E g : IsFold(g, s, (k - 1) + 1)
      BY <2>1, <2>2, FoldGrows
    <3> QED BY <2>1, <3>1
  <2> QED BY <1>2, <2>3
<1> QED BY <1>3, <1>4

\* The redirects after the first k pairs of s.
Folds(s) == CHOOSE f : IsFold(f, s, Len(s))
Stored(s, k) == Folds(s)[1..k]

LEMMA StoredPairs ==
  ASSUME NEW S, NEW s \in Seq(S)
  PROVE  /\ Stored(s, 0) = <<>>
         /\ \A k \in 1..Len(s) : Stored(s, k) = Store(Stored(s, k - 1), s[k])
         /\ Stored(s, Len(s)) = FoldLeft(Store, <<>>, s)
<1>1. Len(s) \in Nat /\ DOMAIN s = 1..Len(s)
  OBVIOUS
<1>2. IsFold(Folds(s), s, Len(s))
  BY <1>1, FoldExists DEF Folds
<1>3. ASSUME NEW t \in SUBSET (1..Len(s))
      PROVE  Folds(s)[t] = IF t = {} THEN <<>> ELSE Store(Folds(s)[t \ {Max(t)}], s[Max(t)])
  BY <1>2 DEF IsFold
<1>4. Stored(s, 0) = <<>>
  <2>1. 1..0 = {}
    OBVIOUS
  <2> QED BY <1>3, <2>1 DEF Stored
<1>5. ASSUME NEW k \in 1..Len(s)
      PROVE  Stored(s, k) = Store(Stored(s, k - 1), s[k])
  <2>1. k \in Nat /\ k \in 1..k /\ 1..k \in SUBSET (1..Len(s)) /\ 1..k # {}
    <3>1. k \in Nat /\ 1 <= k /\ k <= Len(s)
      BY <1>1
    <3>2. k \in 1..k
      BY <3>1
    <3>3. \A i \in 1..k : i \in 1..Len(s)
      BY <1>1, <3>1
    <3> QED BY <3>1, <3>2, <3>3
  <2>2. Max(1..k) = k
    <3>1. 1..k \in SUBSET (1..k)
      OBVIOUS
    <3>2. Max(1..k) \in 1..k /\ \A y \in 1..k : y <= Max(1..k)
      BY <2>1, <3>1, MaxIsGreatest
    <3> QED BY <2>1, <3>2
  <2>3. (1..k) \ {k} = 1..k - 1
    BY <2>1
  <2> QED BY <1>3, <2>1, <2>2, <2>3 DEF Stored
<1>6. Stored(s, Len(s)) = FoldLeft(Store, <<>>, s)
  <2>1. FoldLeft(Store, <<>>, s) =
          (CHOOSE f : f = [t \in SUBSET DOMAIN s |->
                             IF t = {} THEN <<>> ELSE Store(f[t \ {Max(t)}], s[Max(t)])])[DOMAIN s]
    BY Zenon DEF FoldLeft, MapThenFoldSet
  <2> QED BY <1>1, <2>1, Zenon DEF Stored, Folds, IsFold
<1> QED BY <1>4, <1>5, <1>6

\* Every URI of the pairs that are stored leads somewhere.
LEMMA StoredURIs ==
  ASSUME NEW S, NEW s \in Seq(S)
  PROVE  \A i \in 1..Len(s) : s[i][1] \in DOMAIN FoldLeft(Store, <<>>, s)
<1> DEFINE Holds(k) == \A i \in 1..k : s[i][1] \in DOMAIN Stored(s, k)
           T == {k \in 0..Len(s) : ~Holds(k)}
<1>1. Len(s) \in Nat
  OBVIOUS
<1>2. T = {}
  <2>1. SUFFICES ASSUME T # {} PROVE FALSE
    OBVIOUS
  <2>2. PICK k \in T : \A l \in T : k <= l
    <3>1. T \in SUBSET Nat
      BY <1>1
    <3> QED BY <2>1, <3>1, LeastNumber
  <2>3. k # 0 /\ k \in 1..Len(s) /\ k - 1 \in 0..Len(s) /\ Holds(k - 1)
    BY <1>1, <2>2
  <2>4. Stored(s, k) = Store(Stored(s, k - 1), s[k])
    BY <2>3, StoredPairs
  <2>5. DOMAIN Stored(s, k) = DOMAIN Stored(s, k - 1) \cup {s[k][1]}
    BY <2>4 DEF Store
  <2>6. ASSUME NEW i \in 1..k PROVE s[i][1] \in DOMAIN Stored(s, k)
    <3>1. CASE i = k
      BY <2>5, <3>1
    <3>2. CASE i \in 1..k - 1
      BY <2>3, <2>5, <3>2
    <3> QED BY <2>3, <3>1, <3>2
  <2> QED BY <2>2, <2>6
<1>3. Holds(Len(s))
  <2>1. Len(s) \in 0..Len(s)
    BY <1>1
  <2> QED BY <1>2, <2>1
<1> QED BY <1>3, StoredPairs

-----------------------------------------------------------------------------
(* The invariant of the loads *)

\* What LoadsAreWhole says between two loads.
Settled == \E i, j \in DOMAIN Prefs : AliasesAre(i) /\ RootIs(j) /\ Together(i, j)

RootFlag == serve_file = (serve_file_root # "")

IsJob(j) == j = [at |-> j.at, req |-> j.req, todo |-> j.todo, file |-> j.file, reply |-> j.reply]

Typed ==
  /\ prefFile \in DOMAIN Prefs
  /\ job = [w \in Workers |-> job[w]] /\ \A w \in Workers : IsJob(job[w])

HolderLoads ==
  /\ mutex \in Workers \cup {Free}
  /\ \A w \in Workers : job[w].at \in {"aliases", "switch"} <=> mutex = w

\* The first k aliases of the file are in, and the others are to come.
IsLoading(w, f) ==
  IF Resets(Prefs[f])
  THEN /\ \E k \in 0..Len(Prefs[f].aliases) :
            /\ job[w].todo = SubSeq(Prefs[f].aliases, k + 1, Len(Prefs[f].aliases))
            /\ redirect_map = Stored(Prefs[f].aliases, k)
       /\ \E j \in DOMAIN Prefs : RootIs(j)
  ELSE job[w].todo = <<>> /\ Settled

AliasesGrow ==
  \A w \in Workers : job[w].at = "aliases" =>
    job[w].file \in DOMAIN Prefs /\ IsLoading(w, job[w].file) /\ RootFlag

RootIsSet == \A w \in Workers : job[w].at = "switch" => Settled

LoadInv == Typed /\ HolderLoads /\ LoadsAreWhole /\ AliasesGrow /\ RootIsSet

\* What a request keeps and what it changes.
Takes(w, at, reply) ==
  /\ job'[w] = [at |-> at, req |-> job[w].req, todo |-> job[w].todo, file |-> job[w].file,
                reply |-> reply]
  /\ job' = [v \in Workers |-> IF v = w THEN job'[w] ELSE job[v]]

LEMMA Goes ==
  ASSUME Typed, NEW w \in Workers, NEW at, Goto(w, at)
  PROVE  Takes(w, at, job[w].reply)
<1>1. job' = [v \in Workers |-> IF v = w THEN [job[w] EXCEPT !.at = at] ELSE job[v]]
  BY DEF Goto, Typed
<1>2. [job[w] EXCEPT !.at = at] = [at |-> at, req |-> job[w].req, todo |-> job[w].todo,
                                   file |-> job[w].file, reply |-> job[w].reply]
  BY DEF Typed, IsJob
<1> QED BY <1>1, <1>2 DEF Takes

LEMMA Replies ==
  ASSUME Typed, NEW w \in Workers, NEW status, NEW location, NEW root,
         Reply(w, status, location, root)
  PROVE  Takes(w, "answered", [status |-> status, location |-> location, root |-> root])
<1> DEFINE reply == [status |-> status, location |-> location, root |-> root]
           moved == [job[w] EXCEPT !.at = "answered"]
<1>1. job' = [v \in Workers |-> IF v = w THEN [job[w] EXCEPT !.at = "answered", !.reply = reply]
                                ELSE job[v]]
  BY DEF Reply, Typed
<1> HIDE DEF reply
<1>2. IsJob(job[w])
  BY DEF Typed
<1>3. moved = [at |-> "answered", req |-> job[w].req, todo |-> job[w].todo,
               file |-> job[w].file, reply |-> job[w].reply]
  BY <1>2 DEF IsJob
<1>4. [job[w] EXCEPT !.at = "answered", !.reply = reply] = [moved EXCEPT !.reply = reply]
  BY <1>2 DEF IsJob
<1> HIDE DEF moved
<1>5. [moved EXCEPT !.reply = reply] =
        [at |-> "answered", req |-> job[w].req, todo |-> job[w].todo, file |-> job[w].file,
         reply |-> reply]
  BY <1>3
<1> QED BY <1>1, <1>4, <1>5 DEF Takes, reply

\* A step of a worker that loads nothing, before and after.
Beside(w) ==
  /\ job[w].at \notin {"aliases", "switch"} /\ job'[w].at \notin {"aliases", "switch"}
  /\ IsJob(job'[w])
  /\ job' = [v \in Workers |-> IF v = w THEN job'[w] ELSE job[v]]
  /\ prefFile' \in DOMAIN Prefs
  /\ UNCHANGED <<redirect_map, serve_file, serve_file_root, mutex>>

LEMMA BesideKeepsLoads ==
  ASSUME LoadInv, NEW w \in Workers, Beside(w)
  PROVE  LoadInv'
<1>1. ASSUME NEW v \in Workers PROVE v = w \/ job'[v] = job[v]
  BY DEF Beside
<1>2. Typed'
  BY <1>1 DEF LoadInv, Typed, Beside
<1>3. HolderLoads'
  BY <1>1 DEF LoadInv, HolderLoads, Beside
<1>4. LoadsAreWhole'
  BY DEF LoadInv, LoadsAreWhole, AliasesAre, RootIs, Beside
<1>5. (Settled' <=> Settled) /\ (RootFlag' <=> RootFlag) /\ \A i : RootIs(i)' <=> RootIs(i)
  BY DEF Settled, AliasesAre, RootIs, RootFlag, Beside
<1>6. AliasesGrow'
  <2> SUFFICES ASSUME NEW v \in Workers, job'[v].at = "aliases"
               PROVE  job'[v].file \in DOMAIN Prefs /\ IsLoading(v, job[v].file)' /\ RootFlag'
    BY DEF AliasesGrow
  <2>1. job'[v] = job[v] /\ redirect_map' = redirect_map
    BY <1>1 DEF Beside
  <2>2. job[v].file \in DOMAIN Prefs /\ IsLoading(v, job[v].file) /\ RootFlag
    BY <2>1 DEF LoadInv, AliasesGrow
  <2>3. IsLoading(v, job[v].file)'
    BY <1>5, <2>1, <2>2 DEF IsLoading
  <2> QED BY <1>5, <2>1, <2>2, <2>3
<1>7. RootIsSet'
  BY <1>1, <1>5 DEF LoadInv, RootIsSet, Beside
<1> QED BY <1>2, <1>3, <1>4, <1>6, <1>7 DEF LoadInv

\* The actions of a request.
Requests(w) ==
  \/ Accept(w) \/ RejectLoop(w) \/ Preflight(w) \/ FindRoute(w) \/ Handle(w)
  \/ Redirect(w) \/ NoRedirect(w) \/ ServeFile(w) \/ Finish(w)
  \/ Deny(w) \/ CallReadConf(w)

LEMMA TakesBeside ==
  ASSUME Typed, NEW w \in Workers, job[w].at \notin {"aliases", "switch"},
         NEW at, at \notin {"aliases", "switch"}, NEW reply, Takes(w, at, reply),
         prefFile' \in DOMAIN Prefs,
         UNCHANGED <<redirect_map, serve_file, serve_file_root, mutex>>
  PROVE  Beside(w)
<1>1. job'[w].at = at /\ IsJob(job'[w])
  BY DEF Takes, IsJob
<1> QED BY <1>1 DEF Takes, Beside

Answers(w) == \E status, location, root : Reply(w, status, location, root)

LEMMA AnswersBeside ==
  ASSUME Typed, NEW w \in Workers, job[w].at \notin {"aliases", "switch"}, Answers(w),
         UNCHANGED <<prefFile, redirect_map, serve_file, serve_file_root, mutex>>
  PROVE  Beside(w)
<1>1. PICK status, location, root : Reply(w, status, location, root)
  BY DEF Answers
<1>2. Takes(w, "answered", [status |-> status, location |-> location, root |-> root])
  BY <1>1, Replies
<1>3. prefFile' \in DOMAIN Prefs
  BY DEF Typed
<1> QED BY <1>2, <1>3, TakesBeside

LEMMA RequestsAreBeside ==
  ASSUME Typed, NEW w \in Workers, Requests(w)
  PROVE  Beside(w)
<1>1. CASE Accept(w)
  <2>1. PICK r \in Sent : job' = [job EXCEPT ![w] = [Idle EXCEPT !.at = "accepted", !.req = r]]
    BY <1>1 DEF Accept
  <2>2. job' = [v \in Workers |-> IF v = w THEN [Idle EXCEPT !.at = "accepted", !.req = r]
                                  ELSE job[v]]
    BY <2>1 DEF Typed
  <2> QED BY <1>1, <2>2 DEF Accept, Beside, IsJob, Idle, Typed
<1>2. CASE RejectLoop(w)
  BY <1>2, AnswersBeside, Zenon DEF RejectLoop, Answers
<1>3. CASE Preflight(w)
  BY <1>3, AnswersBeside, Zenon DEF Preflight, Answers
<1>4. CASE FindRoute(w)
  <2>1. PICK at : Goto(w, at) /\ at \in {"redirect", "readconf", "updateconf", "handler"}
    BY <1>4 DEF FindRoute
  <2>2. Takes(w, at, job[w].reply)
    BY <2>1, Goes
  <2> QED BY <1>4, <2>1, <2>2, TakesBeside DEF FindRoute, Typed
<1>5. CASE Handle(w)
  <2>1. PICK status : Reply(w, status, <<>>, "")
    BY <1>5 DEF Handle
  <2>2. Answers(w)
    BY <2>1, Zenon DEF Answers
  <2> QED BY <1>5, <2>2, AnswersBeside DEF Handle
<1>6. CASE Redirect(w)
  <2>1. Answers(w)
    BY <1>6, Zenon DEF Redirect, Answers
  <2> QED BY <1>6, <2>1, AnswersBeside DEF Redirect
<1>7. CASE NoRedirect(w)
  <2>1. Goto(w, "file") \/ Answers(w)
    BY <1>7, Zenon DEF NoRedirect, Answers
  <2>2. CASE Goto(w, "file")
    <3>1. Takes(w, "file", job[w].reply)
      BY <2>2, Goes
    <3> QED BY <1>7, <3>1, TakesBeside DEF NoRedirect, Typed
  <2>3. CASE Answers(w)
    BY <1>7, <2>3, AnswersBeside DEF NoRedirect
  <2> QED BY <2>1, <2>2, <2>3
<1>8. CASE ServeFile(w)
  <2>1. Answers(w)
    BY <1>8, Zenon DEF ServeFile, Answers
  <2> QED BY <1>8, <2>1, AnswersBeside DEF ServeFile
<1>9. CASE Finish(w)
  <2>1. job' = [v \in Workers |-> IF v = w THEN Idle ELSE job[v]]
    BY <1>9 DEF Finish, Typed
  <2>2. job'[w] = Idle
    BY <2>1
  <2>3. Idle.at = "idle" /\ IsJob(Idle)
    BY DEF Idle, IsJob
  <2> QED BY <1>9, <2>1, <2>2, <2>3 DEF Finish, Beside, Typed
<1>10. CASE Deny(w)
  <2>1. PICK status : Reply(w, status, <<>>, "")
    BY <1>10 DEF Deny
  <2>2. Answers(w)
    BY <2>1, Zenon DEF Answers
  <2> QED BY <1>10, <2>2, AnswersBeside DEF Deny
<1>11. CASE CallReadConf(w)
  <2>1. prefFile' \in DOMAIN Prefs
    BY <1>11 DEF CallReadConf, Typed
  <2>2. Takes(w, "readConf", job[w].reply)
    BY <1>11, Goes DEF CallReadConf
  <2> QED BY <1>11, <2>1, <2>2, TakesBeside DEF CallReadConf
<1> QED BY <1>1, <1>2, <1>3, <1>4, <1>5, <1>6, <1>7, <1>8, <1>9, <1>10, <1>11 DEF Requests

LEMMA AliasesAreASequence ==
  ASSUME NEW f \in DOMAIN Prefs
  PROVE  /\ Prefs[f].aliases \in Seq(Range(Prefs[f].aliases))
         /\ Len(Prefs[f].aliases) \in Nat
         /\ ~Resets(Prefs[f]) => Prefs[f].aliases = <<>>
<1>1. IsPref(Prefs[f])
  BY RoutingAssumption
<1>2. Prefs[f].aliases \in Seq(Range(Prefs[f].aliases)) /\ (~Resets(Prefs[f]) => Prefs[f].aliases = <<>>)
  BY <1>1, Zenon DEF IsPref
<1> QED BY <1>2

\* The mutex is the loading worker's, and the others load nothing.
LEMMA OneLoads ==
  ASSUME LoadInv, NEW w \in Workers, job[w].at \in {"aliases", "switch"}
  PROVE  /\ mutex = w /\ w # Free
         /\ \A v \in Workers : v # w => job[v].at \notin {"aliases", "switch"}
BY RoutingAssumption DEF LoadInv, HolderLoads

LEMMA StartLoadKeepsLoads ==
  ASSUME LoadInv, NEW w \in Workers, StartLoad(w)
  PROVE  LoadInv'
<1> DEFINE pref == Prefs[prefFile]
           moved == [job[w] EXCEPT !.at = "aliases"]
           bound == [moved EXCEPT !.todo = pref.aliases]
<1>1. /\ mutex = Free /\ mutex' = w /\ prefFile \in DOMAIN Prefs
      /\ redirect_map' = IF Resets(pref) THEN <<>> ELSE redirect_map
      /\ UNCHANGED <<prefFile, serve_file, serve_file_root>>
  BY DEF StartLoad, MayLoad, LoadInv, Typed
<1>2. job' = [v \in Workers |->
                IF v = w THEN [job[w] EXCEPT !.at = "aliases", !.todo = pref.aliases,
                                             !.file = prefFile]
                ELSE job[v]]
  BY DEF StartLoad, LoadInv, Typed
<1>3. IsJob(job[w])
  BY DEF LoadInv, Typed
<1>4. moved = [at |-> "aliases", req |-> job[w].req, todo |-> job[w].todo,
               file |-> job[w].file, reply |-> job[w].reply]
  BY <1>3 DEF IsJob
<1>5. [job[w] EXCEPT !.at = "aliases", !.todo = pref.aliases, !.file = prefFile] =
        [bound EXCEPT !.file = prefFile]
  BY <1>3 DEF IsJob
<1> HIDE DEF moved
<1>6. bound = [at |-> "aliases", req |-> job[w].req, todo |-> pref.aliases,
               file |-> job[w].file, reply |-> job[w].reply]
  BY <1>4
<1> HIDE DEF bound
<1>7. [bound EXCEPT !.file = prefFile] =
        [at |-> "aliases", req |-> job[w].req, todo |-> pref.aliases,
         file |-> prefFile, reply |-> job[w].reply]
  BY <1>6
<1>8. /\ job'[w].at = "aliases" /\ job'[w].todo = pref.aliases /\ job'[w].file = prefFile
      /\ IsJob(job'[w])
  BY <1>2, <1>5, <1>7 DEF IsJob
<1>9. \A v \in Workers : v # w => job'[v] = job[v] /\ job[v].at \notin {"aliases", "switch"}
  <2>1. \A v \in Workers : mutex # v
    BY <1>1, RoutingAssumption
  <2> QED BY <1>2, <2>1 DEF LoadInv, HolderLoads
<1>10. Typed'
  <2>1. job' = [v \in Workers |-> job'[v]]
    BY <1>2
  <2> QED BY <1>1, <1>8, <1>9, <2>1 DEF LoadInv, Typed
<1>11. HolderLoads'
  BY <1>1, <1>8, <1>9 DEF HolderLoads
<1>12. LoadsAreWhole'
  BY <1>1, RoutingAssumption DEF LoadsAreWhole
<1>13. AliasesGrow'
  <2>1. Settled /\ RootFlag
    BY <1>1, Zenon DEF LoadInv, LoadsAreWhole, Settled, RootFlag
  <2>2. RootFlag'
    BY <1>1, <2>1 DEF RootFlag
  <2>3. IsLoading(w, prefFile)'
    <3>1. CASE Resets(pref)
      <4> DEFINE s == pref.aliases
      <4>1. s \in Seq(Range(s)) /\ Len(s) \in Nat
        BY <1>1, AliasesAreASequence
      <4> HIDE DEF s
      <4>2. s = SubSeq(s, 0 + 1, Len(s)) /\ 0 \in 0..Len(s)
        BY <4>1
      <4>3. Stored(s, 0) = <<>>
        BY <4>1, StoredPairs
      <4>4. redirect_map' = <<>> /\ job'[w].todo = s /\ s = Prefs[prefFile].aliases
            /\ prefFile' = prefFile
        BY <1>1, <1>8, <3>1 DEF s
      <4>5. \E j \in DOMAIN Prefs : RootIs(j)'
        BY <1>1, <2>1 DEF Settled, RootIs
      <4> QED BY <1>1, <3>1, <4>2, <4>3, <4>4, <4>5, Zenon DEF IsLoading
    <3>2. CASE ~Resets(pref)
      <4>1. pref.aliases = <<>>
        BY <1>1, <3>2, AliasesAreASequence
      <4>2. Settled'
        BY <1>1, <2>1, <3>2 DEF Settled, AliasesAre, RootIs
      <4> QED BY <1>1, <1>8, <3>2, <4>1, <4>2 DEF IsLoading
    <3> QED BY <3>1, <3>2
  <2> QED BY <1>1, <1>8, <1>9, <2>2, <2>3 DEF AliasesGrow
<1>14. RootIsSet'
  BY <1>8, <1>9 DEF RootIsSet
<1> QED BY <1>10, <1>11, <1>12, <1>13, <1>14 DEF LoadInv

LEMMA AppendRedirectKeepsLoads ==
  ASSUME LoadInv, NEW w \in Workers, AppendRedirect(w)
  PROVE  LoadInv'
<1> DEFINE f == job[w].file
<1>1. /\ job[w].at = "aliases" /\ job[w].todo # <<>>
      /\ redirect_map' = Store(redirect_map, Head(job[w].todo))
      /\ UNCHANGED <<prefFile, serve_file, serve_file_root, mutex>>
  BY DEF AppendRedirect
<1>2. job' = [v \in Workers |-> IF v = w THEN [job[w] EXCEPT !.todo = Tail(job[w].todo)] ELSE job[v]]
  BY DEF AppendRedirect, LoadInv, Typed
<1>3. [job[w] EXCEPT !.todo = Tail(job[w].todo)] =
        [at |-> job[w].at, req |-> job[w].req, todo |-> Tail(job[w].todo),
         file |-> job[w].file, reply |-> job[w].reply]
  <2> DEFINE rest == Tail(job[w].todo)
  <2>1. IsJob(job[w])
    BY DEF LoadInv, Typed
  <2> HIDE DEF rest
  <2>2. [job[w] EXCEPT !.todo = rest] =
          [at |-> job[w].at, req |-> job[w].req, todo |-> rest,
           file |-> job[w].file, reply |-> job[w].reply]
    BY <2>1 DEF IsJob
  <2> QED BY <2>2 DEF rest
<1>4. /\ job'[w].at = "aliases" /\ job'[w].todo = Tail(job[w].todo) /\ job'[w].file = f
      /\ IsJob(job'[w])
  BY <1>1, <1>2, <1>3 DEF IsJob
<1>5. mutex = w /\ w # Free
  BY <1>1, OneLoads
<1>6. \A v \in Workers : v # w => job'[v] = job[v] /\ job[v].at \notin {"aliases", "switch"}
  BY <1>1, <1>2, OneLoads
<1>7. Typed'
  <2>1. job' = [v \in Workers |-> job'[v]]
    BY <1>2
  <2> QED BY <1>1, <1>4, <1>6, <2>1 DEF LoadInv, Typed
<1>8. HolderLoads'
  BY <1>1, <1>4, <1>5, <1>6 DEF LoadInv, HolderLoads
<1>9. LoadsAreWhole'
  BY <1>1, <1>5 DEF LoadsAreWhole
<1>10. AliasesGrow'
  <2>1. f \in DOMAIN Prefs /\ IsLoading(w, f) /\ RootFlag
    BY <1>1 DEF LoadInv, AliasesGrow
  <2> DEFINE s == Prefs[f].aliases
  <2>2. s \in Seq(Range(s)) /\ Len(s) \in Nat /\ Resets(Prefs[f])
    BY <1>1, <2>1, AliasesAreASequence DEF IsLoading
  <2>3. PICK k \in 0..Len(s) : job[w].todo = SubSeq(s, k + 1, Len(s)) /\ redirect_map = Stored(s, k)
    BY <2>1, <2>2 DEF IsLoading
  <2>r. \E j \in DOMAIN Prefs : RootIs(j)'
    BY <1>1, <2>1, <2>2 DEF IsLoading, RootIs
  <2>f. RootFlag'
    BY <1>1, <2>1 DEF RootFlag
  <2> HIDE DEF s
  <2>4. /\ k \in Nat /\ k + 1 \in 1..Len(s) /\ (k + 1) - 1 = k /\ k + 1 \in 0..Len(s)
        /\ Head(SubSeq(s, k + 1, Len(s))) = s[k + 1]
        /\ Tail(SubSeq(s, k + 1, Len(s))) = SubSeq(s, (k + 1) + 1, Len(s))
    <3>1. k \in Nat /\ k <= Len(s)
      BY <2>2
    <3>2. k # Len(s)
      BY <1>1, <2>2, <2>3
    <3>3. k + 1 \in 1..Len(s) /\ (k + 1) - 1 = k /\ k + 1 \in 0..Len(s)
      BY <2>2, <3>1, <3>2
    <3>4. Head(SubSeq(s, k + 1, Len(s))) = s[k + 1]
      BY <2>2, <3>3
    <3>5. Tail(SubSeq(s, k + 1, Len(s))) = SubSeq(s, (k + 1) + 1, Len(s))
      BY <2>2, <3>1, <3>3
    <3> QED BY <3>1, <3>3, <3>4, <3>5
  <2>5. redirect_map' = Stored(s, k + 1) /\ job'[w].todo = SubSeq(s, (k + 1) + 1, Len(s))
    <3>1. Stored(s, k + 1) = Store(Stored(s, (k + 1) - 1), s[k + 1])
      BY <2>2, <2>4, StoredPairs
    <3> QED BY <1>1, <1>4, <2>3, <2>4, <3>1
  <2> HIDE DEF f
  <2>6. IsLoading(w, f)'
    <3>1. \E m \in 0..Len(s) : job'[w].todo = SubSeq(s, m + 1, Len(s)) /\ redirect_map' = Stored(s, m)
      BY <2>4, <2>5, Zenon
    <3>2. f' = f
      BY <1>4 DEF f
    <3> QED BY <2>2, <2>r, <3>1, <3>2, Zenon DEF IsLoading, s
  <2> QED BY <1>4, <1>6, <2>1, <2>6, <2>f DEF AliasesGrow, f
<1>11. RootIsSet'
  BY <1>4, <1>6 DEF RootIsSet
<1> QED BY <1>7, <1>8, <1>9, <1>10, <1>11 DEF LoadInv

LEMMA NothingIsLeft ==
  ASSUME NEW S, NEW s \in Seq(S), NEW k \in 0..Len(s), <<>> = SubSeq(s, k + 1, Len(s))
  PROVE  k = Len(s)
<1> DEFINE rest == SubSeq(s, k + 1, Len(s))
<1>1. Len(s) \in Nat
  OBVIOUS
<1>2. k \in Nat /\ k <= Len(s)
  BY <1>1
<1>3. rest = <<>>
  OBVIOUS
<1>4. k < Len(s) => Len(rest) = Len(s) - k
  BY <1>1, <1>2
<1> HIDE DEF rest
<1>5. Len(rest) = 0
  BY <1>3
<1> QED BY <1>1, <1>2, <1>4, <1>5

\* When no alias is left, what is in force is settled but for the root.
LEMMA AliasesAreIn ==
  ASSUME LoadInv, NEW w \in Workers, job[w].at = "aliases", job[w].todo = <<>>
  PROVE  /\ job[w].file \in DOMAIN Prefs /\ RootFlag
         /\ \/ Resets(LoadedBy(w)) /\ AliasesAre(job[w].file) /\ \E j \in DOMAIN Prefs : RootIs(j)
            \/ ~Resets(LoadedBy(w)) /\ Settled
<1>f. PICK f : f = job[w].file
  OBVIOUS
<1> DEFINE s == Prefs[f].aliases
<1>1. f \in DOMAIN Prefs /\ IsLoading(w, f) /\ RootFlag /\ LoadedBy(w) = Prefs[f]
  BY <1>f DEF LoadInv, AliasesGrow, LoadedBy
<1>2. CASE Resets(Prefs[f])
  <2>1. s \in Seq(Range(s)) /\ Len(s) \in Nat
    BY <1>1, AliasesAreASequence
  <2>2. PICK k \in 0..Len(s) : <<>> = SubSeq(s, k + 1, Len(s)) /\ redirect_map = Stored(s, k)
    BY <1>1, <1>2 DEF IsLoading
  <2> HIDE DEF s
  <2>3. k = Len(s)
    BY <2>1, <2>2, NothingIsLeft
  <2>4. redirect_map = FoldLeft(Store, <<>>, s)
    BY <2>1, <2>2, <2>3, StoredPairs
  <2>5. AliasesAre(f)
    BY <1>2, <2>4 DEF AliasesAre, s
  <2> QED BY <1>f, <1>1, <1>2, <2>5 DEF IsLoading
<1>3. CASE ~Resets(Prefs[f])
  BY <1>f, <1>1, <1>3 DEF IsLoading
<1> QED BY <1>1, <1>2, <1>3

LEMMA SetRootKeepsLoads ==
  ASSUME LoadInv, NEW w \in Workers, SetRoot(w)
  PROVE  LoadInv'
<1>f. PICK f : f = job[w].file
  OBVIOUS
<1>1. /\ job[w].at = "aliases" /\ job[w].todo = <<>>
      /\ serve_file_root' = IF SetsRoot(Prefs[f]) THEN Prefs[f].root ELSE serve_file_root
      /\ UNCHANGED <<prefFile, redirect_map, serve_file, mutex>>
  BY <1>f DEF SetRoot, LoadedBy
<1>2. Takes(w, "switch", job[w].reply)
  BY Goes DEF SetRoot, LoadInv
<1>3. job'[w].at = "switch" /\ IsJob(job'[w])
  BY <1>2 DEF Takes, IsJob
<1>4. mutex = w /\ w # Free
  BY <1>1, OneLoads
<1>5. \A v \in Workers : v # w => job'[v] = job[v] /\ job[v].at \notin {"aliases", "switch"}
  BY <1>1, <1>2, OneLoads DEF Takes
<1>6. Typed'
  <2>1. job' = [v \in Workers |-> job'[v]]
    BY <1>2 DEF Takes
  <2> QED BY <1>1, <1>3, <1>5, <2>1 DEF LoadInv, Typed
<1>7. HolderLoads'
  BY <1>1, <1>3, <1>4, <1>5 DEF LoadInv, HolderLoads
<1>8. LoadsAreWhole'
  BY <1>1, <1>4 DEF LoadsAreWhole
<1>9. AliasesGrow'
  BY <1>3, <1>5 DEF AliasesGrow
<1>10. RootIsSet'
  <2>1. /\ f \in DOMAIN Prefs
        /\ \/ Resets(Prefs[f]) /\ AliasesAre(f) /\ \E j \in DOMAIN Prefs : RootIs(j)
           \/ ~Resets(Prefs[f]) /\ Settled
    BY <1>f, <1>1, AliasesAreIn DEF LoadedBy
  <2>2. \A i : AliasesAre(i) => AliasesAre(i)'
    BY <1>1 DEF AliasesAre
  <2>3. SetsRoot(Prefs[f]) => RootIs(f)'
    BY <1>1 DEF RootIs
  <2>4. ~SetsRoot(Prefs[f]) => \A j : RootIs(j) => RootIs(j)'
    BY <1>1 DEF RootIs
  <2>5. Settled'
    <3>1. CASE Resets(Prefs[f])
      <4>1. PICK j \in DOMAIN Prefs : RootIs(j)
        BY <2>1, <3>1
      <4>2. AliasesAre(f)' /\ Together(f, f)
        BY <2>1, <2>2, <3>1 DEF Together
      <4>3. CASE SetsRoot(Prefs[f])
        BY <2>1, <2>3, <4>2, <4>3 DEF Settled
      <4>4. CASE ~SetsRoot(Prefs[f])
        <5>1. RootIs(j)' /\ Together(f, j)
          BY <2>4, <4>1, <4>4 DEF Together
        <5> QED BY <2>1, <4>2, <5>1 DEF Settled
      <4> QED BY <4>3, <4>4
    <3>2. CASE ~Resets(Prefs[f])
      <4>1. PICK i, j \in DOMAIN Prefs : AliasesAre(i) /\ RootIs(j) /\ Together(i, j)
        BY <2>1, <3>2 DEF Settled
      <4>2. AliasesAre(i)' /\ Together(i, f)
        BY <2>2, <3>2, <4>1 DEF Together
      <4> QED BY <2>1, <2>3, <2>4, <4>1, <4>2 DEF Settled
    <3> QED BY <3>1, <3>2
  <2> QED BY <2>5 DEF RootIsSet
<1> QED BY <1>6, <1>7, <1>8, <1>9, <1>10 DEF LoadInv

\* A worker whose load is over.
LEMMA LoadIsOver ==
  ASSUME LoadInv, NEW w \in Workers, job[w].at \in {"aliases", "switch"},
         NEW reply, Takes(w, "answered", reply), prefFile' = prefFile, mutex' = Free,
         LoadsAreWhole'
  PROVE  LoadInv'
<1>1. /\ job'[w].at = "answered" /\ IsJob(job'[w])
      /\ job' = [v \in Workers |-> IF v = w THEN job'[w] ELSE job[v]]
  BY DEF Takes, IsJob
<1>2. \A v \in Workers : v # w => job'[v] = job[v] /\ job[v].at \notin {"aliases", "switch"}
  BY <1>1, OneLoads
<1>3. Typed'
  <2>1. job' = [v \in Workers |-> job'[v]]
    BY <1>1
  <2> QED BY <1>1, <1>2, <2>1 DEF LoadInv, Typed
<1>4. HolderLoads'
  BY <1>1, <1>2, RoutingAssumption DEF HolderLoads
<1>5. AliasesGrow'
  BY <1>1, <1>2 DEF AliasesGrow
<1>6. RootIsSet'
  BY <1>1, <1>2 DEF RootIsSet
<1> QED BY <1>3, <1>4, <1>5, <1>6 DEF LoadInv

LEMMA KeepRootKeepsLoads ==
  ASSUME LoadInv, NEW w \in Workers, KeepRoot(w)
  PROVE  LoadInv'
<1>f. PICK f : f = job[w].file
  OBVIOUS
<1>1. /\ job[w].at = "aliases" /\ job[w].todo = <<>> /\ ~SetsRoot(Prefs[f]) /\ mutex' = Free
      /\ UNCHANGED <<prefFile, redirect_map, serve_file, serve_file_root>>
  BY <1>f DEF KeepRoot, LoadedBy, Decides
<1>2. \E reply : Takes(w, "answered", reply)
  <2>1. PICK status : Reply(w, status, <<>>, "")
    BY Zenon DEF KeepRoot
  <2> QED BY <2>1, Replies DEF LoadInv
<1>3. /\ f \in DOMAIN Prefs /\ RootFlag
      /\ \/ Resets(Prefs[f]) /\ AliasesAre(f) /\ \E j \in DOMAIN Prefs : RootIs(j)
         \/ ~Resets(Prefs[f]) /\ Settled
  BY <1>f, <1>1, AliasesAreIn DEF LoadedBy
<1>4. Settled
  <2>1. ASSUME NEW j \in DOMAIN Prefs PROVE Together(f, j)
    BY <1>1 DEF Together
  <2> QED BY <1>3, <2>1 DEF Settled
<1>5. LoadsAreWhole'
  BY <1>1, <1>3, <1>4 DEF LoadsAreWhole, Settled, RootFlag, AliasesAre, RootIs
<1> QED BY <1>1, <1>2, <1>5, LoadIsOver

LEMMA EndLoadKeepsLoads ==
  ASSUME LoadInv, NEW w \in Workers, EndLoad(w)
  PROVE  LoadInv'
<1>1. /\ job[w].at = "switch" /\ serve_file' = (serve_file_root # "") /\ mutex' = Free
      /\ UNCHANGED <<prefFile, redirect_map, serve_file_root>>
  BY DEF EndLoad
<1>2. \E reply : Takes(w, "answered", reply)
  BY Replies DEF EndLoad, LoadInv
<1>3. Settled
  BY <1>1 DEF LoadInv, RootIsSet
<1>4. LoadsAreWhole'
  BY <1>1, <1>3 DEF LoadsAreWhole, Settled, AliasesAre, RootIs
<1> QED BY <1>1, <1>2, <1>4, LoadIsOver

LEMMA StepKeepsLoads ==
  ASSUME LoadInv, [Next]_vars
  PROVE  LoadInv'
<1>1. ASSUME NEW w \in Workers, Requests(w) PROVE LoadInv'
  BY <1>1, RequestsAreBeside, BesideKeepsLoads DEF LoadInv
<1>2. CASE UNCHANGED vars
  BY <1>2 DEF vars, LoadInv, Typed, HolderLoads, LoadsAreWhole, AliasesGrow, RootIsSet,
              IsLoading, Settled, RootFlag, AliasesAre, RootIs
<1>3. CASE Next
  BY <1>1, <1>3, StartLoadKeepsLoads, AppendRedirectKeepsLoads, SetRootKeepsLoads,
     KeepRootKeepsLoads, EndLoadKeepsLoads DEF Next, Requests
<1> QED BY <1>2, <1>3

-----------------------------------------------------------------------------
(* The invariant of the requests that meet no reload *)

RoutePaths == {r.path : r \in Routes}

\* Such a request for an alias that every file has is on its way to it.
OnItsWay ==
  \A w \in Workers \ met :
    job[w].at # "idle" /\ AsksForAlias(w) =>
      \/ job[w].at \in {"accepted", "redirect"}
      \/ Answered(w) /\ job[w].reply.status = 302

\* A file is looked for below a root, and a handler runs for a path of a route.
BelowARoot ==
  \A w \in Workers \ met :
    /\ job[w].at = "file" => serve_file_root # ""
    /\ job[w].at = "handler" => PathOf(w) \in RoutePaths

RequestInv == OnItsWay /\ BelowARoot /\ FilesAreOfARoot

IsGet(w) == job[w].req.method = "GET"
Found(status) == status = 302
Succeeds(status) == status = 200
Status(w) == job[w].reply.status
ReplyRoot(w) == job[w].reply.root

\* A worker of which all this holds now.
Sound(w) ==
  /\ job[w].at # "idle" /\ AsksForAlias(w) =>
       \/ job[w].at \in {"accepted", "redirect"}
       \/ Answered(w) /\ Found(Status(w))
  /\ job[w].at = "file" => serve_file_root # ""
  /\ job[w].at = "handler" => PathOf(w) \in RoutePaths
  /\ Answered(w) /\ Succeeds(Status(w)) /\ IsGet(w) /\ PathOf(w) \notin RoutePaths
     => ReplyRoot(w) # ""

AllSound == \A w \in Workers \ met : Sound(w)

LEMMA RequestsAreSound == RequestInv <=> AllSound
BY Zenon DEF RequestInv, OnItsWay, BelowARoot, FilesAreOfARoot, AllSound, Sound, RoutePaths,
             IsGet, Status, ReplyRoot, Found, Succeeds

LEMMA IdleIsSound ==
  ASSUME NEW w, job[w].at = "idle"
  PROVE  Sound(w)
BY DEF Sound, Answered

\* Between two loads an alias of every file is there.
LEMMA AliasIsThere ==
  ASSUME LoadInv, mutex = Free, NEW w \in Workers, AsksForAlias(w)
  PROVE  PathOf(w) \in DOMAIN redirect_map
<1>1. PICK i \in DOMAIN Prefs :
        (Resets(Prefs[i]) \/ i = 1) /\ redirect_map = FoldLeft(Store, <<>>, Prefs[i].aliases)
  BY DEF LoadInv, LoadsAreWhole, AliasesAre
<1> DEFINE s == Prefs[i].aliases
<1>2. PICK p \in Range(s) : p[1] = PathOf(w)
  BY <1>1 DEF AsksForAlias
<1>3. s \in Seq(Range(s)) /\ DOMAIN s = 1..Len(s)
  BY AliasesAreASequence
<1>4. PICK k \in DOMAIN s : s[k] = p
  BY <1>2 DEF Range
<1> HIDE DEF s
<1>5. s[k][1] \in DOMAIN FoldLeft(Store, <<>>, s)
  BY <1>3, <1>4, StoredURIs
<1> QED BY <1>1, <1>2, <1>4, <1>5 DEF s

\* Nothing is loaded where the mutex is free before and after the step.
LEMMA NothingIsLoaded ==
  ASSUME LoadInv, mutex = Free, mutex' = Free, NEW w \in Workers
  PROVE  /\ ~Rebuilding /\ job[w].at \notin {"aliases", "switch"}
         /\ ~StartLoad(w) /\ ~AppendRedirect(w) /\ ~SetRoot(w) /\ ~KeepRoot(w)
         /\ ~EndLoad(w)
<1>1. \A v \in Workers : job[v].at \notin {"aliases", "switch"} /\ v # Free
  BY RoutingAssumption DEF LoadInv, HolderLoads
<1> QED BY <1>1 DEF Rebuilding, StartLoad, AppendRedirect, SetRoot, KeepRoot, EndLoad

LEMMA SameRequest ==
  ASSUME NEW w \in Workers, job'[w].req = job[w].req
  PROVE  (PathOf(w)' = PathOf(w)) /\ (AsksForAlias(w)' <=> AsksForAlias(w))
         /\ (IsGet(w)' <=> IsGet(w))
<1>1. PathOf(w)' = PathOf(w)
  BY Zenon DEF PathOf
<1>2. IsGet(w)' <=> IsGet(w)
  BY Zenon DEF IsGet
<1> QED BY <1>1, <1>2, Zenon DEF AsksForAlias

LEMMA TakesFields ==
  ASSUME NEW w \in Workers, NEW at, NEW reply, Takes(w, at, reply)
  PROVE  job'[w].at = at /\ job'[w].req = job[w].req /\ job'[w].reply = reply
<1>1. job'[w] = [at |-> at, req |-> job[w].req, todo |-> job[w].todo, file |-> job[w].file,
                 reply |-> reply]
  BY Zenon DEF Takes
<1>2. job'[w].at = at
  BY <1>1
<1>3. job'[w].req = job[w].req
  <2>1. PICK req, todo, file :
          /\ req = job[w].req
          /\ job'[w] = [at |-> at, req |-> req, todo |-> todo, file |-> file, reply |-> reply]
    BY <1>1, Zenon
  <2>2. job'[w].req = req
    BY <2>1
  <2> QED BY <2>1, <2>2
<1>4. job'[w].reply = reply
  BY <1>1
<1> QED BY <1>2, <1>3, <1>4

LEMMA OthersStaySound ==
  ASSUME NEW w \in Workers, job'[w] = job[w], serve_file_root' = serve_file_root, Sound(w)
  PROVE  Sound(w)'
<1>1. /\ job'[w].at = job[w].at /\ job'[w].req = job[w].req
      /\ (Answered(w)' <=> Answered(w))
      /\ Status(w)' = Status(w) /\ ReplyRoot(w)' = ReplyRoot(w)
  BY Zenon DEF Answered, Status, ReplyRoot
<1>2. (PathOf(w)' = PathOf(w)) /\ (AsksForAlias(w)' <=> AsksForAlias(w))
      /\ (IsGet(w)' <=> IsGet(w))
  BY <1>1, SameRequest
<1> QED BY <1>1, <1>2 DEF Sound

\* A request that goes on or is answered, not short of what it asks for.
LEMMA GoingIsSound ==
  ASSUME LoadInv, NEW w \in Workers, NEW at, Goto(w, at),
         at \notin {"idle", "answered"},
         AsksForAlias(w) => at \in {"accepted", "redirect"},
         at = "file" => serve_file_root' # "",
         at = "handler" => PathOf(w) \in RoutePaths
  PROVE  Sound(w)'
<1>1. Takes(w, at, job[w].reply)
  BY Goes DEF LoadInv
<1>2. job'[w].at = at /\ job'[w].req = job[w].req
  BY <1>1, TakesFields
<1>3. (PathOf(w)' = PathOf(w)) /\ (AsksForAlias(w)' <=> AsksForAlias(w))
  BY <1>2, SameRequest
<1>4. ~Answered(w)'
  BY <1>2 DEF Answered
<1> QED BY <1>2, <1>3, <1>4 DEF Sound

LEMMA AnswerIsSound ==
  ASSUME LoadInv, NEW w \in Workers, NEW status, NEW location, NEW root,
         Reply(w, status, location, root),
         Found(status) \/ ~AsksForAlias(w),
         ~Succeeds(status) \/ ~IsGet(w) \/ PathOf(w) \in RoutePaths \/ root # ""
  PROVE  Sound(w)'
<1>1. Takes(w, "answered", [status |-> status, location |-> location, root |-> root])
  BY Replies DEF LoadInv
<1>2. /\ job'[w].at = "answered" /\ job'[w].req = job[w].req
      /\ job'[w].reply = [status |-> status, location |-> location, root |-> root]
  BY <1>1, TakesFields, Zenon
<1>3. (PathOf(w)' = PathOf(w)) /\ (AsksForAlias(w)' <=> AsksForAlias(w))
      /\ (IsGet(w)' <=> IsGet(w))
  BY <1>2, SameRequest
<1>4. Answered(w)' /\ Status(w)' = status /\ ReplyRoot(w)' = root
  <2>1. Status(w)' = [status |-> status, location |-> location, root |-> root].status
    BY <1>2, Zenon DEF Status
  <2>2. ReplyRoot(w)' = [status |-> status, location |-> location, root |-> root].root
    BY <1>2, Zenon DEF ReplyRoot
  <2>3. Answered(w)'
    BY <1>2, Zenon DEF Answered
  <2> QED BY <2>1, <2>2, <2>3
<1>5. job'[w].at # "idle" /\ job'[w].at # "file" /\ job'[w].at # "handler"
  BY <1>2
<1> QED BY <1>3, <1>4, <1>5, Zenon DEF Sound

LEMMA RequestStaysSound ==
  ASSUME LoadInv, mutex = Free, mutex' = Free, NEW w \in Workers, Requests(w), Sound(w)
  PROVE  Sound(w)'
<1>1. CASE Accept(w)
  <2>1. PICK r \in Sent : job' = [job EXCEPT ![w] = [Idle EXCEPT !.at = "accepted", !.req = r]]
    BY <1>1 DEF Accept
  <2>2. job' = [v \in Workers |-> IF v = w THEN [Idle EXCEPT !.at = "accepted", !.req = r]
                                  ELSE job[v]]
    BY <2>1 DEF LoadInv, Typed
  <2>3. job'[w].at = "accepted"
    BY <2>2 DEF Idle
  <2> QED BY <2>3 DEF Sound, Answered
<1>2. CASE RejectLoop(w)
  <2>1. Reply(w, 500, <<>>, "")
    BY <1>2, Zenon DEF RejectLoop
  <2>2. ~AsksForAlias(w)
    BY <1>2 DEF RejectLoop, AsksForAlias
  <2>3. ~Succeeds(500)
    BY DEF Succeeds
  <2> QED BY <2>1, <2>2, <2>3, AnswerIsSound, Zenon
<1>3. CASE Preflight(w)
  <2>1. ~IsGet(w) /\ ~AsksForAlias(w)
    BY <1>3 DEF Preflight, AsksForAlias, IsGet
  <2>2. PICK status : Reply(w, status, <<>>, "")
    BY <1>3, Zenon DEF Preflight
  <2> QED BY <2>1, <2>2, AnswerIsSound
<1>4. CASE FindRoute(w)
  <2> DEFINE route == Route(job[w].req.method, PathOf(w))
  <2>1. PICK at : /\ Goto(w, at) /\ at \in {"redirect", "readconf", "updateconf", "handler"}
                  /\ at = "redirect" <=> route \notin Routes
    BY <1>4 DEF FindRoute
  <2>2. route \in Routes => PathOf(w) \in RoutePaths
    <3>1. route.path = PathOf(w)
      BY Zenon DEF Route
    <3> HIDE DEF route
    <3> QED BY <3>1, Zenon DEF RoutePaths
  <2>3. AsksForAlias(w) => route \notin Routes
    BY DEF AsksForAlias
  <2> HIDE DEF route
  <2> QED BY <2>1, <2>2, <2>3, GoingIsSound
<1>5. CASE Handle(w)
  <2>1. PICK status : Reply(w, status, <<>>, "")
    BY <1>5 DEF Handle
  <2>2. PathOf(w) \in RoutePaths /\ ~AsksForAlias(w)
    BY <1>5 DEF Handle, Sound, Answered
  <2> QED BY <2>1, <2>2, AnswerIsSound
<1>6. CASE Redirect(w)
  <2>1. PICK location : Reply(w, 302, location, "")
    BY <1>6, Zenon DEF Redirect
  <2>2. Found(302) /\ ~Succeeds(302)
    BY DEF Found, Succeeds
  <2> QED BY <2>1, <2>2, AnswerIsSound, Zenon
<1>7. CASE NoRedirect(w)
  <2>1. ~AsksForAlias(w)
    BY <1>7, AliasIsThere, NothingIsLoaded DEF NoRedirect
  <2>2. CASE serve_file /\ job[w].req.method = "GET"
    <3>1. Goto(w, "file")
      BY <1>7, <2>2 DEF NoRedirect
    <3>2. serve_file_root' # ""
      BY <1>7, <2>2 DEF LoadInv, LoadsAreWhole, NoRedirect
    <3> QED BY <2>1, <3>1, <3>2, GoingIsSound
  <2>3. CASE ~(serve_file /\ job[w].req.method = "GET")
    <3>1. Reply(w, 404, <<>>, "")
      BY <1>7, <2>3, Zenon DEF NoRedirect
    <3>2. ~Succeeds(404)
      BY DEF Succeeds
    <3> QED BY <2>1, <3>1, <3>2, AnswerIsSound, Zenon
  <2> QED BY <2>2, <2>3
<1>8. CASE ServeFile(w)
  <2>1. Reply(w, 200, <<>>, serve_file_root) \/ Reply(w, 404, <<>>, "")
    BY <1>8, Zenon DEF ServeFile
  <2>2. serve_file_root # "" /\ ~AsksForAlias(w)
    BY <1>8 DEF ServeFile, Sound, Answered
  <2>3. ~Succeeds(404)
    BY DEF Succeeds
  <2> QED BY <2>1, <2>2, <2>3, AnswerIsSound, Zenon
<1>9. CASE Finish(w)
  <2>1. job'[w].at = "idle"
    BY <1>9 DEF Finish, LoadInv, Typed, Idle
  <2> QED BY <2>1 DEF Sound, Answered
<1>10. CASE Deny(w)
  <2>1. PICK status \in {403, 501} : Reply(w, status, <<>>, "")
    BY <1>10 DEF Deny
  <2>2. ~AsksForAlias(w)
    BY <1>10 DEF Deny, Sound, Answered
  <2>3. ~Succeeds(status)
    BY DEF Succeeds
  <2> QED BY <2>1, <2>2, <2>3, AnswerIsSound, Zenon
<1>11. CASE CallReadConf(w)
  <2>1. Goto(w, "readConf") /\ ~AsksForAlias(w)
    BY <1>11 DEF CallReadConf, Sound, Answered
  <2> QED BY <2>1, GoingIsSound
<1> QED BY <1>1, <1>2, <1>3, <1>4, <1>5, <1>6, <1>7, <1>8, <1>9, <1>10, <1>11 DEF Requests

LEMMA StepKeepsRequests ==
  ASSUME LoadInv, RequestInv, [MCNext]_<<vars, met>>
  PROVE  RequestInv'
<1>1. CASE UNCHANGED <<vars, met>>
  <2>1. job' = job /\ met' = met /\ serve_file_root' = serve_file_root
    BY <1>1 DEF vars
  <2>2. \A w \in Workers \ met' : Sound(w)'
    BY <2>1, RequestsAreSound, OthersStaySound DEF AllSound
  <2>3. AllSound'
    BY <2>2 DEF AllSound
  <2> QED BY <2>3, RequestsAreSound, PTL
<1>2. CASE MCNext
  <2>1. ASSUME NEW w \in Workers \ met', job'[w].at # "idle"
        PROVE  w \notin met /\ mutex = Free /\ mutex' = Free
    BY <1>2, <2>1 DEF MCNext, Loading
  <2>2. ASSUME NEW w \in Workers \ met' PROVE Sound(w)'
    <3>1. CASE job'[w].at = "idle"
      BY <3>1 DEF Sound, Answered
    <3>2. CASE job'[w].at # "idle"
      <4>1. w \notin met /\ mutex = Free /\ mutex' = Free
        BY <2>1, <3>2
      <4>2. Sound(w)
        BY <4>1, RequestsAreSound DEF AllSound
      <4>3. PICK v \in Workers : Requests(v)
        <5>1. PICK v \in Workers :
                \/ Requests(v) \/ StartLoad(v) \/ AppendRedirect(v)
                \/ SetRoot(v) \/ KeepRoot(v) \/ EndLoad(v)
          BY <1>2, Zenon DEF MCNext, Next, Requests
        <5> QED BY <4>1, <5>1, NothingIsLoaded
      <4>4. CASE v = w
        BY <4>1, <4>2, <4>3, <4>4, RequestStaysSound
      <4>5. CASE v # w
        <5>1. Beside(v)
          BY <4>3, RequestsAreBeside DEF LoadInv
        <5>2. job'[w] = job[w] /\ serve_file_root' = serve_file_root
          BY <4>5, <5>1 DEF Beside
        <5> QED BY <4>2, <5>2, OthersStaySound
      <4> QED BY <4>4, <4>5
    <3> QED BY <3>1, <3>2
  <2>3. AllSound'
    BY <2>2 DEF AllSound
  <2> QED BY <2>3, RequestsAreSound, PTL
<1> QED BY <1>1, <1>2

LEMMA InitLoads ==
  ASSUME Init
  PROVE  LoadInv
<1>1. \A w \in Workers : job[w] = Idle /\ job[w].at = "idle"
  BY DEF Init, Idle
<1>2. 1 \in DOMAIN Prefs
  BY RoutingAssumption
<1>3. Typed
  BY <1>1, <1>2 DEF Init, Typed, IsJob, Idle
<1>4. HolderLoads
  BY <1>1, RoutingAssumption DEF Init, HolderLoads
<1>5. LoadsAreWhole
  <2>1. AliasesAre(1) /\ RootIs(1) /\ Together(1, 1) /\ serve_file = (serve_file_root # "")
    BY DEF Init, AliasesAre, RootIs, Together
  <2> QED BY <1>2, <2>1, Zenon DEF LoadsAreWhole
<1>6. AliasesGrow /\ RootIsSet
  BY <1>1 DEF AliasesGrow, RootIsSet
<1> QED BY <1>3, <1>4, <1>5, <1>6 DEF LoadInv

LEMMA InitRequests ==
  ASSUME Init
  PROVE  RequestInv
<1>1. \A w \in Workers : job[w].at = "idle"
  BY DEF Init, Idle
<1> QED BY <1>1, RequestsAreSound, IdleIsSound DEF AllSound

-----------------------------------------------------------------------------
(* The theorems *)

\* Between two loads, however the earlier ones ended, the redirects and the root
\* are those of preference files, of one file unless a load has left one of them
\* alone, and the switch for files agrees with the root (settings.cpp,
\* readConf()).
THEOREM LoadsStayWhole == Spec => []LoadsAreWhole
<1>1. Init => LoadInv
  BY InitLoads
<1>2. LoadInv /\ [Next]_vars => LoadInv'
  BY StepKeepsLoads
<1>3. LoadInv => LoadsAreWhole
  BY DEF LoadInv
<1> QED BY <1>1, <1>2, <1>3, PTL DEF Spec

\* Whatever is reloaded beside it, a request that meets no reload finds the
\* alias that every preference file has, and files only below a root.
THEOREM RoutesSurvive == MCSpec => []RoutesSurviveReloads
<1> DEFINE Inv == LoadInv /\ RequestInv
<1>1. MCInit => Inv
  BY InitLoads, InitRequests DEF MCInit
<1>2. Inv /\ [MCNext]_<<vars, met>> => Inv'
  <2>1. [MCNext]_<<vars, met>> => [Next]_vars
    BY DEF MCNext
  <2> QED BY <2>1, StepKeepsLoads, StepKeepsRequests
<1>3. Inv => RoutesSurviveReloads
  <2>1. SUFFICES ASSUME Inv PROVE RoutesSurviveReloads
    OBVIOUS
  <2>2. LoadsAreWhole /\ FilesAreOfARoot
    BY <2>1 DEF LoadInv, RequestInv
  <2>3. AliasesAnswer
    BY <2>1 DEF RequestInv, OnItsWay, AliasesAnswer, Answered
  <2> QED BY <2>2, <2>3 DEF RoutesSurviveReloads
<1> QED BY <1>1, <1>2, <1>3, PTL DEF MCSpec
=============================================================================
