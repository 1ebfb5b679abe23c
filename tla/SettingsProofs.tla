---------------------------- MODULE SettingsProofs ----------------------------
(***************************************************************************)
(* Proofs about Settings, for preference files of any content and any      *)
(* number of loads: what readConf() leaves in `global` is of the file read *)
(* last where it has to be, tasks and template variables are never mixed   *)
(* up, and the access token survives every reload.                         *)
(***************************************************************************)
EXTENDS Settings, WellFoundedInduction, TLAPS

\* A set of numbers that is not empty has a least one.
LEMMA LeastNumber ==
  ASSUME NEW T \in SUBSET Nat, T # {}
  PROVE  \E k \in T : \A l \in T : k <= l
<1> DEFINE R == OpToRel(<, Nat)
<1>1. PICK k \in T : \A l \in T : ~(<<l, k>> \in R)
  BY NatLessThanWellFounded, WFMin
<1>2. ASSUME NEW l \in Nat, NEW m \in Nat, l < m
      PROVE  <<l, m>> \in R
  <2>1. <<l, m>> \in Nat \X Nat /\ <<l, m>>[1] < <<l, m>>[2]
    BY <1>2
  <2> QED BY <2>1 DEF OpToRel
<1> HIDE DEF R
<1>3. ASSUME NEW l \in T
      PROVE  k <= l
  <2>1. l \in Nat /\ k \in Nat
    BY <1>1
  <2>2. ~(l < k)
    BY <1>1, <1>2, <1>3, <2>1
  <2> QED BY <2>1, <2>2
<1> QED BY <1>1, <1>3

\* What holds of 0, and of each number after one it holds of, holds up to n.
LEMMA NoneFails ==
  ASSUME NEW n \in Nat, NEW T \in SUBSET (0..n), 0 \notin T,
         \A k \in 1..n : k \in T => k - 1 \in T
  PROVE  T = {}
<1>1. SUFFICES ASSUME T # {} PROVE FALSE
  OBVIOUS
<1>2. PICK k \in T : \A l \in T : k <= l
  <2>1. T \in SUBSET Nat
    OBVIOUS
  <2> QED BY <1>1, <2>1, LeastNumber
<1>3. k \in 1..n /\ ~(k <= k - 1)
  BY <1>2
<1> QED BY <1>2, <1>3

\* Max of some of the first numbers is the greatest of them.
LEMMA MaxIsGreatest ==
  ASSUME NEW n \in Nat, NEW t \in SUBSET (1..n), t # {}
  PROVE  Max(t) \in t /\ \A y \in t : y <= Max(t)
<1> DEFINE T == {k \in Nat : \A y \in t : y <= k}
<1>1. n \in T
  OBVIOUS
<1>2. PICK k \in T : \A l \in T : k <= l
  BY <1>1, LeastNumber
<1>3. k \in t
  <2>1. SUFFICES ASSUME k \notin t PROVE FALSE
    OBVIOUS
  <2>2. \A y \in t : y \in Nat /\ y # 0 /\ y <= k - 1
    BY <2>1
  <2>3. k - 1 \in Nat
    <3>1. PICK y \in t : TRUE
      OBVIOUS
    <3>2. y \in Nat /\ y # 0 /\ y <= k /\ k \in Nat
      BY <2>2, <3>1
    <3> QED BY <3>2
  <2>4. k - 1 \in T
    BY <2>2, <2>3
  <2> QED BY <1>2, <2>2, <2>4
<1>4. \E x \in t : \A y \in t : x >= y
  BY <1>2, <1>3
<1> QED BY <1>4 DEF Max

\* The first k numbers but the last are the first k - 1.
LEMMA Prefix ==
  ASSUME NEW n \in Nat, NEW k \in 1..n
  PROVE  /\ 1..k \in SUBSET (1..n) /\ 1..k # {} /\ Max(1..k) = k
         /\ (1..k) \ {k} = 1..k - 1
<1>1. k \in Nat /\ 1 <= k /\ k <= n
  OBVIOUS
<1>2. k \in 1..k
  BY <1>1
<1>3. 1..k \in SUBSET (1..n)
  BY <1>1
<1>4. Max(1..k) = k
  <2>1. 1..k \in SUBSET (1..k)
    OBVIOUS
  <2>2. Max(1..k) \in 1..k /\ \A y \in 1..k : y <= Max(1..k)
    BY <1>1, <1>2, <2>1, MaxIsGreatest
  <2> QED BY <1>1, <1>2, <2>2
<1>5. (1..k) \ {k} = 1..k - 1
  BY <1>1
<1> QED BY <1>2, <1>3, <1>4, <1>5

\* f folds every subset of the first n elements of s with H.
IsFold(f, H, base, s, n, A) ==
  /\ f \in [SUBSET (1..n) -> A]
  /\ \A t \in SUBSET (1..n) :
       f[t] = IF t = {} THEN base ELSE H[<<f[t \ {Max(t)}], s[Max(t)]>>]

\* What folds the first n elements can be made to fold one more.
LEMMA FoldGrows ==
  ASSUME NEW A, NEW B, NEW H \in [A \X B -> A], NEW base, NEW s \in Seq(B),
         NEW n \in Nat, n + 1 \in 1..Len(s), NEW f, IsFold(f, H, base, s, n, A)
  PROVE  \E g : IsFold(g, H, base, s, n + 1, A)
<1> DEFINE g == [t \in SUBSET (1..n + 1) |->
                   IF n + 1 \in t THEN H[<<f[t \ {n + 1}], s[n + 1]>>] ELSE f[t]]
<1>1. \A t \in SUBSET (1..n) : n + 1 \notin t /\ t \in SUBSET (1..n + 1) /\ g[t] = f[t]
  OBVIOUS
<1>t. \A t \in SUBSET (1..n + 1) : t \ {n + 1} \in SUBSET (1..n) /\ (n + 1 \notin t => t \in SUBSET (1..n))
  OBVIOUS
<1>2. ASSUME NEW t \in SUBSET (1..n + 1)
      PROVE  g[t] = IF t = {} THEN base ELSE H[<<g[t \ {Max(t)}], s[Max(t)]>>]
  <2>1. CASE n + 1 \in t
    <3>1. Max(t) = n + 1
      <4>1. Max(t) \in t /\ \A y \in t : y <= Max(t)
        <5>1. n + 1 \in Nat
          OBVIOUS
        <5> QED BY <2>1, <5>1, MaxIsGreatest
      <4>2. Max(t) \in 1..n + 1 /\ n + 1 <= Max(t)
        BY <2>1, <4>1
      <4> HIDE DEF g
      <4> QED BY <4>2
    <3>2. g[t \ {n + 1}] = f[t \ {n + 1}]
      BY <1>1, <1>t
    <3> QED BY <2>1, <3>1, <3>2
  <2>2. CASE n + 1 \notin t
    <3>1. t \in SUBSET (1..n)
      BY <2>2
    <3>2. g[t] = f[t]
      BY <1>1, <3>1
    <3>3. f[t] = IF t = {} THEN base ELSE H[<<f[t \ {Max(t)}], s[Max(t)]>>]
      BY <3>1 DEF IsFold
    <3>4. t \ {Max(t)} \in SUBSET (1..n)
      BY <3>1
    <3>5. g[t \ {Max(t)}] = f[t \ {Max(t)}]
      BY <1>1, <3>4
    <3> QED BY <3>2, <3>3, <3>5
  <2> QED BY <2>1, <2>2
<1>3. g \in [SUBSET (1..n + 1) -> A]
  <2>1. s[n + 1] \in B
    OBVIOUS
  <2>2. \A t \in SUBSET (1..n) : f[t] \in A
    BY DEF IsFold
  <2>3. ASSUME NEW t \in SUBSET (1..n + 1) PROVE g[t] \in A
    <3>1. CASE n + 1 \in t
      <4>1. f[t \ {n + 1}] \in A
        BY <1>t, <2>2
      <4>2. <<f[t \ {n + 1}], s[n + 1]>> \in A \X B
        BY <2>1, <4>1
      <4> QED BY <3>1, <4>2
    <3>2. CASE n + 1 \notin t
      BY <1>t, <2>2, <3>2
    <3> QED BY <3>1, <3>2
  <2> QED BY <2>3
<1> HIDE DEF g
<1> QED BY <1>2, <1>3 DEF IsFold

\* Every sequence can be folded.
LEMMA FoldExists ==
  ASSUME NEW A, NEW B, NEW H \in [A \X B -> A], NEW base \in A, NEW s \in Seq(B)
  PROVE  \E f : IsFold(f, H, base, s, Len(s), A)
<1> DEFINE T == {k \in 0..Len(s) : ~\E f : IsFold(f, H, base, s, k, A)}
<1>1. Len(s) \in Nat
  OBVIOUS
<1>2. 0 \notin T
  <2> DEFINE f == [t \in SUBSET (1..0) |-> base]
  <2>1. 1..0 = {}
    OBVIOUS
  <2>2. \A t \in SUBSET (1..0) : t = {} /\ f[t] = base
    BY <2>1
  <2>3. f \in [SUBSET (1..0) -> A]
    OBVIOUS
  <2>4. IsFold(f, H, base, s, 0, A)
    BY <2>2, <2>3, Zenon DEF IsFold
  <2> QED BY <2>4
<1>3. ASSUME NEW k \in 1..Len(s), k \in T PROVE k - 1 \in T
  <2>1. SUFFICES ASSUME k - 1 \notin T PROVE k \notin T
    BY <1>3
  <2>2. k - 1 \in 0..Len(s) /\ k - 1 \in Nat /\ (k - 1) + 1 = k /\ (k - 1) + 1 \in 1..Len(s)
    BY <1>1
  <2>3. PICK f : IsFold(f, H, base, s, k - 1, A)
    BY <2>1, <2>2
  <2>4. \E g : IsFold(g, H, base, s, (k - 1) + 1, A)
    BY <2>2, <2>3, FoldGrows
  <2> QED BY <2>2, <2>4
<1>4. T = {}
  <2>1. T \in SUBSET (0..Len(s))
    OBVIOUS
  <2> HIDE DEF T
  <2> QED BY <1>1, <1>2, <1>3, <2>1, NoneFails
<1>5. Len(s) \in 0..Len(s)
  BY <1>1
<1> QED BY <1>4, <1>5

-----------------------------------------------------------------------------
(* The tables of the readers *)

Readers == {"yaml", "toml", "ini"}

Rules == {"named", "always", "present", "read", "switched", "switchedHere", "gated", "cache",
          "cacheOn", "cacheUnlessOff", "items"}

Cron == {"enableCron", "cronTasks", "schedule"}

\* What the rules of a row may do to the settings the properties are about.
Fits(section, rule, keys) ==
  /\ rule \in Rules
  /\ rule \notin {"named", "always", "gated"} => keys \cap Erased = {}
  /\ rule # "named" => "accessToken" \notin keys
  /\ section = "template" \/ "templateVars" \notin keys

\* The tasks, their schedule and the switch are set together but for TOML.
FitsCron(reader, rule, keys) ==
  \/ ToSet(keys) \cap Cron = {}
  \/ /\ reader # "toml" /\ rule \in {"named", "present"}
     /\ keys = <<"enableCron", "cronTasks", "schedule">>
  \/ reader = "toml" /\ rule = "always" /\ keys = <<"cronTasks">>

RowFits(reader, row) ==
  Fits(row.section, row.rule, ToSet(row.keys)) /\ FitsCron(reader, row.rule, row.keys)

\* The rows of the three tables, one by one.
LEMMA YAMLFits ==
  /\ \A row \in ToSet(YAMLHead) : RowFits("yaml", row)
  /\ \A row \in ToSet(YAMLTail) : RowFits("yaml", row)
<1> USE DEF Row, RowFits, Fits, FitsCron, Rules, Erased, Cron, ToSet
<1>1. \A row \in ToSet(YAMLHead) : RowFits("yaml", row)
  BY SMTT(90) DEF YAMLHead
<1>2. \A row \in ToSet(YAMLTail) : RowFits("yaml", row)
  BY SMTT(90) DEF YAMLTail
<1> QED BY <1>1, <1>2

LEMMA TOMLFits ==
  /\ \A row \in ToSet(TOMLHead) : RowFits("toml", row)
  /\ \A row \in ToSet(TOMLTail) : RowFits("toml", row)
<1> USE DEF Row, RowFits, Fits, FitsCron, Rules, Erased, Cron, ToSet
<1>1. \A row \in ToSet(TOMLHead) : RowFits("toml", row)
  BY SMTT(90) DEF TOMLHead
<1>2. \A row \in ToSet(TOMLTail) : RowFits("toml", row)
  BY SMTT(90) DEF TOMLTail
<1> QED BY <1>1, <1>2

LEMMA INIFits ==
  /\ \A row \in ToSet(INIHead) : RowFits("ini", row)
  /\ \A row \in ToSet(INITail) : RowFits("ini", row)
<1> USE DEF Row, RowFits, Fits, FitsCron, Rules, Erased, Cron, ToSet
<1>1. \A row \in ToSet(INIHead) : RowFits("ini", row)
  BY SMTT(90) DEF INIHead
<1>2. \A row \in ToSet(INITail) : RowFits("ini", row)
  BY SMTT(90) DEF INITail
<1> QED BY <1>1, <1>2

\* A table is a sequence of its rows.
LEMMA TuplesAreSeqs ==
  /\ YAMLHead \in Seq(ToSet(YAMLHead)) /\ YAMLTail \in Seq(ToSet(YAMLTail))
  /\ TOMLHead \in Seq(ToSet(TOMLHead)) /\ TOMLTail \in Seq(ToSet(TOMLTail))
  /\ INIHead \in Seq(ToSet(INIHead)) /\ INITail \in Seq(ToSet(INITail))
<1>1. YAMLHead \in Seq(ToSet(YAMLHead))
  BY SMTT(60) DEF YAMLHead, ToSet
<1>2. YAMLTail \in Seq(ToSet(YAMLTail))
  BY SMTT(60) DEF YAMLTail, ToSet
<1>3. TOMLHead \in Seq(ToSet(TOMLHead))
  BY SMTT(60) DEF TOMLHead, ToSet
<1>4. TOMLTail \in Seq(ToSet(TOMLTail))
  BY SMTT(60) DEF TOMLTail, ToSet
<1>5. INIHead \in Seq(ToSet(INIHead))
  BY SMTT(60) DEF INIHead, ToSet
<1>6. INITail \in Seq(ToSet(INITail))
  BY SMTT(60) DEF INITail, ToSet
<1> QED BY <1>1, <1>2, <1>3, <1>4, <1>5, <1>6

\* So are two tables in a row, whose rows are those of either.
LEMMA BothParts ==
  ASSUME NEW s, NEW t, s \in Seq(ToSet(s)), t \in Seq(ToSet(t))
  PROVE  /\ s \o t \in Seq(ToSet(s \o t))
         /\ ToSet(s \o t) \subseteq ToSet(s) \cup ToSet(t)
<1> DEFINE u == s \o t
<1>1. /\ u \in Seq(ToSet(s) \cup ToSet(t)) /\ DOMAIN u = 1..Len(u) /\ Len(u) \in Nat
      /\ \A i \in DOMAIN u : u[i] \in ToSet(s) \cup ToSet(t)
  OBVIOUS
<1> HIDE DEF u
<1>2. ToSet(u) \subseteq ToSet(s) \cup ToSet(t)
  BY <1>1 DEF ToSet
<1>3. \A i \in 1..Len(u) : u[i] \in ToSet(u)
  BY <1>1 DEF ToSet
<1>4. u \in Seq(ToSet(u))
  BY <1>1, <1>3
<1> QED BY <1>2, <1>4 DEF u

\* The rows of every reader fit.
LEMMA RowsFit ==
  ASSUME NEW reader \in Readers
  PROVE  /\ Rows(reader) \in Seq(ToSet(Rows(reader)))
         /\ \A row \in ToSet(Rows(reader)) : RowFits(reader, row)
<1>1. CASE reader = "yaml"
  <2>1. Rows(reader) = YAMLHead \o YAMLTail
    BY <1>1 DEF Rows
  <2>2. /\ YAMLHead \o YAMLTail \in Seq(ToSet(YAMLHead \o YAMLTail))
        /\ ToSet(YAMLHead \o YAMLTail) \subseteq ToSet(YAMLHead) \cup ToSet(YAMLTail)
    BY TuplesAreSeqs, BothParts, Zenon
  <2> QED BY <1>1, <2>1, <2>2, YAMLFits, Zenon
<1>2. CASE reader = "toml"
  <2>1. Rows(reader) = TOMLHead \o TOMLTail
    BY <1>2 DEF Rows
  <2>2. /\ TOMLHead \o TOMLTail \in Seq(ToSet(TOMLHead \o TOMLTail))
        /\ ToSet(TOMLHead \o TOMLTail) \subseteq ToSet(TOMLHead) \cup ToSet(TOMLTail)
    BY TuplesAreSeqs, BothParts, Zenon
  <2> QED BY <1>2, <2>1, <2>2, TOMLFits, Zenon
<1>3. CASE reader = "ini"
  <2>1. Rows(reader) = INIHead \o INITail
    BY <1>3 DEF Rows
  <2>2. /\ INIHead \o INITail \in Seq(ToSet(INIHead \o INITail))
        /\ ToSet(INIHead \o INITail) \subseteq ToSet(INIHead) \cup ToSet(INITail)
    BY TuplesAreSeqs, BothParts, Zenon
  <2> QED BY <1>3, <2>1, <2>2, INIFits, Zenon
<1> QED BY <1>1, <1>2, <1>3 DEF Readers

-----------------------------------------------------------------------------
(* Reading a table of rows *)

\* What holds of the settings before a row of B is read holds after it.
Keeps(d, reader, A, B) == \A st \in A : \A row \in B : ReadRow(d, reader, st, row) \in A

\* g gives what has been read after each set of rows.
IsRead(g, d, reader, first, rows) ==
  g = [t \in SUBSET (1..Len(rows)) |->
         IF t = {} THEN first ELSE ReadRow(d, reader, g[t \ {Max(t)}], rows[Max(t)])]

\* A table of rows can be read, row by row.
LEMMA ReadExists ==
  ASSUME NEW A, NEW B, NEW d, NEW reader, NEW rows \in Seq(B), NEW first \in A,
         Keeps(d, reader, A, B)
  PROVE  \E f : IsRead(f, d, reader, first, rows)
<1> DEFINE H == [p \in A \X B |-> ReadRow(d, reader, p[1], p[2])]
<1>1. H \in [A \X B -> A] /\ \A st \in A, row \in B : H[<<st, row>>] = ReadRow(d, reader, st, row)
  <2>1. ASSUME NEW p \in A \X B PROVE ReadRow(d, reader, p[1], p[2]) \in A
    <3>1. p[1] \in A /\ p[2] \in B
      OBVIOUS
    <3> QED BY <3>1 DEF Keeps
  <2> QED BY <2>1
<1> HIDE DEF H
<1>2. PICK f : IsFold(f, H, first, rows, Len(rows), A)
  BY <1>1, FoldExists
<1>3. ASSUME NEW t \in SUBSET (1..Len(rows)), t # {}
      PROVE  f[t] = ReadRow(d, reader, f[t \ {Max(t)}], rows[Max(t)])
  <2>1. Max(t) \in 1..Len(rows)
    <3>1. Len(rows) \in Nat
      OBVIOUS
    <3>2. Max(t) \in t
      BY <1>3, <3>1, MaxIsGreatest
    <3> QED BY <3>2
  <2>2. f[t \ {Max(t)}] \in A
    BY <1>2 DEF IsFold
  <2>3. f[t] = H[<<f[t \ {Max(t)}], rows[Max(t)]>>]
    BY <1>2, <1>3 DEF IsFold
  <2>4. rows[Max(t)] \in B
    BY <2>1
  <2> QED BY <1>1, <2>2, <2>3, <2>4
<1>4. f[{}] = first
  BY <1>2 DEF IsFold
<1>5. f = [t \in SUBSET (1..Len(rows)) |-> f[t]]
  BY <1>2 DEF IsFold
<1>6. \A t \in SUBSET (1..Len(rows)) :
        f[t] = IF t = {} THEN first ELSE ReadRow(d, reader, f[t \ {Max(t)}], rows[Max(t)])
  BY <1>3, <1>4, Zenon
<1>7. IsRead(f, d, reader, first, rows)
  BY <1>5, <1>6 DEF IsRead
<1> QED BY <1>7

\* What every row keeps, the table keeps.
LEMMA ReadKeeps ==
  ASSUME NEW A, NEW B, NEW d, NEW reader, NEW rows \in Seq(B), NEW first \in A,
         Keeps(d, reader, A, B), NEW g, IsRead(g, d, reader, first, rows)
  PROVE  g[1..Len(rows)] \in A
<1> DEFINE T == {k \in 0..Len(rows) : g[1..k] \notin A}
<1>1. Len(rows) \in Nat
  OBVIOUS
<1>2. \A t \in SUBSET (1..Len(rows)) :
        g[t] = IF t = {} THEN first ELSE ReadRow(d, reader, g[t \ {Max(t)}], rows[Max(t)])
  BY Zenon DEF IsRead
<1>3. 0 \notin T
  <2>1. 1..0 = {} /\ {} \in SUBSET (1..Len(rows))
    OBVIOUS
  <2>2. g[1..0] = first
    BY <1>2, <2>1, Zenon
  <2> QED BY <2>2
<1>4. ASSUME NEW k \in 1..Len(rows), k \in T PROVE k - 1 \in T
  <2>1. /\ 1..k \in SUBSET (1..Len(rows)) /\ 1..k # {} /\ Max(1..k) = k
        /\ (1..k) \ {k} = 1..k - 1
    BY <1>1, Prefix
  <2>2. g[1..k] = ReadRow(d, reader, g[1..k - 1], rows[k])
    BY <1>2, <2>1, Zenon
  <2>3. rows[k] \in B
    OBVIOUS
  <2>4. g[1..k - 1] \in A => g[1..k] \in A
    BY <2>2, <2>3, Zenon DEF Keeps
  <2>5. k - 1 \in 0..Len(rows)
    BY <1>1
  <2> QED BY <1>4, <2>4, <2>5
<1>5. T \in SUBSET (0..Len(rows))
  OBVIOUS
<1>6. Len(rows) \in T <=> g[1..Len(rows)] \notin A
  BY <1>1
<1> HIDE DEF T
<1>7. T = {}
  BY <1>1, <1>3, <1>4, <1>5, NoneFails
<1> QED BY <1>6, <1>7

\* Where a reader begins.
First(c, sections) == [conf |-> c, sections |-> sections, section |-> "", error |-> "none"]

\* Read() computes what reading row by row gives, so it keeps what rows keep.
LEMMA ReadStays ==
  ASSUME NEW A, NEW d, NEW reader \in Readers, NEW c, NEW sections,
         Keeps(d, reader, A, ToSet(Rows(reader))), First(c, sections) \in A
  PROVE  Read(d, reader, c, sections) \in A
<1>1. Rows(reader) \in Seq(ToSet(Rows(reader)))
  BY RowsFit
<1>2. DOMAIN Rows(reader) = 1..Len(Rows(reader))
  BY <1>1
<1>3. \E g : IsRead(g, d, reader, First(c, sections), Rows(reader))
  BY <1>1, ReadExists
<1> DEFINE g == CHOOSE g : IsRead(g, d, reader, First(c, sections), Rows(reader))
<1>4. IsRead(g, d, reader, First(c, sections), Rows(reader))
  BY <1>3
<1>5. Read(d, reader, c, sections) = g[1..Len(Rows(reader))]
  BY <1>2, Zenon DEF Read, FoldLeft, MapThenFoldSet, IsRead, First
<1> HIDE DEF g
<1>6. g[1..Len(Rows(reader))] \in A
  BY <1>1, <1>4, ReadKeeps
<1> QED BY <1>5, <1>6

-----------------------------------------------------------------------------
(* What a setting may hold *)

Sources == Docs \cup {"default", "reset", "switched off", "environment"}
Places  == (UNION {Content[d].sections : d \in Docs}) \cup {""}
Values  == [source : Sources, section : Places, on : BOOLEAN]

\* The settings the properties name are settings.
LEMMA SomeSettings ==
  Erased \cup Cron \cup {"accessToken", "templateVars"} \subseteq Settings
<1>1. /\ \A row \in ToSet(YAMLHead) : row \in ToSet(YAMLHead \o YAMLTail)
      /\ \A row \in ToSet(YAMLTail) : row \in ToSet(YAMLHead \o YAMLTail)
  <2> DEFINE h == YAMLHead
             t == YAMLTail
  <2>1. h \in Seq(ToSet(h)) /\ t \in Seq(ToSet(t))
    BY TuplesAreSeqs
  <2> HIDE DEF h, t
  <2>2. \A i \in DOMAIN h : i \in DOMAIN (h \o t) /\ (h \o t)[i] = h[i]
    BY <2>1
  <2>3. \A i \in DOMAIN t : i + Len(h) \in DOMAIN (h \o t) /\ (h \o t)[i + Len(h)] = t[i]
    BY <2>1
  <2>4. /\ \A row \in ToSet(h) : row \in ToSet(h \o t)
        /\ \A row \in ToSet(t) : row \in ToSet(h \o t)
    BY <2>2, <2>3 DEF ToSet
  <2> QED BY <2>4 DEF h, t
<1>2. ASSUME NEW row, row \in ToSet(YAMLHead) \cup ToSet(YAMLTail)
      PROVE  ToSet(row.keys) \subseteq Settings
  BY <1>1, <1>2 DEF Settings
<1>3. {"accessToken", "excludeRemarks", "includeRemarks"} \subseteq Settings
  <2>1. \E row \in ToSet(YAMLHead) : "accessToken" \in ToSet(row.keys)
    BY DEF YAMLHead, ToSet, Row
  <2>2. \E row \in ToSet(YAMLHead) : "excludeRemarks" \in ToSet(row.keys)
    BY DEF YAMLHead, ToSet, Row
  <2>3. \E row \in ToSet(YAMLHead) : "includeRemarks" \in ToSet(row.keys)
    BY DEF YAMLHead, ToSet, Row
  <2> QED BY <1>2, <2>1, <2>2, <2>3
<1>4. {"customRulesets", "customProxyGroups", "templateVars"} \subseteq Settings
  <2>1. \E row \in ToSet(YAMLTail) : "customRulesets" \in ToSet(row.keys)
    BY DEF YAMLTail, ToSet, Row
  <2>2. \E row \in ToSet(YAMLTail) : "customProxyGroups" \in ToSet(row.keys)
    BY DEF YAMLTail, ToSet, Row
  <2>3. \E row \in ToSet(YAMLTail) : "templateVars" \in ToSet(row.keys)
    BY DEF YAMLTail, ToSet, Row
  <2> QED BY <1>2, <2>1, <2>2, <2>3
<1>5. Cron \subseteq Settings
  <2>1. \E row \in ToSet(YAMLTail) : Cron \subseteq ToSet(row.keys)
    <3>1. PICK row \in ToSet(YAMLTail) : row = Row("tasks", "named", <<"enableCron", "cronTasks", "schedule">>)
      BY DEF YAMLTail, ToSet
    <3>2. Cron \subseteq ToSet(row.keys)
      BY <3>1 DEF ToSet, Row, Cron
    <3> QED BY <3>2
  <2> QED BY <1>2, <2>1
<1> QED BY <1>3, <1>4, <1>5 DEF Erased

\* The parts of a value.
LEMMA ValueIs ==
  ASSUME NEW source \in Sources, NEW section \in Places, NEW on \in BOOLEAN
  PROVE  /\ Value(source, section, on) \in Values
         /\ Value(source, section, on).source = source
         /\ Value(source, section, on).section = section
BY DEF Value, Values

\* What a setting holds that no file gave.
LEMMA WordsAreValues ==
  /\ Reset \in Values /\ Reset.source = "reset"
  /\ SwitchedOff \in Values /\ SwitchedOff.source = "switched off"
  /\ \A k \in Settings : Default(k) \in Values /\ Default(k).source = "default"
  /\ Value("environment", "", TRUE) \in Values
  /\ Value("environment", "", TRUE).source = "environment"
<1>1. /\ "" \in Places /\ "default" \in Sources /\ "reset" \in Sources
      /\ "switched off" \in Sources /\ "environment" \in Sources
  BY DEF Places, Sources
<1>2. \A k \in Settings : (k \in OnAtFirst) \in BOOLEAN
  OBVIOUS
<1>3. FALSE \in BOOLEAN /\ TRUE \in BOOLEAN
  OBVIOUS
<1>4. Reset \in Values /\ Reset.source = "reset"
  BY <1>1, <1>3, ValueIs DEF Reset
<1>5. SwitchedOff \in Values /\ SwitchedOff.source = "switched off"
  BY <1>1, <1>3, ValueIs DEF SwitchedOff
<1>6. Value("environment", "", TRUE) \in Values
      /\ Value("environment", "", TRUE).source = "environment"
  BY <1>1, <1>3, ValueIs
<1>7. ASSUME NEW k \in Settings PROVE Default(k) \in Values /\ Default(k).source = "default"
  <2>1. \A on \in BOOLEAN :
          Value("default", "", on) \in Values /\ Value("default", "", on).source = "default"
    <3>1. ASSUME NEW on \in BOOLEAN
          PROVE  Value("default", "", on) \in Values /\ Value("default", "", on).source = "default"
      BY <1>1 DEF Value, Values
    <3> QED BY <3>1
  <2> QED BY <1>2, <1>7, <2>1, Zenon DEF Default
<1> QED BY <1>4, <1>5, <1>6, <1>7

\* What a file gives is a value of that file and section.
LEMMA FoundIsValue ==
  ASSUME NEW d \in Docs, NEW section \in Content[d].sections, NEW on \in BOOLEAN
  PROVE  /\ Value(d, section, on) \in Values
         /\ Value(d, section, on).source = d
         /\ Value(d, section, on).section = section
<1>1. section \in Places /\ d \in Sources
  BY DEF Places, Sources
<1> QED BY <1>1, ValueIs

-----------------------------------------------------------------------------
(* What the settings keep to while a file d is read over settings c *)

Lists(d, c) == \A k \in Erased : c[k] = Reset \/ c[k].source = d

IsListOfFile(v) == v.source \in Docs /\ Content[v.source].format # "toml"

Scheduled(c) ==
  /\ c["enableCron"] = c["schedule"]
  /\ IsListOfFile(c["cronTasks"]) => c["schedule"] = c["cronTasks"]

IsOfTemplate(v) ==
  v.source \in Docs /\ "template" \in Content[v.source].sections => v.section = "template"

TokenOf(d, c, old) == c["accessToken"] = old["accessToken"] \/ c["accessToken"].source = d

Follows(d, c, old) ==
  Lists(d, c) /\ Scheduled(c) /\ IsOfTemplate(c["templateVars"]) /\ TokenOf(d, c, old)

Progress(sections) ==
  [conf : [Settings -> Values], sections : {sections}, section : sections \cup {""},
   error : {"none", "conversion", "out_of_range"}]

Reading(d, sections, old) == {st \in Progress(sections) : Follows(d, st.conf, old)}

\* What the rules make of a setting: what it was, what the file gives, nothing.
LEMMA AssignedIs ==
  ASSUME NEW d, NEW st, NEW row, NEW k, row.rule \in Rules \ {"items"}
  PROVE  \/ Assigned(d, st, row, k) = st.conf[k]
         \/ Found(d, st, row, k) /\ Assigned(d, st, row, k) = Given(d, row, k)
         \/ row.rule # "named" /\ Assigned(d, st, row, k) = Reset
         \/ row.rule \notin {"named", "always", "gated"} /\ Assigned(d, st, row, k) = SwitchedOff
<1>1. CASE row.rule \in {"named", "always", "present", "read"}
  BY <1>1, Zenon DEF Assigned, IfFound
<1>2. CASE row.rule \in {"switched", "switchedHere", "gated"}
  BY <1>2, Zenon DEF Assigned, IfFound
<1>3. CASE row.rule \in {"cache", "cacheOn", "cacheUnlessOff"}
  BY <1>3, Zenon DEF Assigned, IfFound
<1> QED BY <1>1, <1>2, <1>3 DEF Rules

\* GetItems() asks for what is in current_section.
LEMMA ItemsAre ==
  ASSUME NEW d, NEW st, NEW row, NEW k, row.rule = "items"
  PROVE  Assigned(d, st, row, k) = IF st.section = "" THEN Reset ELSE Value(d, st.section, TRUE)
BY Zenon DEF Assigned

-----------------------------------------------------------------------------
(* Reading a row *)

\* A reader of d finds the sections d has, or none.
Finds(d, sections) == sections = Content[d].sections \/ sections = {}

\* What a setting becomes, when it is not left alone.
Becomes(d, row, v, old) ==
  \/ v = old
  \/ v.source = d /\ v.section = row.section
  \/ row.rule # "named" /\ v = Reset
  \/ row.rule \notin {"named", "always", "gated"} /\ v = SwitchedOff

\* The same, for a reader of d, and in terms of where a value is from.
LEMMA AssignedBecomes ==
  ASSUME NEW d \in Docs, NEW sections, Finds(d, sections), NEW st \in Progress(sections),
         NEW row, row.rule \in Rules \ {"items"}, NEW k \in Settings
  PROVE  /\ Assigned(d, st, row, k) \in Values
         /\ Becomes(d, row, Assigned(d, st, row, k), st.conf[k])
<1>1. st.conf[k] \in Values /\ st.sections = sections
  BY DEF Progress
<1>2. CASE Assigned(d, st, row, k) = st.conf[k]
  BY <1>1, <1>2, Zenon DEF Becomes
<1>3. CASE Found(d, st, row, k) /\ Assigned(d, st, row, k) = Given(d, row, k)
  <2>1. row.section \in Content[d].sections
    BY <1>1, <1>3 DEF Found, Finds
  <2>2. (Key(k) \notin Content[d].off) \in BOOLEAN
    OBVIOUS
  <2>3. /\ Given(d, row, k) \in Values
        /\ Given(d, row, k).source = d /\ Given(d, row, k).section = row.section
    BY <2>1, <2>2, FoundIsValue, Zenon DEF Given
  <2> QED BY <1>3, <2>3, Zenon DEF Becomes
<1>4. CASE row.rule # "named" /\ Assigned(d, st, row, k) = Reset
  BY <1>4, WordsAreValues, Zenon DEF Becomes
<1>5. CASE row.rule \notin {"named", "always", "gated"} /\ Assigned(d, st, row, k) = SwitchedOff
  BY <1>5, WordsAreValues, Zenon DEF Becomes
<1>6. \/ Assigned(d, st, row, k) = st.conf[k]
      \/ Found(d, st, row, k) /\ Assigned(d, st, row, k) = Given(d, row, k)
      \/ row.rule # "named" /\ Assigned(d, st, row, k) = Reset
      \/ row.rule \notin {"named", "always", "gated"} /\ Assigned(d, st, row, k) = SwitchedOff
  BY AssignedIs
<1> QED BY <1>2, <1>3, <1>4, <1>5, <1>6, Zenon

\* Template variables are the items of the section the reader is in, if any.
LEMMA ItemsBecome ==
  ASSUME NEW d \in Docs, NEW sections, Finds(d, sections), NEW st \in Progress(sections),
         NEW row, row.rule = "items", NEW k \in Settings
  PROVE  /\ Assigned(d, st, row, k) \in Values
         /\ \/ Assigned(d, st, row, k) = Reset
            \/ /\ Assigned(d, st, row, k).source = d
               /\ Assigned(d, st, row, k).section = st.section
               /\ st.section \in sections
<1>1. st.section \in sections \cup {""}
  BY DEF Progress
<1>2. CASE st.section = ""
  BY <1>2, ItemsAre, WordsAreValues
<1>3. CASE st.section # ""
  <2>1. st.section \in sections /\ st.section \in Content[d].sections
    BY <1>1, <1>3 DEF Finds
  <2>2. /\ Value(d, st.section, TRUE) \in Values
        /\ Value(d, st.section, TRUE).source = d
        /\ Value(d, st.section, TRUE).section = st.section
    BY <2>1, FoundIsValue
  <2>3. Assigned(d, st, row, k) = Value(d, st.section, TRUE)
    BY <1>3, ItemsAre, Zenon
  <2> QED BY <2>1, <2>2, <2>3, Zenon
<1> QED BY <1>2, <1>3

Throws(d, reader, st, row, k) ==
  reader # "ini" /\ Key(k) = Content[d].broken /\ Found(d, st, row, k)

Reached(d, reader, st, row) ==
  {row.keys[i] : i \in {n \in DOMAIN row.keys :
                          \A m \in 1..n : ~Throws(d, reader, st, row, row.keys[m])}}

NewConf(d, reader, st, row) ==
  [k \in Settings |-> IF k \in Reached(d, reader, st, row) THEN Assigned(d, st, row, k)
                      ELSE st.conf[k]]

\* A row changes the settings it has reached, and nothing else.
LEMMA AssignIs ==
  ASSUME NEW d, NEW reader, NEW sections, NEW st \in Progress(sections), NEW row,
         NewConf(d, reader, st, row) \in [Settings -> Values]
  PROVE  /\ Assign(d, reader, st, row) \in Progress(sections)
         /\ Assign(d, reader, st, row).conf = NewConf(d, reader, st, row)
<1> DEFINE e == IF Reached(d, reader, st, row) = ToSet(row.keys) THEN st.error ELSE "conversion"
<1>1. Assign(d, reader, st, row) = [st EXCEPT !.conf = NewConf(d, reader, st, row), !.error = e]
  BY Zenon DEF Assign, NewConf, Reached, Throws
<1>2. e \in {"none", "conversion", "out_of_range"}
  BY DEF Progress
<1> HIDE DEF e
<1> QED BY <1>1, <1>2 DEF Progress

\* Only settings of the row are reached.
LEMMA ReachedAreKeys ==
  ASSUME NEW d, NEW reader, NEW st, NEW row
  PROVE  Reached(d, reader, st, row) \subseteq ToSet(row.keys)
BY DEF Reached, ToSet

\* The tasks, their schedule and the switch are read together.
LEMMA CronIsReached ==
  ASSUME NEW d, NEW reader, NEW st, NEW row,
         row.keys = <<"enableCron", "cronTasks", "schedule">>
  PROVE  Reached(d, reader, st, row) \in {{}, Cron}
<1> DEFINE W == Throws(d, reader, st, row, "cronTasks")
           keys == <<"enableCron", "cronTasks", "schedule">>
<1>1. \A m \in 1..3 : Throws(d, reader, st, row, keys[m]) <=> W
  <2>1. \A k \in Cron : Key(k) = "cronTasks"
    BY DEF Key, Cron
  <2>2. \A k \in Cron : Throws(d, reader, st, row, k) <=> W
    BY <2>1, Zenon DEF Throws, Found, Cron
  <2>3. \A m \in 1..3 : keys[m] \in Cron
    BY DEF Cron
  <2> QED BY <2>2, <2>3
<1>2. Reached(d, reader, st, row) =
        {keys[i] : i \in {n \in 1..3 : \A m \in 1..n : ~Throws(d, reader, st, row, keys[m])}}
  BY DEF Reached
<1>3. Cron = {keys[i] : i \in 1..3}
  BY DEF Cron
<1>4. \A n \in 1..3 : 1 \in 1..n /\ 1..n \subseteq 1..3
  OBVIOUS
<1>5. CASE W
  <2>1. {n \in 1..3 : \A m \in 1..n : ~Throws(d, reader, st, row, keys[m])} = {}
    BY <1>1, <1>4, <1>5
  <2> QED BY <1>2, <2>1
<1>6. CASE ~W
  <2>1. {n \in 1..3 : \A m \in 1..n : ~Throws(d, reader, st, row, keys[m])} = 1..3
    BY <1>1, <1>4, <1>6
  <2> QED BY <1>2, <1>3, <2>1
<1> QED BY <1>5, <1>6

-----------------------------------------------------------------------------
(* A row keeps what the settings keep to *)

\* The section a reader is in is the row's, if it is there.
Entered(st, sections, row) == row.section \in sections => st.section = row.section

\* EnterSection() changes the section only.
LEMMA EnterIs ==
  ASSUME NEW sections, NEW st \in Progress(sections), NEW row
  PROVE  /\ Enter(st, row) \in Progress(sections)
         /\ Enter(st, row).conf = st.conf
         /\ Entered(Enter(st, row), sections, row)
<1>1. st.sections = sections
  BY DEF Progress
<1>2. CASE row.section \in sections
  <2>1. Enter(st, row) = [st EXCEPT !.section = row.section]
    BY <1>1, <1>2 DEF Enter
  <2> QED BY <1>2, <2>1 DEF Progress, Entered
<1>3. CASE row.section \notin sections
  <2>1. Enter(st, row) = st
    BY <1>1, <1>3 DEF Enter
  <2> QED BY <1>3, <2>1 DEF Entered
<1> QED BY <1>2, <1>3

\* A row leaves a value in every setting.
LEMMA NewConfTyped ==
  ASSUME NEW d \in Docs, NEW reader, NEW sections, Finds(d, sections),
         NEW st \in Progress(sections), NEW row, row.rule \in Rules
  PROVE  NewConf(d, reader, st, row) \in [Settings -> Values]
<1>1. \A k \in Settings : st.conf[k] \in Values
  BY DEF Progress
<1>2. \A k \in Settings : Assigned(d, st, row, k) \in Values
  BY AssignedBecomes, ItemsBecome
<1> QED BY <1>1, <1>2 DEF NewConf

\* A setting of the row may be assigned; any other is left alone.
LEMMA NewConfAt ==
  ASSUME NEW d, NEW reader, NEW st, NEW row, NEW k \in Settings
  PROVE  /\ k \in Reached(d, reader, st, row)
              => k \in ToSet(row.keys) /\ NewConf(d, reader, st, row)[k] = Assigned(d, st, row, k)
         /\ k \notin Reached(d, reader, st, row) => NewConf(d, reader, st, row)[k] = st.conf[k]
BY ReachedAreKeys DEF NewConf

\* The four lists are of the file or empty, since "named", "always" and "gated" are
\* the only rules for them.
LEMMA RowKeepsLists ==
  ASSUME NEW d \in Docs, NEW reader, NEW sections, Finds(d, sections),
         NEW st \in Progress(sections), NEW row, RowFits(reader, row), Lists(d, st.conf)
  PROVE  Lists(d, NewConf(d, reader, st, row))
<1> DEFINE c == NewConf(d, reader, st, row)
<1>1. SUFFICES ASSUME NEW k \in Erased PROVE c[k] = Reset \/ c[k].source = d
  BY DEF Lists
<1>2. k \in Settings
  BY SomeSettings
<1>3. st.conf[k] = Reset \/ st.conf[k].source = d
  BY DEF Lists
<1>4. CASE k \in Reached(d, reader, st, row)
  <2>1. k \in ToSet(row.keys) /\ c[k] = Assigned(d, st, row, k)
    BY <1>2, <1>4, NewConfAt
  <2>2. row.rule \in {"named", "always", "gated"}
    BY <2>1 DEF RowFits, Fits
  <2>3. row.rule \in Rules \ {"items"}
    BY <2>2 DEF Rules
  <2>4. Becomes(d, row, c[k], st.conf[k])
    BY <1>2, <2>1, <2>3, AssignedBecomes
  <2> QED BY <1>3, <2>2, <2>4, Zenon DEF Becomes
<1>5. CASE k \notin Reached(d, reader, st, row)
  <2>1. c[k] = st.conf[k]
    BY <1>2, <1>5, NewConfAt
  <2> QED BY <1>3, <2>1
<1> QED BY <1>4, <1>5

\* The token is only ever replaced by one that is named.
LEMMA RowKeepsToken ==
  ASSUME NEW d \in Docs, NEW reader, NEW sections, Finds(d, sections),
         NEW st \in Progress(sections), NEW row, RowFits(reader, row),
         NEW old, TokenOf(d, st.conf, old)
  PROVE  TokenOf(d, NewConf(d, reader, st, row), old)
<1> DEFINE c == NewConf(d, reader, st, row)
           k == "accessToken"
<1>1. k \in Settings
  BY SomeSettings
<1>2. CASE k \in Reached(d, reader, st, row)
  <2>1. k \in ToSet(row.keys) /\ c[k] = Assigned(d, st, row, k)
    BY <1>1, <1>2, NewConfAt
  <2>2. row.rule = "named"
    BY <2>1 DEF RowFits, Fits
  <2>3. row.rule \in Rules \ {"items"}
    BY <2>2 DEF Rules
  <2>4. Becomes(d, row, c[k], st.conf[k])
    BY <1>1, <2>1, <2>3, AssignedBecomes
  <2>5. c[k] = st.conf[k] \/ c[k].source = d
    BY <2>2, <2>4, Zenon DEF Becomes
  <2> QED BY <2>5, Zenon DEF TokenOf
<1>3. CASE k \notin Reached(d, reader, st, row)
  <2>1. c[k] = st.conf[k]
    BY <1>1, <1>3, NewConfAt
  <2> QED BY <2>1, Zenon DEF TokenOf
<1> QED BY <1>2, <1>3

\* Files are told apart from the words for other sources.
LEMMA WordsAreNoFiles ==
  "reset" \notin Docs /\ "switched off" \notin Docs /\ "default" \notin Docs
    /\ "environment" \notin Docs
BY SettingsAssumption

\* Template variables come from the row of that section.
LEMMA RowKeepsTemplate ==
  ASSUME NEW d \in Docs, NEW reader, NEW sections, Finds(d, sections),
         NEW st \in Progress(sections), NEW row, RowFits(reader, row),
         Entered(st, sections, row), IsOfTemplate(st.conf["templateVars"])
  PROVE  IsOfTemplate(NewConf(d, reader, st, row)["templateVars"])
<1> DEFINE k == "templateVars"
           v == NewConf(d, reader, st, row)[k]
<1>1. k \in Settings
  BY SomeSettings
<1>2. CASE k \in Reached(d, reader, st, row)
  <2>1. k \in ToSet(row.keys) /\ v = Assigned(d, st, row, k)
    BY <1>1, <1>2, NewConfAt
  <2>2. row.section = "template" /\ row.rule \in Rules
    BY <2>1 DEF RowFits, Fits
  <2>3. v = Reset \/ v = SwitchedOff => IsOfTemplate(v)
    BY WordsAreValues, WordsAreNoFiles, Zenon DEF IsOfTemplate
  <2>4. CASE row.rule = "items"
    <3>1. v = Reset \/ (v.source = d /\ v.section = st.section /\ st.section \in sections)
      BY <1>1, <2>1, <2>4, ItemsBecome
    <3>2. ASSUME v.source = d, v.section = st.section, st.section \in sections,
                 "template" \in Content[v.source].sections
          PROVE  v.section = "template"
      <4>1. "template" \in sections
        BY <3>2 DEF Finds
      <4> QED BY <2>2, <3>2, <4>1 DEF Entered
    <3> QED BY <2>3, <3>1, <3>2, Zenon DEF IsOfTemplate
  <2>5. CASE row.rule # "items"
    <3>1. Becomes(d, row, v, st.conf[k])
      BY <1>1, <2>1, <2>2, <2>5, AssignedBecomes
    <3>2. v = st.conf[k] \/ (v.source = d /\ v.section = row.section) \/ v = Reset \/ v = SwitchedOff
      BY <3>1, Zenon DEF Becomes
    <3> QED BY <2>2, <2>3, <3>2, Zenon DEF IsOfTemplate
  <2> QED BY <2>4, <2>5
<1>3. CASE k \notin Reached(d, reader, st, row)
  BY <1>1, <1>3, NewConfAt
<1> QED BY <1>2, <1>3

\* The three are left alone together, or are given the same value.
LEMMA CronAssigned ==
  ASSUME NEW d, NEW st, NEW row, row.rule \in {"named", "present"}
  PROVE  \/ \A k \in Cron : Assigned(d, st, row, k) = st.conf[k]
         \/ \E v : \A k \in Cron : Assigned(d, st, row, k) = v
<1> DEFINE found == Found(d, st, row, "cronTasks")
           given == Given(d, row, "cronTasks")
           here == row.section \in st.sections
<1>1. \A k \in Cron : Key(k) = "cronTasks"
  BY DEF Key, Cron
<1>2. \A k \in Cron : Found(d, st, row, k) <=> found
  BY <1>1, Zenon DEF Found, Cron
<1>3. \A k \in Cron : Given(d, row, k) = given
  BY <1>1, Zenon DEF Given, Cron
<1> HIDE DEF found, given, here
<1>4. CASE row.rule = "named"
  <2>1. \A k \in Cron : Assigned(d, st, row, k) = IF found THEN given ELSE st.conf[k]
    BY <1>2, <1>3, <1>4, Zenon DEF Assigned, IfFound
  <2> QED BY <2>1, Zenon
<1>5. CASE row.rule = "present"
  <2>1. \A k \in Cron : Assigned(d, st, row, k) =
          IF found THEN given ELSE IF here THEN Reset ELSE st.conf[k]
    BY <1>2, <1>3, <1>5, Zenon DEF Assigned, IfFound, here
  <2> QED BY <2>1, Zenon
<1> QED BY <1>4, <1>5

\* The reader of TOML files reads only these.
IsReaderOf(reader, d) == reader = "toml" => Content[d].format = "toml"

\* The tasks are assigned with their schedule, but for TOML.
LEMMA RowKeepsSchedule ==
  ASSUME NEW d \in Docs, NEW reader, IsReaderOf(reader, d), NEW sections, Finds(d, sections),
         NEW st \in Progress(sections), NEW row, RowFits(reader, row), Scheduled(st.conf)
  PROVE  Scheduled(NewConf(d, reader, st, row))
<1> DEFINE c == NewConf(d, reader, st, row)
           reached == Reached(d, reader, st, row)
           left(k) == c[k] = st.conf[k]
<1>1. Cron \subseteq Settings
  BY SomeSettings
<1>2. \A k \in Cron : k \notin reached => left(k)
  BY <1>1, NewConfAt
<1>3. \A k \in Cron : k \in reached => k \in ToSet(row.keys) /\ c[k] = Assigned(d, st, row, k)
  BY <1>1, NewConfAt
<1>4. "enableCron" \in Cron /\ "schedule" \in Cron /\ "cronTasks" \in Cron
  BY DEF Cron
<1>5. ASSUME \A k \in Cron : left(k) PROVE Scheduled(c)
  BY <1>4, <1>5, Zenon DEF Scheduled
<1>6. CASE ToSet(row.keys) \cap Cron = {}
  <2>1. \A k \in Cron : left(k)
    BY <1>2, <1>3, <1>6
  <2> QED BY <1>5, <2>1
<1>7. CASE /\ row.rule \in {"named", "present"}
           /\ row.keys = <<"enableCron", "cronTasks", "schedule">>
  <2>1. reached \in {{}, Cron}
    BY <1>7, CronIsReached
  <2>2. CASE reached = {}
    <3>1. \A k \in Cron : left(k)
      BY <1>2, <2>2
    <3> QED BY <1>5, <3>1
  <2>3. CASE reached = Cron
    <3>1. \A k \in Cron : c[k] = Assigned(d, st, row, k)
      BY <1>3, <2>3
    <3>2. CASE \A k \in Cron : Assigned(d, st, row, k) = st.conf[k]
      <4>1. \A k \in Cron : left(k)
        BY <3>1, <3>2
      <4> QED BY <1>5, <4>1
    <3>3. CASE \E v : \A k \in Cron : Assigned(d, st, row, k) = v
      <4>1. PICK v : \A k \in Cron : Assigned(d, st, row, k) = v
        BY <3>3
      <4>2. c["enableCron"] = v /\ c["schedule"] = v /\ c["cronTasks"] = v
        BY <1>4, <3>1, <4>1, Zenon
      <4> QED BY <4>2, Zenon DEF Scheduled
    <3> QED BY <1>7, <3>2, <3>3, CronAssigned
  <2> QED BY <2>1, <2>2, <2>3
<1>8. CASE reader = "toml" /\ row.rule = "always" /\ row.keys = <<"cronTasks">>
  <2>1. ToSet(row.keys) = {"cronTasks"}
    BY <1>8 DEF ToSet
  <2>2. left("enableCron") /\ left("schedule")
    BY <1>2, <1>3, <1>4, <2>1
  <2>3. CASE "cronTasks" \in reached
    <3>1. c["cronTasks"] = Assigned(d, st, row, "cronTasks")
      BY <1>3, <1>4, <2>3
    <3>2. \/ Found(d, st, row, "cronTasks") /\ c["cronTasks"] = Given(d, row, "cronTasks")
          \/ c["cronTasks"] = Reset
      BY <1>8, <3>1, Zenon DEF Assigned, IfFound
    <3>3. Given(d, row, "cronTasks").source = d
      BY DEF Given, Value
    <3>4. Content[d].format = "toml"
      BY <1>8 DEF IsReaderOf
    <3>5. ~IsListOfFile(c["cronTasks"])
      BY <3>2, <3>3, <3>4, WordsAreValues, WordsAreNoFiles, Zenon DEF IsListOfFile
    <3> QED BY <2>2, <3>5, Zenon DEF Scheduled
  <2>4. CASE "cronTasks" \notin reached
    <3>1. left("cronTasks")
      BY <1>2, <1>4, <2>4
    <3> QED BY <2>2, <3>1, Zenon DEF Scheduled
  <2> QED BY <2>3, <2>4
<1> QED BY <1>6, <1>7, <1>8 DEF RowFits, FitsCron

\* A row that is read, skipped or throws keeps what the settings keep to.
LEMMA RowStays ==
  ASSUME NEW d \in Docs, NEW reader \in Readers, IsReaderOf(reader, d),
         NEW sections, Finds(d, sections), NEW old,
         NEW st \in Reading(d, sections, old), NEW row, RowFits(reader, row)
  PROVE  ReadRow(d, reader, st, row) \in Reading(d, sections, old)
<1>1. st \in Progress(sections) /\ Follows(d, st.conf, old)
  BY DEF Reading
<1>2. CASE st.error # "none"
  BY <1>2 DEF ReadRow
<1>3. ASSUME ReadRow(d, reader, st, row) = [st EXCEPT !.error = "out_of_range"]
      PROVE  ReadRow(d, reader, st, row) \in Reading(d, sections, old)
  <2>1. /\ [st EXCEPT !.error = "out_of_range"] \in Progress(sections)
        /\ [st EXCEPT !.error = "out_of_range"].conf = st.conf
    BY <1>1 DEF Progress
  <2> QED BY <1>1, <1>3, <2>1, Zenon DEF Reading
<1>4. ASSUME ReadRow(d, reader, st, row) = Assign(d, reader, Enter(st, row), row)
      PROVE  ReadRow(d, reader, st, row) \in Reading(d, sections, old)
  <2> DEFINE in == Enter(st, row)
             c == NewConf(d, reader, in, row)
  <2>1. in \in Progress(sections) /\ in.conf = st.conf /\ Entered(in, sections, row)
    BY <1>1, EnterIs
  <2> HIDE DEF in
  <2>2. row.rule \in Rules
    BY DEF RowFits, Fits
  <2>3. c \in [Settings -> Values]
    BY <2>1, <2>2, NewConfTyped
  <2>4. Assign(d, reader, in, row) \in Progress(sections) /\ Assign(d, reader, in, row).conf = c
    BY <2>1, <2>3, AssignIs
  <2>5. Follows(d, in.conf, old)
    BY <1>1, <2>1
  <2>6. Lists(d, c)
    BY <2>1, <2>5, RowKeepsLists DEF Follows
  <2>7. Scheduled(c)
    BY <2>1, <2>5, RowKeepsSchedule DEF Follows
  <2>8. IsOfTemplate(c["templateVars"])
    BY <2>1, <2>5, RowKeepsTemplate DEF Follows
  <2>9. TokenOf(d, c, old)
    BY <2>1, <2>5, RowKeepsToken DEF Follows
  <2>10. Follows(d, c, old)
    BY <2>6, <2>7, <2>8, <2>9 DEF Follows
  <2> HIDE DEF c
  <2> QED BY <1>4, <2>4, <2>10, Zenon DEF Reading, in
<1> QED BY <1>2, <1>3, <1>4, Zenon DEF ReadRow

-----------------------------------------------------------------------------
(* readConf() *)

Kept(d, c, old) == c \in [Settings -> Values] /\ Follows(d, c, old)

\* So does a whole file, as far as it is read.
LEMMA FileIsRead ==
  ASSUME NEW d \in Docs, NEW reader \in Readers, IsReaderOf(reader, d),
         NEW sections, Finds(d, sections), NEW c, NEW old, Kept(d, c, old)
  PROVE  /\ Kept(d, Read(d, reader, c, sections).conf, old)
         /\ Read(d, reader, c, sections).error \in {"none", "conversion", "out_of_range"}
<1> DEFINE A == Reading(d, sections, old)
<1>1. Keeps(d, reader, A, ToSet(Rows(reader)))
  <2>1. \A row \in ToSet(Rows(reader)) : RowFits(reader, row)
    BY RowsFit
  <2>2. ASSUME NEW st \in A, NEW row \in ToSet(Rows(reader))
        PROVE  ReadRow(d, reader, st, row) \in A
    BY <2>1, RowStays
  <2> QED BY <2>2 DEF Keeps
<1>2. First(c, sections) \in A
  <2>1. First(c, sections) \in Progress(sections) /\ First(c, sections).conf = c
    BY DEF First, Progress, Kept
  <2> QED BY <2>1, Zenon DEF Reading, Kept
<1> HIDE DEF A
<1>3. Read(d, reader, c, sections) \in A
  BY <1>1, <1>2, ReadStays
<1>4. \A st \in A : /\ st.conf \in [Settings -> Values] /\ Follows(d, st.conf, old)
                    /\ st.error \in {"none", "conversion", "out_of_range"}
  BY DEF A, Reading, Progress
<1> QED BY <1>3, <1>4, Zenon DEF Kept

\* What has been read by then, when the INI reader takes over.
LEMMA INIIsRead ==
  ASSUME NEW d \in Docs, NEW c, NEW old, Kept(d, c, old)
  PROVE  /\ Kept(d, ReadINI(d, c).conf, old)
         /\ ReadINI(d, c).outcome \in {"refused", "complete"}
         /\ ReadINI(d, c).outcome = "refused" => ReadINI(d, c).conf = c
<1> DEFINE found == IF Content[d].asINI = "sections" THEN Content[d].sections ELSE {}
<1>1. CASE Content[d].asINI = "refused"
  <2>1. ReadINI(d, c) = [conf |-> c, outcome |-> "refused"]
    BY <1>1, Zenon DEF ReadINI
  <2> QED BY <2>1
<1>2. CASE Content[d].asINI # "refused"
  <2>1. Finds(d, found)
    BY DEF Finds
  <2> HIDE DEF found
  <2>2. "ini" \in Readers /\ IsReaderOf("ini", d)
    BY DEF Readers, IsReaderOf
  <2>3. Kept(d, Read(d, "ini", c, found).conf, old)
    BY <2>1, <2>2, FileIsRead
  <2>4. ReadINI(d, c) = [conf |-> Read(d, "ini", c, found).conf, outcome |-> "complete"]
    BY <1>2, Zenon DEF ReadINI, found
  <2> QED BY <2>3, <2>4
<1> QED BY <1>1, <1>2

\* So does the reader of the format, whether it ends, throws or gives up.
LEMMA NativeIsRead ==
  ASSUME NEW d \in Docs, NEW c, NEW old, Kept(d, c, old)
  PROVE  /\ Kept(d, ReadNative(d, c).conf, old)
         /\ ReadNative(d, c).outcome = "refused" /\ Content[d].broken = "syntax"
              => ReadNative(d, c).conf = c
<1> DEFINE reader == Content[d].format
           st == Read(d, reader, c, Content[d].sections)
           passed == \/ reader = "ini" \/ Content[d].broken = "syntax"
                     \/ reader = "yaml" /\ "common" \notin Content[d].sections
<1>1. reader \in Readers /\ IsReaderOf(reader, d) /\ Finds(d, Content[d].sections)
  BY SettingsAssumption DEF Readers, IsReaderOf, Finds
<1>2. Kept(d, st.conf, old) /\ st.error \in {"none", "conversion", "out_of_range"}
  <2> HIDE DEF reader
  <2> QED BY <1>1, FileIsRead
<1>3. CASE passed
  <2>1. ReadNative(d, c) = ReadINI(d, c)
    BY <1>3, Zenon DEF ReadNative
  <2> QED BY <2>1, INIIsRead
<1>4. CASE ~passed
  <2>1. ReadNative(d, c) =
          CASE st.error = "none"         -> [conf |-> st.conf, outcome |-> "complete"]
            [] st.error = "conversion"   -> ReadINI(d, st.conf)
            [] st.error = "out_of_range" -> [conf |-> st.conf, outcome |-> "thrown"]
    BY <1>4, Zenon DEF ReadNative
  <2>2. Content[d].broken # "syntax"
    BY <1>4
  <2> HIDE DEF st, reader, passed
  <2>3. CASE st.error = "none"
    <3>1. ReadNative(d, c) = [conf |-> st.conf, outcome |-> "complete"]
      BY <2>1, <2>3
    <3> QED BY <1>2, <2>2, <3>1
  <2>4. CASE st.error = "conversion"
    <3>1. ReadNative(d, c) = ReadINI(d, st.conf)
      BY <2>1, <2>4
    <3>2. Kept(d, ReadINI(d, st.conf).conf, old)
      BY <1>2, INIIsRead
    <3> QED BY <2>2, <3>1, <3>2
  <2>5. CASE st.error = "out_of_range"
    <3>1. ReadNative(d, c) = [conf |-> st.conf, outcome |-> "thrown"]
      BY <2>1, <2>5
    <3> QED BY <1>2, <2>2, <3>1
  <2> QED BY <1>2, <2>3, <2>4, <2>5
<1> QED BY <1>3, <1>4

-----------------------------------------------------------------------------
(* The invariant *)

\* Beside what NothingIsStale says, a token that is gone was never there.
IInv ==
  /\ conf \in [Settings -> Values]
  /\ ListsFollowFile
  /\ Scheduled(conf)
  /\ IsOfTemplate(conf["templateVars"])
  /\ conf["accessToken"].source # "reset"

\* readConf() begins with settings that keep to all of it.
LEMMA EraseIs ==
  ASSUME NEW d \in Docs, NEW c \in [Settings -> Values], Scheduled(c),
         IsOfTemplate(c["templateVars"])
  PROVE  Kept(d, Erase(c), c)
<1>1. \A k \in Settings \ Erased : Erase(c)[k] = c[k]
  BY DEF Erase
<1>2. Cron \cup {"accessToken", "templateVars"} \subseteq Settings \ Erased
  BY SomeSettings DEF Cron, Erased
<1>3. Erase(c) \in [Settings -> Values]
  BY WordsAreValues DEF Erase
<1>4. Lists(d, Erase(c))
  BY SomeSettings DEF Lists, Erase
<1>5. /\ Erase(c)["enableCron"] = c["enableCron"] /\ Erase(c)["schedule"] = c["schedule"]
      /\ Erase(c)["cronTasks"] = c["cronTasks"] /\ Erase(c)["accessToken"] = c["accessToken"]
      /\ Erase(c)["templateVars"] = c["templateVars"]
  BY <1>1, <1>2 DEF Cron
<1>6. Scheduled(Erase(c))
  BY <1>5, Zenon DEF Scheduled
<1>7. IsOfTemplate(Erase(c)["templateVars"]) /\ TokenOf(d, Erase(c), c)
  BY <1>5, Zenon DEF TokenOf
<1> QED BY <1>3, <1>4, <1>6, <1>7 DEF Kept, Follows

\* What a load leaves.
LEMMA LoadLeaves ==
  ASSUME IInv, NEW d \in Docs, Load(d)
  PROVE  /\ Kept(d, conf', conf)
         /\ outcome' = "refused" /\ Content[d].broken = "syntax" => conf' = Erase(conf)
         /\ last' = d
<1>1. Kept(d, Erase(conf), conf)
  BY EraseIs DEF IInv
<1>2. /\ Kept(d, ReadNative(d, Erase(conf)).conf, conf)
      /\ ReadNative(d, Erase(conf)).outcome = "refused" /\ Content[d].broken = "syntax"
           => ReadNative(d, Erase(conf)).conf = Erase(conf)
  BY <1>1, NativeIsRead
<1>3. /\ conf' = ReadNative(d, Erase(conf)).conf
      /\ outcome' = ReadNative(d, Erase(conf)).outcome /\ last' = d
  BY Zenon DEF Load, ReadConf
<1> QED BY <1>2, <1>3

\* A load keeps the invariant, whatever was loaded before.
LEMMA LoadKeepsInv ==
  ASSUME IInv, NEW d \in Docs, Load(d)
  PROVE  IInv'
<1>1. Kept(d, conf', conf) /\ last' = d
  BY LoadLeaves
<1>2. /\ conf' \in [Settings -> Values] /\ Lists(d, conf') /\ Scheduled(conf')
      /\ IsOfTemplate(conf'["templateVars"]) /\ TokenOf(d, conf', conf)
  BY <1>1 DEF Kept, Follows
<1>3. ListsFollowFile'
  BY <1>1, <1>2 DEF ListsFollowFile, Lists
<1>4. conf'["accessToken"].source # "reset"
  BY <1>2, WordsAreNoFiles, Zenon DEF TokenOf, IInv
<1> QED BY <1>2, <1>3, <1>4 DEF IInv

\* main() puts in what the environment gives, which may be the token.
LEMMA EnvironmentIs ==
  ASSUME IInv, ReadEnvironment
  PROVE  /\ conf' \in [Settings -> Values]
         /\ \A k \in Settings \ Environment : conf'[k] = conf[k]
         /\ \/ conf'["accessToken"] = conf["accessToken"]
            \/ conf'["accessToken"].source = "environment"
<1>1. conf' = [k \in Settings |-> IF k \in Environment THEN Value("environment", "", TRUE)
                                                      ELSE conf[k]]
  BY DEF ReadEnvironment
<1>2. conf' \in [Settings -> Values]
  BY <1>1, WordsAreValues DEF IInv
<1>3. "accessToken" \in Settings
  BY SomeSettings
<1>4. \A k \in Settings : conf'[k] = Value("environment", "", TRUE) \/ conf'[k] = conf[k]
  BY <1>1
<1>5. conf'["accessToken"] = conf["accessToken"] \/ conf'["accessToken"].source = "environment"
  BY <1>3, <1>4, WordsAreValues, Zenon
<1> QED BY <1>1, <1>2, <1>5

LEMMA EnvironmentKeepsInv ==
  ASSUME IInv, ReadEnvironment
  PROVE  IInv'
<1>1. Environment \cap (Erased \cup Cron \cup {"templateVars"}) = {}
  BY SettingsAssumption DEF Erased, Cron
<1>2. \A k \in Erased \cup Cron \cup {"templateVars"} : conf'[k] = conf[k]
  BY <1>1, EnvironmentIs, SomeSettings
<1>3. phase # "starting" /\ last' = last
  BY DEF ReadEnvironment
<1>4. ListsFollowFile'
  BY <1>2, <1>3 DEF ListsFollowFile, IInv
<1>5. /\ conf'["enableCron"] = conf["enableCron"] /\ conf'["schedule"] = conf["schedule"]
      /\ conf'["cronTasks"] = conf["cronTasks"] /\ conf'["templateVars"] = conf["templateVars"]
  BY <1>2 DEF Cron
<1>6. Scheduled(conf') /\ IsOfTemplate(conf'["templateVars"])
  BY <1>5, Zenon DEF Scheduled, IInv
<1>7. conf'["accessToken"].source # "reset"
  BY EnvironmentIs, Zenon DEF IInv
<1>8. conf' \in [Settings -> Values]
  BY EnvironmentIs
<1> QED BY <1>4, <1>6, <1>7, <1>8 DEF IInv

\* Every setting begins with its default.
LEMMA InitInv == Init => IInv
<1>1. SUFFICES ASSUME Init PROVE IInv
  OBVIOUS
<1>2. \A k \in Settings : conf[k] = Default(k)
  BY <1>1 DEF Init
<1>3. conf \in [Settings -> Values]
  BY <1>1, WordsAreValues DEF Init
<1>4. /\ conf["enableCron"] = Default("enableCron") /\ conf["schedule"] = Default("schedule")
      /\ conf["cronTasks"].source = "default" /\ conf["accessToken"].source = "default"
      /\ conf["templateVars"].source = "default"
  BY <1>2, SomeSettings, WordsAreValues DEF Cron
<1>5. Default("enableCron") = Default("schedule")
  BY DEF Default, OnAtFirst
<1>6. Scheduled(conf)
  BY <1>4, <1>5, WordsAreNoFiles, Zenon DEF Scheduled, IsListOfFile
<1>7. IsOfTemplate(conf["templateVars"])
  BY <1>4, WordsAreNoFiles, Zenon DEF IsOfTemplate
<1>8. ListsFollowFile
  BY <1>1 DEF Init, ListsFollowFile
<1> QED BY <1>3, <1>4, <1>6, <1>7, <1>8 DEF IInv

LEMMA NextInv == IInv /\ [Next]_vars => IInv'
<1> SUFFICES ASSUME IInv, [Next]_vars PROVE IInv'
  OBVIOUS
<1>1. ASSUME NEW d \in Docs, Start(d) PROVE IInv'
  BY <1>1, LoadKeepsInv DEF Start
<1>2. ASSUME NEW d \in Docs, Reload(d) PROVE IInv'
  BY <1>2, LoadKeepsInv DEF Reload
<1>3. CASE ReadEnvironment
  BY <1>3, EnvironmentKeepsInv
<1>4. CASE UNCHANGED vars
  BY <1>4 DEF vars, IInv, ListsFollowFile
<1> QED BY <1>1, <1>2, <1>3, <1>4 DEF Next

LEMMA InvHolds == Spec => []IInv
BY InitInv, NextInv, PTL DEF Spec

-----------------------------------------------------------------------------
(* The theorems *)

\* Whatever files are loaded one after the other, in whatever format, however
\* broken: the four lists are of the file read last, libcron runs the tasks of
\* a list as a whole, and template variables are those of their section.
THEOREM NothingStaysStale == Spec => []NothingIsStale
<1>1. IInv => NothingIsStale
  <2>1. SUFFICES ASSUME IInv PROVE NothingIsStale
    OBVIOUS
  <2>2. FromFile("cronTasks") /\ ~FromTOML("cronTasks") <=> IsListOfFile(conf["cronTasks"])
    BY Zenon DEF FromFile, FromTOML, IsListOfFile
  <2>3. ScheduleIsTasks
    BY <2>1, <2>2, Zenon DEF IInv, Scheduled, ScheduleIsTasks
  <2>4. TemplateVarsAreTheirs
    BY <2>1, Zenon DEF IInv, IsOfTemplate, TemplateVarsAreTheirs, FromFile
  <2> QED BY <2>1, <2>3, <2>4 DEF IInv, NothingIsStale
<1> QED BY <1>1, InvHolds, PTL

\* A token comes from a file or the environment, and only such a one replaces it.
LEMMA TokenStays ==
  ASSUME IInv, [Next]_vars, conf["accessToken"].source # "default"
  PROVE  conf'["accessToken"].source \notin {"default", "reset"}
<1> DEFINE was == conf["accessToken"]
           is == conf'["accessToken"]
           Good(v) == v.source \notin {"default", "reset"}
<1>1. Good(was)
  BY DEF IInv
<1>2. ASSUME NEW d \in Docs, Load(d) PROVE Good(is)
  <2>1. Kept(d, conf', conf)
    BY <1>2, LoadLeaves
  <2>2. is = was \/ is.source = d
    BY <2>1, Zenon DEF Kept, Follows, TokenOf
  <2>3. ASSUME is.source = d PROVE Good(is)
    BY <2>3, WordsAreNoFiles
  <2> HIDE DEF Good
  <2> QED BY <1>1, <2>2, <2>3, Zenon
<1>3. ASSUME ReadEnvironment PROVE Good(is)
  <2>1. is = was \/ is.source = "environment"
    BY <1>3, EnvironmentIs
  <2>2. ASSUME is.source = "environment" PROVE Good(is)
    BY <2>2
  <2> HIDE DEF Good
  <2> QED BY <1>1, <2>1, <2>2, Zenon
<1>4. ASSUME UNCHANGED vars PROVE Good(is)
  BY <1>1, <1>4 DEF vars
<1>5. (\E d \in Docs : Load(d)) \/ ReadEnvironment \/ UNCHANGED vars
  BY Zenon DEF Next, Start, Reload
<1>6. Good(is)
  <2> HIDE DEF Good
  <2> QED BY <1>2, <1>3, <1>4, <1>5
<1> QED BY <1>6

\* A refused file is followed by nothing but the erased lists.
LEMMA RefusedErases ==
  ASSUME IInv, [Next]_vars, outcome' = "refused", loads' # loads,
         Content[last'].broken = "syntax"
  PROVE  \A k \in Settings \ Erased : conf'[k] = conf[k]
<1>1. ASSUME NEW d \in Docs, Load(d)
      PROVE  \A k \in Settings \ Erased : conf'[k] = conf[k]
  <2>1. last' = d /\ conf' = Erase(conf)
    BY <1>1, LoadLeaves
  <2> QED BY <2>1 DEF Erase
<1>2. \E d \in Docs : Load(d)
  <2>1. ~ReadEnvironment /\ ~UNCHANGED vars
    BY DEF ReadEnvironment, vars
  <2> QED BY <2>1, Zenon DEF Next, Start, Reload
<1> QED BY <1>1, <1>2

\* However a reload ends, a server that has an access token keeps one, and a
\* file that no parser accepts takes nothing but the four lists.
THEOREM ReloadsLeaveTheRest == Spec => ReloadsKeep
<1> DEFINE Token == conf["accessToken"].source # "default"
                      => conf'["accessToken"].source \notin {"default", "reset"}
           Refused == outcome' = "refused" /\ loads' # loads /\ Content[last'].broken = "syntax"
                        => \A k \in Settings \ Erased : conf'[k] = conf[k]
<1>1. IInv /\ [Next]_vars => [Token]_vars
  BY TokenStays
<1>2. IInv /\ [Next]_vars => [Refused]_vars
  BY RefusedErases
<1> QED BY <1>1, <1>2, InvHolds, PTL DEF Spec, ReloadsKeep, TokenIsKept, RefusedFileChangesNothingElse
=============================================================================
