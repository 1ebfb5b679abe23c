---------------------------- MODULE ExportProofs ----------------------------
(***************************************************************************)
(* Proofs about Export, for any nodes and any groups: processRemark()      *)
(* always finds a new name, and so no configuration has two nodes of one   *)
(* name; no group is written without members; a group lists what its rules *)
(* select and no more; and what a line says is of its node or, where a     *)
(* local of the loop was not assigned for it, of the last one before it.   *)
(***************************************************************************)
EXTENDS Export, FiniteSetTheorems, WellFoundedInduction, TLAPS

\* A set of numbers that is not empty has a least one.
LEMMA LeastNumber ==
  ASSUME NEW T \in SUBSET Nat, T # {}
  PROVE  \E k \in T : \A l \in T : k <= l
<1> DEFINE R == OpToRel(<, Nat)
<1>1. PICK k \in T : \A l \in T : ~(<<l, k>> \in R)
  BY NatLessThanWellFounded, WFMin
<1>2. ASSUME NEW l \in Nat, NEW m \in Nat, l < m
      PROVE  <<l, m>> \in R
  <2>1. <<l, m>> \in Nat \X Nat /\ <<l, m>>[1] < <<l, m>>[2]
    BY <1>2
  <2> QED BY <2>1 DEF OpToRel
<1> HIDE DEF R
<1>3. ASSUME NEW l \in T
      PROVE  k <= l
  <2>1. l \in Nat /\ k \in Nat
    BY <1>1
  <2>2. ~(l < k)
    BY <1>1, <1>2, <1>3, <2>1
  <2> QED BY <2>1, <2>2
<1> QED BY <1>1, <1>3

\* A number changes the end of a name only.
LEMMA NumberedIsName ==
  ASSUME NEW name \in NameType, NEW k \in Nat
  PROVE  Numbered(name, k) \in NameType /\ Numbered(name, k).text = name.text
BY DEF Numbered, NameType

\* A list of L names leaves one of any L + 1 numbers free.
LEMMA SomeNumberIsFree ==
  ASSUME NEW names \in Seq(NameType), NEW name \in NameType
  PROVE  \E k \in 2..Len(names) + 2 : Numbered(name, k) \notin Range(names)
<1> DEFINE N == Len(names)
           K == 2..N + 2
<1>1. N \in Nat /\ DOMAIN names = 1..N
  OBVIOUS
<1>2. IsFiniteSet(Range(names)) /\ Cardinality(Range(names)) <= N
  <2>1. IsFiniteSet(1..N) /\ Cardinality(1..N) = N
    BY <1>1, FS_Interval
  <2>2. names \in Surjection(1..N, Range(names))
    BY <1>1 DEF Surjection, Range
  <2> QED BY <2>1, <2>2, FS_Surjection
<1>3. IsFiniteSet(K) /\ Cardinality(K) = N + 1
  BY <1>1, FS_Interval
<1>4. SUFFICES ASSUME \A k \in K : Numbered(name, k) \in Range(names)
               PROVE  FALSE
  OBVIOUS
<1> DEFINE f == [k \in K |-> Numbered(name, k)]
<1>5. f \in Injection(K, Range(names))
  <2>1. f \in [K -> Range(names)]
    BY <1>4
  <2>2. ASSUME NEW i \in K, NEW j \in K, f[i] = f[j]
        PROVE  i = j
    <3>1. Append(name.no, i) = Append(name.no, j)
      BY <2>2 DEF Numbered, NameType
    <3>2. name.no \in Seq(Nat) /\ i \in Nat /\ j \in Nat
      BY <1>1 DEF NameType
    <3> QED BY <3>1, <3>2
  <2> QED BY <2>1, <2>2 DEF Injection
<1>6. Cardinality(K) <= Cardinality(Range(names))
  BY <1>2, <1>5, FS_Injection
<1>7. Cardinality(Range(names)) \in Nat
  BY <1>2, FS_CardinalityType
<1> QED BY <1>1, <1>2, <1>3, <1>6, <1>7

\* processRemark() returns a name that is not taken.
LEMMA ProcessRemarkIsNew ==
  ASSUME remarks_list \in Seq(NameType), NEW name \in NameType
  PROVE  /\ ProcessRemark(name) \in NameType
         /\ ProcessRemark(name) \notin Range(remarks_list)
         /\ ProcessRemark(name).text = name.text
<1>1. CASE name \notin Range(remarks_list)
  BY <1>1 DEF ProcessRemark
<1>2. CASE name \in Range(remarks_list)
  <2> DEFINE free == {k \in 2..Len(remarks_list) + 2 :
                        Numbered(name, k) \notin Range(remarks_list)}
             least == CHOOSE k \in free : \A l \in free : k <= l
  <2>1. \E k \in free : TRUE
    BY SomeNumberIsFree
  <2>2. free \subseteq Nat
    OBVIOUS
  <2>3. \E k \in free : \A l \in free : k <= l
    BY <2>1, <2>2, LeastNumber
  <2>4. least \in free /\ least \in Nat
    BY <2>2, <2>3
  <2> HIDE DEF least
  <2>5. Numbered(name, least) \in NameType /\ Numbered(name, least).text = name.text
    BY <2>4, NumberedIsName
  <2>6. ProcessRemark(name) = Numbered(name, least)
    BY <1>2 DEF ProcessRemark, least
  <2> QED BY <2>4, <2>5, <2>6
<1> QED BY <1>1, <1>2
-----------------------------------------------------------------------------
\* Of a configuration, the names on the lines are those that are taken, no two
\* of them alike.
NoNameTwice ==
  \A i, j \in DOMAIN remarks_list : remarks_list[i] = remarks_list[j] => i = j

LinesHaveNames ==
  HasNames => /\ Len(out) = Len(remarks_list)
              /\ \A i \in DOMAIN out : out[i].name = remarks_list[i]

IInv ==
  /\ req \in Requests
  /\ phase = "nodes" => todo \in Seq(NodeType)
  /\ remarks_list \in Seq(NameType)
  /\ scv \in Tribool /\ proxyStr \in Texts
  /\ out \in Seq(LineType)
  /\ NoNameTwice
  /\ LinesHaveNames

\* A node keeps its other fields when its name changes, and has the new name.
LEMMA ShownIsNode ==
  ASSUME NEW n \in NodeType
  PROVE  Shown(n) \in NodeType /\ Name(Shown(n)) \in NameType
<1>1. TypeOf(n) \in Texts
  <2>1. n.Type \in Texts
    BY DEF NodeType
  <2> QED BY <2>1, TextsAssumption DEF TypeOf
<1>2. <<TypeOf(n)>> \o n.Remark \in Seq(Texts)
  BY <1>1 DEF NodeType
<1>3. Shown(n) \in NodeType
  BY <1>2 DEF Shown, NodeType
<1> QED BY <1>3 DEF Name, NodeType, NameType

LEMMA RenamedIsNode ==
  ASSUME NEW n \in NodeType, NEW name \in NameType, name.text = n.Remark
  PROVE  /\ [n EXCEPT !.No = name.no] \in NodeType
         /\ Name([n EXCEPT !.No = name.no]) = name
BY DEF Name, NodeType, NameType

LEMMA LineIsTyped ==
  ASSUME NEW n \in NodeType, NEW link \in Texts, NEW check \in Tribool \cup {"none"}
  PROVE  Line(n, link, check) \in LineType /\ Line(n, link, check).name = Name(n)
BY DEF Line, LineType, Name, NodeType, NameType

LEMMA InitIInv == Init => IInv
<1> SUFFICES ASSUME Init PROVE IInv
  OBVIOUS
<1>1. proxyStr \in Texts
  BY TextsAssumption DEF Init
<1>2. scv \in Tribool
  BY DEF Init, Tribool
<1>3. req \in Requests /\ todo \in Seq(NodeType)
  BY RequestsAssumption DEF Init
<1>4. remarks_list = <<>> /\ out = <<>>
  BY DEF Init
<1>5. NoNameTwice /\ LinesHaveNames
  BY <1>4 DEF NoNameTwice, LinesHaveNames
<1>6. remarks_list \in Seq(NameType) /\ out \in Seq(LineType)
  BY <1>4
<1> QED BY <1>1, <1>2, <1>3, <1>5, <1>6 DEF IInv

\* A line that takes a new name keeps the names apart.
LEMMA NewLine ==
  ASSUME IInv, NEW name \in NameType, name \notin Range(remarks_list),
         NEW line \in LineType, line.name = name, UNCHANGED req,
         out' = Append(out, line), remarks_list' = Append(remarks_list, name)
  PROVE  (remarks_list \in Seq(NameType) /\ out \in Seq(LineType) /\ NoNameTwice /\ LinesHaveNames)'
<1>1. remarks_list' \in Seq(NameType) /\ out' \in Seq(LineType)
  BY DEF IInv
<1>2. \A i \in DOMAIN remarks_list : remarks_list[i] # name
  BY DEF Range
<1>3. NoNameTwice'
  BY <1>2 DEF IInv, NoNameTwice
<1>4. LinesHaveNames'
  BY DEF IInv, LinesHaveNames, HasNames
<1> QED BY <1>1, <1>3, <1>4

LEMMA ConfigNodeKeepsIInv ==
  ASSUME IInv, ConfigNode
  PROVE  IInv'
<1> DEFINE n == Shown(Head(todo))
           name == ProcessRemark(Name(n))
           x == [n EXCEPT !.No = name.no]
           line == Line(x, n.Hostname, IF Checked(n) THEN scv' ELSE "none")
<1>1. Head(todo) \in NodeType /\ todo' \in Seq(NodeType)
  BY DEF IInv, ConfigNode
<1>2. n \in NodeType /\ Name(n) \in NameType
  BY <1>1, ShownIsNode
<1>3. name \in NameType /\ name \notin Range(remarks_list) /\ name.text = n.Remark
  BY <1>2, ProcessRemarkIsNew DEF IInv, Name
<1>4. x \in NodeType /\ Name(x) = name
  BY <1>2, <1>3, RenamedIsNode
<1>5. scv' \in Tribool
  BY <1>2, RequestsAssumption DEF IInv, ConfigNode, Scv, Define, NodeType
<1>6. line \in LineType /\ line.name = name
  <2>1. n.Hostname \in Texts
    BY <1>2 DEF NodeType
  <2> QED BY <1>4, <1>5, <2>1, LineIsTyped
<1>7. /\ out' = IF Takes(n) THEN Append(out, line) ELSE out
      /\ remarks_list' = IF Reserves(n) THEN Append(remarks_list, name) ELSE remarks_list
      /\ UNCHANGED <<req, phase, proxyStr>>
  BY <1>4 DEF ConfigNode
<1> HIDE DEF n, name, x, line
<1>8. (remarks_list \in Seq(NameType) /\ out \in Seq(LineType) /\ NoNameTwice /\ LinesHaveNames)'
  <2>1. CASE Takes(n) /\ Reserves(n)
    BY <1>3, <1>6, <1>7, <2>1, NewLine
  <2>2. CASE Takes(n) /\ ~Reserves(n)
    <3>1. ~HasNames'
      BY <1>7, <2>2 DEF Reserves, HasNames
    <3> QED BY <1>6, <1>7, <2>2, <3>1 DEF IInv, NoNameTwice, LinesHaveNames
  <2>3. CASE ~Takes(n)
    BY <1>7, <2>3 DEF Reserves, IInv, NoNameTwice, LinesHaveNames, HasNames
  <2> QED BY <2>1, <2>2, <2>3
<1> QED BY <1>1, <1>5, <1>7, <1>8 DEF IInv

LEMMA NextKeepsIInv == IInv /\ [Next]_vars => IInv'
<1> SUFFICES ASSUME IInv, [Next]_vars PROVE IInv'
  OBVIOUS
<1>1. CASE ConfigNode
  BY <1>1, ConfigNodeKeepsIInv
<1>2. CASE SingleNode
  <2> DEFINE n == Head(todo)
  <2>1. n \in NodeType /\ todo' \in Seq(NodeType)
    BY <1>2 DEF IInv, SingleNode
  <2>2. proxyStr' \in Texts
    BY <1>2, <2>1 DEF IInv, SingleNode, NodeType
  <2>3. Line(n, proxyStr', "none") \in LineType
    BY <2>1, <2>2, LineIsTyped
  <2>4. out' \in Seq(LineType)
    <3>1. out' = Append(out, Line(n, proxyStr', "none")) \/ out' = out
      BY <1>2 DEF SingleNode
    <3> QED BY <2>3, <3>1 DEF IInv
  <2>5. ~HasNames'
    BY <1>2 DEF SingleNode, HasNames, Configs
  <2>6. UNCHANGED <<req, remarks_list, scv>>
    BY <1>2 DEF SingleNode
  <2> QED BY <2>1, <2>2, <2>4, <2>5, <2>6 DEF IInv, NoNameTwice, LinesHaveNames
<1>3. CASE JsonNode
  <2> DEFINE n == Head(todo)
  <2>1. n \in NodeType /\ todo' \in Seq(NodeType)
    BY <1>3 DEF IInv, JsonNode
  <2>2. Line(n, n.Hostname, "none") \in LineType
    <3>1. n.Hostname \in Texts
      BY <2>1 DEF NodeType
    <3> QED BY <2>1, <3>1, LineIsTyped
  <2>3. out' \in Seq(LineType)
    BY <1>3, <2>2 DEF IInv, JsonNode
  <2>4. ~HasNames'
    BY <1>3 DEF JsonNode, HasNames, Configs, Jsons
  <2>5. UNCHANGED <<req, remarks_list, scv, proxyStr>>
    BY <1>3 DEF JsonNode
  <2> QED BY <2>1, <2>3, <2>4, <2>5 DEF IInv, NoNameTwice, LinesHaveNames
<1>4. CASE NodesDone \/ Group \/ GroupsDone \/ UNCHANGED vars
  BY <1>4 DEF NodesDone, Group, GroupsDone, vars, IInv, NoNameTwice, LinesHaveNames, HasNames
<1> QED BY <1>1, <1>2, <1>3, <1>4 DEF Next

\* In every configuration, for every list of nodes, the names on the lines
\* differ: processRemark() reserves them before they are written.
THEOREM UniqueNames == Spec => []NamesAreUnique
<1>1. IInv => NamesAreUnique
  BY DEF IInv, NoNameTwice, LinesHaveNames, NamesAreUnique
<1> QED BY InitIInv, NextKeepsIInv, <1>1, PTL DEF Spec

-----------------------------------------------------------------------------
\* What the rules of a group select plays no part: where it is nothing,
\* something takes its place.
LEMMA MembersAreThere ==
  ASSUME NEW g, NEW ran, g.Type = "ssid" => DOMAIN g.rules # {}
  PROVE  Members(g, ran) # <<>> \/ (g.use /\ req.target \in {"clash", "clashr"})
<1> DEFINE names == Generated(g, ran)
<1>1. CASE g.Type = "ssid"
  <2>1. Members(g, ran) = [i \in DOMAIN g.rules |-> g.rules[i].name]
    BY <1>1 DEF Members
  <2> QED BY <1>1, <2>1
<1>2. CASE g.Type # "ssid" /\ names # <<>>
  BY <1>2 DEF Members
<1>3. CASE g.Type # "ssid" /\ names = <<>>
  <2>1. CASE req.target \in {"clash", "clashr"} /\ g.use
    BY <2>1
  <2>2. CASE ~(req.target \in {"clash", "clashr"} /\ g.use)
    <3>1. Members(g, ran) = IF req.target = "mellow" /\ remarks_list # <<>>
                            THEN remarks_list ELSE <<Direct>>
      BY <1>3, <2>2 DEF Members
    <3> QED BY <3>1
  <2> QED BY <2>1, <2>2
<1> QED BY <1>1, <1>2, <1>3

\* A group takes the place of one of its name, or comes behind the others.
LEMMA ReplacedKeepsTheOthers ==
  ASSUME NEW policy, policies \in Seq(Range(policies))
  PROVE  /\ Replaced(policy) \in Seq(Range(Replaced(policy)))
         /\ Range(Replaced(policy)) \subseteq Range(policies) \cup {policy}
<1> DEFINE same == {i \in DOMAIN policies : policies[i].name = policy.name}
           k == CHOOSE i \in same : \A j \in same : i <= j
<1>1. DOMAIN policies = 1..Len(policies) /\ Len(policies) \in Nat
  OBVIOUS
<1>2. CASE Replaced(policy) = [policies EXCEPT ![k] = policy]
  <2> DEFINE f == [policies EXCEPT ![k] = policy]
  <2>1. /\ f = [i \in 1..Len(policies) |-> f[i]]
        /\ \A i \in 1..Len(policies) : f[i] = policies[i] \/ f[i] = policy
    BY <1>1
  <2> HIDE DEF f, k
  <2>2. \A i \in 1..Len(policies) : f[i] \in Range(f)
    BY <2>1 DEF Range
  <2>3. f \in Seq(Range(f))
    BY <1>1, <2>1, <2>2
  <2>4. Range(f) \subseteq Range(policies) \cup {policy}
    BY <1>1, <2>1 DEF Range
  <2> QED BY <1>2, <2>3, <2>4 DEF f
<1>3. CASE Replaced(policy) = Append(policies, policy)
  <2> DEFINE f == Append(policies, policy)
  <2>1. policies \in Seq(Range(policies) \cup {policy})
    BY <1>1
  <2>2. /\ f \in Seq(Range(policies) \cup {policy})
        /\ DOMAIN f = 1..Len(policies) + 1 /\ Len(f) = Len(policies) + 1
    BY <1>1, <2>1
  <2> HIDE DEF f
  <2>3. Range(f) \subseteq Range(policies) \cup {policy}
    BY <2>2 DEF Range
  <2>4. \A i \in 1..Len(f) : f[i] \in Range(f)
    BY <1>1, <2>2 DEF Range
  <2>5. f \in Seq(Range(f))
    BY <1>1, <2>2, <2>4
  <2> QED BY <1>3, <2>3, <2>5 DEF f
<1> QED BY <1>2, <1>3 DEF Replaced

\* The groups still to come are those of the request.
GroupsInv ==
  /\ req \in Requests
  /\ phase = "groups" => todo \in Seq(Range(req.groups))
  /\ policies \in Seq(Range(policies))
  /\ GroupsHaveMembers

LEMMA GroupKeepsMembers ==
  ASSUME GroupsInv, Group
  PROVE  GroupsInv'
<1> DEFINE g == Head(todo)
<1>1. g \in Range(req.groups) /\ todo' \in Seq(Range(req.groups)) /\ UNCHANGED <<req, phase>>
  BY DEF GroupsInv, Group
<1>2. g.Type = "ssid" => DOMAIN g.rules # {}
  BY <1>1, GroupsAssumption DEF GroupsInv
<1>3. CASE UNCHANGED policies
  BY <1>1, <1>3 DEF GroupsInv, GroupsHaveMembers
<1>4. CASE \E ran \in BOOLEAN :
             policies' = Replaced([name |-> g.Name, type |-> TypeStr(g, Members(g, ran)),
                                   members |-> Members(g, ran), use |-> g.use])
  <2>1. PICK ran \in BOOLEAN :
               policies' = Replaced([name |-> g.Name, type |-> TypeStr(g, Members(g, ran)),
                                     members |-> Members(g, ran), use |-> g.use])
    BY <1>4
  <2> DEFINE policy == [name |-> g.Name, type |-> TypeStr(g, Members(g, ran)),
                        members |-> Members(g, ran), use |-> g.use]
  <2>2. policy.members # <<>> \/ (policy.use /\ req.target \in {"clash", "clashr"})
    BY <1>2, MembersAreThere
  <2> HIDE DEF policy
  <2>3. /\ policies' \in Seq(Range(policies'))
        /\ Range(policies') \subseteq Range(policies) \cup {policy}
    BY <2>1, ReplacedKeepsTheOthers DEF GroupsInv, policy
  <2>4. GroupsHaveMembers'
    BY <1>1, <2>2, <2>3 DEF GroupsInv, GroupsHaveMembers
  <2> QED BY <1>1, <2>3, <2>4 DEF GroupsInv
<1> QED BY <1>3, <1>4 DEF Group

\* No group is written without members, for any rules, whatever they select,
\* and whatever a script of theirs returns.
THEOREM NoGroupIsEmpty == Spec => []GroupsHaveMembers
<1>1. Init => GroupsInv
  <2> SUFFICES ASSUME Init PROVE GroupsInv
    OBVIOUS
  <2>1. policies = <<>> /\ phase = "nodes" /\ req \in Requests
    BY DEF Init
  <2>2. Range(policies) = {} /\ policies \in Seq(Range(policies))
    BY <2>1 DEF Range
  <2> QED BY <2>1, <2>2 DEF GroupsInv, GroupsHaveMembers
<1>2. GroupsInv /\ [Next]_vars => GroupsInv'
  <2> SUFFICES ASSUME GroupsInv, [Next]_vars PROVE GroupsInv'
    OBVIOUS
  <2>1. CASE Group
    BY <2>1, GroupKeepsMembers
  <2>2. CASE NodesDone
    BY <2>2, GroupsAssumption DEF NodesDone, GroupsInv, GroupsHaveMembers
  <2>3. CASE ConfigNode \/ SingleNode \/ JsonNode \/ GroupsDone \/ UNCHANGED vars
    BY <2>3 DEF ConfigNode, SingleNode, JsonNode, GroupsDone, vars, GroupsInv, GroupsHaveMembers
  <2> QED BY <2>1, <2>2, <2>3 DEF Next
<1>3. GroupsInv => GroupsHaveMembers
  BY DEF GroupsInv
<1> QED BY <1>1, <1>2, <1>3, PTL DEF Spec

-----------------------------------------------------------------------------
\* What holds of 0, and of each number after one it holds of, holds up to n.
LEMMA NoneFails ==
  ASSUME NEW n \in Nat, NEW T \in SUBSET (0..n), 0 \notin T,
         \A k \in 1..n : k \in T => k - 1 \in T
  PROVE  T = {}
<1>1. SUFFICES ASSUME T # {} PROVE FALSE
  OBVIOUS
<1>2. PICK k \in T : \A l \in T : k <= l
  <2>1. T \in SUBSET Nat
    OBVIOUS
  <2> QED BY <1>1, <2>1, LeastNumber
<1>3. k \in 1..n /\ ~(k <= k - 1)
  BY <1>2
<1> QED BY <1>2, <1>3

LEMMA MaxIsGreatest ==
  ASSUME NEW n \in Nat, NEW t \in SUBSET (1..n), t # {}
  PROVE  Max(t) \in t /\ \A y \in t : y <= Max(t)
<1> DEFINE T == {k \in Nat : \A y \in t : y <= k}
<1>1. n \in T
  OBVIOUS
<1>2. PICK k \in T : \A l \in T : k <= l
  BY <1>1, LeastNumber
<1>3. k \in t
  <2>1. SUFFICES ASSUME k \notin t PROVE FALSE
    OBVIOUS
  <2>2. \A y \in t : y \in Nat /\ y # 0 /\ y <= k - 1
    BY <2>1
  <2>3. k - 1 \in Nat
    <3>1. PICK y \in t : TRUE
      OBVIOUS
    <3>2. y \in Nat /\ y # 0 /\ y <= k /\ k \in Nat
      BY <2>2, <3>1
    <3> QED BY <3>2
  <2>4. k - 1 \in T
    BY <2>2, <2>3
  <2> QED BY <1>2, <2>2, <2>4
<1>4. \E x \in t : \A y \in t : x >= y
  BY <1>2, <1>3
<1> QED BY <1>4 DEF Max

LEMMA Prefix ==
  ASSUME NEW n \in Nat, NEW k \in 1..n
  PROVE  /\ 1..k \in SUBSET (1..n) /\ 1..k # {} /\ Max(1..k) = k
         /\ (1..k) \ {k} = 1..k - 1
<1>1. k \in Nat /\ 1 <= k /\ k <= n
  OBVIOUS
<1>2. k \in 1..k
  BY <1>1
<1>3. 1..k \in SUBSET (1..n)
  BY <1>1
<1>4. Max(1..k) = k
  <2>1. 1..k \in SUBSET (1..k)
    OBVIOUS
  <2>2. Max(1..k) \in 1..k /\ \A y \in 1..k : y <= Max(1..k)
    BY <1>1, <1>2, <2>1, MaxIsGreatest
  <2> QED BY <1>1, <1>2, <2>2
<1>5. (1..k) \ {k} = 1..k - 1
  BY <1>1
<1> QED BY <1>2, <1>3, <1>4, <1>5

\* f folds every subset of the first n elements of s with H.
IsFold(f, H, base, s, n, A) ==
  /\ f \in [SUBSET (1..n) -> A]
  /\ \A t \in SUBSET (1..n) :
       f[t] = IF t = {} THEN base ELSE H[<<f[t \ {Max(t)}], s[Max(t)]>>]

LEMMA FoldGrows ==
  ASSUME NEW A, NEW B, NEW H \in [A \X B -> A], NEW base, NEW s \in Seq(B),
         NEW n \in Nat, n + 1 \in 1..Len(s), NEW f, IsFold(f, H, base, s, n, A)
  PROVE  \E g : IsFold(g, H, base, s, n + 1, A)
<1> DEFINE g == [t \in SUBSET (1..n + 1) |->
                   IF n + 1 \in t THEN H[<<f[t \ {n + 1}], s[n + 1]>>] ELSE f[t]]
<1>1. \A t \in SUBSET (1..n) : n + 1 \notin t /\ t \in SUBSET (1..n + 1) /\ g[t] = f[t]
  OBVIOUS
<1>t. \A t \in SUBSET (1..n + 1) : t \ {n + 1} \in SUBSET (1..n) /\ (n + 1 \notin t => t \in SUBSET (1..n))
  OBVIOUS
<1>2. ASSUME NEW t \in SUBSET (1..n + 1)
      PROVE  g[t] = IF t = {} THEN base ELSE H[<<g[t \ {Max(t)}], s[Max(t)]>>]
  <2>1. CASE n + 1 \in t
    <3>1. Max(t) = n + 1
      <4>1. Max(t) \in t /\ \A y \in t : y <= Max(t)
        <5>1. n + 1 \in Nat
          OBVIOUS
        <5> QED BY <2>1, <5>1, MaxIsGreatest
      <4>2. Max(t) \in 1..n + 1 /\ n + 1 <= Max(t)
        BY <2>1, <4>1
      <4> HIDE DEF g
      <4> QED BY <4>2
    <3>2. g[t \ {n + 1}] = f[t \ {n + 1}]
      BY <1>1, <1>t
    <3> QED BY <2>1, <3>1, <3>2
  <2>2. CASE n + 1 \notin t
    <3>1. t \in SUBSET (1..n)
      BY <2>2
    <3>2. g[t] = f[t]
      BY <1>1, <3>1
    <3>3. f[t] = IF t = {} THEN base ELSE H[<<f[t \ {Max(t)}], s[Max(t)]>>]
      BY <3>1 DEF IsFold
    <3>4. t \ {Max(t)} \in SUBSET (1..n)
      BY <3>1
    <3>5. g[t \ {Max(t)}] = f[t \ {Max(t)}]
      BY <1>1, <3>4
    <3> QED BY <3>2, <3>3, <3>5
  <2> QED BY <2>1, <2>2
<1>3. g \in [SUBSET (1..n + 1) -> A]
  <2>1. s[n + 1] \in B
    OBVIOUS
  <2>2. \A t \in SUBSET (1..n) : f[t] \in A
    BY DEF IsFold
  <2>3. ASSUME NEW t \in SUBSET (1..n + 1) PROVE g[t] \in A
    <3>1. CASE n + 1 \in t
      <4>1. f[t \ {n + 1}] \in A
        BY <1>t, <2>2
      <4>2. <<f[t \ {n + 1}], s[n + 1]>> \in A \X B
        BY <2>1, <4>1
      <4> QED BY <3>1, <4>2
    <3>2. CASE n + 1 \notin t
      BY <1>t, <2>2, <3>2
    <3> QED BY <3>1, <3>2
  <2> QED BY <2>3
<1> HIDE DEF g
<1> QED BY <1>2, <1>3 DEF IsFold

LEMMA FoldExists ==
  ASSUME NEW A, NEW B, NEW H \in [A \X B -> A], NEW base \in A, NEW s \in Seq(B)
  PROVE  \E f : IsFold(f, H, base, s, Len(s), A)
<1> DEFINE T == {k \in 0..Len(s) : ~\E f : IsFold(f, H, base, s, k, A)}
<1>1. Len(s) \in Nat
  OBVIOUS
<1>2. 0 \notin T
  <2> DEFINE f == [t \in SUBSET (1..0) |-> base]
  <2>1. 1..0 = {}
    OBVIOUS
  <2>2. \A t \in SUBSET (1..0) : t = {} /\ f[t] = base
    BY <2>1
  <2>3. f \in [SUBSET (1..0) -> A]
    OBVIOUS
  <2>4. IsFold(f, H, base, s, 0, A)
    BY <2>2, <2>3, Zenon DEF IsFold
  <2> QED BY <2>4
<1>3. ASSUME NEW k \in 1..Len(s), k \in T PROVE k - 1 \in T
  <2>1. SUFFICES ASSUME k - 1 \notin T PROVE k \notin T
    BY <1>3
  <2>2. k - 1 \in 0..Len(s) /\ k - 1 \in Nat /\ (k - 1) + 1 = k /\ (k - 1) + 1 \in 1..Len(s)
    BY <1>1
  <2>3. PICK f : IsFold(f, H, base, s, k - 1, A)
    BY <2>1, <2>2
  <2>4. \E g : IsFold(g, H, base, s, (k - 1) + 1, A)
    BY <2>2, <2>3, FoldGrows
  <2> QED BY <2>2, <2>4
<1>4. T = {}
  <2>1. T \in SUBSET (0..Len(s))
    OBVIOUS
  <2> HIDE DEF T
  <2> QED BY <1>1, <1>2, <1>3, <2>1, NoneFails
<1>5. Len(s) \in 0..Len(s)
  BY <1>1
<1> QED BY <1>4, <1>5

-----------------------------------------------------------------------------
\* One node under one rule.
Added(rule, names, n) ==
  IF Selects(rule.match, n) /\ Name(n) \notin Range(names) THEN Append(names, Name(n)) ELSE names

\* A rule goes through the nodes one by one, ...
LEMMA NodeByNode ==
  ASSUME nodelist \in Seq(Range(nodelist)), NEW X, \A n \in Range(nodelist) : Name(n) \in X,
         NEW filtered \in Seq(X), NEW rule, rule.kind = "match", NEW ran
  PROVE  \E v : /\ v[0] = filtered
                /\ \A k \in 1..Len(nodelist) : v[k] = Added(rule, v[k - 1], nodelist[k])
                /\ GroupGenerate(filtered, rule, ran) = v[Len(nodelist)]
<1> DEFINE B == Range(nodelist)
           H == [p \in Seq(X) \X B |-> Added(rule, p[1], p[2])]
           Folds(c) == c = [t \in SUBSET DOMAIN nodelist |->
                              IF t = {} THEN filtered
                              ELSE Added(rule, c[t \ {Max(t)}], nodelist[Max(t)])]
<1>1. Len(nodelist) \in Nat /\ DOMAIN nodelist = 1..Len(nodelist)
  OBVIOUS
<1>2. H \in [Seq(X) \X B -> Seq(X)]
  <2>1. ASSUME NEW p \in Seq(X) \X B PROVE Added(rule, p[1], p[2]) \in Seq(X)
    <3>1. p[1] \in Seq(X) /\ Name(p[2]) \in X
      OBVIOUS
    <3>2. Append(p[1], Name(p[2])) \in Seq(X)
      BY <3>1
    <3> QED BY <3>1, <3>2 DEF Added
  <2> QED BY <2>1
<1>3. PICK f : IsFold(f, H, filtered, nodelist, Len(nodelist), Seq(X))
  <2> HIDE DEF H
  <2> QED BY <1>2, FoldExists
<1>4. Folds(f)
  <2>1. ASSUME NEW t \in SUBSET (1..Len(nodelist)), t # {}
        PROVE  f[t] = Added(rule, f[t \ {Max(t)}], nodelist[Max(t)])
    <3>1. Max(t) \in 1..Len(nodelist)
      BY <1>1, <2>1, MaxIsGreatest
    <3>2. nodelist[Max(t)] \in B
      BY <1>1, <3>1 DEF Range
    <3>4. f[t \ {Max(t)}] \in Seq(X)
      BY <1>3 DEF IsFold
    <3>3. f[t] = H[<<f[t \ {Max(t)}], nodelist[Max(t)]>>]
      BY <1>3, <2>1 DEF IsFold
    <3> QED BY <3>2, <3>3, <3>4
  <2>2. f[{}] = filtered
    BY <1>3 DEF IsFold
  <2>3. f = [t \in SUBSET (1..Len(nodelist)) |-> f[t]]
    BY <1>3 DEF IsFold
  <2> QED BY <1>1, <2>1, <2>2, <2>3, Zenon
<1> DEFINE c == CHOOSE c : Folds(c)
<1>5. Folds(c)
  BY <1>4
<1>6. GroupGenerate(filtered, rule, ran) = c[DOMAIN nodelist]
  <2>1. rule.kind # "ref" /\ rule.kind # "script"
    OBVIOUS
  <2> QED BY <2>1, Zenon DEF GroupGenerate, FoldLeft, MapThenFoldSet, Added
<1> HIDE DEF c
<1>7. \A t \in SUBSET (1..Len(nodelist)) :
        c[t] = IF t = {} THEN filtered ELSE Added(rule, c[t \ {Max(t)}], nodelist[Max(t)])
  BY <1>1, <1>5, Zenon
<1> DEFINE v == [k \in 0..Len(nodelist) |-> c[1..k]]
<1>8. v[0] = filtered
  <2>1. 1..0 = {} /\ 0 \in 0..Len(nodelist)
    BY <1>1
  <2> QED BY <1>7, <2>1, Zenon
<1>9. ASSUME NEW k \in 1..Len(nodelist) PROVE v[k] = Added(rule, v[k - 1], nodelist[k])
  <2>1. k \in 0..Len(nodelist) /\ k - 1 \in 0..Len(nodelist)
    BY <1>1
  <2>2. /\ 1..k \in SUBSET (1..Len(nodelist)) /\ 1..k # {} /\ Max(1..k) = k
        /\ (1..k) \ {k} = 1..k - 1
    BY <1>1, Prefix
  <2>3. v[k] = c[1..k] /\ v[k - 1] = c[1..k - 1]
    BY <2>1
  <2> HIDE DEF v
  <2> QED BY <1>7, <2>2, <2>3
<1>10. v[Len(nodelist)] = c[DOMAIN nodelist]
  <2>1. Len(nodelist) \in 0..Len(nodelist)
    BY <1>1
  <2> QED BY <1>1, <2>1
<1> HIDE DEF v
<1> QED BY <1>6, <1>8, <1>9, <1>10

\* No name is there twice, but for those a group refers to.
Apart(names, refs) ==
  \A i, j \in DOMAIN names : names[i] = names[j] /\ names[i] \notin refs => i = j

LEMMA AppendAddsOne ==
  ASSUME NEW X, NEW names \in Seq(X), NEW x \in X
  PROVE  /\ Append(names, x) \in Seq(X)
         /\ Range(Append(names, x)) = Range(names) \cup {x}
         /\ \A refs : Apart(names, refs) /\ (x \in refs \/ x \notin Range(names)) => Apart(Append(names, x), refs)
<1> DEFINE f == Append(names, x)
<1>1. /\ f \in Seq(X) /\ DOMAIN f = 1..Len(names) + 1 /\ Len(names) \in Nat /\ DOMAIN names = 1..Len(names)
      /\ f[Len(names) + 1] = x /\ \A i \in 1..Len(names) : f[i] = names[i]
  OBVIOUS
<1> HIDE DEF f
<1>2. Range(f) \subseteq Range(names) \cup {x}
  BY <1>1 DEF Range
<1>3. x \in Range(f)
  <2>1. Len(names) + 1 \in DOMAIN f
    BY <1>1
  <2> QED BY <1>1, <2>1 DEF Range
<1>4. Range(names) \subseteq Range(f)
  <2>1. \A i \in DOMAIN names : i \in DOMAIN f /\ f[i] = names[i]
    BY <1>1
  <2> QED BY <2>1 DEF Range
<1>5. ASSUME NEW refs, Apart(names, refs), x \in refs \/ x \notin Range(names)
      PROVE  Apart(f, refs)
  <2>1. ASSUME NEW i \in DOMAIN f, NEW j \in DOMAIN f, f[i] = f[j], f[i] \notin refs
        PROVE  i = j
    <3>1. CASE i \in 1..Len(names) /\ j \in 1..Len(names)
      BY <1>1, <1>5, <2>1, <3>1 DEF Apart
    <3>2. CASE i = Len(names) + 1 /\ j \in 1..Len(names)
      <4>1. x \in Range(names)
        BY <1>1, <2>1, <3>2 DEF Range
      <4> QED BY <1>1, <1>5, <2>1, <3>2, <4>1
    <3>3. CASE j = Len(names) + 1 /\ i \in 1..Len(names)
      <4>1. x \in Range(names)
        BY <1>1, <2>1, <3>3 DEF Range
      <4> QED BY <1>1, <1>5, <2>1, <3>3, <4>1
    <3>4. CASE i = Len(names) + 1 /\ j = Len(names) + 1
      BY <3>4
    <3> QED BY <1>1, <3>1, <3>2, <3>3, <3>4
  <2> QED BY <2>1 DEF Apart
<1> QED BY <1>1, <1>2, <1>3, <1>4, <1>5 DEF f

Own(rule, n) == IF Selects(rule.match, n) THEN {Name(n)} ELSE {}

Picked(rule, nodes) ==
  {Name(n) : n \in {m \in nodes : rule.kind = "match" /\ Selects(rule.match, m)}}

LEMMA AddedKeeps ==
  ASSUME NEW X, NEW names \in Seq(X), NEW n, Name(n) \in X, NEW rule, rule.kind = "match",
         NEW refs, Apart(names, refs)
  PROVE  /\ Added(rule, names, n) \in Seq(X)
         /\ Apart(Added(rule, names, n), refs)
         /\ Range(Added(rule, names, n)) = Range(names) \cup Own(rule, n)
<1>2. CASE Selects(rule.match, n) /\ Name(n) \notin Range(names)
  BY <1>2, AppendAddsOne DEF Added, Own
<1>3. CASE ~Selects(rule.match, n)
  BY <1>3 DEF Added, Own
<1>4. CASE Selects(rule.match, n) /\ Name(n) \in Range(names)
  BY <1>4 DEF Added, Own
<1> QED BY <1>2, <1>3, <1>4

LEMMA SelectsNodes ==
  ASSUME nodelist \in Seq(Range(nodelist)), NEW X, \A n \in Range(nodelist) : Name(n) \in X,
         NEW filtered \in Seq(X), NEW rule, rule.kind = "match", NEW ran,
         NEW refs, Apart(filtered, refs)
  PROVE  /\ GroupGenerate(filtered, rule, ran) \in Seq(X)
         /\ Apart(GroupGenerate(filtered, rule, ran), refs)
         /\ Range(GroupGenerate(filtered, rule, ran))
              = Range(filtered) \cup Picked(rule, Range(nodelist))
<1>1. PICK v : /\ v[0] = filtered
               /\ \A k \in 1..Len(nodelist) : v[k] = Added(rule, v[k - 1], nodelist[k])
               /\ GroupGenerate(filtered, rule, ran) = v[Len(nodelist)]
  BY NodeByNode
<1> DEFINE Upto(k) == {nodelist[i] : i \in 1..k}
           Good(k) == /\ v[k] \in Seq(X) /\ Apart(v[k], refs)
                      /\ Range(v[k]) = Range(filtered) \cup Picked(rule, Upto(k))
           T == {k \in 0..Len(nodelist) : ~Good(k)}
<1>2. Len(nodelist) \in Nat /\ DOMAIN nodelist = 1..Len(nodelist)
  OBVIOUS
<1>3. Good(0)
  <2>1. 1..0 = {}
    OBVIOUS
  <2>2. Upto(0) = {}
    BY <2>1, Zenon
  <2>3. Picked(rule, {}) = {}
    BY Zenon DEF Picked
  <2> QED BY <1>1, <2>2, <2>3
<1>4. ASSUME NEW k \in 1..Len(nodelist), Good(k - 1) PROVE Good(k)
  <2>1. nodelist[k] \in Range(nodelist)
    BY <1>2 DEF Range
  <2>2. Upto(k) = Upto(k - 1) \cup {nodelist[k]}
    <3>1. 1..k = (1..k - 1) \cup {k}
      BY <1>2
    <3> QED BY <3>1, Zenon
  <2>3. Picked(rule, Upto(k)) = Picked(rule, Upto(k - 1)) \cup Own(rule, nodelist[k])
    BY <2>2, Zenon DEF Picked, Own
  <2> HIDE DEF Upto
  <2>4. /\ v[k] = Added(rule, v[k - 1], nodelist[k])
        /\ v[k - 1] \in Seq(X) /\ Apart(v[k - 1], refs) /\ Name(nodelist[k]) \in X
    BY <1>1, <1>4, <2>1
  <2>5. /\ v[k] \in Seq(X) /\ Apart(v[k], refs)
        /\ Range(v[k]) = Range(v[k - 1]) \cup Own(rule, nodelist[k])
    BY <2>4, AddedKeeps
  <2>6. Range(v[k - 1]) = Range(filtered) \cup Picked(rule, Upto(k - 1))
    BY <1>4
  <2> QED BY <2>3, <2>5, <2>6, Zenon
<1> HIDE DEF Good
<1>5. T = {}
  <2>1. T \in SUBSET (0..Len(nodelist)) /\ 0 \notin T
    BY <1>3
  <2>2. ASSUME NEW k \in 1..Len(nodelist), k \in T PROVE k - 1 \in T
    <3>1. k - 1 \in 0..Len(nodelist)
      BY <1>2
    <3> QED BY <1>4, <2>2, <3>1
  <2> HIDE DEF T
  <2> QED BY <1>2, <2>1, <2>2, NoneFails
<1>6. Good(Len(nodelist))
  BY <1>2, <1>5
<1>7. Upto(Len(nodelist)) = Range(nodelist)
  BY <1>2, Zenon DEF Range
<1> HIDE DEF Upto
<1> QED BY <1>1, <1>6, <1>7 DEF Good

\* The names of the nodes the rules of a list select, ...
Selected(rules, nodes) == UNION {Picked(rules[i], nodes) : i \in DOMAIN rules}

\* ... and what those rules refer to.
Refs(rules) == {rules[i].name : i \in {j \in DOMAIN rules : rules[j].kind = "ref"}}

\* What one rule makes of the names the rules before it gave.
IsRule(rule, refs) ==
  rule.kind \in {"ref", "match"} /\ (rule.kind = "ref" => rule.name \in refs)

NamesAre(names, X, refs) == names \in Seq(X) /\ Apart(names, refs) /\ refs \subseteq X

Gains(names, more, new, refs) ==
  Range(names) \cup new \subseteq Range(more) /\ Range(more) \subseteq Range(names) \cup new \cup refs

LEMMA OneRule ==
  ASSUME nodelist \in Seq(Range(nodelist)), NEW X, \A n \in Range(nodelist) : Name(n) \in X,
         NEW names, NEW refs, NamesAre(names, X, refs), NEW rule, IsRule(rule, refs), NEW ran
  PROVE  /\ NamesAre(GroupGenerate(names, rule, ran), X, refs)
         /\ Gains(names, GroupGenerate(names, rule, ran), Picked(rule, Range(nodelist)), refs)
<1> USE DEF IsRule, NamesAre, Gains
<1>1. CASE rule.kind = "match"
  BY <1>1, SelectsNodes
<1>2. CASE rule.kind = "ref"
  <2>1. rule.kind # "match" /\ rule.kind # "script"
    BY <1>2
  <2>2. Picked(rule, Range(nodelist)) = {}
    BY <2>1, Zenon DEF Picked
  <2>3. GroupGenerate(names, rule, ran) = names \/ GroupGenerate(names, rule, ran) = Append(names, rule.name)
    BY <1>2, <2>1, Zenon DEF GroupGenerate
  <2>4. rule.name \in X /\ rule.name \in refs
    BY <1>2
  <2>5. /\ Append(names, rule.name) \in Seq(X)
        /\ Range(Append(names, rule.name)) = Range(names) \cup {rule.name}
        /\ Apart(Append(names, rule.name), refs)
    BY <2>4, AppendAddsOne
  <2> QED BY <2>2, <2>3, <2>4, <2>5
<1> QED BY <1>1, <1>2

\* The rules of a group are gone through one by one, ...
Closed(A, g, ran) ==
  \A names \in A : \A rule \in Range(g.rules) : GroupGenerate(names, rule, ran) \in A

Walk(v, g, ran) ==
  /\ v[0] = <<>>
  /\ \A k \in 1..Len(g.rules) : v[k] = GroupGenerate(v[k - 1], g.rules[k], ran)
  /\ Generated(g, ran) = v[Len(g.rules)]

LEMMA RuleByRule ==
  ASSUME NEW A, <<>> \in A, NEW g, g.rules \in Seq(Range(g.rules)), NEW ran, Closed(A, g, ran)
  PROVE  \E v : Walk(v, g, ran)
<1> DEFINE rules == g.rules
           B == Range(rules)
           H == [p \in A \X B |-> GroupGenerate(p[1], p[2], ran)]
           Folds(c) == c = [t \in SUBSET DOMAIN rules |->
                              IF t = {} THEN <<>>
                              ELSE GroupGenerate(c[t \ {Max(t)}], rules[Max(t)], ran)]
           c == CHOOSE c : Folds(c)
<1>1. Len(rules) \in Nat /\ DOMAIN rules = 1..Len(rules) /\ rules \in Seq(B)
  OBVIOUS
<1>2. Generated(g, ran) = c[DOMAIN rules]
  BY Zenon DEF Generated, FoldLeft, MapThenFoldSet
<1>3. H \in [A \X B -> A]
  <2>1. ASSUME NEW p \in A \X B PROVE GroupGenerate(p[1], p[2], ran) \in A
    <3>1. p[1] \in A /\ p[2] \in Range(g.rules)
      OBVIOUS
    <3> QED BY <3>1 DEF Closed
  <2> QED BY <2>1
<1> HIDE DEF rules, B
<1>4. PICK f : IsFold(f, H, <<>>, rules, Len(rules), A)
  <2> HIDE DEF H
  <2> QED BY <1>1, <1>3, FoldExists
<1>5. Folds(f)
  <2>1. ASSUME NEW t \in SUBSET (1..Len(rules)), t # {}
        PROVE  f[t] = GroupGenerate(f[t \ {Max(t)}], rules[Max(t)], ran)
    <3>1. Max(t) \in 1..Len(rules)
      BY <1>1, <2>1, MaxIsGreatest
    <3>2. rules[Max(t)] \in B
      BY <1>1, <3>1 DEF B, Range
    <3>3. f[t \ {Max(t)}] \in A
      BY <1>4 DEF IsFold
    <3>4. f[t] = H[<<f[t \ {Max(t)}], rules[Max(t)]>>]
      BY <1>4, <2>1 DEF IsFold
    <3> QED BY <3>2, <3>3, <3>4
  <2>2. f[{}] = <<>>
    BY <1>4 DEF IsFold
  <2>3. f = [t \in SUBSET (1..Len(rules)) |-> f[t]]
    BY <1>4 DEF IsFold
  <2> QED BY <1>1, <2>1, <2>2, <2>3, Zenon
<1>6. Folds(c)
  BY <1>5
<1> HIDE DEF c
<1>7. \A t \in SUBSET (1..Len(rules)) :
        c[t] = IF t = {} THEN <<>> ELSE GroupGenerate(c[t \ {Max(t)}], rules[Max(t)], ran)
  BY <1>1, <1>6, Zenon
<1> DEFINE v == [k \in 0..Len(rules) |-> c[1..k]]
<1>8. v[0] = <<>>
  <2>1. 1..0 = {} /\ 0 \in 0..Len(rules)
    BY <1>1
  <2> QED BY <1>7, <2>1, Zenon
<1>9. ASSUME NEW k \in 1..Len(rules) PROVE v[k] = GroupGenerate(v[k - 1], rules[k], ran)
  <2>1. k \in 0..Len(rules) /\ k - 1 \in 0..Len(rules)
    BY <1>1
  <2>2. /\ 1..k \in SUBSET (1..Len(rules)) /\ 1..k # {} /\ Max(1..k) = k
        /\ (1..k) \ {k} = 1..k - 1
    BY <1>1, Prefix
  <2>3. v[k] = c[1..k] /\ v[k - 1] = c[1..k - 1]
    BY <2>1
  <2> HIDE DEF v
  <2> QED BY <1>7, <2>2, <2>3
<1>10. v[Len(rules)] = c[DOMAIN rules]
  <2>1. Len(rules) \in 0..Len(rules)
    BY <1>1
  <2> QED BY <1>1, <2>1
<1> HIDE DEF v
<1> QED BY <1>2, <1>8, <1>9, <1>10 DEF rules, Walk

\* ... and so a group has the names its rules select, each once, and what they
\* refer to.
LEMMA GeneratedNames ==
  ASSUME nodelist \in Seq(Range(nodelist)), NEW g, g.rules \in Seq(Range(g.rules)), NEW ran,
         \A rule \in Range(g.rules) : rule.kind \in {"ref", "match"}
  PROVE  /\ Selected(g.rules, Range(nodelist)) \subseteq Range(Generated(g, ran))
         /\ Range(Generated(g, ran)) \subseteq Selected(g.rules, Range(nodelist)) \cup Refs(g.rules)
         /\ Apart(Generated(g, ran), Refs(g.rules))
         /\ Generated(g, ran) \in Seq(Range(Generated(g, ran)))
<1> DEFINE rules == g.rules
           refs == Refs(rules)
           X == {Name(n) : n \in Range(nodelist)} \cup refs
           A == {names \in Seq(X) : Apart(names, refs)}
           nodes == Range(nodelist)
<1>1. Len(rules) \in Nat /\ DOMAIN rules = 1..Len(rules)
  OBVIOUS
<1>2. \A n \in Range(nodelist) : Name(n) \in X
  OBVIOUS
<1>3. ASSUME NEW i \in DOMAIN rules
      PROVE  rules[i] \in Range(g.rules) /\ (rules[i].kind = "ref" => rules[i].name \in refs)
  BY Zenon DEF Range, Refs
<1>4. ASSUME NEW rule \in Range(g.rules)
      PROVE  rule.kind \in {"ref", "match"} /\ (rule.kind = "ref" => rule.name \in refs)
  <2>1. PICK i \in DOMAIN rules : rule = rules[i]
    BY DEF Range
  <2> QED BY <1>3, <2>1
<1>5. <<>> \in A
  BY DEF Apart
<1>6. refs \subseteq X
  OBVIOUS
<1> HIDE DEF refs, X
<1>7. ASSUME NEW names \in A, NEW rule \in Range(g.rules)
      PROVE  /\ GroupGenerate(names, rule, ran) \in A
             /\ Gains(names, GroupGenerate(names, rule, ran), Picked(rule, nodes), refs)
  <2>1. NamesAre(names, X, refs)
    BY <1>6 DEF NamesAre
  <2>2. IsRule(rule, refs)
    BY <1>4 DEF IsRule
  <2> HIDE DEF A
  <2>3. /\ NamesAre(GroupGenerate(names, rule, ran), X, refs)
        /\ Gains(names, GroupGenerate(names, rule, ran), Picked(rule, Range(nodelist)), refs)
    BY <1>2, <2>1, <2>2, OneRule
  <2> QED BY <2>3, Zenon DEF A, NamesAre
<1> HIDE DEF A, nodes
<1>8. PICK v : /\ v[0] = <<>>
               /\ \A k \in 1..Len(rules) : v[k] = GroupGenerate(v[k - 1], rules[k], ran)
               /\ Generated(g, ran) = v[Len(rules)]
  <2>1. Closed(A, g, ran)
    BY <1>7 DEF Closed
  <2> HIDE DEF rules
  <2>2. PICK v : Walk(v, g, ran)
    BY <1>5, <2>1, RuleByRule
  <2> QED BY <2>2 DEF rules, Walk
<1> DEFINE Upto(k) == UNION {Picked(rules[i], nodes) : i \in 1..k}
           Good(k) == /\ v[k] \in A
                      /\ Upto(k) \subseteq Range(v[k])
                      /\ Range(v[k]) \subseteq Upto(k) \cup refs
           T == {k \in 0..Len(rules) : ~Good(k)}
<1>9. Good(0)
  <2>1. 1..0 = {}
    OBVIOUS
  <2>2. Upto(0) = {}
    BY <2>1, Zenon
  <2>3. Range(<<>>) = {}
    BY DEF Range
  <2> QED BY <1>5, <1>8, <2>2, <2>3
<1>10. ASSUME NEW k \in 1..Len(rules), Good(k - 1) PROVE Good(k)
  <2>1. rules[k] \in Range(g.rules)
    BY <1>1, <1>3
  <2>2. Upto(k) = Upto(k - 1) \cup Picked(rules[k], nodes)
    <3>1. 1..k = (1..k - 1) \cup {k}
      BY <1>1
    <3> QED BY <3>1, Zenon
  <2> HIDE DEF Upto, rules
  <2>3. /\ v[k] \in A
        /\ Range(v[k - 1]) \cup Picked(rules[k], nodes) \subseteq Range(v[k])
        /\ Range(v[k]) \subseteq Range(v[k - 1]) \cup Picked(rules[k], nodes) \cup refs
    BY <1>7, <1>8, <1>10, <2>1 DEF Gains
  <2>4. Upto(k - 1) \subseteq Range(v[k - 1]) /\ Range(v[k - 1]) \subseteq Upto(k - 1) \cup refs
    BY <1>10
  <2> QED BY <2>2, <2>3, <2>4, Zenon
<1> HIDE DEF Good
<1>11. T = {}
  <2>1. T \in SUBSET (0..Len(rules)) /\ 0 \notin T
    BY <1>9
  <2>2. ASSUME NEW k \in 1..Len(rules), k \in T PROVE k - 1 \in T
    <3>1. k - 1 \in 0..Len(rules)
      BY <1>1
    <3> QED BY <1>10, <2>2, <3>1
  <2> HIDE DEF T
  <2> QED BY <1>1, <2>1, <2>2, NoneFails
<1>12. Good(Len(rules))
  BY <1>1, <1>11
<1>13. Upto(Len(rules)) = Selected(rules, nodes)
  BY <1>1, Zenon DEF Selected
<1> HIDE DEF Upto
<1>14. /\ v[Len(rules)] \in A
       /\ Selected(rules, nodes) \subseteq Range(v[Len(rules)])
       /\ Range(v[Len(rules)]) \subseteq Selected(rules, nodes) \cup refs
  BY <1>12, <1>13 DEF Good
<1>15. ASSUME NEW names \in A
       PROVE  Apart(names, refs) /\ names \in Seq(Range(names))
  BY DEF A, Range
<1> QED BY <1>8, <1>14, <1>15 DEF nodes, refs

-----------------------------------------------------------------------------
\* What GroupsFollowTheirRules says of a policy and its group.
Follows(p, g) ==
  LET refs     == {g.rules[i].name : i \in {j \in DOMAIN g.rules : g.rules[j].kind = "ref"}}
      selected == {Name(n) : n \in {m \in Range(nodelist) :
                     \E i \in DOMAIN g.rules :
                       g.rules[i].kind = "match" /\ Selects(g.rules[i].match, m)}}
      times(m) == Cardinality({i \in DOMAIN p.members : p.members[i] = m})
  IN  Kinds(g) \subseteq {"ref", "match"} /\ g.Type # "ssid" =>
        /\ selected \subseteq Range(p.members) \cap OutNames
        /\ \A m \in Range(p.members) : m \in selected \cup refs \cup OutNames \cup {Direct}
        /\ \A m \in selected \ refs : times(m) = 1
        /\ selected # {} => Range(p.members) \subseteq selected \cup refs

HasGroup(p) == \E i \in DOMAIN req.groups : req.groups[i].Name = p.name /\ Follows(p, req.groups[i])

LEMMA EachHasItsGroup ==
  GroupsFollowTheirRules <=> \A p \in Range(policies) : HasGroup(p)
<1>1. ASSUME NEW p
      PROVE  (\E g \in {req.groups[i] : i \in GroupOf(p)} : Follows(p, g)) <=> HasGroup(p)
  BY Zenon DEF HasGroup, GroupOf
<1>2. GroupsFollowTheirRules
        <=> \A p \in Range(policies) : \E g \in {req.groups[i] : i \in GroupOf(p)} : Follows(p, g)
  BY Zenon DEF GroupsFollowTheirRules, Follows
<1> QED BY <1>1, <1>2

\* Groups choose from nodes that have a line, under the names on their lines;
\* the groups come after the last node.
NodesAreWritten ==
  /\ nodelist \in Seq(Range(nodelist))
  /\ \A n \in Range(nodelist) : Name(n) \in OutNames

FollowInv ==
  /\ IInv
  /\ phase = "nodes" => policies = <<>>
  /\ phase = "groups" => todo \in Seq(Range(req.groups))
  /\ policies \in Seq(Range(policies))
  /\ NodesAreWritten
  /\ \A p \in Range(policies) : HasGroup(p)

\* What is written for a group whose rules select nothing.
LEMMA FallBack ==
  ASSUME NEW g, NEW ran, g.Type # "ssid"
  PROVE  \/ Members(g, ran) = Generated(g, ran)
         \/ Generated(g, ran) = <<>> /\ Members(g, ran) \in {<<>>, <<Direct>>}
         \/ Generated(g, ran) = <<>> /\ req.target = "mellow" /\ Members(g, ran) = remarks_list
<1> DEFINE names == Generated(g, ran)
<1>1. Members(g, ran) = IF names # <<>> THEN names
                        ELSE IF req.target \in {"clash", "clashr"} /\ g.use THEN <<>>
                        ELSE IF req.target = "mellow" /\ remarks_list # <<>> THEN remarks_list
                        ELSE <<Direct>>
  BY DEF Members
<1> HIDE DEF names
<1>2. \/ Members(g, ran) = names
      \/ names = <<>> /\ Members(g, ran) \in {<<>>, <<Direct>>}
      \/ names = <<>> /\ req.target = "mellow" /\ Members(g, ran) = remarks_list
  BY <1>1
<1> QED BY <1>2 DEF names

LEMMA TakenAreWritten ==
  ASSUME IInv, req.target = "mellow"
  PROVE  Range(remarks_list) \subseteq OutNames
<1>1. HasNames
  BY DEF HasNames, Configs
<1>2. /\ Len(out) = Len(remarks_list) /\ \A i \in DOMAIN out : out[i].name = remarks_list[i]
      /\ DOMAIN out = 1..Len(out) /\ DOMAIN remarks_list = 1..Len(remarks_list)
  BY <1>1 DEF IInv, LinesHaveNames
<1>3. ASSUME NEW i \in DOMAIN remarks_list PROVE remarks_list[i] \in OutNames
  BY <1>2 DEF OutNames
<1> QED BY <1>3 DEF Range

\* Where the names are apart, one that is no reference is there once.
LEMMA OnceOnly ==
  ASSUME NEW names, NEW refs, Apart(names, refs), NEW m \in Range(names), m \notin refs
  PROVE  Cardinality({i \in DOMAIN names : names[i] = m}) = 1
<1>1. PICK i \in DOMAIN names : names[i] = m
  BY DEF Range
<1>2. {j \in DOMAIN names : names[j] = m} = {i}
  BY <1>1 DEF Apart
<1> QED BY <1>2, FS_Singleton

LEMMA SelectedNodes ==
  ASSUME NEW rules, NEW nodes
  PROVE  Selected(rules, nodes)
           = {Name(n) : n \in {m \in nodes :
                \E i \in DOMAIN rules : rules[i].kind = "match" /\ Selects(rules[i].match, m)}}
<1> DEFINE Chooses(i, m) == rules[i].kind = "match" /\ Selects(rules[i].match, m)
           chosen == {Name(n) : n \in {m \in nodes : \E i \in DOMAIN rules : Chooses(i, m)}}
<1>1. ASSUME NEW x \in Selected(rules, nodes) PROVE x \in chosen
  <2>1. PICK i \in DOMAIN rules : x \in Picked(rules[i], nodes)
    BY <1>1, Zenon DEF Selected
  <2>2. PICK m \in nodes : Chooses(i, m) /\ x = Name(m)
    BY <2>1, Zenon DEF Picked
  <2> QED BY <2>2
<1>2. ASSUME NEW x \in chosen PROVE x \in Selected(rules, nodes)
  <2>1. PICK m \in nodes : x = Name(m) /\ \E i \in DOMAIN rules : Chooses(i, m)
    BY <1>2, Zenon
  <2>2. PICK i \in DOMAIN rules : Chooses(i, m)
    BY <2>1
  <2>3. x \in Picked(rules[i], nodes)
    BY <2>1, <2>2, Zenon DEF Picked
  <2> QED BY <2>3, Zenon DEF Selected
<1> HIDE DEF chosen
<1>3. Selected(rules, nodes) = chosen
  BY <1>1, <1>2
<1> QED BY <1>3 DEF chosen

LEMMA MembersFollow ==
  ASSUME IInv, NodesAreWritten, NEW g \in Range(req.groups), NEW ran, NEW p, p.members = Members(g, ran)
  PROVE  Follows(p, g)
<1> DEFINE nodes == Range(nodelist)
           refs == Refs(g.rules)
           selected == Selected(g.rules, nodes)
           names == Generated(g, ran)
           members == p.members
           Holds == /\ selected \subseteq Range(members) \cap OutNames
                    /\ \A m \in Range(members) : m \in selected \cup refs \cup OutNames \cup {Direct}
                    /\ \A m \in selected \ refs :
                         Cardinality({i \in DOMAIN members : members[i] = m}) = 1
                    /\ selected # {} => Range(members) \subseteq selected \cup refs
<1>1. ASSUME Kinds(g) \subseteq {"ref", "match"} /\ g.Type # "ssid"
      PROVE  Holds
  <2>1. g.rules \in Seq(Range(g.rules))
    BY GroupsAssumption DEF IInv
  <2>2. \A rule \in Range(g.rules) : rule.kind \in {"ref", "match"}
    BY <1>1 DEF Kinds, Range
  <2>3. /\ selected \subseteq Range(names) /\ Range(names) \subseteq selected \cup refs
        /\ Apart(names, refs)
    BY <2>1, <2>2, GeneratedNames DEF NodesAreWritten
  <2>4. selected \subseteq OutNames
    <3>1. ASSUME NEW x \in selected PROVE x \in OutNames
      <4>1. PICK i \in DOMAIN g.rules : x \in Picked(g.rules[i], nodes)
        BY <3>1, Zenon DEF Selected
      <4>2. \E n \in nodes : x = Name(n)
        BY <4>1, Zenon DEF Picked
      <4> QED BY <4>2 DEF NodesAreWritten
    <3> QED BY <3>1
  <2> HIDE DEF selected, names, refs, members
  <2>5. CASE members = names
    <3>1. \A m \in selected \ refs : Cardinality({i \in DOMAIN members : members[i] = m}) = 1
      BY <2>3, <2>5, OnceOnly
    <3> QED BY <2>3, <2>4, <2>5, <3>1
  <2>6. CASE names = <<>> /\ Range(members) \subseteq OutNames \cup {Direct}
    <3>1. selected = {}
      BY <2>3, <2>6 DEF Range
    <3> QED BY <2>6, <3>1
  <2>7. CASE names = <<>> /\ members \in {<<>>, <<Direct>>}
    <3>1. Range(members) \subseteq OutNames \cup {Direct}
      BY <2>7 DEF Range
    <3> QED BY <2>6, <2>7, <3>1
  <2>8. CASE names = <<>> /\ req.target = "mellow" /\ members = remarks_list
    BY <2>6, <2>8, TakenAreWritten
  <2>9. \/ members = names
        \/ names = <<>> /\ members \in {<<>>, <<Direct>>}
        \/ names = <<>> /\ req.target = "mellow" /\ members = remarks_list
    BY <1>1, FallBack DEF names, members
  <2> HIDE DEF Holds
  <2> QED BY <2>5, <2>7, <2>8, <2>9
<1>2. selected = {Name(n) : n \in {m \in Range(nodelist) :
                    \E i \in DOMAIN g.rules :
                      g.rules[i].kind = "match" /\ Selects(g.rules[i].match, m)}}
  BY SelectedNodes
<1> HIDE DEF selected
<1> QED BY <1>1, <1>2, Zenon DEF Follows, Refs

LEMMA GroupStays ==
  ASSUME UNCHANGED <<req, nodelist, out>>, NEW p, HasGroup(p)
  PROVE  HasGroup(p)'
<1>1. req' = req /\ nodelist' = nodelist /\ OutNames' = OutNames
  BY DEF OutNames
<1>2. \A h : Follows(p, h)' <=> Follows(p, h)
  BY <1>1, Zenon DEF Follows
<1> QED BY <1>1, <1>2 DEF HasGroup

LEMMA GroupFollows ==
  ASSUME FollowInv, Group
  PROVE  FollowInv'
<1> DEFINE g == Head(todo)
<1>1. /\ g \in Range(req.groups) /\ todo' \in Seq(Range(req.groups)) /\ phase = "groups"
      /\ UNCHANGED <<req, phase, remarks_list, nodelist, scv, proxyStr, out>>
  BY DEF FollowInv, Group
<1>2. IInv' /\ NodesAreWritten'
  <2>1. IInv'
    BY NextKeepsIInv DEF Next, FollowInv
  <2> QED BY <1>1, <2>1 DEF FollowInv, NodesAreWritten, OutNames
<1>3. ASSUME NEW p, HasGroup(p) PROVE HasGroup(p)'
  BY <1>1, <1>3, GroupStays
<1>4. CASE UNCHANGED policies
  BY <1>1, <1>2, <1>3, <1>4 DEF FollowInv
<1>5. CASE \E ran \in BOOLEAN :
             policies' = Replaced([name |-> g.Name, type |-> TypeStr(g, Members(g, ran)),
                                   members |-> Members(g, ran), use |-> g.use])
  <2>1. PICK ran \in BOOLEAN :
               policies' = Replaced([name |-> g.Name, type |-> TypeStr(g, Members(g, ran)),
                                     members |-> Members(g, ran), use |-> g.use])
    BY <1>5
  <2> DEFINE policy == [name |-> g.Name, type |-> TypeStr(g, Members(g, ran)),
                        members |-> Members(g, ran), use |-> g.use]
  <2>2. policy.name = g.Name /\ policy.members = Members(g, ran)
    OBVIOUS
  <2>3. policies' = Replaced(policy)
    BY <2>1
  <2> HIDE DEF policy
  <2>4. Follows(policy, g)
    BY <1>1, <2>2, MembersFollow DEF FollowInv
  <2>5. PICK i \in DOMAIN req.groups : g = req.groups[i]
    BY <1>1 DEF Range
  <2>6. HasGroup(policy)
    BY <2>2, <2>4, <2>5 DEF HasGroup
  <2>7. /\ policies' \in Seq(Range(policies'))
        /\ Range(policies') \subseteq Range(policies) \cup {policy}
    BY <2>3, ReplacedKeepsTheOthers DEF FollowInv
  <2>8. \A p \in Range(policies') : HasGroup(p)'
    BY <1>3, <2>6, <2>7 DEF FollowInv
  <2> QED BY <1>1, <1>2, <2>7, <2>8 DEF FollowInv
<1> QED BY <1>4, <1>5 DEF Group

\* A node is kept for the groups when its line is written.
LEMMA ConfigNodeFollows ==
  ASSUME FollowInv, ConfigNode
  PROVE  FollowInv'
<1> DEFINE n == Shown(Head(todo))
           name == ProcessRemark(Name(n))
           x == [n EXCEPT !.No = name.no]
           check == IF Checked(n) THEN scv' ELSE "none"
           line == Line(x, n.Hostname, check)
<1>1. /\ phase = "nodes" /\ policies = <<>> /\ UNCHANGED <<req, phase, policies>>
      /\ out' = IF Takes(n) THEN Append(out, line) ELSE out
      /\ nodelist' = IF Keeps(n) THEN Append(nodelist, x) ELSE nodelist
  BY DEF FollowInv, ConfigNode
<1>2. IInv'
  BY NextKeepsIInv DEF Next, FollowInv
<1>3. line.name = Name(x)
  BY Zenon DEF Line
<1> HIDE DEF n, name, x, check, line
<1>4. OutNames \subseteq OutNames' /\ (Takes(n) => Name(x) \in OutNames')
  <2>1. out \in Seq(LineType)
    BY DEF FollowInv, IInv
  <2>2. \A i \in DOMAIN out : i \in DOMAIN out' /\ out'[i] = out[i]
    BY <1>1, <2>1
  <2>3. OutNames \subseteq OutNames'
    BY <2>2 DEF OutNames
  <2>4. ASSUME Takes(n) PROVE Name(x) \in OutNames'
    <3>1. Len(out) + 1 \in DOMAIN out' /\ out'[Len(out) + 1] = line
      BY <1>1, <2>1, <2>4
    <3> QED BY <1>3, <3>1 DEF OutNames
  <2> QED BY <2>3, <2>4
<1>5. NodesAreWritten'
  <2>1. CASE Keeps(n)
    <3>1. Takes(n)
      BY <2>1 DEF Keeps
    <3> DEFINE X == Range(nodelist) \cup {x}
    <3>2. nodelist \in Seq(X) /\ x \in X
      BY DEF FollowInv, NodesAreWritten
    <3>3. nodelist' = Append(nodelist, x)
      BY <1>1, <2>1
    <3> HIDE DEF X
    <3>4. nodelist' \in Seq(X) /\ Range(nodelist') = Range(nodelist) \cup {x}
      BY <3>2, <3>3, AppendAddsOne
    <3>5. nodelist' \in Seq(Range(nodelist'))
      BY <3>4 DEF X
    <3>6. \A m \in Range(nodelist') : Name(m) \in OutNames'
      BY <1>4, <3>1, <3>4 DEF FollowInv, NodesAreWritten
    <3> QED BY <3>5, <3>6 DEF NodesAreWritten
  <2>2. CASE ~Keeps(n)
    BY <1>1, <1>4, <2>2 DEF FollowInv, NodesAreWritten
  <2> QED BY <2>1, <2>2
<1>6. Range(policies') = {} /\ policies' \in Seq(Range(policies'))
  BY <1>1 DEF Range
<1> QED BY <1>1, <1>2, <1>5, <1>6 DEF FollowInv

LEMMA ListNodeFollows ==
  ASSUME FollowInv, SingleNode \/ JsonNode
  PROVE  FollowInv'
<1>1. phase = "nodes" /\ policies = <<>> /\ UNCHANGED <<req, phase, nodelist, policies>>
  BY DEF FollowInv, SingleNode, JsonNode
<1>2. IInv'
  BY NextKeepsIInv DEF Next, FollowInv
<1>3. OutNames \subseteq OutNames'
  <2>1. out \in Seq(LineType) /\ (out' = out \/ \E line : out' = Append(out, line))
    BY Zenon DEF FollowInv, IInv, SingleNode, JsonNode
  <2>2. \A i \in DOMAIN out : i \in DOMAIN out' /\ out'[i] = out[i]
    BY <2>1
  <2> QED BY <2>2 DEF OutNames
<1>4. NodesAreWritten'
  BY <1>1, <1>3 DEF FollowInv, NodesAreWritten
<1>5. Range(policies') = {} /\ policies' \in Seq(Range(policies'))
  BY <1>1 DEF Range
<1> QED BY <1>1, <1>2, <1>4, <1>5 DEF FollowInv

LEMMA OthersFollow ==
  ASSUME FollowInv, NodesDone \/ GroupsDone \/ UNCHANGED vars
  PROVE  FollowInv'
<1>1. UNCHANGED <<req, nodelist, out, policies>>
  BY DEF NodesDone, GroupsDone, vars
<1>2. IInv'
  BY NextKeepsIInv DEF Next, FollowInv
<1>3. NodesAreWritten' /\ (\A p \in Range(policies) : HasGroup(p))'
  <2>1. req' = req /\ nodelist' = nodelist /\ policies' = policies /\ OutNames' = OutNames
    BY <1>1 DEF OutNames
  <2>3. ASSUME NEW p, HasGroup(p) PROVE HasGroup(p)'
    BY <1>1, <2>3, GroupStays
  <2> QED BY <2>1, <2>3 DEF FollowInv, NodesAreWritten
<1>4. /\ (phase = "nodes" => policies = <<>>)'
      /\ (phase = "groups" => todo \in Seq(Range(req.groups)))'
  BY GroupsAssumption DEF FollowInv, IInv, NodesDone, GroupsDone, vars
<1> QED BY <1>1, <1>2, <1>3, <1>4 DEF FollowInv

\* Whatever the nodes, the names they end up with and the rules of the groups:
\* a group lists the nodes its rules select, each once and under the name on
\* its line, and besides only what it refers to or falls back on.
THEOREM GroupsFollow == Spec => []GroupsFollowTheirRules
<1>1. Init => FollowInv
  <2> SUFFICES ASSUME Init PROVE FollowInv
    OBVIOUS
  <2>1. policies = <<>> /\ nodelist = <<>> /\ phase = "nodes" /\ IInv
    BY InitIInv DEF Init
  <2>2. Range(<<>>) = {} /\ <<>> \in Seq(Range(<<>>))
    BY DEF Range
  <2> QED BY <2>1, <2>2 DEF FollowInv, NodesAreWritten
<1>2. FollowInv /\ [Next]_vars => FollowInv'
  BY ConfigNodeFollows, ListNodeFollows, GroupFollows, OthersFollow DEF Next
<1>3. FollowInv => GroupsFollowTheirRules
  BY EachHasItsGroup DEF FollowInv
<1> QED BY <1>1, <1>2, <1>3, PTL DEF Spec

-----------------------------------------------------------------------------
\* The first k nodes of the request have been looked at.
Passed(k) ==
  /\ k \in 0..Len(req.nodes) /\ Len(todo) = Len(req.nodes) - k
  /\ \A i \in 1..Len(todo) : todo[i] = req.nodes[k + i]
  /\ req.target = "quan" => Carried(k + 1, scv)

\* What proxyToSingle() would write for a node without a link.
LastOf(lines) == IF lines = <<>> THEN "" ELSE lines[Len(lines)].link

LastLink == req.target = "single" => proxyStr = LastOf(out)

\* What LinesAreOfTheirNodes says of a line that comes after the link before.
IsOfNode(line, before, k) ==
  /\ req.nodes[k].Hostname = line.host
  /\ LinkIsOf(line, k, before) /\ CheckIsOf(line, k) /\ TypeIsOf(line, k)

Before(lines, i) == IF i = 1 THEN "" ELSE lines[i - 1].link

LinesInv ==
  /\ IInv
  /\ phase = "nodes" => \E k \in 0..Len(req.nodes) : Passed(k)
  /\ LastLink /\ LinesAreOfTheirNodes

\* The node at hand is the next one of the request.
LEMMA NextNode ==
  ASSUME IInv, phase = "nodes", todo # <<>>, NEW k \in 0..Len(req.nodes), Passed(k)
  PROVE  /\ k + 1 \in DOMAIN req.nodes /\ Head(todo) = req.nodes[k + 1]
         /\ Head(todo) \in NodeType
         /\ k + 1 \in 0..Len(req.nodes) /\ Len(Tail(todo)) = Len(req.nodes) - (k + 1)
         /\ \A i \in 1..Len(Tail(todo)) : Tail(todo)[i] = req.nodes[(k + 1) + i]
<1>1. /\ req.nodes \in Seq(NodeType) /\ todo \in Seq(NodeType)
      /\ Len(todo) = Len(req.nodes) - k /\ k \in Nat
      /\ \A i \in 1..Len(todo) : todo[i] = req.nodes[k + i]
  BY RequestsAssumption DEF IInv, Passed
<1>2. Len(todo) \in Nat /\ Len(todo) >= 1 /\ Head(todo) = todo[1] /\ Head(todo) \in NodeType
  BY <1>1
<1>3. Len(Tail(todo)) = Len(todo) - 1 /\ \A i \in 1..Len(Tail(todo)) : Tail(todo)[i] = todo[i + 1]
  BY <1>1
<1>4. k + 1 \in DOMAIN req.nodes /\ Head(todo) = req.nodes[k + 1]
  BY <1>1, <1>2
<1>5. k + 1 \in 0..Len(req.nodes) /\ Len(Tail(todo)) = Len(req.nodes) - (k + 1)
  BY <1>1, <1>2, <1>3
<1>6. ASSUME NEW i \in 1..Len(Tail(todo)) PROVE Tail(todo)[i] = req.nodes[(k + 1) + i]
  <2>1. i + 1 \in 1..Len(todo) /\ k + (i + 1) = (k + 1) + i
    BY <1>1, <1>2, <1>3
  <2> QED BY <1>1, <1>3, <2>1
<1> QED BY <1>2, <1>4, <1>5, <1>6

\* What scv holds after one more node of Quantumult.
LEMMA CarriedOn ==
  ASSUME NEW k \in Nat, NEW check, NEW new, Carried(k + 1, check),
         new = IF req.nodes[k + 1].Type = "VMess" THEN Define(req.scv, req.nodes[k + 1].AllowInsecure)
               ELSE check
  PROVE  Carried(k + 2, new)
<1>1. (k + 2) - 1 = k + 1 /\ (k + 1) - 1 = k /\ k + 1 \in 1..(k + 1) /\ ((k + 1) + 1)..(k + 1) = {}
  OBVIOUS
<1>2. CASE req.nodes[k + 1].Type = "VMess"
  BY <1>1, <1>2 DEF Carried
<1>3. CASE req.nodes[k + 1].Type # "VMess"
  <2>1. new = check
    BY <1>3
  <2>2. CASE check = "undef" /\ \A j \in 1..k : req.nodes[j].Type # "VMess"
    <3>1. \A j \in 1..(k + 1) : j = k + 1 \/ j \in 1..k
      OBVIOUS
    <3> QED BY <1>1, <1>3, <2>1, <2>2, <3>1 DEF Carried
  <2>3. CASE \E j \in 1..k :
               /\ req.nodes[j].Type = "VMess" /\ check = Define(req.scv, req.nodes[j].AllowInsecure)
               /\ \A l \in (j + 1)..k : req.nodes[l].Type # "VMess"
    <3>1. PICK j \in 1..k :
            /\ req.nodes[j].Type = "VMess" /\ check = Define(req.scv, req.nodes[j].AllowInsecure)
            /\ \A l \in (j + 1)..k : req.nodes[l].Type # "VMess"
      BY <2>3
    <3>2. j \in 1..(k + 1) /\ \A l \in (j + 1)..(k + 1) : l = k + 1 \/ l \in (j + 1)..k
      BY <3>1
    <3> QED BY <1>1, <1>3, <2>1, <3>1, <3>2 DEF Carried
  <2> QED BY <1>1, <2>2, <2>3 DEF Carried
<1> QED BY <1>2, <1>3

\* append_type changes the name of a node only, and puts its type first.
LEMMA ShownIsTheNode ==
  ASSUME NEW n \in NodeType
  PROVE  /\ Shown(n).Type = n.Type /\ Shown(n).Hostname = n.Hostname /\ Shown(n).TLS = n.TLS
         /\ Shown(n).AllowInsecure = n.AllowInsecure /\ Shown(n).Plugin = n.Plugin
         /\ req.append => Head(Shown(n).Remark) = IF req.target = "quanx" THEN "" ELSE n.Type
<1>1. ASSUME req.append
      PROVE  Head(Shown(n).Remark) = IF req.target = "quanx" THEN "" ELSE n.Type
  <2>1. n.Type \in Texts /\ n.Remark \in Seq(Texts)
    BY DEF NodeType
  <2>2. Shown(n).Remark = <<TypeOf(n)>> \o n.Remark
    BY <1>1 DEF Shown, NodeType
  <2>3. TypeOf(n) = IF req.target = "quanx" THEN "" ELSE n.Type
    BY DEF TypeOf
  <2>4. TypeOf(n) \in Texts
    BY <2>1, <2>3, TextsAssumption
  <2>5. Head(<<TypeOf(n)>> \o n.Remark) = TypeOf(n)
    BY <2>1, <2>4
  <2> QED BY <2>2, <2>3, <2>5
<1>2. /\ Shown(n).Type = n.Type /\ Shown(n).Hostname = n.Hostname /\ Shown(n).TLS = n.TLS
      /\ Shown(n).AllowInsecure = n.AllowInsecure /\ Shown(n).Plugin = n.Plugin
  BY DEF Shown, NodeType
<1> QED BY <1>1, <1>2

LEMMA SameLines ==
  LinesAreOfTheirNodes <=>
    \A i \in DOMAIN out : \E k \in DOMAIN req.nodes : IsOfNode(out[i], Before(out, i), k)
BY Zenon DEF LinesAreOfTheirNodes, IsOfNode, Before

\* What a line may say does not change.
LEMMA NodesSayTheSame ==
  ASSUME req' = req
  PROVE  \A line, before, k : IsOfNode(line, before, k)' <=> IsOfNode(line, before, k)
<1>1. \A k, c : Carried(k, c)' <=> Carried(k, c)
  BY DEF Carried, Define
<1>2. \A n : OwnLink(n)' <=> OwnLink(n)
  BY DEF OwnLink
<1>3. \A line, before, k : LinkIsOf(line, k, before)' <=> LinkIsOf(line, k, before)
  <2>1. TAKE line, before, k
  <2>2. OwnLink(req.nodes[k])' <=> OwnLink(req.nodes[k])
    BY DEF OwnLink
  <2> QED BY <2>2, Zenon DEF LinkIsOf
<1>4. \A line, k : CheckIsOf(line, k)' <=> CheckIsOf(line, k)
  <2>1. TAKE line, k
  <2>2. Carried(k, line.check)' <=> Carried(k, line.check)
    BY <1>1
  <2>3. Define(req.scv, req.nodes[k].AllowInsecure)' = Define(req.scv, req.nodes[k].AllowInsecure)
    BY DEF Define
  <2> QED BY <2>2, <2>3 DEF CheckIsOf
<1>5. \A line, k : TypeIsOf(line, k)' <=> TypeIsOf(line, k)
  BY DEF TypeIsOf
<1> QED BY <1>3, <1>4, <1>5 DEF IsOfNode

\* One more line, of the node at hand, or none.
LEMMA OneMoreLine ==
  ASSUME LinesInv, req' = req, NEW k \in DOMAIN req.nodes, NEW line, NEW before,
         before = LastOf(out),
         out' = out \/ out' = Append(out, line), IsOfNode(line, before, k)
  PROVE  LinesAreOfTheirNodes'
<1>1. out \in Seq(LineType)
  BY DEF LinesInv, IInv
<1>2. DOMAIN out = 1..Len(out) /\ Len(out) \in Nat
  BY <1>1
<1>3. ASSUME NEW i \in DOMAIN out'
      PROVE  \E m \in DOMAIN req.nodes : IsOfNode(out'[i], Before(out', i), m)
  <2>1. CASE i \in DOMAIN out
    <3>1. out'[i] = out[i] /\ (i # 1 => out'[i - 1] = out[i - 1])
      BY <1>1, <1>2, <2>1
    <3>2. Before(out', i) = Before(out, i)
      BY <3>1 DEF Before
    <3>3. \E m \in DOMAIN req.nodes : IsOfNode(out[i], Before(out, i), m)
      BY <2>1, SameLines DEF LinesInv
    <3> QED BY <3>1, <3>2, <3>3
  <2>2. CASE i \notin DOMAIN out
    <3>1. out' = Append(out, line)
      BY <1>3, <2>2
    <3>2. i = Len(out) + 1 /\ out'[i] = line
      BY <1>1, <1>2, <1>3, <2>2, <3>1
    <3>3. Before(out', i) = before
      <4>1. CASE out = <<>>
        <5>1. i = 1
          BY <3>2, <4>1
        <5>2. before = "" /\ Before(out', i) = ""
          BY <4>1, <5>1, Zenon DEF Before, LastOf
        <5> QED BY <5>2
      <4>2. CASE out # <<>>
        <5>1. i # 1 /\ out'[i - 1] = out[Len(out)]
          <6>1. Len(out) # 0
            BY <1>1, <4>2
          <6>2. i # 1 /\ i - 1 = Len(out) /\ Len(out) \in DOMAIN out
            BY <1>2, <3>2, <6>1
          <6>3. out'[Len(out)] = out[Len(out)]
            BY <1>1, <3>1, <6>2
          <6> QED BY <6>2, <6>3
        <5>2. before = out[Len(out)].link
          BY <4>2, Zenon DEF LastOf
        <5> QED BY <5>1, <5>2 DEF Before
      <4> QED BY <4>1, <4>2
    <3> QED BY <3>2, <3>3
  <2> QED BY <2>1, <2>2
<1>4. (\A i \in DOMAIN out : \E m \in DOMAIN req.nodes : IsOfNode(out[i], Before(out, i), m))'
  <2>1. \A line_, b, m : IsOfNode(line_, b, m)' <=> IsOfNode(line_, b, m)
    BY NodesSayTheSame
  <2>2. \A i : Before(out, i)' = Before(out', i)
    BY DEF Before
  <2> QED BY <1>3, <2>1, <2>2
<1> QED BY <1>4, Zenon DEF LinesAreOfTheirNodes, IsOfNode, Before

LEMMA ConfigNodeIsOfItsNode ==
  ASSUME LinesInv, ConfigNode
  PROVE  LinesInv'
<1> DEFINE h == Head(todo)
           n == Shown(h)
           name == ProcessRemark(Name(n))
           x == [n EXCEPT !.No = name.no]
           check == IF Checked(n) THEN scv' ELSE "none"
           line == Line(x, n.Hostname, check)
<1>1. /\ phase = "nodes" /\ todo # <<>> /\ req.target \in Configs
      /\ (out' = out \/ out' = Append(out, line))
      /\ todo' = Tail(todo) /\ req' = req /\ phase' = phase /\ scv' = Scv(n)
  BY DEF ConfigNode
<1>2. PICK k \in 0..Len(req.nodes) : Passed(k)
  BY <1>1 DEF LinesInv
<1>3. /\ k + 1 \in DOMAIN req.nodes /\ h = req.nodes[k + 1] /\ h \in NodeType /\ k \in Nat
      /\ k + 1 \in 0..Len(req.nodes) /\ Len(Tail(todo)) = Len(req.nodes) - (k + 1)
      /\ \A i \in 1..Len(Tail(todo)) : Tail(todo)[i] = req.nodes[(k + 1) + i]
  <2>1. IInv
    BY DEF LinesInv
  <2>2. k \in Nat
    OBVIOUS
  <2>3. phase = "nodes" /\ todo # <<>>
    BY <1>1
  <2> QED BY <1>2, <2>1, <2>2, <2>3, NextNode, Zenon
<1>4. IInv'
  BY NextKeepsIInv DEF Next, LinesInv
<1>5. /\ n \in NodeType /\ n.Hostname = h.Hostname /\ n.AllowInsecure = h.AllowInsecure
      /\ n.Type = h.Type
  BY <1>3, ShownIsNode, ShownIsTheNode
<1>6. x.Hostname = h.Hostname /\ x.Remark = n.Remark
  BY <1>5 DEF NodeType
<1>7. scv' = IF req.target = "quan" /\ h.Type # "VMess" THEN scv ELSE Define(req.scv, h.AllowInsecure)
  BY <1>1, <1>5 DEF Scv
<1>8. req.append => Head(n.Remark) = IF req.target = "quanx" THEN "" ELSE h.Type
  BY <1>3, ShownIsTheNode
<1> HIDE DEF n, x
<1>9. /\ line.link = n.Hostname /\ line.host = x.Hostname /\ line.check = check
      /\ line.name = Name(x)
  BY Zenon DEF Line
<1> HIDE DEF line
<1>10. line.name.text = n.Remark
  BY <1>6, <1>9 DEF Name
<1> HIDE DEF h
<1>11. req.target # "single" /\ req.nodes[k + 1].Hostname = line.host
  BY <1>1, <1>3, <1>5, <1>6, <1>9 DEF Configs
<1>12. LinkIsOf(line, k + 1, LastOf(out))
  BY <1>5, <1>6, <1>9, <1>11 DEF LinkIsOf
<1>13. req.target = "quan" => Carried(k + 1, scv)
  BY <1>2 DEF Passed
<1>14. CheckIsOf(line, k + 1)
  <2>1. check = "none" \/ check = scv'
    OBVIOUS
  <2> HIDE DEF check
  <2> QED BY <1>3, <1>7, <1>9, <1>13, <2>1 DEF CheckIsOf
<1>15. TypeIsOf(line, k + 1)
  BY <1>3, <1>8, <1>10 DEF TypeIsOf
<1>16. LinesAreOfTheirNodes'
  BY <1>1, <1>3, <1>11, <1>12, <1>14, <1>15, OneMoreLine DEF IsOfNode
<1>17. req.target = "quan" => Carried(k + 2, scv')
  BY <1>3, <1>7, <1>13, CarriedOn
<1>18. Passed(k + 1)'
  <2>1. (k + 1) + 1 = k + 2
    BY <1>3
  <2>2. (req.target = "quan" => Carried(k + 2, scv))'
    BY <1>1, <1>17 DEF Carried, Define
  <2> QED BY <1>1, <1>3, <2>1, <2>2 DEF Passed
<1> QED BY <1>1, <1>3, <1>4, <1>11, <1>16, <1>18 DEF LinesInv, LastLink

LEMMA ListNodeIsOfItsNode ==
  ASSUME LinesInv, SingleNode \/ JsonNode
  PROVE  LinesInv'
<1> DEFINE n == Head(todo)
           last == LastOf(out)
           link == IF req.target = "single" => OwnLink(n) THEN n.Hostname ELSE last
           line == Line(n, link, "none")
<1>1. /\ phase = "nodes" /\ todo # <<>> /\ req.target \notin Configs /\ req.target # "quan"
      /\ todo' = Tail(todo) /\ req' = req /\ phase' = phase
  BY DEF SingleNode, JsonNode, Configs, Jsons
<1>2. PICK k \in 0..Len(req.nodes) : Passed(k)
  BY <1>1 DEF LinesInv
<1>3. /\ k + 1 \in DOMAIN req.nodes /\ n = req.nodes[k + 1] /\ n \in NodeType /\ k \in Nat
      /\ k + 1 \in 0..Len(req.nodes) /\ Len(Tail(todo)) = Len(req.nodes) - (k + 1)
      /\ \A i \in 1..Len(Tail(todo)) : Tail(todo)[i] = req.nodes[(k + 1) + i]
  <2>1. IInv
    BY DEF LinesInv
  <2>2. k \in Nat
    OBVIOUS
  <2>3. phase = "nodes" /\ todo # <<>>
    BY <1>1
  <2> QED BY <1>2, <2>1, <2>2, <2>3, NextNode, Zenon
<1>4. IInv'
  BY NextKeepsIInv DEF Next, LinesInv
<1>5. /\ out' = out \/ out' = Append(out, line)
      /\ req.target = "single" => \/ out' = out /\ proxyStr' = proxyStr
                                  \/ out' = Append(out, line) /\ proxyStr' = link
  <2>1. CASE JsonNode
    <3>1. req.target # "single"
      BY <2>1 DEF JsonNode, Jsons
    <3>2. link = n.Hostname
      BY <3>1
    <3> HIDE DEF link
    <3> QED BY <2>1, <3>1, <3>2 DEF JsonNode
  <2>2. CASE SingleNode
    <3>1. req.target = "single" /\ proxyStr = last
      BY <2>2 DEF SingleNode, LinesInv, LastLink
    <3>2. \/ out' = out /\ proxyStr' = proxyStr
          \/ /\ proxyStr' = IF OwnLink(n) THEN n.Hostname ELSE proxyStr
             /\ out' = Append(out, Line(n, proxyStr', "none"))
      BY <2>2, Zenon DEF SingleNode
    <3>3. link = IF OwnLink(n) THEN n.Hostname ELSE proxyStr
      BY <3>1
    <3> HIDE DEF link
    <3> QED BY <3>2, <3>3
  <2> QED BY <2>1, <2>2
<1>6. line.link = link /\ line.host = n.Hostname /\ line.check = "none"
  BY Zenon DEF Line
<1> HIDE DEF line
<1>7. IsOfNode(line, last, k + 1)
  <2>1. LinkIsOf(line, k + 1, last)
    BY <1>3, <1>6 DEF LinkIsOf
  <2> QED BY <1>1, <1>3, <1>6, <2>1 DEF IsOfNode, CheckIsOf, TypeIsOf
<1>8. LinesAreOfTheirNodes'
  BY <1>1, <1>3, <1>5, <1>7, OneMoreLine
<1>9. LastLink'
  <2>1. out \in Seq(LineType)
    BY DEF LinesInv, IInv
  <2>2. CASE out' = out /\ (req.target = "single" => proxyStr' = proxyStr)
    BY <1>1, <2>2 DEF LinesInv, LastLink
  <2>3. CASE out' = Append(out, line) /\ (req.target = "single" => proxyStr' = link)
    <3>1. out' # <<>> /\ out'[Len(out')] = line
      <4> HIDE DEF last, link
      <4> QED BY <2>1, <2>3
    <3>2. LastOf(out') = link
      BY <1>6, <3>1, Zenon DEF LastOf
    <3>3. LastOf(out)' = LastOf(out')
      BY Zenon DEF LastOf
    <3> HIDE DEF link
    <3> QED BY <1>1, <2>3, <3>2, <3>3 DEF LastLink
  <2>4. CASE req.target # "single"
    BY <1>1, <2>4 DEF LastLink
  <2> QED BY <1>5, <2>2, <2>3, <2>4
<1>10. Passed(k + 1)'
  BY <1>1, <1>3 DEF Passed
<1> QED BY <1>1, <1>3, <1>4, <1>8, <1>9, <1>10 DEF LinesInv

LEMMA OthersKeepLines ==
  ASSUME LinesInv, NodesDone \/ Group \/ GroupsDone \/ UNCHANGED vars
  PROVE  LinesInv'
<1>1. req' = req /\ out' = out /\ proxyStr' = proxyStr /\ scv' = scv
  BY DEF NodesDone, Group, GroupsDone, vars
<1>2. IInv'
  BY NextKeepsIInv DEF Next, LinesInv
<1>3. phase' = "nodes" => phase = "nodes" /\ todo' = todo
  BY DEF NodesDone, Group, GroupsDone, vars
<1>4. \A k, c : Carried(k, c)' <=> Carried(k, c)
  BY <1>1 DEF Carried, Define
<1>7. \A line, before, k : IsOfNode(line, before, k)' <=> IsOfNode(line, before, k)
  BY <1>1, NodesSayTheSame
<1>5. (phase = "nodes" => \E k \in 0..Len(req.nodes) : Passed(k))'
  BY <1>1, <1>3, <1>4 DEF LinesInv, Passed
<1>8. LinesAreOfTheirNodes'
  <2>1. \A i \in DOMAIN out : \E k \in DOMAIN req.nodes : IsOfNode(out[i], Before(out, i), k)
    BY SameLines DEF LinesInv
  <2>2. \A i : Before(out, i)' = Before(out, i)
    BY <1>1 DEF Before
  <2>3. (\A i \in DOMAIN out : \E k \in DOMAIN req.nodes : IsOfNode(out[i], Before(out, i), k))'
    BY <1>1, <1>7, <2>1, <2>2
  <2> QED BY <2>3, Zenon DEF LinesAreOfTheirNodes, IsOfNode, Before
<1>9. LastLink'
  BY <1>1, Zenon DEF LinesInv, LastLink
<1> QED BY <1>2, <1>5, <1>8, <1>9 DEF LinesInv

\* For any nodes and any target, a line says what its own node is; where the code
\* does not assign a local for the node (a link that cannot be converted, the
\* check of Quantumult's HTTP and SOCKS5 nodes) it says what the last node left
\* that did assign it.
THEOREM LinesFollowTheirNodes == Spec => []LinesAreOfTheirNodes
<1>1. Init => LinesInv
  <2> SUFFICES ASSUME Init PROVE LinesInv
    OBVIOUS
  <2>1. req.nodes \in Seq(NodeType) /\ todo = req.nodes
    BY RequestsAssumption DEF Init
  <2>2. out = <<>> /\ DOMAIN out = {}
    <3>1. out = <<>>
      BY DEF Init
    <3>2. DOMAIN <<>> = {}
      OBVIOUS
    <3> QED BY <3>1, <3>2, Zenon
  <2>3. proxyStr = "" /\ scv = "undef"
    BY DEF Init
  <2>4. Carried(0 + 1, scv)
    <3>1. 1..((0 + 1) - 1) = {}
      OBVIOUS
    <3> QED BY <2>3, <3>1, Zenon DEF Carried
  <2>5. 0 \in 0..Len(req.nodes) /\ Passed(0)
    <3>1. Len(todo) = Len(req.nodes) - 0 /\ \A i \in 1..Len(todo) : todo[i] = req.nodes[0 + i]
      BY <2>1
    <3>2. 0 \in 0..Len(req.nodes)
      BY <2>1
    <3> QED BY <2>4, <3>1, <3>2 DEF Passed
  <2>6. LastLink
    <3>1. LastOf(out) = ""
      BY <2>2, Zenon DEF LastOf
    <3> QED BY <2>3, <3>1 DEF LastLink
  <2>7. LinesAreOfTheirNodes
    BY <2>2, Zenon DEF LinesAreOfTheirNodes
  <2> QED BY <2>5, <2>6, <2>7, InitIInv DEF LinesInv
<1>2. LinesInv /\ [Next]_vars => LinesInv'
  BY ConfigNodeIsOfItsNode, ListNodeIsOfItsNode, OthersKeepLines DEF Next
<1>3. LinesInv => LinesAreOfTheirNodes
  BY DEF LinesInv
<1> QED BY <1>1, <1>2, <1>3, PTL DEF Spec
=============================================================================
