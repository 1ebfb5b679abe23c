-------------------------------- MODULE Nodes --------------------------------
(***************************************************************************)
(* How a /sub request gathers its nodes: the two loops of subconverter()   *)
(* over insert_url and over its own links, addNodes() and filterNodes(),   *)
(* then merging, the filter script and preprocessNodes().                  *)
(*                                                                         *)
(* A link is [kind, tag, gives, nodes]: kind is what addNodes() takes it   *)
(* for, tag the group of a "tag:" prefix, gives what kind of link its      *)
(* script returns, nodes what its content or the link itself parses to.    *)
(* The lists of links are those after importItems().  Hostname stands for  *)
(* all that is never rewritten in a node and tells it from others.         *)
(* The traffic that subInfo collects is in SubInfo: no branch reads it.    *)
(***************************************************************************)
EXTENDS Matcher, Functions

CONSTANTS
  NodesRequests,  \* the requests and the preferences they meet, see NodesInit
  Emoji,          \* tokens that are emoji
  Space,          \* the token for blanks
  NoGroup         \* no tag or group was given

VARIABLES
  given,      \* the request
  phase,      \* insert, urls, merge, filter, rename, done
  links,      \* links the loop of the phase has not come to
  groupID,
  insert_nodes, nodes,
  status      \* status_code of the answer, 0 until there is one

LinkKinds == {"SUB", "Local", "single", "nullnode", "bad", "script"}

NodeFields == {"Type", "Group", "GroupId", "Port", "Remark", "Hostname"}

\* A link of the given kind can have these nodes: one node, none or many.
CanGive(kind, ns) ==
  /\ kind \in LinkKinds
  /\ kind = "single" => Len(ns) = 1
  /\ kind \in {"nullnode", "bad"} => ns = <<>>

Hosts(ns)  == [i \in DOMAIN ns |-> ns[i].Hostname]
From(link) == Range(Hosts(link.nodes))

IsLink(link) ==
  /\ DOMAIN link = {"kind", "tag", "gives", "nodes"}
  /\ CanGive(link.kind, link.nodes)
  /\ link.kind = "script" => link.gives # "script" /\ CanGive(link.gives, link.nodes)
  /\ link.nodes \in Seq(Range(link.nodes))
  /\ \A i \in DOMAIN link.nodes :
       DOMAIN link.nodes[i] = NodeFields /\ link.nodes[i].Hostname # NoGroup

\* There are fewer links than half the numbers of a group id, and Hostname
\* tells the nodes of one link from those of another.
ASSUME NodesAssumption ==
  \A r \in NodesRequests :
    LET all == r.inserts \o r.urls
    IN  /\ r.inserts \in Seq(Range(r.inserts)) /\ 2 * Len(r.inserts) < Word
        /\ r.urls \in Seq(Range(r.urls)) /\ 2 * Len(r.urls) <= Word
        /\ {r.skip, r.prepend, r.head, r.sort} \subseteq BOOLEAN
        /\ \A i, j \in DOMAIN all : From(all[i]) \cap From(all[j]) # {} => i = j
        /\ \A i \in DOMAIN all : IsLink(all[i])

nodesVars == <<given, phase, links, groupID, insert_nodes, nodes, status>>

NodesInit ==
  /\ given \in NodesRequests
  /\ phase = "insert"
  /\ links = given.inserts
  /\ groupID = -1
  /\ insert_nodes = <<>> /\ nodes = <<>>
  /\ status = 0

Unknown == [Type |-> "Unknow", Group |-> NoGroup, GroupId |-> 0, Port |-> 0,
            Remark |-> <<>>, Hostname |-> NoGroup]

-----------------------------------------------------------------------------
(* addNodes() *)

\* The items of s at the places P, in their order: SelectSeq by its places.
Place(P, j) == CHOOSE i \in P : Cardinality(P \cap 1..i) = j
Kept(s, P)  == [j \in 1..Cardinality(P) |-> s[Place(P, j)]]

\* filterNodes()
FilterNodes(ns, exclude, include) ==
  Kept(ns, {i \in DOMAIN ns : ~ChkIgnore(ns[i], exclude, include)})

\* A node in the group of its link.
Placed(n, link, id) ==
  [n EXCEPT !.GroupId = ToU32(id),
            !.Group = IF link.tag = NoGroup THEN @ ELSE link.tag]

Many(link, id) ==
  LET kept == FilterNodes(link.nodes, given.exclude, given.include)
  IN  [i \in DOMAIN kept |-> Placed(kept[i], link, id)]

\* A script link is replaced by what its script returns, if scripts may run
\* and this one does.  As text it is no link of any kind.
Resolved(link, ran) ==
  IF link.kind # "script" THEN link
  ELSE [link EXCEPT !.kind = IF given.authorized /\ ran THEN link.gives ELSE "bad"]

\* A text explode() knows nothing of leaves the node as it was made, with the
\* type Unknow, which is 0 and not the -1 that is tested for.
Found(link) ==
  IF link.kind = "bad" THEN Unknown ELSE link.nodes[1]

LinkFails(link, fetched) ==
  \/ link.kind = "SUB" /\ (~fetched \/ link.nodes = <<>>)
  \/ link.kind = "Local" /\ (~given.authorized \/ link.nodes = <<>>)

Added(link, id) ==
  CASE link.kind = "nullnode" -> <<Unknown>>
    [] link.kind \in {"SUB", "Local"} -> Many(link, id)
    [] OTHER -> <<Placed(Found(link), link, id)>>

-----------------------------------------------------------------------------
(* The loops *)

AnswerWith(code) == phase' = "done" /\ status' = code

\* Mutant: the failed link is passed over.
FailedLinkIgnored ==
  /\ links' = Tail(links)
  /\ UNCHANGED <<given, phase, groupID, insert_nodes, nodes, status>>

FailedLink ==
  /\ ~given.skip
  /\ AnswerWith(400)
  /\ UNCHANGED <<given, links, groupID, insert_nodes, nodes>>

InsertLink ==
  /\ phase = "insert" /\ links # <<>>
  /\ \E fetched, ran \in BOOLEAN :
       LET link == Resolved(Head(links), ran)
       IN  \/ LinkFails(link, fetched) /\ FailedLink
           \/ /\ LinkFails(link, fetched) => given.skip
              /\ insert_nodes' = IF LinkFails(link, fetched) THEN insert_nodes
                                 ELSE insert_nodes \o Added(link, groupID)
              /\ links' = Tail(links)
              /\ groupID' = groupID - 1
              /\ UNCHANGED <<given, phase, nodes, status>>

\* Mutant: the counting goes on from the links inserted.
StartUrlsCounting ==
  /\ phase = "insert" /\ links = <<>>
  /\ phase' = "urls"
  /\ links' = given.urls
  /\ UNCHANGED <<given, groupID, insert_nodes, nodes, status>>

StartUrls ==
  /\ phase = "insert" /\ links = <<>>
  /\ phase' = "urls"
  /\ links' = given.urls
  /\ groupID' = 0
  /\ UNCHANGED <<given, insert_nodes, nodes, status>>

UrlLink ==
  /\ phase = "urls" /\ links # <<>>
  /\ \E fetched, ran \in BOOLEAN :
       LET link == Resolved(Head(links), ran)
       IN  \/ LinkFails(link, fetched) /\ FailedLink
           \/ /\ LinkFails(link, fetched) => given.skip
              /\ nodes' = IF LinkFails(link, fetched) THEN nodes
                          ELSE nodes \o Added(link, groupID)
              /\ links' = Tail(links)
              /\ groupID' = groupID + 1
              /\ UNCHANGED <<given, phase, insert_nodes, status>>

\* "No nodes were found!", and HEAD, which is answered with the headers.
Fetched ==
  /\ phase = "urls" /\ links = <<>>
  /\ IF nodes = <<>> /\ insert_nodes = <<>> THEN AnswerWith(400)
     ELSE IF given.head THEN AnswerWith(200)
     ELSE phase' = "merge" /\ UNCHANGED status
  /\ UNCHANGED <<given, links, groupID, insert_nodes, nodes>>

Merge ==
  /\ phase = "merge"
  /\ phase' = "filter"
  /\ nodes' = IF given.prepend THEN insert_nodes \o nodes ELSE nodes \o insert_nodes
  /\ UNCHANGED <<given, links, groupID, insert_nodes, status>>

-----------------------------------------------------------------------------
(* The filter script and preprocessNodes() *)

\* script_safe_runner() runs nothing without an engine: it makes one for each
\* script when script_clean_context is set, else takes the one of the request,
\* which only an authorised request has.
HasEngine == given.clean \/ given.authorized

\* filter() of the script, abstracted to the set of remarks it is true of.
FilterTrue(n) == RegFind(n.Remark, given.filter)

\* remove_if(): what filter() is true of goes.  A script that throws changes
\* nothing.
Filtered(ns) == Kept(ns, {i \in DOMAIN ns : ~FilterTrue(ns[i])})

Filter ==
  /\ phase = "filter"
  /\ phase' = "rename"
  /\ \E ran \in BOOLEAN :
       LET kept == IF given.filter # {} /\ HasEngine /\ ran
                   THEN Filtered(nodes) ELSE nodes
       IN  nodes' = [i \in DOMAIN kept |->
                       IF given.group = NoGroup THEN kept[i]
                       ELSE [kept[i] EXCEPT !.Group = given.group]]
  /\ UNCHANGED <<given, links, groupID, insert_nodes, status>>

\* What is left of a text from its first token outside S on.
Without(text, S) ==
  LET kept == {i \in DOMAIN text : text[i] \notin S}
  IN  IF kept = {} THEN <<>>
      ELSE SubSeq(text, CHOOSE i \in kept : \A j \in kept : i <= j, Len(text))

Trim(text) == Reverse(Without(Reverse(Without(text, {Space})), {Space}))

RemoveEmoji(remark) ==
  LET rest == Without(remark, Emoji) IN IF rest = <<>> THEN remark ELSE rest

\* Mutant: the rules may leave nothing.
RenameToNothing(n) ==
  IF given.rename # <<>> /\ Rewrites(given.rename[1].match, n) /\ given.rename[1].replace = <<>>
  THEN [n EXCEPT !.Remark = <<>>] ELSE n

\* Each rule rewrites what the rules before it left.
Renamed(n) ==
  LET step(remark, x) ==
        IF Rewrites(x.match, [n EXCEPT !.Remark = remark])
        THEN FlattenSeq([i \in DOMAIN remark |->
               IF remark[i] \in x.match.rest THEN x.replace ELSE <<remark[i]>>])
        ELSE remark
  IN  FoldLeft(step, n.Remark, given.rename)

\* nodeRename()
Rename(n) == IF Renamed(n) = <<>> THEN n ELSE [n EXCEPT !.Remark = Renamed(n)]

\* addEmoji(): the first rule that matches and has an emoji.
AddEmoji(n) ==
  LET fits == {i \in DOMAIN given.emoji :
                 given.emoji[i].replace # <<>> /\ Rewrites(given.emoji[i].match, n)}
  IN  IF fits = {} THEN n
      ELSE LET first == CHOOSE i \in fits : \A j \in fits : i <= j
           IN  [n EXCEPT !.Remark = given.emoji[first].replace \o <<Space>> \o @]

Preprocessed(n) ==
  LET bare == IF given.removeEmoji
              THEN [n EXCEPT !.Remark = Trim(RemoveEmoji(@))] ELSE n
      named == Rename(bare)
  IN  IF given.addEmoji THEN AddEmoji(named) ELSE named

\* The order after sorting is that of a script or of the remarks: any.
Preprocess ==
  /\ phase = "rename"
  /\ AnswerWith(200)
  /\ LET ns == [i \in DOMAIN nodes |-> Preprocessed(nodes[i])]
     IN  IF given.sort
         THEN \E p \in Bijection(DOMAIN ns, DOMAIN ns) :
                nodes' = [i \in DOMAIN ns |-> ns[p[i]]]
         ELSE nodes' = ns
  /\ UNCHANGED <<given, links, groupID, insert_nodes>>

NodesNext ==
  \/ InsertLink \/ StartUrls \/ UrlLink \/ Fetched
  \/ Merge \/ Filter \/ Preprocess

NodesSpec == NodesInit /\ [][NodesNext]_nodesVars

-----------------------------------------------------------------------------
(* Properties *)

AllNodes  == Range(nodes) \cup Range(insert_nodes)
RealNodes == {n \in AllNodes : n.Type # "Unknow"}

\* Groups tell the links of a request apart: !!GROUPID=n finds the nodes of
\* the link n+1 of the request, consecutive numbers of !!INSERT those of
\* consecutive links of insert_url, and neither ever finds one of another link,
\* though both are kept in one unsigned number and failed links take a number
\* too.  From which number the links of insert_url are counted is left open: the
\* code counts from one, README-cn.md:948 from zero.
GroupsTellLinksApart ==
  /\ \A n \in RealNodes : \A k \in DOMAIN given.urls :
       Selects(Rule("GROUPID", <<TermIs(k - 1)>>), n) <=> n.Hostname \in From(given.urls[k])
  /\ \E first \in {0, 1} : \A n \in RealNodes : \A k \in DOMAIN given.inserts :
       Selects(Rule("INSERT", <<TermIs(first + k - 1)>>), n)
         <=> n.Hostname \in From(given.inserts[k])

\* What a link brings is all there or not there at all, whichever links fail:
\* until the script and the renames its nodes stand side by side, and a link
\* that was skipped takes no node of another one with it.
LinksStayWhole ==
  phase \in {"insert", "urls", "merge", "filter"} =>
    \A link \in Range(given.urls) \cup Range(given.inserts), ns \in {insert_nodes, nodes} :
      LET whole == Hosts(IF link.kind = "single" THEN link.nodes
                         ELSE FilterNodes(link.nodes, given.exclude, given.include))
      IN  link.kind # "script" /\ From(link) \cap Range(Hosts(ns)) # {} =>
            \E before \in 0..Len(ns) :
              /\ \A j \in DOMAIN whole : before + j \in DOMAIN ns /\ ns[before + j].Hostname = whole[j]
              /\ \A i \in DOMAIN ns : ns[i].Hostname \in From(link) => i - before \in DOMAIN whole

Position(n, prepend) ==
  IF n.GroupId < Word \div 2 THEN ToInt(n.GroupId)
  ELSE IF prepend THEN -Word - ToInt(n.GroupId) ELSE Word - ToInt(n.GroupId)

\* The output lists the nodes in the order of their links, those of insert_url
\* all before or all after the others as prepend_insert_url says, also after
\* filtering and renaming, unless it is sorted.
OutputKeepsOrder ==
  (phase \in {"filter", "rename"} \/ (status = 200 /\ ~given.head)) =>
    given.sort \/ \A i, j \in DOMAIN nodes :
      i < j /\ {nodes[i], nodes[j]} \subseteq RealNodes =>
        Position(nodes[i], given.prepend) <= Position(nodes[j], given.prepend)

\* Without skip_failed_links an answer holds the nodes of every subscription
\* and file it was asked for; one that cannot be had is never passed over.
NothingIsMissing ==
  status = 200 /\ ~given.skip /\ given.filter = {} =>
    \A link \in Range(given.urls) \cup Range(given.inserts) :
      link.kind \in {"SUB", "Local"} =>
        Range(Hosts(FilterNodes(link.nodes, given.exclude, given.include)))
          \subseteq {n.Hostname : n \in AllNodes}

\* A rule that asks for nothing that a node gets from its link.
Own(x) == x.on \in {"any", "TYPE", "PORT", "SERVER"}

\* README-cn.md:490 and 500: a node of a subscription or a file that matches
\* exclude_remarks, or does not match include_remarks, is left out, whatever the
\* tag of its link and the order of the filters.
SubscriptionsAreFiltered ==
  phase \in {"urls", "merge", "filter"} =>
    \A n \in RealNodes, link \in Range(given.urls) \cup Range(given.inserts) :
      link.kind \in {"SUB", "Local"} /\ n.Hostname \in From(link) =>
        /\ \A x \in given.exclude : Own(x) => ~Selects(x, n)
        /\ given.include # {} /\ (\A x \in given.include : Own(x)) =>
             \E x \in given.include : Selects(x, n)

Words(n) == Range(n.Remark) \ (Emoji \cup {Space})

\* Removing emoji, renaming and adding emoji never leave a node without a
\* name that had one, whatever the rules delete.
NamesSurvive ==
  status = 200 /\ ~given.head =>
    \A n \in RealNodes :
      (\E link \in Range(given.urls) \cup Range(given.inserts) :
         \E m \in Range(link.nodes) : m.Hostname = n.Hostname /\ Words(m) # {})
      => n.Remark # <<>>

\* With remove_emoji a name leads with one emoji at most, the one that
\* add_emoji puts there.
OneEmoji ==
  status = 200 /\ ~given.head /\ given.removeEmoji =>
    \A n \in RealNodes :
      Words(n) # {} => ~(Len(n.Remark) > 2 /\ n.Remark[1] \in Emoji
                         /\ (n.Remark[2] \in Emoji \/ n.Remark[3] \in Emoji))

\* The nodes of a link are there as a whole or not at all, filtered as the
\* request wants them, and none of a link that may not be skipped is missing.
\* They stand in the order of their links, those of insert_url all before or all
\* after the others as prepend_insert_url says, unless they are sorted.
NodesAreWhole ==
  LinksStayWhole /\ NothingIsMissing /\ SubscriptionsAreFiltered /\ OutputKeepsOrder

\* Whatever rewrites the names, in whatever mixture, a node keeps one that can
\* be read, with one emoji in front at most when emoji are replaced.
NamesStayReadable == NamesSurvive /\ OneEmoji
=============================================================================
