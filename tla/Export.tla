------------------------------- MODULE Export -------------------------------
(***************************************************************************)
(* How the nodes and the proxy groups of a request are written for its     *)
(* target: the proxyTo...() functions of subexport.cpp, processRemark()    *)
(* and groupGenerate().                                                    *)
(*                                                                         *)
(* The name of a node is its Remark, a sequence of tokens, and its No, the *)
(* numbers at its end.  known holds which of the code's lists its method,  *)
(* protocol and obfuscation are in: "old" (chacha20), "ss", "ssr" (ciphers *)
(* both programs have), "clash" and "clashr" (what those two accept).  A   *)
(* rule of a group is [kind, name, match, gives].  Which options a line    *)
(* lists, in which format, is left out but for the certificate check; so   *)
(* are the rulesets appended to the output and the base it starts from.    *)
(***************************************************************************)
EXTENDS Matcher, Functions, FiniteSets

CONSTANTS
  Texts,      \* strings
  Requests,   \* what the target is asked to write, see Init
  Direct      \* the name of the built-in policy

NameType == [text : Seq(Texts), no : Seq(Nat)]

Tribool == {"undef", "true", "false"}

NodeType == [Type : Texts, Hostname : Texts, Remark : Seq(Texts), No : Seq(Nat),
             Group : Texts, GroupId : Nat, Port : Nat, Plugin : Texts, Network : Texts,
             known : SUBSET {"old", "ss", "ssr", "clash", "clashr"},
             AllowInsecure : Tribool, TLS : BOOLEAN]

ASSUME TextsAssumption == "" \in Texts

ASSUME RequestsAssumption ==
  \A r \in Requests : r.nodes \in Seq(NodeType) /\ r.scv \in Tribool

\* proxyToSurge() and proxyToQuan() read the first rule of an ssid group whether
\* there is one or not; one without rules is not asked for.
ASSUME GroupsAssumption ==
  \A r \in Requests :
    /\ r.groups \in Seq(Range(r.groups))
    /\ \A g \in Range(r.groups) :
         g.rules \in Seq(Range(g.rules)) /\ (g.Type = "ssid" => DOMAIN g.rules # {})

VARIABLES
  req,
  phase,          \* nodes, groups, done
  todo,           \* nodes, then groups, the loop has not come to
  remarks_list,   \* names that are taken
  nodelist,       \* nodes that groups choose from
  scv, proxyStr,  \* locals that outlive an iteration
  out,            \* the lines of the nodes
  policies        \* the groups written

vars == <<req, phase, todo, remarks_list, nodelist, scv, proxyStr, out, policies>>

Configs == {"clash", "clashr", "surge", "surfboard", "quan", "quanx", "mellow", "loon"}
Jsons   == {"sssub", "ssd"}

Init ==
  /\ req \in Requests
  /\ phase = "nodes"
  /\ todo = req.nodes
  /\ remarks_list = <<>> /\ nodelist = <<>>
  /\ scv = "undef" /\ proxyStr = ""
  /\ out = <<>> /\ policies = <<>>

-----------------------------------------------------------------------------
(* Names *)

Name(n) == [text |-> n.Remark, no |-> n.No]

Numbered(name, k) == [text |-> name.text, no |-> Append(name.no, k)]

\* Mutant: one number is tried, as if no name ended in it already.
ProcessRemarkOnce(name) ==
  IF name \notin Range(remarks_list) THEN name ELSE Numbered(name, 2)

\* processRemark(): the name itself or the first number that makes it new.
\* Len + 2 is never passed: one of that many numbers is free.  The quotes
\* around a name with a comma are left out.
ProcessRemark(name) ==
  IF name \notin Range(remarks_list) THEN name
  ELSE LET free == {k \in 2..Len(remarks_list) + 2 :
                      Numbered(name, k) \notin Range(remarks_list)}
       IN  Numbered(name, CHOOSE k \in free : \A l \in free : k <= l)

\* append_type; proxyToQuanX() reads a local that only its groups assign.
TypeOf(n) == IF req.target = "quanx" THEN "" ELSE n.Type

Shown(n) == IF req.append THEN [n EXCEPT !.Remark = <<TypeOf(n)>> \o @] ELSE n

-----------------------------------------------------------------------------
(* Which nodes a target has a line for *)

ObfsPlugin == {"simple-obfs", "obfs-local"}

ClashTakes(n) ==
  CASE n.Type = "SS"    -> req.deprecated => "old" \notin n.known
    [] n.Type = "VMess" -> n.Network \in {"tcp", "ws", "http", "h2", "grpc"}
    [] n.Type = "SSR"   -> req.deprecated =>
                             /\ req.target = "clashr" \/ "clash" \in n.known
                             /\ "clashr" \in n.known
    [] OTHER            -> n.Type \in {"SOCKS5", "HTTP", "HTTPS", "Trojan", "Snell"}

\* Surfboard is version -3 of Surge.
Newer == req.ver >= 4 \/ req.ver = -3

SurgeTakes(n) ==
  CASE n.Type = "SS"     -> n.Plugin \in {""} \cup ObfsPlugin
    [] n.Type = "VMess"  -> Newer /\ n.Network \in {"tcp", "ws"}
    [] n.Type = "SSR"    -> req.ssrPath /\ req.ver >= 2
    [] n.Type = "Trojan" -> Newer
    [] OTHER             -> n.Type \in {"SOCKS5", "HTTP", "HTTPS", "Snell"}

QuanTakes(n) == n.Type \in {"VMess", "SSR", "SS", "HTTP", "HTTPS", "SOCKS5"}

QuanXTakes(n) ==
  IF n.Type = "SS" THEN n.Plugin \in {"", "v2ray-plugin"} \cup ObfsPlugin
  ELSE n.Type \in {"VMess", "SSR", "HTTP", "HTTPS", "Trojan", "SOCKS5"}

MellowTakes(n) ==
  IF n.Type = "SS" THEN n.Plugin = "" ELSE n.Type \in {"VMess", "SOCKS5", "HTTP"}

LoonTakes(n) ==
  CASE n.Type = "SS"    -> n.Plugin \in {""} \cup ObfsPlugin
    [] n.Type = "VMess" -> n.Network \in {"tcp", "ws"}
    [] OTHER            -> n.Type \in {"SSR", "HTTP", "Trojan"}

Takes(n) ==
  CASE req.target \in {"clash", "clashr"}    -> ClashTakes(n)
    [] req.target \in {"surge", "surfboard"} -> SurgeTakes(n)
    [] req.target = "quan"   -> QuanTakes(n)
    [] req.target = "quanx"  -> QuanXTakes(n)
    [] req.target = "mellow" -> MellowTakes(n)
    [] req.target = "loon"   -> LoonTakes(n)

\* proxyToSSSub() and proxyToSSD()
JsonTakes(n) == n.Type = "SS" \/ (n.Type = "SSR" /\ "ss" \in n.known)

-----------------------------------------------------------------------------
(* The nodes *)

Define(tribool, value) == IF tribool = "undef" THEN value ELSE tribool

\* The types whose line tells whether the certificate is checked.
Checked(n) ==
  CASE req.target \in {"clash", "clashr"} ->
         \/ n.Type \in {"VMess", "SOCKS5", "HTTP", "HTTPS", "Trojan"}
         \/ n.Type = "SS" /\ n.Plugin = "v2ray-plugin"
    [] req.target \in {"surge", "surfboard"} ->
         n.Type \in {"VMess", "SOCKS5", "HTTP", "HTTPS", "Trojan"}
    [] req.target = "quan"   -> n.TLS /\ n.Type \in {"VMess", "HTTP", "HTTPS", "SOCKS5"}
    [] req.target = "quanx"  -> n.TLS /\ n.Type \notin {"SS", "SSR"}
    [] req.target = "mellow" -> n.Type = "VMess"
    [] req.target = "loon"   -> n.Type \in {"VMess", "Trojan"}

Line(n, link, check) == [name |-> Name(n), host |-> n.Hostname, link |-> link, check |-> check]

\* proxyToQuan() assigns it for VMess nodes only.
Scv(n) == IF req.target = "quan" /\ n.Type # "VMess" THEN scv
          ELSE Define(req.scv, n.AllowInsecure)

\* Mutant: the node is kept for the groups before it is looked at.
KeepsAny(n) == ~(req.list /\ req.target \in {"surge", "surfboard", "loon"})

\* Which nodes the groups may choose from.
Keeps(n) == Takes(n) /\ ~(req.list /\ req.target \in {"surge", "surfboard", "loon"})

\* proxyToLoon() takes no name in a node list.
Reserves(n) == Takes(n) /\ ~(req.list /\ req.target = "loon")

ConfigNode ==
  /\ phase = "nodes" /\ todo # <<>> /\ req.target \in Configs
  /\ LET n == Shown(Head(todo))
         x == [n EXCEPT !.No = ProcessRemark(Name(n)).no]
     IN  /\ scv' = Scv(n)
         /\ out' = IF Takes(n)
                   THEN Append(out, Line(x, n.Hostname, IF Checked(n) THEN scv' ELSE "none"))
                   ELSE out
         /\ remarks_list' = IF Reserves(n) THEN Append(remarks_list, Name(x)) ELSE remarks_list
         /\ nodelist' = IF Keeps(n) THEN Append(nodelist, x) ELSE nodelist
  /\ todo' = Tail(todo)
  /\ UNCHANGED <<req, phase, proxyStr, policies>>

\* Whether proxyToSingle() writes a line for the node, and a link of its own.
SingleTakes(n) ==
  n.Type \in req.types \/ (n.Type \in {"SS", "SSR"} /\ req.types \cap {"SS", "SSR"} # {})

OwnLink(n) ==
  \/ n.Type \in req.types
  \/ n.Type = "SS" /\ "ssr" \in n.known /\ n.Plugin = ""
  \/ n.Type = "SSR" /\ "ss" \in n.known

\* Mutant: the link is built in a local of another name.
SingleNodeShadowed ==
  /\ phase = "nodes" /\ todo # <<>> /\ req.target = "single"
  /\ LET n == Head(todo)
     IN  IF SingleTakes(n)
         THEN /\ out' = Append(out, Line(n, proxyStr, "none"))
              /\ proxyStr' = n.Hostname
         ELSE UNCHANGED <<out, proxyStr>>
  /\ todo' = Tail(todo)
  /\ UNCHANGED <<req, phase, remarks_list, nodelist, scv, policies>>

\* One node of proxyToSingle(): proxyStr is written out whether it is of this
\* node or not.
SingleNode ==
  /\ phase = "nodes" /\ todo # <<>> /\ req.target = "single"
  /\ LET n == Head(todo)
     IN  IF SingleTakes(n)
         THEN /\ proxyStr' = IF OwnLink(n) THEN n.Hostname ELSE proxyStr
              /\ out' = Append(out, Line(n, proxyStr', "none"))
         ELSE UNCHANGED <<out, proxyStr>>
  /\ todo' = Tail(todo)
  /\ UNCHANGED <<req, phase, remarks_list, nodelist, scv, policies>>

JsonNode ==
  /\ phase = "nodes" /\ todo # <<>> /\ req.target \in Jsons
  /\ out' = IF JsonTakes(Head(todo))
            THEN Append(out, Line(Head(todo), Head(todo).Hostname, "none")) ELSE out
  /\ todo' = Tail(todo)
  /\ UNCHANGED <<req, phase, remarks_list, nodelist, scv, proxyStr, policies>>

NodesDone ==
  /\ phase = "nodes" /\ todo = <<>>
  /\ IF req.target = "mellow" \/ (req.target \in Configs /\ ~req.list)
     THEN phase' = "groups" /\ todo' = req.groups
     ELSE phase' = "done" /\ UNCHANGED todo
  /\ UNCHANGED <<req, remarks_list, nodelist, scv, proxyStr, out, policies>>

-----------------------------------------------------------------------------
(* The groups *)

\* groupGenerate(): "[]" refers to a group or policy, except for Mellow, where
\* it is an expression that matches nothing; a script gives the names itself,
\* if it may run and does.
GroupGenerate(filtered, rule, ran) ==
  LET add(names, n) == IF Selects(rule.match, n) /\ Name(n) \notin Range(names)
                       THEN Append(names, Name(n)) ELSE names
  IN  CASE rule.kind = "ref" /\ req.target # "mellow" -> Append(filtered, rule.name)
        [] rule.kind = "script" /\ req.authorized /\ ran -> rule.gives
        [] rule.kind = "match" -> FoldLeft(add, filtered, nodelist)
        [] OTHER -> filtered

Generated(g, ran) ==
  FoldLeft(LAMBDA names, rule : GroupGenerate(names, rule, ran), <<>>, g.rules)

\* Mutant: nothing takes the place of members.
MembersNone(g, ran) == Generated(g, ran)

\* What is written when the rules select nothing.
Members(g, ran) ==
  LET names == Generated(g, ran)
  IN  IF g.Type = "ssid" THEN [i \in DOMAIN g.rules |-> g.rules[i].name]
      ELSE IF names # <<>> THEN names
      ELSE IF req.target \in {"clash", "clashr"} /\ g.use THEN <<>>
      ELSE IF req.target = "mellow" /\ remarks_list # <<>> THEN remarks_list
      ELSE <<Direct>>

\* The groups a target has.
Writes(g) ==
  LET basic == {"select", "url-test", "fallback"}
  IN  CASE req.target \in {"clash", "clashr"} -> g.Type \in basic \cup {"load-balance", "relay"}
        [] req.target \in {"surge", "surfboard"} ->
             \/ g.Type \in basic \cup {"ssid"}
             \/ g.Type = "load-balance" /\ (req.ver >= 1 \/ req.ver = -3)
        [] req.target \in {"quan", "quanx"} -> g.Type \in basic \cup {"load-balance", "ssid"}
        [] req.target = "mellow" -> g.Type \in basic \cup {"load-balance"}
        [] req.target = "loon"   -> g.Type \in basic \/ (g.Type = "ssid" /\ Len(g.rules) >= 2)

\* A group of one member is static for Quantumult; a group that is only a
\* built-in policy is one of the proxies of Surge.
TypeStr(g, members) ==
  CASE req.target \in {"quan", "quanx"} /\ Len(members) < 2 /\ g.Type # "ssid" -> "static"
    [] req.target = "quan" /\ g.Type = "fallback" -> "static"
    [] req.target \in {"surge", "surfboard"} /\ members = <<Direct>> /\ g.Type # "ssid" -> "proxy"
    [] OTHER -> g.Type

\* proxyToClash() replaces a group of the same name, the others repeat it.
Replaced(policy) ==
  LET same == {i \in DOMAIN policies : policies[i].name = policy.name}
  IN  IF req.target \in {"clash", "clashr"} /\ same # {}
      THEN [policies EXCEPT ![CHOOSE i \in same : \A j \in same : i <= j] = policy]
      ELSE Append(policies, policy)

Group ==
  /\ phase = "groups" /\ todo # <<>>
  /\ LET g == Head(todo)
     IN  IF Writes(g)
         THEN \E ran \in BOOLEAN :
                LET members == Members(g, ran)
                IN  policies' = Replaced([name |-> g.Name, type |-> TypeStr(g, members),
                                          members |-> members, use |-> g.use])
         ELSE UNCHANGED policies
  /\ todo' = Tail(todo)
  /\ UNCHANGED <<req, phase, remarks_list, nodelist, scv, proxyStr, out>>

GroupsDone ==
  /\ phase = "groups" /\ todo = <<>>
  /\ phase' = "done"
  /\ UNCHANGED <<req, todo, remarks_list, nodelist, scv, proxyStr, out, policies>>

Next ==
  \/ ConfigNode \/ SingleNode \/ JsonNode \/ NodesDone
  \/ Group \/ GroupsDone

Spec == Init /\ [][Next]_vars

-----------------------------------------------------------------------------
(* Properties *)

LineType == [name : NameType, host : Texts, link : Texts, check : Tribool \cup {"none"}]

HasNames == req.target \in Configs /\ ~(req.target = "loon" /\ req.list)

\* No two nodes of a configuration have one name, whatever names and types the
\* nodes came with, whichever nodes the target left out and whichever names
\* already end in a number.  Clients refuse a configuration that repeats one,
\* and groups choose nodes by name.
NamesAreUnique ==
  HasNames => \A i, j \in DOMAIN out : out[i].name = out[j].name => i = j

OutNames == {out[i].name : i \in DOMAIN out}

GroupOf(policy) == {i \in DOMAIN req.groups : req.groups[i].Name = policy.name}

Kinds(g) == {g.rules[i].kind : i \in DOMAIN g.rules}

\* A group lists the nodes its rules select, under the names they were written
\* with, and besides only what it refers to or falls back on: never a node the
\* target has no line for, never one under its old name, never one twice.
GroupsFollowTheirRules ==
  \A p \in Range(policies) :
    \E g \in {req.groups[i] : i \in GroupOf(p)} :
      LET refs     == {g.rules[i].name : i \in {j \in DOMAIN g.rules : g.rules[j].kind = "ref"}}
          selected == {Name(n) : n \in {m \in Range(nodelist) :
                         \E i \in DOMAIN g.rules :
                           g.rules[i].kind = "match" /\ Selects(g.rules[i].match, m)}}
          times(m) == Cardinality({i \in DOMAIN p.members : p.members[i] = m})
      IN  Kinds(g) \subseteq {"ref", "match"} /\ g.Type # "ssid" =>
            /\ selected \subseteq Range(p.members) \cap OutNames
            /\ \A m \in Range(p.members) : m \in selected \cup refs \cup OutNames \cup {Direct}
            /\ \A m \in selected \ refs : times(m) = 1
            /\ selected # {} => Range(p.members) \subseteq selected \cup refs

\* A group without members breaks the whole configuration: whatever its rules
\* select it has some, or it takes them from a provider.
GroupsHaveMembers ==
  \A p \in Range(policies) : p.members # <<>> \/ (p.use /\ req.target \in {"clash", "clashr"})

\* README-cn.md:336 and :721: nodes the target does not support are filtered
\* out: each line of a list of links is the link of its own node, also when
\* nodes before it had none.
LinksAreOfTheirNodes == \A i \in DOMAIN out : out[i].link = out[i].host

\* The check of certificates that the last VMess node before the node k left.
Carried(k, check) ==
  \/ check = "undef" /\ \A j \in 1..(k - 1) : req.nodes[j].Type # "VMess"
  \/ \E j \in 1..(k - 1) :
       /\ req.nodes[j].Type = "VMess" /\ check = Define(req.scv, req.nodes[j].AllowInsecure)
       /\ \A l \in (j + 1)..(k - 1) : req.nodes[l].Type # "VMess"

\* The link is of the node k; set apart, of a list of SS or SSR links, are nodes
\* that cannot be converted (README-cn.md:336 has them left out): they repeat the
\* line before.
LinkIsOf(line, k, before) ==
  line.link = IF req.target = "single" => OwnLink(req.nodes[k]) THEN line.host ELSE before

\* README-cn.md:335: scv turns off the check of certificates for TLS nodes: the
\* line says what the request asked for, or else what the node k came with.  Set
\* apart are the HTTP and SOCKS5 nodes of Quantumult, which are given that of the
\* last VMess node.
CheckIsOf(line, k) ==
  line.check # "none" =>
    IF req.target = "quan" /\ req.nodes[k].Type # "VMess" THEN Carried(k, line.check)
    ELSE line.check = Define(req.scv, req.nodes[k].AllowInsecure)

\* README-cn.md:327: append_type puts the type of the node before its name.  Set
\* apart is QuantumultX, which puts nothing in the brackets.
TypeIsOf(line, k) ==
  req.append /\ req.target \in Configs =>
    Head(line.name.text) = IF req.target = "quanx" THEN "" ELSE req.nodes[k].Type

\* Each line has a node of the request, and all it says is of that node, whatever
\* the locals of the loop still hold of the nodes before it; where it is not, a
\* line says what the last node left that did assign the local, and of no other.
LinesAreOfTheirNodes ==
  \A i \in DOMAIN out : \E k \in DOMAIN req.nodes :
    /\ req.nodes[k].Hostname = out[i].host
    /\ LinkIsOf(out[i], k, IF i = 1 THEN "" ELSE out[i - 1].link)
    /\ CheckIsOf(out[i], k) /\ TypeIsOf(out[i], k)

=============================================================================
