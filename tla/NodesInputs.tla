---------------------------- MODULE NodesInputs -----------------------------
(***************************************************************************)
(* Requests for Nodes: links of every kind, and requests that mix them.    *)
(***************************************************************************)
EXTENDS Matcher, Functions

Node(type, host, remark) ==
  [Type |-> type, Group |-> "SSProvider", GroupId |-> 0, Port |-> 443,
   Remark |-> remark, Hostname |-> host]

Link(kind, tag, gives, ns) ==
  [kind |-> kind, tag |-> tag, gives |-> gives, nodes |-> ns]

\* "expire" is excluded, "us" renamed, "flag" an emoji.
Sub    == Link("SUB", "NoGroup", "", <<Node("SS", "s1", <<"expire">>),
                Node("SS", "s2", <<"flag", "flag", " ", "hk">>), Node("VMess", "s3", <<"us">>)>>)
Tagged == Link("SUB", "tag", "", <<Node("SSR", "t1", <<"us", "hk">>), Node("SSR", "t2", <<"expire">>)>>)
Broken == Link("SUB", "NoGroup", "", <<>>)
File   == Link("Local", "NoGroup", "", <<Node("SS", "f1", <<"hk", "us">>), Node("SS", "f2", <<"expire">>)>>)
Single == Link("single", "NoGroup", "", <<Node("Trojan", "x1", <<"flag", " ", "us">>)>>)
Spam   == Link("single", "tag", "", <<Node("SS", "y1", <<"expire">>)>>)
Null   == Link("nullnode", "NoGroup", "", <<>>)
Bad    == Link("bad", "NoGroup", "", <<>>)
Script == Link("script", "NoGroup", "SUB", <<Node("SS", "z1", <<"hk">>)>>)

Lists(S, n) == {s \in BoundedSeq(S, n) : IsInjective(s)}

Renames == <<[match |-> Named({"us"}), replace |-> <<>>],
             [match |-> Rule("GROUPID", <<TermIs(0)>>), replace |-> <<"!">>],
             [match |-> [Rule("TYPE", {"SS", "SSR"}) EXCEPT !.rest = {"hk"}], replace |-> <<"hk", "1">>]>>
Emojis  == <<[match |-> Named({"us"}), replace |-> <<>>], [match |-> Named({"us", "hk"}), replace |-> <<"flag">>]>>

Base == [urls |-> <<>>, inserts |-> <<>>, skip |-> FALSE, authorized |-> TRUE,
         clean |-> FALSE, prepend |-> TRUE, head |-> FALSE, sort |-> FALSE,
         exclude |-> {}, include |-> {}, filter |-> {}, group |-> "NoGroup",
         rename |-> <<>>, emoji |-> Emojis, removeEmoji |-> FALSE, addEmoji |-> FALSE]

\* Every order of links that may fail, be skipped or be filtered away.
Gathering ==
  {[Base EXCEPT !.urls = u, !.inserts = i, !.skip = k, !.authorized = a,
                !.prepend = p, !.exclude = {Named({"expire"})}] :
     u \in Lists({Sub, Tagged, File, Single, Null, Script}, 2) \cup {<<Single, Tagged, Script>>},
     i \in {<<>>, <<Tagged>>, <<Broken, Sub>>, <<Sub, Tagged>>}, k, a, p \in BOOLEAN}
  \cup
  {[Base EXCEPT !.urls = u, !.head = TRUE, !.include = {Named({"hk", "us"})}] :
     u \in Lists({Sub, Broken, Bad, Spam}, 2)}

\* Every mix of what rewrites the names.
Naming ==
  {[Base EXCEPT !.urls = u, !.inserts = i, !.filter = f, !.clean = c, !.authorized = ~c, !.group = g,
                !.rename = n, !.removeEmoji = r, !.addEmoji = e, !.sort = i # <<>> /\ c, !.prepend = s] :
     u \in {<<Sub>>, <<File, Single>>, <<Null, Tagged>>}, i \in {<<>>, <<Single>>},
     f \in {{}, {"hk"}}, c, r, e, s \in BOOLEAN,
     g \in {"NoGroup", "mine"}, n \in {<<>>, Renames}}

\* No link is both in the request and in insert_url.
Usual == {r \in Gathering \cup Naming : Range(r.urls) \cap Range(r.inserts) = {}}

Emojilike == {"flag"}
=============================================================================
