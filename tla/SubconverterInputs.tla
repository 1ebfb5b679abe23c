------------------------ MODULE SubconverterInputs -------------------------
(***************************************************************************)
(* Pairs of requests for Subconverter, and what is around them; artifacts   *)
(* and profiles for Generator, which makes requests of its own.            *)
(***************************************************************************)
EXTENDS Integers, Sequences, SequencesExt

Step == 4
Modulus == 65536
Day  == 10
Now  == 100

-----------------------------------------------------------------------------
(* Links and the rules for their names.  Names that several rules match are *)
(* among them, one that a rule leaves as it is, and one for either kind.    *)

None == <<>>
Same == None
Amount(n, unit) == [n |-> n, unit |-> unit]
Percent(n) == [percent |-> n]
InfoText(n) == [download |-> n, total |-> 2 * n, expire |-> 0]

stream_rules ==
  <<"left" :> [total |-> Amount(3, "MB"), left |-> Amount(5, "KB")]
    @@ "third" :> [total |-> Percent(30), left |-> Amount(3, "MB")] @@ "plain" :> Same,
    "left" :> [used |-> Amount(1, "B")]
    @@ "plain" :> [total |-> Amount(2, "GB"), used |-> Amount(7, "MB")]
    @@ "most" :> [total |-> Percent(90), used |-> Amount(2, "KB")]
    @@ "all" :> [total |-> Percent(100), used |-> Amount(2, "KB")]
    @@ "nothing" :> [total |-> Percent(0), left |-> Amount(0, "B")]
    @@ "bare" :> [total |-> Amount(5, ""), left |-> Amount(7, "B")]
    @@ "onlytotal" :> [total |-> Amount(2, "EB")]>>

time_rules ==
  <<"days" :> [left |-> 3, unit |-> "d"] @@ "hours" :> [left |-> 5, unit |-> "h"],
    "third" :> [at |-> 77] @@ "days" :> [at |-> 55]>>

Link(name) == [name |-> name, kind |-> "download", ssd |-> None, header |-> None, nodes |-> <<"n">>,
               fails |-> FALSE, kept |-> TRUE]

Names == {"left", "third", "plain", "most", "all", "nothing", "bare", "onlytotal", "days", "hours", "n"}

Up     == Link("up")
Down   == [Link("down") EXCEPT !.fails = TRUE]
Bare   == [Link("bare") EXCEPT !.kept = FALSE, !.header = InfoText(3)]
Told   == [Link("told") EXCEPT !.header = InfoText(1), !.nodes = <<"left">>]
SSD    == [Link("ssd") EXCEPT !.ssd = [used |-> Amount(1, "GB"), total |-> Amount(2, "GB"),
                                       expiry |-> [at |-> 66]], !.header = InfoText(2)]
Empty  == [Link("empty") EXCEPT !.ssd = [used |-> None, total |-> Amount(2, "GB"), expiry |-> None],
                                !.header = InfoText(2)]
Single == [Link("single") EXCEPT !.kind = "link", !.nodes = <<"left">>]
Lost   == [Link("lost") EXCEPT !.fails = TRUE, !.header = InfoText(4)]
Links  == {Up, Down, Bare, Told, SSD, Empty, Single, Lost}

Global == [authorized |-> TRUE, defaultUrls |-> <<>>, insertUrls |-> <<>>, enableInsert |-> TRUE,
           skipFailedLinks |-> FALSE, appendUserinfo |-> TRUE,
           clashUseNewField |-> FALSE, writeManagedConfig |-> TRUE]

NoAgent == [name |-> <<>>, version |-> <<>>, R |-> FALSE, x86 |-> FALSE]

Request == [method |-> "GET", target |-> "clash", ver |-> 0, new_name |-> "", agent |-> NoAgent,
            url |-> <<Up>>, blacklisted |-> FALSE, insert |-> "", append_info |-> "", list |-> "",
            expand |-> "", script |-> "", upload |-> "", filename |-> "", interval |-> 1]

AllBases == {"clash", "clashr", "surge", "quan", "quanx", "loon", "surfboard", "mellow", "sssub"}

Scene(requests) ==
  [requests |-> requests, global |-> Global, bases |-> AllBases]

-----------------------------------------------------------------------------
(* Clients.  What each is meant to get is what the table's comments and its *)
(* order say.                                                               *)

Agent(name, version) == [name |-> name, version |-> version, R |-> FALSE, x86 |-> FALSE]
Mac(version) == [Agent(<<"Surge">>, version) EXCEPT !.x86 = TRUE]
Meant(agent, target, ver, new) == [agent |-> agent, target |-> target, ver |-> ver, new |-> new]

Clients ==
  {Meant(Agent(<<"Clash", "ForAndroid">>, <<2, 0, 3>>), "clash", 0, "true"),
   Meant([Agent(<<"Clash", "ForAndroid">>, <<1, 3>>) EXCEPT !.R = TRUE], "clashr", 0, "false"),
   Meant(Agent(<<"Clash", "ForAndroid">>, <<1, 3>>), "clash", 0, "false"),
   Meant(Agent(<<"Clash", "forWindows">>, <<0, 11, 1>>), "clash", 0, "true"),
   Meant(Agent(<<"Clash", "forWindows">>, <<0, 9>>), "clash", 0, "false"),
   Meant(Agent(<<"Clash", "X", " Pro">>, <<0, 1>>), "clash", 0, "true"),
   Meant(Agent(<<"Clash", "X">>, <<0, 20>>), "clash", 0, "true"),
   Meant(Agent(<<"Clash">>, <<>>), "clash", 0, "true"),
   Meant(Agent(<<"Quantumult", "%20X">>, <<1>>), "quanx", 0, ""),
   Meant(Agent(<<"Quantumult">>, <<1>>), "quan", 0, ""),
   Meant(Agent(<<"Kitsunebi">>, <<>>), "v2ray", 0, ""), Meant(Agent(<<"Loon">>, <<>>), "loon", 0, ""),
   Meant(Agent(<<"Surfboard">>, <<2>>), "surfboard", 0, ""),
   Meant(Mac(<<906>>), "surge", 4, "false"), Meant(Mac(<<500>>), "surge", 3, "false"),
   Meant(Mac(<<300>>), "surge", 2, "false"), Meant(Agent(<<"Surge">>, <<1419>>), "surge", 4, "false"),
   Meant(Agent(<<"Surge">>, <<1000>>), "surge", 3, "false"),
   Meant(Agent(<<"Surge">>, <<>>), "surge", 2, "false"),
   Meant(Agent(<<"Trojan-Qt5">>, <<>>), "trojan", 0, ""),
   Meant(Agent(<<"Firefox">>, <<7>>), "auto", 0, "")}

Auto(client, r) == [r EXCEPT !.target = "auto", !.agent = client.agent]

Explicit(client, r) ==
  [r EXCEPT !.target = IF client.target = "auto" THEN "none" ELSE client.target,
            !.ver = client.ver, !.new_name = client.new]

Variants ==
  {[Request EXCEPT !.list = l, !.expand = e, !.script = s, !.upload = "true"] :
     l \in {"", "true"}, e \in {"", "true", "false"}, s \in {"", "true"}}

AutoScenes == {Scene(<<Auto(c, r), Explicit(c, r)>>) : c \in Clients, r \in Variants}

\* Versions in the order of their release; one of a single number, which
\* counts as the greatest of those that begin with it, is not among them.
Histories ==
  {<<<<"Clash", "ForAndroid">>, <<<<1, 3>>, <<1, 99, 1>>, <<2, 0>>, <<2, 0, 9>>, <<2, 5>>, <<10, 0>>>>>>,
   <<<<"Clash", "forWindows">>, <<<<0, 9>>, <<0, 10, 2>>, <<0, 11>>, <<0, 12>>, <<1, 0>>>>>>,
   <<<<"Clash", "X">>, <<<<0, 9>>, <<0, 13>>, <<1, 2>>>>>>,
   <<<<"Surge">>, <<<<300>>, <<368>>, <<899>>, <<900>>, <<906>>, <<1419>>, <<1500>>>>>>}

UpgradeScenes ==
  UNION {{Scene(<<Auto(Meant([Agent(h[1], h[2][p[1]]) EXCEPT !.x86 = x], "", 0, ""), Request),
                  Auto(Meant([Agent(h[1], h[2][p[2]]) EXCEPT !.x86 = x], "", 0, ""), Request)>>) :
            p \in {q \in (DOMAIN h[2]) \X (DOMAIN h[2]) : q[1] < q[2]}, x \in BOOLEAN} : h \in Histories}
  \cup {Scene(<<Auto(Meant(Agent(<<"Surge">>, v), "", 0, ""), Request)>>) : v \in {<<-1, 5>>, <<899, -1>>}}

-----------------------------------------------------------------------------
(* HEAD and GET, on all ways to fail and to succeed. *)

Urls == {<<>>} \cup {<<l>> : l \in Links} \cup {<<l, m>> : l, m \in Links}

HeadScenes ==
  {[Scene(<<[r EXCEPT !.method = "HEAD"], r>>) EXCEPT
      !.global = [Global EXCEPT !.skipFailedLinks = s, !.insertUrls = i, !.defaultUrls = d],
      !.bases = b] :
     r \in {[Request EXCEPT !.target = t, !.url = u, !.upload = "true", !.filename = "f"] :
              t \in {"clash", "mixed"}, u \in Urls},
     s \in BOOLEAN, i \in {<<>>, <<Told>>, <<Down, Up>>}, d \in {<<>>, <<Up>>},
     b \in {AllBases, {}}}

OtherScenes ==
  {[Scene(<<r>>) EXCEPT !.global = [Global EXCEPT !.authorized = a, !.defaultUrls = <<Up>>,
                                    !.insertUrls = <<Up>>]] :
     r \in {[Request EXCEPT !.target = t, !.url = u, !.insert = i, !.append_info = o,
                            !.blacklisted = b] :
              t \in {"ssd", "sssub", "mellow"},
              u \in {<<>>, <<Told>>, <<Told, [Up EXCEPT !.kind = "file", !.nodes = <<"plain">>]>>},
              i \in {"", "false"}, b \in BOOLEAN, o \in {"", "false"}},
     a \in BOOLEAN}

\* Every pair of names in a download and in a file.
InfoScenes ==
  LET Of(k, x, y) == [Link("up") EXCEPT !.kind = k, !.nodes = <<x, y>>]
      Around(l)   == {<<l>>, <<l, Told>>, <<SSD, l>>, <<l, Empty>>, <<l, Single>>}
  IN  UNION {{Scene(<<[Request EXCEPT !.target = "ssd", !.url = u]>>) : u \in Around(Of(k, x, y))} :
               k \in {"download", "file"}, x, y \in Names}

Every == AutoScenes \cup UpgradeScenes \cup HeadScenes \cup OtherScenes \cup InfoScenes

-----------------------------------------------------------------------------
(* What the generator and /getprofile are given: artifacts of every kind in *)
(* every order, and profiles that are there, empty, broken or missing.      *)

\* A link gives nodes, tells the user info as well, cannot be fetched, or
\* holds a text that makes its parser throw.
Sources == [a |-> "up", b |-> "tells", c |-> "up", d |-> "down", x |-> "strange"]

Profile(items) == [empty |-> FALSE, sound |-> TRUE, has |-> TRUE, items |-> items]

Profiles ==
  [pa |-> Profile(<<<<"target", "clash">>, <<"url", <<"a">>>>>>),
   pb |-> Profile(<<<<"url", <<"b", "c">>>>, <<"target", "surge">>, <<"url", <<"c">>>>>>),
   po |-> Profile(<<<<"profile_token", "own">>, <<"url", <<"c">>>>, <<"target", "quan">>>>),
   pn |-> Profile(<<<<"target", "loon">>>>),
   none  |-> [Profile(<<>>) EXCEPT !.has = FALSE],
   cut   |-> [Profile(<<<<"url", <<"d">>>>>>) EXCEPT !.sound = FALSE],
   wrong |-> [Profile(<<>>) EXCEPT !.sound = FALSE, !.has = FALSE],
   empty |-> [Profile(<<>>) EXCEPT !.empty = TRUE]]

Artifact(name, items) == [name |-> name, items |-> items]

Own(name, target, url) ==
  Artifact(name, <<<<"expand", "false">>, <<"path", name>>, <<"target", target>>, <<"url", url>>>>)

Artifacts ==
  {Own("one", "clash", <<"a">>), Own("info", "surge", <<"a", "b">>), Own("fails", "clash", <<"d", "b">>),
   Own("throws", "clash", <<"a", "x">>), Own("baseless", "baseless", <<"b">>),
   Artifact("bare", <<<<"path", "bare">>, <<"target", "quan">>>>),
   Artifact("again", <<<<"path", "one">>, <<"target", "quan">>, <<"url", <<"c">>>>>>),
   Artifact("lost", <<<<"target", "clash">>, <<"url", <<"a">>>>>>),
   Artifact("raw", <<<<"direct", "true">>, <<"path", "raw">>, <<"url", <<"a">>>>>>),
   Artifact("gone", <<<<"direct", "true">>, <<"path", "one">>, <<"url", <<"d">>>>>>),
   Artifact("both", <<<<"path", "both">>, <<"profile", <<"pa", "pb">>>>>>),
   Artifact("own", <<<<"path", "own">>, <<"profile", <<"po">>>>>>),
   Artifact("urlless", <<<<"path", "urlless">>, <<"profile", <<"pn", "pa">>>>>>)}

Setup == [config |-> "sound", artifacts |-> <<>>, generateProfiles |-> <<>>, accessToken |-> "T",
         profiles |-> Profiles, links |-> Sources, argument |-> <<>>]

Orders(n) == {s \in UNION {[1..k -> Artifacts] : k \in 1..n} : IsInjective(s)}

Generating ==
  {[Setup EXCEPT !.artifacts = s] : s \in Orders(3)}
  \cup {[Setup EXCEPT !.artifacts = s, !.generateProfiles = g] :
          s \in Orders(2), g \in {<<"one">>, <<"bare", "info">>, <<"gone", "one", "gone">>}}
  \cup {[Setup EXCEPT !.config = c] : c \in {"empty", "broken"}}

Asks == UNION {[1..k -> DOMAIN Profiles \cup {"absent"}] : k \in 0..3}

Argument(names, token, rest) == <<<<"name", names>>, <<"token", token>>>> \o rest

Serving ==
  {[Setup EXCEPT !.config = "none", !.argument = Argument(n, "T", r)] :
     n \in Asks, r \in {<<>>, <<<<"url", <<"c">>>>>>}}
  \cup {[Setup EXCEPT !.config = "none", !.argument = Argument(<<n>>, t, <<<<"target", "mixed">>>>)] :
          n \in DOMAIN Profiles, t \in {"", "own", "other"}}

GeneratorSetups == Generating \cup Serving
=============================================================================
