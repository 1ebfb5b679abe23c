---------------------------- MODULE Subconverter ----------------------------
(***************************************************************************)
(* subconverter(), the handler of /sub, from the arguments of a request to *)
(* the status, the headers and the uploads of its answer: which client     *)
(* gets which format, where it gives up, and what it has done by then.     *)
(*                                                                         *)
(* Two requests that belong together are answered one after the other, so  *)
(* that their answers can be compared.  What links and bases give is given *)
(* with them; Nodes, ExternalConf, Rulesets and Export hold the rest.      *)
(***************************************************************************)
EXTENDS SubInfo

CONSTANTS
  Scenes,
  stream_rules, time_rules    \* for the names of nodes

VARIABLES
  scene,     \* the requests, the settings (global), and the bases that render
  step,      \* where the request is
  arg,       \* argTarget, intSurgeVer and argClashNewField of the request
  urls,      \* the links to come, each with whether it is an inserted one
  found,     \* the names of the links that gave nodes
  subInfo,
  headers,   \* response.headers
  uploads,   \* what uploadGist() was called with, for all requests
  answers    \* [status_code, headers, content] of the requests answered

handling == <<step, arg, urls, found, subInfo, headers>>
vars == <<scene, handling, uploads, answers>>

request == scene.requests[Len(answers) + 1]
global  == scene.global

Init ==
  /\ scene \in Scenes
  /\ step = "target" /\ arg = None /\ urls = <<>> /\ found = <<>>
  /\ subInfo = None /\ headers = <<>> /\ uploads = {} /\ answers = <<>>

\* The handler returns; the response of the next request is a new one.
Return(code, sent, content) ==
  /\ answers' = Append(answers, [status_code |-> code, headers |-> sent, content |-> content])
  /\ step' = IF Len(answers) + 1 = Len(scene.requests) THEN "done" ELSE "target"
  /\ arg' = None /\ urls' = <<>> /\ found' = <<>> /\ subInfo' = None /\ headers' = <<>>

\* An error keeps the headers that are there.
Error(code) == Return(code, headers, "error") /\ UNCHANGED <<scene, uploads>>

-----------------------------------------------------------------------------
(* User agents.  An agent is [name, version, R, x86]: its name as a        *)
(* sequence of words, the numbers of "/1.2.3" behind it (-1 for an empty   *)
(* one), and whether an "R" or an "x86" follows.                           *)

\* Row of UAMatchList; pattern "v" finds a version, "vR" and "v.*x86" one that
\* is followed by them.
Row(head, pattern, target_version, target, new, ver) ==
  [head |-> head, pattern |-> pattern, version |-> target_version, target |-> target,
   clash_new_name |-> new, surge_ver |-> ver]

Plain(head, target) == Row(head, "", <<>>, target, "", -1)

UAMatchList ==
  <<Row(<<"Clash", "ForAndroid">>, "v", <<2, 0>>, "clash", "true", -1),
    Row(<<"Clash", "ForAndroid">>, "vR", <<>>, "clashr", "false", -1),
    Row(<<"Clash", "ForAndroid">>, "", <<>>, "clash", "false", -1),
    Row(<<"Clash", "forWindows">>, "v", <<0, 11>>, "clash", "true", -1),
    Row(<<"Clash", "forWindows">>, "", <<>>, "clash", "false", -1),
    Row(<<"Clash", "X", " Pro">>, "", <<>>, "clash", "true", -1),
    Row(<<"Clash", "X">>, "v", <<0, 13>>, "clash", "true", -1),
    Row(<<"Clash">>, "", <<>>, "clash", "true", -1),
    Plain(<<"Kitsunebi">>, "v2ray"), Plain(<<"Loon">>, "loon"), Plain(<<"Pharos">>, "mixed"),
    Plain(<<"Potatso">>, "mixed"), Plain(<<"Quantumult", "%20X">>, "quanx"),
    Plain(<<"Quantumult">>, "quan"), Plain(<<"Qv2ray">>, "v2ray"), Plain(<<"Shadowrocket">>, "mixed"),
    Plain(<<"Surfboard">>, "surfboard"),
    Row(<<"Surge">>, "v.*x86", <<906>>, "surge", "false", 4),
    Row(<<"Surge">>, "v.*x86", <<368>>, "surge", "false", 3),
    Row(<<"Surge">>, "v", <<1419>>, "surge", "false", 4),
    Row(<<"Surge">>, "v", <<900>>, "surge", "false", 3),
    Row(<<"Surge">>, "", <<>>, "surge", "false", 2),
    Plain(<<"Trojan-Qt5">>, "trojan"), Plain(<<"V2rayU">>, "v2ray"), Plain(<<"V2RayX">>, "v2ray")>>

\* The parts are compared until one is greater or one version has no more; a
\* last point ends a version.
Parts(version) == IF Len(version) > 1 /\ Last(version) = -1 THEN Front(version) ELSE version

verGreaterEqual(src_ver, target_ver) ==
  LET differs == {i \in DOMAIN Parts(src_ver) \cap DOMAIN target_ver : src_ver[i] # target_ver[i]}
      first   == CHOOSE i \in differs : \A j \in differs : i <= j
  IN  differs = {} \/ src_ver[first] > target_ver[first]

\* stoi() throws for a part without a digit.
Throws(version, target_ver) ==
  \E i \in DOMAIN Parts(version) \cap DOMAIN target_ver :
    version[i] = -1 /\ \A j \in 1..(i - 1) : version[j] = target_ver[j]

Finds(row, agent) ==
  CASE row.pattern = ""       -> TRUE
    [] row.pattern = "v"      -> agent.version # <<>>
    [] row.pattern = "vR"     -> agent.version # <<>> /\ agent.R
    [] row.pattern = "v.*x86" -> agent.version # <<>> /\ agent.x86

Reaches(row, agent) == IsPrefix(row.head, agent.name) /\ Finds(row, agent)

\* Mutant: the last row that fits decides.
TakesLast(agent) ==
  SelectLastInSeq(UAMatchList, LAMBDA row : /\ Reaches(row, agent)
                                            /\ row.version # <<>> => verGreaterEqual(agent.version, row.version))

\* The row that decides, or 0.
Takes(agent) ==
  SelectInSeq(UAMatchList, LAMBDA row : /\ Reaches(row, agent)
                                        /\ row.version # <<>> => verGreaterEqual(agent.version, row.version))

\* A row above it compares the version with a part that is none.
Rejects(agent) ==
  \E i \in DOMAIN UAMatchList :
    /\ Reaches(UAMatchList[i], agent)
    /\ Takes(agent) # 0 => i <= Takes(agent)
    /\ Throws(agent.version, UAMatchList[i].version)

Asked == [target |-> request.target, new_name |-> request.new_name,
          ver |-> IF request.ver = 0 THEN 3 ELSE request.ver]

\* What matchUserAgent() makes of them, a new_name of the request included.
matchUserAgent(agent) ==
  IF agent.name = <<>> \/ Takes(agent) = 0 THEN Asked
  ELSE LET row == UAMatchList[Takes(agent)]
       IN  [target |-> row.target, new_name |-> row.clash_new_name,
            ver |-> IF row.surge_ver # -1 THEN row.surge_ver ELSE Asked.ver]

-----------------------------------------------------------------------------
(* The handler *)

Targets == {"ss", "ssd", "ssr", "sssub", "v2ray", "trojan", "mixed", "clash", "clashr", "surge",
            "quan", "quanx", "loon", "surfboard", "mellow"}

\* An exception of a handler is answered with 500.
Resolve ==
  LET auto == request.target = "auto"
      args == IF auto THEN matchUserAgent(request.agent) ELSE Asked
  IN  /\ step = "target"
      /\ IF auto /\ Rejects(request.agent) THEN Error(500)
         ELSE IF args.target \notin Targets THEN Error(400)
         ELSE /\ step' = "check" /\ arg' = args
              /\ UNCHANGED <<scene, urls, found, subInfo, headers, uploads, answers>>

Or(tribool, default) == IF tribool = "" THEN default ELSE tribool = "true"

Inserts == global.insertUrls # <<>> /\ Or(request.insert, global.enableInsert)

\* A blacklisted expression ends the request with status 200.
Check ==
  LET own == IF request.url = <<>> /\ global.authorized THEN global.defaultUrls ELSE request.url
      Tag(links, inserted) == [i \in DOMAIN links |-> <<links[i], inserted>>]
  IN  /\ step = "check"
      /\ IF request.blacklisted THEN Error(200)
         ELSE IF own = <<>> /\ ~Inserts THEN Error(400)
         ELSE /\ step' = "links"
              /\ urls' = Tag(IF Inserts THEN global.insertUrls ELSE <<>>, TRUE) \o Tag(own, FALSE)
              /\ UNCHANGED <<scene, arg, found, subInfo, headers, uploads, answers>>

\* Files are read for authorized requests only.
Fails(link) == link.fails \/ (link.kind = "file" /\ ~global.authorized)

\* addNodes() for the next link, inserted ones first: it fails before it looks
\* for user info, and what it finds takes the place of what is there.
FailedLink ==
  /\ step = "links" /\ urls # <<>> /\ Fails(urls[1][1])
  /\ IF global.skipFailedLinks
     THEN urls' = Tail(urls) /\ UNCHANGED <<scene, step, arg, found, subInfo, headers, uploads, answers>>
     ELSE Error(400)

\* Mutant: the first info that is found stays.
Newer(info, old) == IF old = None THEN info ELSE old

Newest(info, old) == IF info = None THEN old ELSE info

GoodLink ==
  LET link == urls[1][1]
  IN  /\ step = "links" /\ urls # <<>> /\ ~Fails(link)
      /\ \E info \in InfoOf(link, stream_rules, time_rules) :
           subInfo' = Newest(info, subInfo)
      /\ found' = IF link.kept THEN Append(found, <<link.name, urls[1][2]>>) ELSE found
      /\ urls' = Tail(urls)
      /\ UNCHANGED <<scene, step, arg, headers, uploads, answers>>

Put(h, name, value) == [n \in DOMAIN h \cup {name} |-> IF n = name THEN value ELSE h[n]]

\* A HEAD request is answered before anything is generated.
Gathered ==
  LET told == IF subInfo # None /\ Or(request.append_info, global.appendUserinfo)
              THEN Put(headers, "Subscription-UserInfo", subInfo) ELSE headers
  IN  /\ step = "links" /\ urls = <<>>
      /\ IF found = <<>> THEN Error(400)
         ELSE IF request.method = "HEAD" THEN Return(200, told, "") /\ UNCHANGED <<scene, uploads>>
         ELSE /\ step' = "generate" /\ headers' = told
              /\ UNCHANGED <<scene, arg, urls, found, subInfo, uploads, answers>>

-----------------------------------------------------------------------------
(* Generation *)

IsClash == arg.target \in {"clash", "clashr"}
List    == request.list = "true"

NeedsBase == arg.target \in {"surfboard", "mellow", "sssub"}
             \/ (arg.target \in {"clash", "clashr", "surge", "quan", "quanx", "loon"} /\ ~List)

\* Rules are expanded, without a script, unless the request says otherwise; for
\* Clash it has to say so, or to ask for a script.
Expands == Or(request.expand, IsClash /\ request.script = "")

Content ==
  [target |-> arg.target, ver |-> arg.ver,
   new    |-> ~Expands \/ Or(arg.new_name, global.clashUseNewField),
   script |-> ~Expands /\ request.script = "true",
   prefix |-> ~Expands, list |-> List,
   nodes  |-> found,
   info   |-> IF arg.target = "ssd" THEN subInfo ELSE None]

\* The name under which it is uploaded: for Surge with the version of the
\* request's text, which has none when the client decides.
Path == <<IF arg.target = "mixed" THEN "sub" ELSE arg.target,
          IF arg.target = "surge" THEN request.ver ELSE 0,
          IF arg.target = "surge" /\ List THEN "list" ELSE "">>

\* Managed configurations begin with their address, once they are uploaded.
Managed == (arg.target = "surfboard" \/ (arg.target = "surge" /\ ~List)) /\ global.writeManagedConfig

Uploads == request.upload = "true" /\ (NeedsBase => arg.target \in scene.bases)

Generate ==
  LET timed == IF IsClash THEN Put(headers, "profile-update-interval", request.interval) ELSE headers
      named == IF request.filename # "" THEN Put(timed, "Content-Disposition", request.filename) ELSE timed
  IN  /\ step = "generate"
      /\ IF NeedsBase /\ arg.target \notin scene.bases
         THEN Return(400, timed, "error")
         ELSE Return(200, named, <<Managed, Content>>)
      /\ uploads' = IF Uploads
                    THEN uploads \cup {[of |-> Len(answers) + 1, path |-> Path, content |-> Content]}
                    ELSE uploads
      /\ UNCHANGED scene

Next == Resolve \/ Check \/ FailedLink \/ GoodLink \/ Gathered \/ Generate

Spec == Init /\ [][Next]_vars
-----------------------------------------------------------------------------
(* Properties *)

Both == Len(answers) = 2
First  == scene.requests[1]
Second == scene.requests[2]
Uploaded(i) == {u.content : u \in {x \in uploads : x.of = i}}

\* A request with target=auto gets what the request gets that names the format
\* of this client, its version and its field names: also the same upload,
\* though not under the same path.
AutoIsExplicit ==
  Both /\ First.target = "auto" /\ Second.target # "auto" =>
    answers[1] = answers[2] /\ Uploaded(1) = Uploaded(2)

\* A later version of a client never gets an older version of a format.
UpgradesKeep ==
  Both /\ First.target = "auto" /\ Second.target = "auto" /\ answers[1].status_code = 200 =>
    /\ answers[2].status_code = 200
    /\ answers[1].content[2].ver <= answers[2].content[2].ver
    /\ answers[1].content[2].new => answers[2].content[2].new

\* HEAD announces what GET delivers: the same status, unless the base of the
\* target is missing, and the same user info; and it uploads nothing.
HeadTellsTheSame ==
  LET info(a) == IF "Subscription-UserInfo" \in DOMAIN a.headers
                 THEN a.headers["Subscription-UserInfo"] ELSE None
  IN  Both /\ First.method = "HEAD" =>
        /\ First.target \in scene.bases => answers[1].status_code = answers[2].status_code
        /\ answers[2].status_code = 200 => answers[1].status_code = 200
        /\ answers[1].status_code = 200 => info(answers[1]) = info(answers[2])
        /\ Uploaded(1) = {}

\* A request that ends in an error has uploaded nothing and names no file.
ErrorsLeaveNothing ==
  \A i \in DOMAIN answers :
    answers[i].content = "error" => Uploaded(i) = {} /\ "Content-Disposition" \notin DOMAIN answers[i].headers

\* The links that tell something of their traffic or their end, in the order
\* in which they are fetched.
Tells(link) == ~Fails(link) /\ InfoOf(link, stream_rules, time_rules) # {None}

\* The user info of an answer is that of one link, the last that has any: never
\* the traffic of one subscription with the end of another, nor a sum.
InfoIsOfOneLink ==
  \A i \in DOMAIN answers :
    "Subscription-UserInfo" \in DOMAIN answers[i].headers =>
      LET r     == scene.requests[i]
          own   == IF r.url = <<>> THEN global.defaultUrls ELSE r.url
          all   == (IF Or(r.insert, global.enableInsert) THEN global.insertUrls ELSE <<>>) \o own
          tell  == SelectSeq(all, Tells)
      IN  /\ tell # <<>>
          /\ answers[i].headers["Subscription-UserInfo"]
               \in InfoOf(Last(tell), stream_rules, time_rules)

\* What is used and what is left make the total, and what is left is the share
\* of it that the name of a node says, to the rounding of one byte, unless that
\* share is all or nothing or more is left than there is.
TrafficAddsUp ==
  \A link \in UNION {ToSet(scene.requests[i].url) : i \in DOMAIN scene.requests} :
    LET stream == FirstOf(stream_rules, link.nodes)
        left   == streamToInt(Arg(stream, "left"))
        used   == streamToInt(Arg(stream, "used"))
        share  == stream.total.percent
    IN  \A t \in Traffic(stream) :
          /\ Arg(stream, "used") # None => t[1] = used
          /\ Arg(stream, "used") = None /\ Arg(stream, "left") # None /\ t[2] >= left => t[1] + left = t[2]
          /\ (/\ Arg(stream, "total") # None /\ "percent" \in DOMAIN stream.total /\ share \in 1..99
              /\ Arg(stream, "used") # None \/ Arg(stream, "left") # None)
               => LET rest == 100 * (t[2] - t[1]) - share * t[2] IN rest > -200 /\ rest < 200
=============================================================================
