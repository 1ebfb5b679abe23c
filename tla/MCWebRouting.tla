---------------------------- MODULE MCWebRouting ----------------------------
(***************************************************************************)
(* WebRouting for TLC: two workers, requests of every kind, and            *)
(* preferences of every format that name other aliases and roots, or none. *)
(* A history variable tells which requests have met a reload.              *)
(***************************************************************************)
EXTENDS WebRouting, TLC

VARIABLE met    \* workers whose request has met a reload

Ask(method, url) == [method |-> method, url |-> url, asks |-> {}, flagged |-> FALSE]

Reload == Ask("GET", <<"/readconf">>)
Update == Ask("POST", <<"/updateconf">>)
Clash  == Ask("GET", <<"/clash", "?", "url=a", "?", "b=1">>)
Mine   == Ask("GET", <<"/mine">>)
Other  == Ask("GET", <<"/other", "?", "url=a">>)
File   == Ask("GET", <<"/a.txt">>)
Index  == Ask("GET", <<"/">>)
Sub    == Ask("HEAD", <<"/sub", "?", "url=a">>)

All == {Reload, Update, Clash, Mine, Other, File, Index, Sub, Ask("POST", <<"/clash">>),
        Ask("HEAD", <<"/a.txt">>), [Sub EXCEPT !.flagged = TRUE]}
       \cup {[Ask("OPTIONS", <<"/sub">>) EXCEPT !.asks = m] : m \in {{"GET"}, {"PUT"}}}

ToClash == <<"/clash", <<"/sub", "?", "target=clash">>>>
ToMine  == <<"/mine", <<"/getprofile", "?", "name=a", "&", "token=t">>>>
ToOther == <<"/other", <<"/sub">>>>

\* An INI file with everything; one of YAML without a section `server`, one with
\* a section that names no root; one of TOML that names none either; and loads
\* that end early: after the aliases, before them, in the midst of them.
IniPref == [format |-> "ini", reached |-> TRUE, section |-> TRUE, server |-> TRUE,
            aliases |-> <<ToClash, ToOther>>, root |-> "www", ends |-> "completed"]

Seven ==
  <<IniPref,
    [IniPref EXCEPT !.format = "yaml", !.server = FALSE, !.aliases = <<ToMine, ToClash>>, !.root = ""],
    [IniPref EXCEPT !.format = "yaml", !.section = FALSE, !.aliases = <<>>, !.root = ""],
    [IniPref EXCEPT !.format = "toml", !.server = FALSE, !.aliases = <<ToClash>>, !.root = ""],
    [IniPref EXCEPT !.format = "yaml", !.aliases = <<ToClash, ToMine>>, !.root = "", !.ends = "empty"],
    [IniPref EXCEPT !.format = "toml", !.aliases = <<ToOther, ToClash>>, !.root = "", !.ends = "thrown"],
    [IniPref EXCEPT !.reached = FALSE, !.aliases = <<>>, !.root = "", !.ends = "refused"]>>

\* A file of that name lies in the root of the file system too.
Directories == [www |-> {"/a.txt", "/index.html"}] @@ ("" :> {"/a.txt"})

Loading == mutex # Free

MCInit == Init /\ met = {}

MCNext ==
  /\ Next
  /\ met' = {w \in Workers : job'[w].at # "idle" /\ (w \in met \/ Loading \/ Loading')}

MCSpec == MCInit /\ [][MCNext]_<<vars, met>>

\* Is it a request for an alias that every version of the preferences has?
AsksForAlias(w) ==
  /\ ~job[w].req.flagged /\ job[w].req.method = "GET"
  /\ Route("GET", PathOf(w)) \notin Routes
  /\ \A i \in DOMAIN Prefs :
       Resets(Prefs[i]) \/ i = 1 => \E p \in Range(Prefs[i].aliases) : p[1] = PathOf(w)

\* An alias that every version of the preferences has is one to each request
\* for it that meets no reload, whatever has been reloaded before.
AliasesAnswer ==
  \A w \in Workers \ met : Answered(w) /\ AsksForAlias(w) => job[w].reply.status = 302

\* Files are served from a root that some preference file names, to requests
\* that meet no reload: an empty root disables them for good.
FilesAreOfARoot ==
  \A w \in Workers \ met :
    Answered(w) /\ job[w].reply.status = 200
      /\ job[w].req.method = "GET" /\ PathOf(w) \notin {r.path : r \in Routes}
    => job[w].reply.root # ""

\* Reloads beside requests leave the routes sound: the mutex keeps a load whole,
\* and a request that meets none finds the aliases and the root it should.
RoutesSurviveReloads == LoadsAreWhole /\ AliasesAnswer /\ FilesAreOfARoot
=============================================================================
