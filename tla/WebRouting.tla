----------------------------- MODULE WebRouting -----------------------------
(***************************************************************************)
(* How a request finds its answer (process_request of                      *)
(* webserver_libevent.cpp, the routes of main.cpp), while another worker   *)
(* reloads the preferences: readConf() rebuilds the redirects and the      *)
(* directory of files under a mutex that requests do not take.             *)
(*                                                                         *)
(* A preference file is a record:                                          *)
(*   format   "yaml", "toml" or "ini"                                      *)
(*   reached  does its reader get as far as the aliases?                   *)
(*   section  has it any, an empty list or section included?               *)
(*   aliases  those read, pairs <<uri, target>>, in the order of the code  *)
(*   server   does it name the root of files (TOML), or have a section     *)
(*            `server` where it would stand (YAML)?                        *)
(*   root     that root, "" for none                                       *)
(*   ends     how its load ends, if not past the root before that:         *)
(*            "completed"; "refused", with an exception that no other      *)
(*            reader makes up for; "empty", when the text is then taken    *)
(*            for an INI file without sections; or "thrown", with what     *)
(*            readConf() does not catch                                    *)
(*                                                                         *)
(* A URL is a sequence of tokens, with "?" and "&" among them.  A lookup   *)
(* in a map that is being rebuilt is a data race: it may miss what is      *)
(* there.  (It might also crash, which is left out.)  A file that is read  *)
(* again as INI is taken to be what it was.  Passwords are left out, since *)
(* nothing ever sets require_auth.                                         *)
(***************************************************************************)
EXTENDS Naturals, Sequences, SequencesExt, Functions

CONSTANTS
  Workers,
  Sent,         \* requests: [method, url, asks, flagged]
  Prefs,        \* the preference files there are, the first one in force at the start
  FilesUnder,   \* root -> paths of files below it
  APIMode

Free == "free"

\* reset_redirect(): YAML and INI files call for it by their aliases, TOML
\* files always.
Resets(p) == p.reached /\ (p.section \/ p.format = "toml")

\* serve_file_root is assigned: by an INI file always, if need be "".
SetsRoot(p) ==
  \/ p.ends = "completed" /\ (p.server \/ p.format = "ini")
  \/ p.ends = "empty"

\* serve_file is set anew: not by a YAML file without `server`, nor by a load
\* that does not get there.
Decides(p) == SetsRoot(p) \/ (p.ends = "completed" /\ p.format = "toml")

EndsOf(format) ==
  {"completed", "refused"} \cup (CASE format = "yaml" -> {"empty"}
                                  [] format = "toml" -> {"thrown"}
                                  [] format = "ini"  -> {})

IsPref(p) ==
  /\ p.format \in {"yaml", "toml", "ini"} /\ p.ends \in EndsOf(p.format)
  /\ p.reached \in BOOLEAN /\ p.section \in BOOLEAN /\ p.server \in BOOLEAN
  /\ p.ends = "completed" => p.reached
  /\ p.aliases \in Seq(Range(p.aliases)) /\ (~Resets(p) => p.aliases = <<>>)
  /\ p.root \in DOMAIN FilesUnder /\ (~SetsRoot(p) \/ p.ends = "empty" => p.root = "")

\* A first file that throws ends the program before it serves.
ASSUME RoutingAssumption ==
  /\ Free \notin Workers /\ APIMode \in BOOLEAN
  /\ Prefs # <<>> /\ Prefs \in Seq(Range(Prefs)) /\ Prefs[1].ends # "thrown"
  /\ \A i \in DOMAIN Prefs : IsPref(Prefs[i])

VARIABLES
  prefFile,       \* index of the file on disk
  redirect_map,
  serve_file, serve_file_root,
  mutex,          \* gMutexConfigure: the worker that holds it, or Free
  job             \* worker -> [at, req, todo, file, reply]; todo are the
                  \* aliases of the file it has yet to load

vars == <<prefFile, redirect_map, serve_file, serve_file_root, mutex, job>>

NoReply == [status |-> 0, location |-> <<>>, root |-> ""]
Idle == [at |-> "idle", req |-> <<>>, todo |-> <<>>, file |-> 0, reply |-> NoReply]

\* A later pair of one URI replaces an earlier one.
Store(map, pair) == [u \in DOMAIN map \cup {pair[1]} |-> IF u = pair[1] THEN pair[2] ELSE map[u]]

Init ==
  /\ prefFile = 1
  /\ redirect_map = FoldLeft(Store, <<>>, Prefs[1].aliases)
  /\ serve_file_root = Prefs[1].root /\ serve_file = (Prefs[1].root # "")
  /\ mutex = Free
  /\ job = [w \in Workers |-> Idle]

-----------------------------------------------------------------------------
(* Requests *)

Route(method, path) == [method |-> method, path |-> path]

\* The routes main() registers, each with its handler.
Routes ==
  {Route("GET", p) : p \in {"/version", "/refreshrules", "/readconf", "/flushcache", "/sub",
     "/sub2clashr", "/surge2clash", "/getruleset", "/getprofile", "/render", "/convert"}}
  \cup {Route("POST", "/updateconf"), Route("HEAD", "/sub")}
  \cup IF APIMode THEN {} ELSE {Route("GET", p) : p \in {"/get", "/getlocal"}}

\* The first "?" ends the path.
Path(url) ==
  IF "?" \in Range(url) THEN SubSeq(url, 1, SelectInSeq(url, LAMBDA t : t = "?") - 1) ELSE url

Argument(url) == SubSeq(url, Len(Path(url)) + 2, Len(url))

Text(tokens) == FoldLeft(LAMBDA a, t : a \o t, "", tokens)

PathOf(w) == Text(Path(job[w].req.url))

Goto(w, at) == job' = [job EXCEPT ![w].at = at]

Reply(w, status, location, root) ==
  job' = [job EXCEPT ![w].at = "answered",
                     ![w].reply = [status |-> status, location |-> location, root |-> root]]

Accept(w) ==
  /\ job[w].at = "idle"
  /\ \E r \in Sent : job' = [job EXCEPT ![w] = [Idle EXCEPT !.at = "accepted", !.req = r]]
  /\ UNCHANGED <<prefFile, redirect_map, serve_file, serve_file_root, mutex>>

\* "Loop request detected!"
RejectLoop(w) ==
  /\ job[w].at = "accepted" /\ job[w].req.flagged
  /\ Reply(w, 500, <<>>, "")
  /\ UNCHANGED <<prefFile, redirect_map, serve_file, serve_file_root, mutex>>

\* What is asked for is one method, or several behind ", ".
Preflight(w) ==
  /\ job[w].at = "accepted" /\ ~job[w].req.flagged /\ job[w].req.method = "OPTIONS"
  /\ LET found == \E m \in job[w].req.asks : Route(m, PathOf(w)) \in Routes
     IN Reply(w, IF found THEN 200 ELSE 404, <<>>, "")
  /\ UNCHANGED <<prefFile, redirect_map, serve_file, serve_file_root, mutex>>

FindRoute(w) ==
  /\ job[w].at = "accepted" /\ ~job[w].req.flagged /\ job[w].req.method # "OPTIONS"
  /\ LET route == Route(job[w].req.method, PathOf(w))
     IN Goto(w, IF route \notin Routes THEN "redirect"
                ELSE IF route = Route("GET", "/readconf") THEN "readconf"
                ELSE IF route = Route("POST", "/updateconf") THEN "updateconf" ELSE "handler")
  /\ UNCHANGED <<prefFile, redirect_map, serve_file, serve_file_root, mutex>>

\* The other handlers; what one throws is answered with 500.
Handle(w) ==
  /\ job[w].at = "handler"
  /\ \E status \in {200, 400, 403, 500} : Reply(w, status, <<>>, "")
  /\ UNCHANGED <<prefFile, redirect_map, serve_file, serve_file_root, mutex>>

Location(target, argument) ==
  IF argument = <<>> THEN target
  ELSE target \o <<IF "?" \in Range(target) THEN "&" ELSE "?">> \o argument

\* Between the reset and the last alias.
Rebuilding == \E w \in Workers : job[w].at = "aliases"

Redirect(w) ==
  /\ job[w].at = "redirect" /\ PathOf(w) \in DOMAIN redirect_map
  /\ Reply(w, 302, Location(redirect_map[PathOf(w)], Argument(job[w].req.url)), "")
  /\ UNCHANGED <<prefFile, redirect_map, serve_file, serve_file_root, mutex>>

NoRedirect(w) ==
  /\ job[w].at = "redirect"
  /\ PathOf(w) \notin DOMAIN redirect_map \/ Rebuilding
  /\ IF serve_file /\ job[w].req.method = "GET" THEN Goto(w, "file")
     ELSE Reply(w, 404, <<>>, "")
  /\ UNCHANGED <<prefFile, redirect_map, serve_file, serve_file_root, mutex>>

ServeFile(w) ==
  /\ job[w].at = "file"
  /\ LET name == IF PathOf(w) = "/" THEN "/index.html" ELSE PathOf(w)
     IN IF name \in FilesUnder[serve_file_root] THEN Reply(w, 200, <<>>, serve_file_root)
        ELSE Reply(w, 404, <<>>, "")
  /\ UNCHANGED <<prefFile, redirect_map, serve_file, serve_file_root, mutex>>

Finish(w) ==
  /\ job[w].at = "answered"
  /\ job' = [job EXCEPT ![w] = Idle]
  /\ UNCHANGED <<prefFile, redirect_map, serve_file, serve_file_root, mutex>>

-----------------------------------------------------------------------------
(* /readconf and /updateconf *)

\* The token is wrong, or what is to be written is neither form nor text.
Deny(w) ==
  /\ job[w].at \in {"readconf", "updateconf"}
  /\ \E status \in IF job[w].at = "readconf" THEN {403} ELSE {403, 501} :
       Reply(w, status, <<>>, "")
  /\ UNCHANGED <<prefFile, redirect_map, serve_file, serve_file_root, mutex>>

\* /updateconf writes the new preferences before it reads them.
CallReadConf(w) ==
  /\ job[w].at \in {"readconf", "updateconf"}
  /\ IF job[w].at = "readconf" THEN UNCHANGED prefFile ELSE prefFile' \in DOMAIN Prefs
  /\ Goto(w, "readConf")
  /\ UNCHANGED <<redirect_map, serve_file, serve_file_root, mutex>>

MayLoad == mutex = Free

\* Mutant: the redirects are not reset.
StartLoadKeeps(w) ==
  /\ job[w].at = "readConf" /\ MayLoad
  /\ mutex' = w
  /\ job' = [job EXCEPT ![w].at = "aliases", ![w].todo = Prefs[prefFile].aliases,
                        ![w].file = prefFile]
  /\ UNCHANGED <<prefFile, redirect_map, serve_file, serve_file_root>>

\* The file is read, and its reader gets to the aliases or stops before them.
StartLoad(w) ==
  /\ job[w].at = "readConf" /\ MayLoad
  /\ mutex' = w
  /\ redirect_map' = IF Resets(Prefs[prefFile]) THEN <<>> ELSE redirect_map
  /\ job' = [job EXCEPT ![w].at = "aliases", ![w].todo = Prefs[prefFile].aliases,
                        ![w].file = prefFile]
  /\ UNCHANGED <<prefFile, serve_file, serve_file_root>>

AppendRedirect(w) ==
  /\ job[w].at = "aliases" /\ job[w].todo # <<>>
  /\ redirect_map' = Store(redirect_map, Head(job[w].todo))
  /\ job' = [job EXCEPT ![w].todo = Tail(@)]
  /\ UNCHANGED <<prefFile, serve_file, serve_file_root, mutex>>

LoadedBy(w) == Prefs[job[w].file]

SetRoot(w) ==
  /\ job[w].at = "aliases" /\ job[w].todo = <<>> /\ Decides(LoadedBy(w))
  /\ serve_file_root' = IF SetsRoot(LoadedBy(w)) THEN LoadedBy(w).root ELSE serve_file_root
  /\ Goto(w, "switch")
  /\ UNCHANGED <<prefFile, redirect_map, serve_file, mutex>>

\* The load never gets to the root.
KeepRoot(w) ==
  /\ job[w].at = "aliases" /\ job[w].todo = <<>> /\ ~Decides(LoadedBy(w))
  /\ mutex' = Free
  /\ Reply(w, IF LoadedBy(w).ends = "thrown" THEN 500 ELSE 200, <<>>, "")
  /\ UNCHANGED <<prefFile, redirect_map, serve_file, serve_file_root>>

\* serve_file = !serve_file_root.empty(), and readConf() returns.
EndLoad(w) ==
  /\ job[w].at = "switch"
  /\ serve_file' = (serve_file_root # "")
  /\ mutex' = Free
  /\ Reply(w, 200, <<>>, "")
  /\ UNCHANGED <<prefFile, redirect_map, serve_file_root>>

Next ==
  \E w \in Workers :
    \/ Accept(w) \/ RejectLoop(w) \/ Preflight(w) \/ FindRoute(w) \/ Handle(w)
    \/ Redirect(w) \/ NoRedirect(w) \/ ServeFile(w) \/ Finish(w)
    \/ Deny(w) \/ CallReadConf(w)
    \/ StartLoad(w) \/ AppendRedirect(w) \/ SetRoot(w) \/ KeepRoot(w) \/ EndLoad(w)

Spec == Init /\ [][Next]_vars

-----------------------------------------------------------------------------
Answered(w) == job[w].at = "answered"

\* The redirects are those of file i, and the root is that of file j; files that
\* leave either alone have come between.
AliasesAre(i) ==
  /\ Resets(Prefs[i]) \/ i = 1
  /\ redirect_map = FoldLeft(Store, <<>>, Prefs[i].aliases)

RootIs(j) == (SetsRoot(Prefs[j]) \/ j = 1) /\ serve_file_root = Prefs[j].root

Together(i, j) == i = j \/ ~SetsRoot(Prefs[i]) \/ ~Resets(Prefs[j])

\* Between two loads the redirects are those of one preference file, as far as
\* its reader got, and the root is that of one; it is the same one if either
\* load has set both.  The switch for files agrees with the root.
LoadsAreWhole ==
  mutex = Free =>
    /\ \E i, j \in DOMAIN Prefs : AliasesAre(i) /\ RootIs(j) /\ Together(i, j)
    /\ serve_file = (serve_file_root # "")
=============================================================================
