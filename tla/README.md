# A TLA+ model of subconverter

subconverter is an HTTP service that fetches proxy subscriptions, filters and
renames their nodes, arranges them in proxy groups and rulesets, and writes the
result as a configuration for one of a dozen clients (Clash, Surge, Quantumult,
Loon, ...).  This directory holds TLA+ modules of its stateful parts, TLC
configurations that check them on small instances, and proofs that TLAPS
checks for every instance.

    tlc -workers 2 -config MCRWLock.cfg MCRWLock     # one run
    tlapm RWLockProofs.tla                           # one module of proofs

`PROJECT.json` lists every component, run, finding, hazard and theorem, and maps
each definition to the lines of `src/` that it models.

## 1. The system

### Threads

| thread | code | what it does |
|---|---|---|
| main | `main.cpp`, `start_web_server_multi` | reads the preferences, starts the workers, then every 200 ms ticks the cron scheduler, whose scripts it runs itself, until `SERVER_EXIT_FLAG` is set |
| `max_concurrent_threads` workers (4) | `webserver_libevent.cpp` | a libevent loop each over one shared listening socket; a request is handled from start to end by one worker |
| helpers of `std::async` | `multithread.cpp` | one per download when `async_fetch_ruleset` is set |

### Components

| component | state it keeps | operations | who uses it | what is hard | what makes it correct |
|---|---|---|---|---|---|
| cache lock (`class RWLock`, webget.cpp) | two atomic counters, the id of the writer | readLock, readUnlock, writeLock, writeUnlock | every download, /flushcache | spin loops over several atomics | a writer is alone; unlocks match; nobody starves behind readers |
| download cache (webget.cpp) | `cache/<md5>`, `cache/<md5>_header`, their age | webGet, flushCache | subscriptions, rulesets, external configurations, imports | checks outside the lock, two files per entry, crashes, broken transfers | answers are whole, header and body belong together, the cache covers an outage |
| INI store (ini_reader.h) | map of sections, their order, entered section, cached iterator | Parse, Get*, Set, Erase, Rename, ToString | preferences, external configurations, Surge bases, gistconf.ini | flags that filter titles, iterators that outlive their nodes | the list of sections is the content; the cache is never stale; what is written is read back |
| preferences (settings.cpp `readConf`) | `global` | the readers of YAML, TOML and INI | main, /readconf, /updateconf, every /sub outside API mode | exceptions half way, fallback to the next format, settings left over | a load that says "completed" is complete |
| imports (settings.cpp `importItems`) | locals | lines, TOML tables | preferences, external configurations | a buffer reused by all imports | imports expand in place and failures are reported |
| rulesets (settings.cpp, main.cpp, interfaces.cpp) | `customRulesets`, `rulesetsContent`, `gMutexConfigure` | /sub, /readconf, /updateconf, /refreshrules | workers | reloads and refreshes beside requests, without a lock | an answer carries its own rulesets |
| server threads | backlog, per-thread state, exit flag | accept, answer, cron tick, signal | everything | the server downloads from itself; shutdown | no cycle of waits; every request is answered; the server stops |
| routing (webserver_libevent.cpp `process_request`, `on_request`) | routes, `redirect_map` | OPTIONS, routes, redirects, files, authentication | workers | order of the checks, errors | one answer per request, with the right code |
| external configuration (settings.cpp, interfaces.cpp) | `ExternalConfig` | loadExternalConfig in three formats | /sub, /surge2clash | precedence of argument, file and preference | the file chosen counts, whole |
| request handler /sub (interfaces.cpp `subconverter`) | locals | arguments, gathering, filters, groups, export | workers | long order of steps with early returns | the nodes asked for, all of them |
| profiles and artifacts (`getProfile`, `simpleGenerator`) | profiles, generate.ini | /getprofile, `-g` | workers, main in generator mode | one reader for many files | an artifact is that of its profile |
| node pipeline (nodemanip.cpp, subexport.cpp `applyMatcher`) | node list | addNodes, filterNodes, preprocessNodes | /sub | ids of links, filters, renames | groups tell links apart; no node is lost |
| rule conversion (ruleconvert.cpp) | a counter of rules | rulesetToClash, rulesetToSurge, ... | exporters | the limit | no more rules than allowed |
| exporters (subexport.cpp) | name list, node list, locals that outlive an iteration | proxyTo* | /sub | names, skipped nodes, groups without members | unique names; groups refer to what is there |
| gist upload (upload.cpp) | gistconf.ini, the remote gist | uploadGist | /sub, the generator | read, remote call, write, without a lock | links stay current; the token is kept |
| shared lists (multithread.cpp `safe_*`) | four lists with a mutex each | get, set | node pipeline, readConf | nothing left to interleave | - |
| parsers (subparser.cpp) | locals that outlive an entry | explodeConfContent, explodeSub, explode, a parser per format | addNodes | many formats tried in turn, variables declared before the loops, documents from elsewhere | an entry becomes its own node, once |
| subscription info (infoparser.cpp) | the info found so far | getSubInfoFrom Nodes, Header, SSD | addNodes, /sub | four sources, unsigned arithmetic | amounts add up and are of one link |
| user agents (`matchUserAgent`, interfaces.cpp) | a table | a look-up with versions | /sub with `target=auto` | order of the rows, versions | a client gets its format, and keeps it after an upgrade |
| templates, script engine, string and MD5 helpers | none | | | data rather than control | - |

Components interact by calls inside one thread, except: `global` (written by
`readConf`, read by every handler), the files of `cache/`, `gistconf.ini`, the
preference file, `redirect_map`, the cron schedule, and HTTP requests of the
server to itself.  What a unit test would hardly reach is listed in
`PROJECT.json` under "hazards", each at its line with the properties that watch
it.

## 2. The plan

The modules, in the order in which they were written; the state
most requests share comes first.

| step | modules | about |
|---|---|---|
| 1 | `SharedExclusive`, `RWLock`, `WebCache` | the cache of downloads and its lock |
| 2 | `INIReader` | the store every INI file goes through |
| 3 | `Rulesets`, `Settings`, `ImportItems` | the preferences, what a reload replaces, and requests beside it |
| 4 | `Server`, `WebRouting` | threads, connections, routes |
| 5 | `Gist` | uploads |
| 6 | `Matcher`, `Nodes`, `ExternalConf`, `RuleConvert`, `ClashProviders`, `Export` | a `/sub` request from its links to its configuration |
| 7 | `Generator` | `getProfile` and `simpleGenerator`: one INI reader for many profiles, what survives from one artifact to the next |
| 8 | `SubInfo`, `Subconverter` | traffic in unsigned integers; user agents, arguments, the answer with its headers and uploads |
| 9 | `Proxies`, `Links`, `Entries`, `Parsers` | which parser takes a text, and what an entry inherits from the one before |
| 10 | `RWLockProofs`, `WebCacheProofs`, `ServerProofs` | what `rwlock` and `cache` check but liveness; waits of the server |
| 11 | `RulesetsProofs`, `WebRoutingProofs`, `SettingsProofs` | the three views of `readConf()`: what a reload replaces, what requests beside it get, what no reload takes away |
| 12 | `GistProofs` | gistconf.ini and its links, and the cached iterator of the store |
| 13 | `ExportProofs` | all that `export` checks: names, members of groups, lines |
| 14 | `ServerProofs`, second to fourth part | of the stages of a request: configurations over preferences and under arguments, the artifacts of the generator, and the nodes of links |

Left are proofs about the other stages of a request (`RuleConvert`,
`ClashProviders`, `Subconverter`) and about what `Parsed` makes of a text,
along the argument that `SettingsProofs` uses for `Read` (section 6), and the
rest of step 8: one request that runs all stages, with the results of one stage
as the inputs of the next.

How they are composed:

* `SharedExclusive` is what a shared/exclusive lock promises: who is inside.
  `RWLock` is shown to implement it, by TLC and by proof; `WebCache` takes the
  lock as one step, which that refinement justifies.
* `INIReader` is the pass over a text and, around it, the calls on an object.
  `Settings` and `ExternalConf` use what it establishes: whether the parser
  accepts a text, and what it finds.
* `Rulesets`, `Settings` and `WebRouting` are three views of `readConf()`: the
  lists that requests use meanwhile, what each reader does with each setting,
  and the redirects and the root of the web server.
* `Matcher` decides which nodes a rule selects, for `Nodes` and for `Export`.
* `Proxies` is what a node is, `Links` how one link gives one, `Entries` how one
  entry of a document does, `Parsers` which of them reads what: each extends the
  one before.  `Subconverter` extends `SubInfo`.
* `MCRequest` holds the stages of a request, and the generator, whose artifacts
  are such requests.  It extends `Nodes`, `ExternalConf` and `Generator`, whose
  invariants are then the ones that are proved, and instantiates the others.
  Each is explored on inputs of its own (`NodesInputs`, `RulesetInputs`, `ExternalConfInputs`, `ParsersInputs`, `SubconverterInputs`),
  wider than those the stages before it would hand over.

Conventions: a module `X` is the model, `MCX` its history variables and inputs
for TLC, `XInputs` inputs alone, `XProofs` its theorems.  A definition under a
comment that begins with "Mutant:" is a mistake that the code could contain and
does not; `PROJECT.json` says which property notices it.

## 3. The modules and the code

**RWLock** (webget.cpp:32-91).  One action per atomic access; `pc` is the place
in `readLock`, `readUnlock`, `writeLock` or `writeUnlock`.  `m_write_thread_id`
is read by other threads while its owner writes it, but only compared with the
reader's own id, so the race has one outcome.

**WebCache** (webget.cpp:169-391, file.cpp:23-115).  A thread in `webGet` or
`flushCache`, one action per file operation, since others run between two of
them.  Contents are version numbers; `Empty` and `Torn` are what a truncated
and a half written file hold.  The age of an entry is looked up outside the
lock, as in the code.  A transfer that breaks off after its status line has the
code 200 and no content.  A crash loses the threads and keeps the files.

**INIReader** (ini_reader.h:60-979).  `Parsed` is the pass over the lines of
a text as a fold; lines are titles, items and other lines.  Of the object, the
cached iterator is the key it points at, or `Dangling` once its section is
erased.

**Rulesets** (settings.cpp:266-806, interfaces.cpp:336-517,
main.cpp:153-246).  Every access to one of the two lists is a step, under
`gMutexConfigure` only where the code takes it.  Reading a vector in the middle
of a write is undefined; the model takes the mildest outcome, the value before
or after, so what it shows to go wrong goes wrong at least.

**Settings** (settings.cpp:302-1078).  A reader is a sequence of rows:
enter a section, take a setting if it is there, else keep it or reset it.
`ReadConf` runs the rows of the format, and those of INI after an exception.
**ImportItems** (settings.cpp:25-114): the loops over a list with imports, with
the buffer they share.

**Server** (webserver_libevent.cpp:137-427, webget.cpp:146-291,
main.cpp:93-114, cron.cpp:24-72).  A
connection waits in the backlog of the listening socket, a worker takes it, may
download from the server itself (a client that is a thread) and answers.  The
main loop ticks, runs scripts, and looks at the flag that a signal sets.

**WebRouting** (webserver_libevent.cpp:94-447, settings.cpp:712-1022,
main.cpp:187-291).
`redirect_map` is a function from URIs that a reload empties and refills while
requests look through it; a look-up that overlaps a refill may miss an entry.
Each format has its own conditions for the reset and for the root: TOML resets
always, YAML and INI when there are aliases; INI sets the root always, YAML with
a section `server`, TOML when it is named; and a load that stops after its
aliases leaves the older root beside them.
That it may crash instead is left out.  So are MIME types, headers and
authentication, which nothing switches on.

**Gist** (upload.cpp:30-113).  A request reads gistconf.ini, asks the service, writes
the file back; the service may fail, or answer into the void.

**Matcher, Nodes** (subexport.cpp:63-156, nodemanip.cpp:53-517,
interfaces.cpp:551-681).
A remark is a sequence of words, an expression the set of words it finds.
`GroupId` is unsigned and wraps at `Word`, 2^32 scaled down to 16.  What a link
parses to, and whether a download or a script works, are inputs here.
`given` is the request with its preferences, `links` what `urls` still holds,
`status` the code of the answer.  `MatchRange` says in closed form what the loop
over the terms computes: a negated term sets `match`, another one only adds to
it.  Filters select by places (`Kept`), which keeps their order in view.

**Proxies, Links, Entries, Parsers** (subparser.cpp:19-2150).  A document is
its format, the words in it that choose a parser, what it says once for all,
and its entries; an entry is the parts it has, under the names of the locals
they are read into.  A parser whose locals are declared before its loop is given them
and gives them back; one whose locals are declared within starts anew.  A
missing member of a JSON document that the code does not look for first is an
exception, and ends the request.  Characters, Base64, the options of a protocol
beyond one of each kind, and IPv6 brackets are abstracted: a text is what tells
entries apart.

**SubInfo** (infoparser.cpp:13-196, nodemanip.cpp:163-208).  Amounts are
unsigned and wrap, scaled down like `GroupId`; a day has `Day` seconds.
Dividing by zero is an outcome of its own.

**Subconverter** (interfaces.cpp:54-172, 290-895).  `subconverter()` in the order
of its checks; each of its returns is an action, and so is an upload, which a
return may follow.  Links and bases are given with the request: what their
downloads give, their user info, their nodes.  Two requests are answered one
after the other so that a property can compare their answers.

**Generator** (interfaces.cpp:1221-1417, main.cpp:273).  One
request, one response and one list of items for all artifacts, as in the code;
`getProfile` reads all profiles with one INI reader.  What `subconverter()`
answers to the arguments they make is given, a function of these arguments.

**ExternalConf** (settings.cpp:1086-1302, interfaces.cpp:306-537).  A file is
what each reader finds in it.  Fetching, rendering and import of items are left
out.  One thing the code does and no property mentions: variables of templates
that a TOML file gives before its rulesets are counted stay when it is refused.
Flags and policies do not follow the order of arguments, configuration and
preferences, and have properties of their own (`FlagsAreSet`,
`PoliciesAreChosen`).

**RuleConvert** (ruleconvert.cpp:10-455, `getRuleset` in interfaces.cpp:166-283).  A rule is its fields.  The characters of a
line, the interval of updates, remote rulesets of the base, and
`rulesetToClash()`, which nothing calls, are left out.  **ClashProviders**
(templates.cpp:312-552): keys are names with the words the code puts behind
them; a `std::string` that was moved from is empty, as it is in libstdc++.

**Export** (subexport.cpp).  The loops over nodes and groups of all targets
side by side: which nodes and groups are written, under which names, with which
members, and the locals that outlive an iteration.  Formats and options of a
line are left out but for the certificate check; so are quotes around names
with commas.  A group of type ssid without rules, where the code reads past the
end of a vector, is excluded by the assumption on `Groups`.

## 4. What the runs check

| run | distinct states | bounds, and why they are enough |
|---|---|---|
| `rwlock` | 39,300 | three threads: one that reads, one that writes, one that arrives between; every thread does both, so each role is taken by each.  One swap fails for no reason, which any iteration can be |
| `cache` | 1,527,927 | two threads that mix both kinds of call, or three that share a subscription and its two files; two versions of the content, so that "older" and "newer" exist; time to 2 around a TTL; one crash |
| `ini` | 159,069 | texts of up to five lines over an alphabet with a repeated title, an empty section, a line without "="; two sections with two names and up to three items for the calls |
| `rulesets` | 1,789,516 | two workers, of which each may reload, refresh or answer; two files that share a ruleset, one that has the rulesets fetched for every request, and an unreadable one; an external list; at most four entries of `rulesetsContent` (`Bounded`) |
| `settings` | 4,259 | four loads: a setting is set, reset, left over and set again.  One setting of each kind the readers tell apart; files that are whole, partial, switched off, broken, empty or unreadable, in each format.  Lists of four items with two imports |
| `server` | 68,724 | two workers and three clients: both workers may wait for themselves with one client left; a backlog of two; one download per request, since a second one finds its worker where the first one did |
| `routing` | 162,337 | two workers, seven preference files: INI with all there is, YAML without `server` or without aliases, TOML without a root, and loads that end before, in and after the aliases, in each of the ways they can |
| `gist` | 405,868 | two workers, two targets, a path that is the name of a target, three uploads: create, change and once more |
| `request` | 366,011 | gathering: two links of each list; rules: three rulesets; providers: three lists; configurations: one file of each format and fault; parsing: documents of up to two entries in each format (three for SSD and the configurations of Shadowsocks), each whole, short of a part, or of no use; answers: two requests by each kind of client, with each way to fail; generator: three artifacts, two profiles, one of them missing, empty or without a url.  Two neighbours show what one does to another, a third one comes between |
| `export` | 143,593 | up to four nodes out of eleven whose names clash with and without a number behind them, with TLS and without, of types that the target has, leaves out or cannot convert; two or three groups of nine kinds |

`export_ss` and `gist_race` end in a counterexample: section 7.

What each property says is in the comment above it.  Several are conjunctions of
parts that are stated, and explained, one by one, such as `AnswersAreWhole`,
`RulesAreKept` or `LinesAreOfTheirNodes`.  Some hold only where
nothing overlaps, and a history variable of the MC module says where: `barred`
(readers that arrived while a writer waited), `raced` and `met` (a request ran
beside a refresh or a reload), `disturbed` (an upload died or two ran side by
side).  The variables are functions of the past; they restrict nothing.

Symmetry (of threads) is declared in `cache` and `gist`, which check no liveness.  Deadlock is
checked unless a behaviour really ends: all loads, calls, uploads or lines are
used up, or the server has stopped.

## 5. Fairness

* `RWLock`: weak fairness of each thread's steps once it has called the lock.
  The operating system schedules every thread, and what happens inside is file
  access that ends.  Nobody has to call.
* `Server`: weak fairness of `Accept`, of `Reject` or `Handle`, and of `Answer`
  (an event loop that is not blocked goes on), `FetchEnds` (curl's time-out of
  15 seconds ends every download), `Tick` and `Sleep` (the main loop),
  `Interrupt` (the interrupt handler of QuickJS, installed for tasks that have a
  time-out) and `Exit`.  There is none for what a client or an operator does:
  `Connect` and the signal.

All other properties are safety properties.

## 6. What is proved

TLAPS checks these theorems, for every value of the constants.

| module | theorems | argument |
|---|---|---|
| `RWLockProofs` | `TypeCorrect`, `LockIsExclusive`, `CountersAreExact`, `UnlockNeverThrows`, `Refinement`, `WritersFirst` | `IInv` adds to the properties that the value a reader loaded and is about to swap is a natural number: otherwise a swap could turn the writer's mark into "no readers".  Each step moves one thread, and cardinalities change by one (`GotoCounts`).  The refinement follows step by step: the swaps are the begins, the stores the ends, all else stutters.  `WritersFirst` says of every reader that is barred where in `readLock` it can be: it is still at its first two loads, because a writer waits as long as anybody is barred, and that sends it back |
| `WebCacheProofs` | `NoAnswerIsTorn`, `HeadersStayWithTheirBody`, `AnswersStayWhole`, `OutageIsCovered`, `HitsAreFresh` | `Base`: types, and who is in the lock, a writer alone; so whoever changes a file meets no reader (`WriterIsAlone`).  On top of it one invariant for each theorem.  `NothingTorn`: a torn file has its writer in the middle of it.  `FilesAgree`: the two files of a url are of one download, or somebody is writing them; and what a call has read of one file belongs to the other.  `Outage`: the file of a covered call is whole, or being replaced by a whole one.  `FoundYoung`: what was young enough at the check has only been replaced by younger content, or flushed |
| `GistProofs` | `ConfStaysSound`, `LinksCurrent`, `CacheCoherence` | a gistconf.ini that is written is the one read with the section of one path changed, and the token stays in `common`, which is no path.  `LinksInv`: while uploads are not disturbed at most one is under way, begun with the file as it still is and with the newest version; every link leads to the one gist there is, whose files are at least as new as what was uploaded to them.  `CacheCoherence`, of `INIReader`, is inductive as it stands: each call that erases a section forgets a cache of it |
| `RulesetsProofs` | `TypeCorrect`, `ReloadsExclude`, `ExternalIsolation`, `ReloadReplaces`, `AnswersHaveTheirRules` | the mutex has one owner; between the erasing and the storing of a list nobody else stores one (`StaysErased`); the lists of requests with rulesets of their own never become the global one.  `AnswersInv`: outside reloads and refreshes the contents are those of the list, a refresh has fetched the list up to its position, and a request that uses the contents wants that list |
| `ServerProofs` | `WaitsNeverChain`, `PrecedenceHolds`, `AllOrNothing`, `ArtifactsAreAlone`, `GroupsAreApart`, `NodesStayWhole` | a request that comes from the server itself is never handled by a download (the check of the `SubConverter-Request` header), so a waiting worker serves a client outside.  `ConfInv`: a reader has stored what it has come past, and nothing else (`IsRead`), unless the text is `Mistaken`; the settings of the request are as they began until a reader has come to the end (`LastIsSound`), and what is taken then from a file without faults is what it defines (`ApplyTakes`).  `GeneratorInv`: the header that waits in the response is of an artifact that failed, user info is reported for artifacts passed only, and each path holds what the last one that leaves something gives alone, or nothing of a download that failed (`Left`); since at most one answer to an argument is not the death of the process (`OneAnswer`), an artifact that is passed over has no good one (`NoneIsGood`).  `Flags` and policies are followed to the step that sets them.  `NodesInv`: at the end of the link `d` a list holds what the links up to `d` brought and placeholders, in that order, each link as one block (`Gathered`); a turn of the loop puts what addNodes() adds behind it (`GatherMore`) or may pass over the link (`GatherFailed`).  Since a host is of one link, a node tells its link and thereby its number (`LinksAreApart`), which the unsigned field gives back (`ReadBack`); the wrapped numbers put insert_url on its side of the others (`MergeLists`), and filter script, renames and sorting change neither link nor number (`AlikeLists`, `KeptNodes`, `SortedNodes`) |
| `WebRoutingProofs` | `LoadsStayWhole`, `RoutesSurvive` | `LoadInv`: between loads the redirects and the root are those of preference files, of one if either has set both (`Settled`); in a load the first entries of its list are in beside a root of some file (`AliasesGrow`), then its root is, or the one before where the file does not name any (`RootIsSet`).  `RequestInv`: a request that meets no load for an alias that every file has is on its way to its redirect |
| `SettingsProofs` | `NothingStaysStale`, `ReloadsLeaveTheRest` | `Follows`: what the settings keep to after each row of a table, against the settings before the load.  Each row keeps it (`RowStays`): the rules of a row leave a setting, take it from the file, or empty it, and `RowsFit` looks up in the tables which rules the lists, the tasks, the variables and the token have.  So does the fold over the table (`ReadStays`), and so does the reader that is tried next where the first one throws (`NativeIsRead`) |
| `ExportProofs` | `UniqueNames`, `NoGroupIsEmpty`, `GroupsFollow`, `LinesFollowTheirNodes` | among `Len + 1` numbers one gives a name not in a list of `Len` names (`SomeNumberIsFree`, by counting); what is written is recorded in `remarks_list`.  `NoGroupIsEmpty` follows each branch of `groupGenerate` and its callers to the place where "DIRECT" is put in, or the group left out.  `FollowInv`: the lines have the names taken, in `nodelist` is exactly what was written, and each policy has a group of the request it was made from.  `LinesInv`: each line is of a node of the request, with that node's link and check, but for the three locals of section 7, of which it says whose value they hold: that of the line before, or of the last VMess node, which the loop carries along (`Carried`) |

The assumptions are those on constants: finitely many threads, a null id that is
no thread, contents of a file that differ from each other and from versions,
nodes that have the fields of `Proxy`, groups whose rules are a list, and not an
empty one for ssid, preference files whose aliases and rulesets are lists and
whose names are no words for other sources, environment variables for the
settings that main() lets them replace, external configurations that have a name
and their settings where the reader of their format looks, preferences that say whether
emojis are added, and requests with fewer links than half the values of a group
id (2^31), whose nodes `Hostname` tells apart (it stands for all of a node that is
never rewritten).  Setups of the generator are any.  TLC checks each `ASSUME` on its instance.  Some
theorems add one of their own, stated where they are:

* `ExternalIsolation`: the rulesets of an external configuration are not those
  of a preference file.
* `HeadersStayWithTheirBody`: everybody asks for the headers, no transfer breaks
  off, and the process is not killed.  Without any one of them it fails.
* `AnswersHaveTheirRules`: API mode.  Outside it every request reloads, and
  section 7 says what becomes of its rules.
* `ConfStaysSound`, `LinksCurrent`: no upload goes to the path `common` (section
  7).

The theorems about `WebCache`, and `LinksCurrent`, `AnswersHaveTheirRules` and
`RoutesSurvive`, speak of `MCSpec`, which adds the history variables that the
properties name; for `WebCache` it also has one url and restricts behaviours to
one of two uses of it.  `NoAnswerIsTorn` and `HeadersStayWithTheirBody` are about
its `Spec`: any urls, calls and flushes.

**Folds.**  Induction over sequences takes a predicate as a parameter, which the
provers cannot instantiate, so there is no general theorem about what a fold
computes.  A given one can be unfolded: `FoldLeft` is a recursive function over
sets of positions, `FoldExists` shows that there is such a function, and among
the numbers of elements after which an invariant fails there would be a least
one (`LeastNumber`, from the well-foundedness of `<`), which the step from the
element before excludes (`NoneFails`).  Since these lemmas speak of one table or
one loop they are proved where they are used.

Only model-checked are:

* liveness, and everything that needs `ENABLED`;
* `ImportsAreInPlace`, and what `Parsed` makes of a text and the way back
  (`ParseIsFaithful`, `RoundTrip`): they, or the code they speak of, select from
  sequences with `SelectSeq` and `Remove`, of which the provers know no fact, not
  even that nothing is selected from `<<>>`;
* `CompleteLoadIsComplete`, whose reference are the example files of the
  repository, so that there is nothing to generalise over but those files;
* `NamesStayReadable`, about what the folds over renames and the sequence
  operators of the emoji code leave of a text; the proofs about `Nodes` use only
  that they change the remark and nothing else;
* the properties of the other stages in `request`, whose folds and recursive
  functions go over the rules and documents of a request, and
  `ProfilesAreJoined`, about the fold over its profiles.

## 7. Divergences

Places where the code does something other than a document, a comment or a log
line of the repository says.  Two are runs that end in a counterexample:

* `export_ss` (`LinksAreOfTheirNodes`, subexport.cpp:929): in a list of SS or
  SSR links a node that the type cannot express gets the link of the node
  before it, or an empty line, because `proxyStr` outlives the iteration.
  README-cn.md:336 says that such nodes are filtered out.
* `gist_race` (`LinksStayCurrentAlways`, upload.cpp:70): two uploads that run
  side by side each create a gist, and the link of one of them is never updated
  again.  README.md:104 says that the gist is updated when the link is accessed.

The others follow from definitions that the modules translate as they are; each
was a counterexample while the modules were written.  The last column says
which condition of a property, or which choice of inputs, sets them apart: a
property claims nothing there.

| code | what it does | what is said | set apart by |
|---|---|---|---|
| webget.cpp:355 | a transfer that breaks off after a status 200 (limit, time-out) is saved as an empty file over the cached one | README-cn.md:1102: a file over the limit is ignored | no property says that an answer is not empty |
| ini_reader.h:269 | a repeated section is dropped | ini_reader.h:124: "Allow a section title to appear multiple times." | `~Repeated` |
| ini_reader.h:285 | items before the first section are dropped when it begins | ini_reader.h:119: "Save isolated items before any section definitions." | items stand below a title |
| ini_reader.h:838 | a renamed section keeps its old title in the order, so neither is written | ini_reader.h:829: "Rename an existing section." | no action: nothing calls it |
| interfaces.cpp:337, 515 | a request reloads the rulesets but is answered from contents fetched for those before | README-cn.md:428: the file is read at every update | API mode, where requests do not reload |
| interfaces.cpp:515, settings.cpp:268-298 | `rulesetsContent` is copied while another worker refills it | settings.cpp:15: "multi-thread lock" | `~raced` |
| settings.cpp:608, 854 | neither the TOML nor the INI reader looks for `sssub_rule_base` | pref.example.toml:67 and pref.example.ini:60 set it | `Unread` in `CompleteLoadIsComplete` |
| settings.cpp:720 | the TOML reader keeps the tasks but schedules none | README-cn.md:1024: tasks run regularly | `ScheduleIsTasks` leaves the lists of TOML files out |
| settings.cpp:1077 | YAML text that fails half way is taken for an INI file without sections and "completed" | the log line at that place | broken files hold an INI error too |
| settings.cpp:1058 | `enable_cache = false` zeroes the times, and `true` later restores none | README-cn.md:1106: whether the cache is used | no property about the times after a switch |
| settings.cpp:985 | without `[template]` the items of the section before become its variables | pref.example.ini:220: the settings of `[template]` | `TemplateVarsAreTheirs` speaks of files that have the section |
| settings.cpp:50 | an import that is not found yields the lines of the import before | the log line "File not found or not a valid URL" | `AllGiveSomething`; other properties look at own items |
| cron.cpp:57 | a script without time-out is never interrupted, and holds up the end of the server | main.cpp:96: "Exiting gracefully..." | `ScriptTimeout` |
| webserver_libevent.cpp:420 | workers are not joined: requests being handled are dropped | the same line | "lost" is one end of a request |
| webserver_libevent.cpp:163 | a look-up overlaps the refill of `redirect_map`, and an alias is not found | README-cn.md:1005: the alias leads to its target | `met` |
| settings.cpp:1021 | a reload that disables files empties the root before it clears the flag | pref.example.ini:259: "keep empty to disable" | `met` |
| upload.cpp:110 | the path `common` erases the token | README-cn.md:313: the path is a name | it is not among `Paths` |
| interfaces.cpp:570 | `!!INSERT=0` finds no inserted node, `!!INSERT=1` those of the first link | README-cn.md:948: link n + 1; in its example (:955) 0 is the first | `GroupsTellLinksApart` says that inserted links are told apart from one of these numbers on, not from which; `!!INSERT=0` finds the nodes of the first url link |
| subexport.cpp:86 | `!!GROUPID=!2` selects inserted nodes too | README-cn.md:960: nodes of the subscription links | negated terms have no property |
| nodemanip.cpp:220 | a link without a node is never reported: its type is `Unknow`, not -1 | README-cn.md:1130: an error is returned | nodes of no type are not counted |
| nodemanip.cpp:218 | include and exclude expressions do not reach a node given as a link of its own | README-cn.md:490: nodes that match are left out | only nodes of subscriptions and files |
| interfaces.cpp:540 | in API mode a request without the token is not filtered by the script | README-cn.md:510: all nodes | the guard `HasEngine` of `Filter`; no property promises the script |
| interfaces.cpp:669 | the script's `filter()` removes the nodes it returns true for | README-cn.md:518: true keeps | which nodes a script removes is an input |
| subexport.cpp:1287 | for Quantumult X every name begins with "[] " when types are asked for | README-cn.md:327: the type, such as `[SS]` | `TypeIsOf`: the brackets are empty there |
| subexport.cpp:1134 | for Quantumult the check of a certificate is that of the last VMess node | README-cn.md:335: turned off for TLS nodes | `CheckIsOf`: HTTP and SOCKS5 lines have the check of the last VMess node before them |
| subexport.cpp:1722 | Mellow groups take `[]name` for an expression | README-cn.md:926: a reference to a group | a reference may be missing among the members |
| subexport.cpp:1896 | Loon leaves a load-balance group out and keeps references to it | README-cn.md:926 | no reference to such a group among the inputs |
| subexport.cpp:194 | the result of a script replaces what the rules before it selected | README-cn.md:939: rules add in turn | groups with a script need only have members |
| ruleconvert.cpp:215 | one rule more than `max_allowed_rules` is written | README-cn.md:1098: the maximum | `FirstMatchIsKept` claims that as many as allowed are written, and no upper bound |
| ruleconvert.cpp:91 | a GEOIP rule of a Quantumult X list keeps its policy | the comment "remove group" | `PolicyStays`, which `PolicyIsTheirs` leaves out |
| ruleconvert.cpp:347 | with `expand=true` Surge loses lists of other formats | README-cn.md:337: all rules in the subscription | `LeftOut`: exactly these lists are missing |
| ruleconvert.cpp:367 | Loon gets links of any format as they are | README-cn.md:893: five types are supported | `ReferencesAreRead` leaves Loon out |
| templates.cpp:391 | scripts without a prefix put all lists into one entry without a name | README-cn.md:333: makes a Clash script | a prefix in every request |
| templates.cpp:458 | "_domain" and "_ipcidr" may make two keys equal | README-cn.md:908: the rules are directed at their group | no file name ends in either |
| templates.cpp:454 | without `classic` a list of other rules reaches no group | README-cn.md:908 | `classic` where such rules are |
| templates.cpp:367 | a local file of a Clash type is given as an address | README-cn.md:798: local rulesets become links | local files are of other types |
| settings.cpp:1157 | the TOML reader does not look for `loon_rule_base` | README-cn.md:1142: what a configuration defines overrides the preferences | the TOML file omits it |
| settings.cpp:1174 | the TOML reader looks for `template_args` under `custom` | example_external_config.toml:28 has it at the root | it stands where the code looks |
| interfaces.cpp:472 | a configuration that names neither flag sets rule generation and overwriting to fixed values | README-cn.md:1142: what is defined overrides | `FlagsAreSet` says so; `OthersAreKept` is about the other settings |
| interfaces.cpp:488 | the arguments `groups` and `ruleset` are ignored as soon as there is a configuration, even one that is refused | no document speaks of them; other arguments go before a configuration | `PoliciesAreChosen` says so; `ArgumentsWin` is about the other arguments |
| settings.cpp:1218 | a YAML configuration that breaks off half way counts as a success of the INI reader, half of it in force | README-cn.md:1142 | `WholeOrNothing` leaves such files out (`Mistaken`) |
| interfaces.cpp:81 | ClashX before 0.13 fails its row, and gets the new field names from the row "Clash" below | README-cn.md:342: `new_name` enables them | `UpgradesKeep` asks that no later version gets older names |
| interfaces.cpp:110 | a version that is a proper prefix of the one wanted counts as later: "0" for "0.13" | interfaces.cpp:71: the version wanted | versions have as many parts as the rows |
| interfaces.cpp:137 | for `target=auto` the table replaces the `new_name` of the request | README-cn.md:342 | `AutoIsExplicit` compares with the names of the table |
| interfaces.cpp:754 | `target=auto` uploads for Surge as "surge" whatever the version | README-cn.md:313, the name of the upload | `AutoIsExplicit` leaves the path out |
| interfaces.cpp:1227 | an empty profile repeats the url of the profile before it | "Ignoring broken profile", the log line at :1223 | `ProfilesAreJoined`: an empty file stands for the one read before it |
| interfaces.cpp:1210, 1237 | where the first of several profiles has several url items, the joined list replaces the first of them and `subconverter()` takes the last | the log line "Trying to combine profiles", :1208 | `several` in `ProfilesAreJoined`: the last item of the first profile is all there is |
| interfaces.cpp:1237 | several profiles, the first without a url: a write through `end()` | the comment "check if more than one profile is provided", :1205 | an outcome "died" of its own |
| interfaces.cpp:1243 | the arguments of the request come last and win, so the token that a profile of its own asks for never authorizes | README-cn.md:381: the token for profiles | no property says who is authorized |
| interfaces.cpp:1367 | the generator gives the server's token, so a profile with a token of its own is forbidden | README-cn.md:1384: the file is generated | what a profile gives alone is the reference |
| interfaces.cpp:1384 | a direct download that fails overwrites the artifact with an empty file | "generate ERROR", the log line at :1379 | `Emptied` in `Left`: alone such an artifact gives nothing (-1), among others an empty file |
| interfaces.cpp:1413 | headers outlive an artifact that failed, and the next one is reported with its user info | the log line "User Info for artifact", :1410 | `InfoIsTheirs` ends at the first failure |
| nodemanip.cpp:201 | a local SSD file never gives its own user info: the text looked at is empty | README-cn.md:338: `append_info` | files are no SSD documents in `InfoOf` |
| infoparser.cpp:145, 150 | "total=100%" beside what is used, or 0 % beside what is left, divide by zero | README-cn.md:646, a rule that finds percentages | `TrafficAddsUp` leaves all and nothing out |
| ruleconvert.cpp:419 | Loon is referred to what `getRuleset` makes for Surge, AND, OR and NOT rules included, which it leaves out when lists are expanded | README-cn.md:337 | `ReferencesServe` compares with what Surge knows |

The parsers do the following, of which no document speaks; README-cn.md:122-137
only says which formats are sources.  `EntriesStandAlone` and `ServersAreTheirs`
list what is inherited (`Inherited`), and hold for all the rest:

* In Clash (subparser.cpp:1001-1008, 1037, 1028, 1138) a VMess node whose
  network has no options of its own gets path, host and edge of the node before;
  a plugin that is unknown, or has no options, those of the node before; a Snell
  node without `psk` its password.
* An SSD server without remarks has the name of the server before
  (subparser.cpp:379-454); in a Shadowsocks configuration the name by default is
  that of the server before, since it is made too early (:493-529).
* SSTap hands `ssrConstruct` the name in the place of the server and shifts all
  that follows (:1977); a libev configuration loses its password (:607-631).
* A V2Ray outbound without `wsSettings` or `tcpSettings` (:233, :244), and any
  member of a JSON document that is missing where it is not looked for, raises
  an exception that ends the whole request with a 500.
* A Netch configuration adds a node for an entry that cannot be read (:2010), a
  VMess link in standard form may have the port 0 (:1156-1198), and nodes from
  single links and single configurations have no number.

## 8. What is not modelled

* **The rest of interfaces.cpp**: `surgeConfToClash`, which chains a parser and a
  converter of its own without state, `renderTemplate`, `getConvertedRuleset`,
  the types of `getRuleset` other than those of Surge and Quantumult X,
  `/version`; and in `subconverter()` the options that only change the format of
  lines.
* **Characters** of links and documents, Base64, and options of protocols
  beyond one of each kind (`Links`, `Entries`).
* **Templates and scripts**: inja, QuickJS and the helpers they see come from
  outside; whether a rendering or a script succeeds, and what it returns, are
  inputs.
* **Helpers** for strings, Base64, URLs, MD5, regular expressions and logging,
  and the `safe_*` lists, each access to which is one critical section.
* **Environment variables** other than as a source of settings, Windows,
  build files, and vendored code.
* **Formats**: the fields of a line of a configuration, except where a property
  is about them.
