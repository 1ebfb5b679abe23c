----------------------------- MODULE MCSettings -----------------------------
(***************************************************************************)
(* Settings for TLC: preference files as the examples of the repository    *)
(* (pref.example.yml, .toml, .ini) lay them out, and variants of them.     *)
(* Documented gives, section by section, the settings those examples name; *)
(* it is independent of the tables of the readers.                         *)
(*                                                                         *)
(* In behaviours of their own, every list of at most MaxItems items grows, *)
(* and importItems(), which the readers call, is compared with what the    *)
(* items stand for.                                                        *)
(***************************************************************************)
EXTENDS Settings, ImportItems, TLC

CONSTANT MaxItems

VARIABLES
  target,       \* a list as the file gives it, item by item
  importing     \* is this a behaviour of the list?

Documented == [
  common |-> {"APIMode", "accessToken", "defaultUrls", "enableInsert", "insertUrls",
              "prependInsert", "excludeRemarks", "includeRemarks", "filterScript",
              "defaultExtConfig", "basePath", "clashBase", "surgeBase", "surfboardBase",
              "mellowBase", "quanBase", "quanXBase", "loonBase", "SSSubBase",
              "proxyConfig", "proxyRuleset", "proxySubscription", "appendType"},
  userinfo |-> {"streamNodeRules", "timeNodeRules"},
  node_pref |-> {"UDPFlag", "TFOFlag", "skipCertVerify", "TLS13Flag", "enableSort",
                 "sortScript", "filterDeprecated", "appendUserinfo", "clashUseNewField",
                 "clashProxiesStyle", "renames"},
  managed_config |-> {"writeManagedConfig", "managedConfigPrefix", "updateInterval",
                      "updateStrict", "quanXDevID"},
  surge_external_proxy |-> {"surgeSSRPath", "surgeResolveHostname"},
  emojis |-> {"addEmoji", "removeEmoji", "emojis"},
  ruleset |-> {"enableRuleGen", "overwriteOriginalRules", "updateRulesetOnRequest",
               "customRulesets"},
  proxy_groups |-> {"customProxyGroups"},
  template |-> {"templatePath", "templateVars"},
  aliases |-> {"aliases"},
  tasks |-> {"cronTasks"},
  server |-> {"listenAddress", "listenPort", "serveFileRoot"},
  advanced |-> {"logLevel", "maxPendingConns", "maxConcurThreads", "maxAllowedRulesets",
                "maxAllowedRules", "maxAllowedDownloadSize", "cacheSubscription",
                "cacheConfig", "cacheRuleset", "scriptCleanContext", "asyncFetchRuleset",
                "skipFailedLinks"}]

All == DOMAIN Documented

File(format, sections, omits, off, broken, asINI) ==
  [format |-> format, sections |-> sections, omits |-> omits, off |-> off,
   broken |-> broken, asINI |-> asINI]

Yaml(sections, omits, off, broken) == File("yaml", sections, omits, off, broken, "refused")
Toml(omits, off, broken) == File("toml", All \cup {"rulesets"}, omits, off, broken, "refused")
Ini(sections, omits, off) == File("ini", sections, omits, off, "none", "sections")

Unsound == File("ini", {}, {}, {}, "syntax", "refused")
TTLs == {"cacheSubscription", "cacheConfig", "cacheRuleset"}

\* Whole files, partial ones, some with switches off, some broken in the middle.
MCFiles == [
  yaml       |-> Yaml(All, {}, {}, "none"),
  yamlPart   |-> Yaml({"common", "node_pref", "template", "tasks"}, {"accessToken", "renames"},
                      {"cronTasks"}, "none"),
  yamlOff    |-> Yaml(All \ {"tasks"}, {}, {"enableRuleGen", "enableCache"}, "none"),
  yamlBroken |-> Yaml(All, {}, {}, "updateInterval"),
  ini        |-> Ini(All, {}, {}),
  iniPart    |-> Ini({"common", "emojis", "proxy_groups"}, {"accessToken", "emojis"}, {}),
  iniOff     |-> Ini(All, {"templatePath"}, {"enableRuleGen", "enableCache"}),
  toml       |-> Toml({}, {}, "none"),
  tomlPart   |-> Toml({"accessToken", "customRulesets", "serveFileRoot", "cronTasks"},
                      {"enableRuleGen", "enableCache"}, "none"),
  tomlBroken |-> Toml({}, {}, "listenPort"),
  tomlLess   |-> [Toml({}, {}, "none") EXCEPT !.sections = @ \ {"emojis"}],
  unsound    |-> Unsound]

\* A file with a comment, a one-line file, a failed download, and a path where
\* there is nothing.
MCContents == [file |-> <<"l1", "#", "l2">>, short |-> <<"l3">>, failed |-> <<>>,
               nothing |-> NotFound]

-----------------------------------------------------------------------------
MCInit == Init /\ target = <<>> /\ importing \in BOOLEAN

ReadItem ==
  /\ importing /\ Len(target) < MaxItems
  /\ \E x \in Items : target' = Append(target, x)
  /\ UNCHANGED <<vars, importing>>

ReadFile == ~importing /\ Next /\ UNCHANGED <<target, importing>>

MCSpec == MCInit /\ [][ReadItem \/ ReadFile]_<<vars, target, importing>>

-----------------------------------------------------------------------------
\* What a file switches off, it need not set.
SwitchedOffBy(c) ==
  (IF "enableRuleGen" \in c.off
   THEN {"overwriteOriginalRules", "updateRulesetOnRequest", "customRulesets"} ELSE {})
  \cup (IF "enableCache" \in c.off THEN TTLs ELSE {})

\* Only the reader of YAML looks for sssub_rule_base, which the examples of all
\* three formats set: the base in force is never that of an INI or TOML file.
Unread(c) == IF c.format = "yaml" THEN {} ELSE {"SSSubBase"}

\* When readConf() says that it is complete, every setting of the examples that
\* the file names holds what the file says, whatever was loaded before, but
\* those that no reader of its format looks for.
\* "Load preference settings in ... format completed."
CompleteLoadIsComplete ==
  outcome = "complete" =>
    LET c == Content[last]
    IN \A s \in All \cap c.sections : \A k \in (Documented[s] \ c.omits) \ SwitchedOffBy(c) :
         IF k \in Unread(c) THEN conf[k].source # last ELSE conf[k].source \in {last, "environment"}
-----------------------------------------------------------------------------
lines  == ImportedLines(target)
tables == ImportedTables(target)

\* What an item stands for.
Expansion(x) ==
  LET kept(line) == line # Skipped
  IN IF x \in Plain THEN <<x>>
     ELSE IF Contents[x] = NotFound THEN <<>> ELSE SelectSeq(Contents[x], kept)

Expanded == FlattenSeq([i \in DOMAIN target |-> Expansion(target[i])])

GivesSomething(x) == x \in Plain \/ Contents[x] \notin {NotFound, <<>>}

AllGiveSomething == \A i \in DOMAIN target : GivesSomething(target[i])

\* A list whose imports can all be read becomes its expansion in place, in
\* order, in each of the formats; the order of rules decides which one matches.
ImportsExpandInPlace ==
  AllGiveSomething =>
    lines.returns = "0" /\ lines.items = Expanded /\ tables = Expanded

\* Imports that fail, in whatever mixture with others, never cost an item that
\* the list itself holds, nor its place among the others.
OwnItemsSurvive ==
  LET own(x) == x \in Plain
      kept == SelectSeq(target, own)
  IN SelectSeq(lines.items, own) = kept /\ SelectSeq(tables, own) = kept

\* Importing neither reorders nor loses: what a list holds stays in its place,
\* and what it imports comes in where the import stands.
ImportsAreInPlace == ImportsExpandInPlace /\ OwnItemsSurvive
=============================================================================
