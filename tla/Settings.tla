------------------------------ MODULE Settings ------------------------------
(***************************************************************************)
(* readConf() of src/src/lib/handler/settings.cpp, which fills the object  *)
(* `global` from a preference file in YAML, TOML or INI, at the start and  *)
(* again on every reload.                                                  *)
(*                                                                         *)
(* What matters is where each setting comes from.  A reader is a table of  *)
(* rows in the order of the code: some settings, the section of the file   *)
(* they are looked up in, and a rule for what becomes of those the file    *)
(* does not name.  A setting holds the file it was read from, the section, *)
(* and whether it is on (a flag that is true, a TTL or a list that is not  *)
(* empty).  Keys that only make sense together are one setting:            *)
(* enable_filter with filter_script, log_level with print_debug_info.  A   *)
(* load is one step: gMutexConfigure excludes other loads.                 *)
(***************************************************************************)
EXTENDS Naturals, Sequences, FiniteSets, SequencesExt

CONSTANTS
  Content,        \* preference files: name -> what the readers find in it
  Environment,    \* settings given by environment variables
  MaxLoads        \* bound: loads in a behaviour

Docs == DOMAIN Content

(***************************************************************************)
(* Content[d] is a record:                                                 *)
(*   format    "yaml", "toml" or "ini"                                     *)
(*   sections  the sections the file has                                   *)
(*   omits     settings of those sections it does not name                 *)
(*   off       settings it names and switches off                          *)
(*   broken    "none", "syntax", or the setting whose value does not       *)
(*             convert to its type                                         *)
(*   asINI     what INIReader::ParseFile makes of it: "refused", "empty"   *)
(*             (no section titles) or "sections"                           *)
(***************************************************************************)
ASSUME SettingsAssumption ==
  /\ MaxLoads \in Nat \ {0}
  /\ Environment \subseteq {"APIMode", "managedConfigPrefix", "accessToken"}
  /\ Docs \cap {"none", "default", "reset", "switched off", "environment"} = {}
  /\ \A d \in Docs :
       /\ Content[d].format \in {"yaml", "toml", "ini"}
       /\ Content[d].asINI \in {"refused", "empty", "sections"}
       /\ Content[d].format = "toml" => Content[d].asINI = "refused"

Row(section, rule, keys) == [section |-> section, rule |-> rule, keys |-> keys]

-----------------------------------------------------------------------------
(* readYAMLConf() *)

YAMLHead == <<
  Row("common", "named", <<"APIMode", "accessToken", "defaultUrls">>),
  Row("common", "always", <<"enableInsert">>),
  Row("common", "named", <<"insertUrls", "prependInsert", "excludeRemarks", "includeRemarks">>),
  Row("common", "always", <<"filterScript">>),
  Row("common", "named", <<"basePath", "clashBase", "surgeBase", "surfboardBase",
      "mellowBase", "quanBase", "quanXBase", "loonBase", "SSSubBase", "defaultExtConfig",
      "appendType", "proxyConfig", "proxyRuleset", "proxySubscription">>),
  Row("userinfo", "named", <<"streamNodeRules", "timeNodeRules">>),
  Row("node_pref", "present", <<"UDPFlag", "TFOFlag", "skipCertVerify", "TLS13Flag">>),
  Row("node_pref", "named", <<"enableSort", "sortScript", "filterDeprecated",
      "appendUserinfo", "clashUseNewField", "clashProxiesStyle", "renames">>),
  Row("managed_config", "named", <<"writeManagedConfig", "managedConfigPrefix",
      "updateInterval", "updateStrict", "quanXDevID">>),
  Row("surge_external_proxy", "named", <<"surgeSSRPath", "surgeResolveHostname">>),
  Row("emojis", "named", <<"addEmoji", "removeEmoji", "emojis">>)>>

YAMLTail == <<
  Row("ruleset", "named", <<"enableRuleGen">>),
  Row("ruleset", "switchedHere", <<"overwriteOriginalRules", "updateRulesetOnRequest">>),
  Row("ruleset", "named", <<"customRulesets">>),
  Row("proxy_groups", "named", <<"customProxyGroups">>),
  Row("template", "named", <<"templatePath", "templateVars">>),
  Row("aliases", "named", <<"aliases">>),
  Row("tasks", "named", <<"enableCron", "cronTasks", "schedule">>),
  Row("server", "named", <<"listenAddress", "listenPort">>),
  Row("server", "present", <<"serveFileRoot">>),
  Row("advanced", "present", <<"logLevel">>),
  Row("advanced", "named", <<"maxPendingConns", "maxConcurThreads", "maxAllowedRulesets",
      "maxAllowedRules", "maxAllowedDownloadSize">>),
  Row("advanced", "cache", <<"cacheSubscription", "cacheConfig", "cacheRuleset">>),
  Row("advanced", "cacheOn", <<"serveCacheOnFetchFail">>),
  Row("advanced", "named", <<"scriptCleanContext", "asyncFetchRuleset", "skipFailedLinks">>)>>

-----------------------------------------------------------------------------
(* readTOMLConf(); lists that are tables of their own are in the root. *)

TOMLHead == <<
  Row("common", "always", <<"defaultUrls", "insertUrls">>),
  Row("common", "named", <<"APIMode", "accessToken", "excludeRemarks", "includeRemarks",
      "enableInsert", "prependInsert", "defaultExtConfig", "basePath", "clashBase",
      "surgeBase", "surfboardBase", "mellowBase", "quanBase", "quanXBase", "loonBase",
      "proxyConfig", "proxyRuleset", "proxySubscription", "appendType">>),
  Row("common", "always", <<"filterScript">>),
  Row("userinfo", "always", <<"streamNodeRules", "timeNodeRules">>),
  Row("node_pref", "named", <<"UDPFlag", "TFOFlag", "skipCertVerify", "TLS13Flag",
      "enableSort", "sortScript", "filterDeprecated", "appendUserinfo",
      "clashUseNewField", "clashProxiesStyle">>),
  Row("node_pref", "always", <<"renames">>),
  Row("managed_config", "named", <<"writeManagedConfig", "managedConfigPrefix",
      "updateInterval", "updateStrict", "quanXDevID">>),
  Row("surge_external_proxy", "named", <<"surgeSSRPath", "surgeResolveHostname">>)>>

TOMLTail == <<
  Row("emojis", "named", <<"addEmoji", "removeEmoji">>),
  Row("emojis", "always", <<"emojis">>),
  Row("proxy_groups", "always", <<"customProxyGroups">>),
  Row("ruleset", "named", <<"enableRuleGen", "overwriteOriginalRules",
      "updateRulesetOnRequest">>),
  Row("rulesets", "always", <<"customRulesets">>),
  Row("template", "always", <<"templatePath", "templateVars">>),
  Row("aliases", "always", <<"aliases">>),
  Row("tasks", "always", <<"cronTasks">>),
  Row("server", "named", <<"listenAddress", "listenPort", "serveFileRoot">>),
  Row("advanced", "read", <<"logLevel">>),
  Row("advanced", "named", <<"maxPendingConns", "maxConcurThreads", "maxAllowedRulesets",
      "maxAllowedRules", "maxAllowedDownloadSize">>),
  Row("advanced", "read", <<"cacheSubscription", "cacheConfig", "cacheRuleset">>),
  Row("advanced", "named", <<"scriptCleanContext", "asyncFetchRuleset", "skipFailedLinks">>),
  Row("advanced", "always", <<"logLevel">>),
  Row("advanced", "cacheUnlessOff", <<"cacheSubscription", "cacheConfig", "cacheRuleset">>)>>

\* The tables toml::find() throws std::out_of_range for when they are missing.
Required == {"common", "node_pref", "managed_config", "surge_external_proxy", "emojis",
             "ruleset", "template", "server", "advanced"}

-----------------------------------------------------------------------------
(* readConf(), the part for INI *)

INIHead == <<
  Row("common", "named", <<"APIMode", "accessToken", "defaultUrls">>),
  Row("common", "always", <<"enableInsert">>),
  Row("common", "named", <<"insertUrls", "prependInsert", "excludeRemarks", "includeRemarks">>),
  Row("common", "always", <<"filterScript">>),
  Row("common", "named", <<"basePath", "clashBase", "surgeBase", "surfboardBase",
      "mellowBase", "quanBase", "quanXBase", "loonBase", "defaultExtConfig", "appendType",
      "proxyConfig", "proxyRuleset", "proxySubscription">>),
  Row("surge_external_proxy", "named", <<"surgeSSRPath", "surgeResolveHostname">>),
  Row("node_pref", "present", <<"UDPFlag", "TFOFlag", "skipCertVerify", "TLS13Flag",
      "sortScript">>),
  Row("node_pref", "named", <<"enableSort", "filterDeprecated", "appendUserinfo",
      "clashUseNewField", "clashProxiesStyle", "renames">>),
  Row("userinfo", "named", <<"streamNodeRules", "timeNodeRules">>),
  Row("managed_config", "named", <<"writeManagedConfig", "managedConfigPrefix",
      "updateInterval", "updateStrict", "quanXDevID">>),
  Row("emojis", "named", <<"addEmoji", "removeEmoji", "emojis">>)>>

INITail == <<
  Row("ruleset", "always", <<"enableRuleGen">>),
  Row("ruleset", "switched", <<"overwriteOriginalRules", "updateRulesetOnRequest">>),
  Row("ruleset", "gated", <<"customRulesets">>),
  Row("proxy_groups", "named", <<"customProxyGroups">>),
  Row("template", "named", <<"templatePath">>),
  Row("template", "items", <<"templateVars">>),
  Row("aliases", "present", <<"aliases">>),
  Row("tasks", "present", <<"enableCron", "cronTasks", "schedule">>),
  Row("server", "named", <<"listenAddress", "listenPort">>),
  Row("server", "always", <<"serveFileRoot">>),
  Row("advanced", "always", <<"logLevel">>),
  Row("advanced", "named", <<"maxPendingConns", "maxConcurThreads", "maxAllowedRulesets",
      "maxAllowedRules", "maxAllowedDownloadSize">>),
  Row("advanced", "cache", <<"cacheSubscription", "cacheConfig", "cacheRuleset",
      "serveCacheOnFetchFail">>),
  Row("advanced", "named", <<"scriptCleanContext", "asyncFetchRuleset", "skipFailedLinks">>)>>

-----------------------------------------------------------------------------
(***************************************************************************)
(* One reader at work: `sections` are those it finds, `section` is         *)
(* current_section of the INIReader, and `error` tells whether it has      *)
(* thrown.                                                                 *)
(***************************************************************************)
Settings == UNION {ToSet(row.keys) : row \in ToSet(YAMLHead \o YAMLTail)}

\* eraseElements() at the beginning of readConf()
Erased == {"excludeRemarks", "includeRemarks", "customProxyGroups", "customRulesets"}

\* settings.h: the flags and TTLs that are on before any file is read
OnAtFirst == {"APIMode", "prependInsert", "enableRuleGen", "overwriteOriginalRules",
              "appendUserinfo", "surgeResolveHostname", "filterDeprecated",
              "cacheSubscription", "cacheConfig", "cacheRuleset"}

Value(source, section, on) == [source |-> source, section |-> section, on |-> on]
Default(k) == Value("default", "", k \in OnAtFirst)
Reset      == Value("reset", "", FALSE)     \* assigned an empty value
SwitchedOff == Value("switched off", "", FALSE)

\* enableCron and the schedule of libcron follow the list of tasks.
Key(k) == IF k \in {"enableCron", "schedule"} THEN "cronTasks" ELSE k

Found(d, st, row, k) == row.section \in st.sections /\ Key(k) \notin Content[d].omits
Given(d, row, k) == Value(d, row.section, Key(k) \notin Content[d].off)

\* enable_cache
CacheFound(d, st)  == "advanced" \in st.sections /\ "enableCache" \notin Content[d].omits
CacheIsOff(d, st)  == CacheFound(d, st) /\ "enableCache" \in Content[d].off
CacheIsOn(d, st)   == CacheFound(d, st) /\ "enableCache" \notin Content[d].off

IfFound(d, st, row, k, else) == IF Found(d, st, row, k) THEN Given(d, row, k) ELSE else

\* What becomes of one setting of a row.
Assigned(d, st, row, k) ==
  LET old    == st.conf[k]
      here   == row.section \in st.sections
      named  == IfFound(d, st, row, k, old)
      ruleOn == st.conf["enableRuleGen"].on
  IN CASE row.rule = "named"          -> named
       [] row.rule = "always"         -> IfFound(d, st, row, k, Reset)
       [] row.rule = "present"        -> IfFound(d, st, row, k, IF here THEN Reset ELSE old)
       [] row.rule = "read"           -> old
       [] row.rule = "switched"       -> IF ruleOn THEN named ELSE SwitchedOff
       [] row.rule = "switchedHere"   -> IF ~here THEN old ELSE IF ruleOn THEN named ELSE SwitchedOff
       [] row.rule = "gated"          -> IF ruleOn THEN named ELSE old
       [] row.rule = "cache"          -> IF CacheIsOff(d, st) THEN SwitchedOff
                                         ELSE IF CacheIsOn(d, st) THEN named ELSE old
       [] row.rule = "cacheOn"        -> IF CacheIsOn(d, st) THEN named ELSE old
       [] row.rule = "cacheUnlessOff" -> IF CacheIsOff(d, st) THEN SwitchedOff ELSE named
       [] row.rule = "items"          -> IF st.section = "" THEN Reset
                                         ELSE Value(d, st.section, TRUE)

\* EnterSection() of a section that is missing leaves current_section alone.
\* Only GetItems(), for the template variables, asks for whatever is in it.
Enter(st, row) ==
  IF row.section \in st.sections THEN [st EXCEPT !.section = row.section] ELSE st

\* The values of a row are assigned in order, up to one that does not convert.
Assign(d, reader, st, row) ==
  LET throws(k) == reader # "ini" /\ Key(k) = Content[d].broken /\ Found(d, st, row, k)
      reached   == {row.keys[i] : i \in {n \in DOMAIN row.keys :
                                           \A m \in 1..n : ~throws(row.keys[m])}}
  IN [st EXCEPT !.conf  = [k \in Settings |-> IF k \in reached THEN Assigned(d, st, row, k)
                                                               ELSE @[k]],
                !.error = IF reached = ToSet(row.keys) THEN @ ELSE "conversion"]

ReadRow(d, reader, st, row) ==
  IF st.error # "none" THEN st
  ELSE IF reader = "toml" /\ row.section \in Required \ st.sections
  THEN [st EXCEPT !.error = "out_of_range"]
  ELSE Assign(d, reader, Enter(st, row), row)

Rows(reader) ==
  CASE reader = "yaml" -> YAMLHead \o YAMLTail
    [] reader = "toml" -> TOMLHead \o TOMLTail
    [] reader = "ini"  -> INIHead \o INITail

Read(d, reader, conf, sections) ==
  LET read(st, row) == ReadRow(d, reader, st, row)
  IN FoldLeft(read, [conf |-> conf, sections |-> sections, section |-> "", error |-> "none"],
              Rows(reader))

-----------------------------------------------------------------------------
(* readConf() *)

\* Mutant: the rulesets of the file before are not erased.
EraseNotRulesets(conf) ==
  [k \in Settings |-> IF k \in Erased \ {"customRulesets"} THEN Reset ELSE conf[k]]

Erase(conf) == [k \in Settings |-> IF k \in Erased THEN Reset ELSE conf[k]]

\* Mutant: the result of ParseFile() is not looked at.
ReadINIUnchecked(d, conf) ==
  [conf    |-> Read(d, "ini", conf, IF Content[d].asINI = "sections" THEN Content[d].sections
                                                                     ELSE {}).conf,
   outcome |-> IF Content[d].asINI = "refused" THEN "refused" ELSE "complete"]

\* The last resort, for a file that is not YAML nor TOML or that has thrown.
ReadINI(d, conf) ==
  LET found == IF Content[d].asINI = "sections" THEN Content[d].sections ELSE {}
  IN IF Content[d].asINI = "refused" THEN [conf |-> conf, outcome |-> "refused"]
     ELSE [conf |-> Read(d, "ini", conf, found).conf, outcome |-> "complete"]

\* Mutant: what conversion throws is taken for the end of the file.
ReadNativeSwallows(d, conf) ==
  LET st == Read(d, Content[d].format, conf, Content[d].sections)
  IN IF Content[d].format = "ini" \/ Content[d].broken = "syntax" THEN ReadINI(d, conf)
     ELSE [conf |-> st.conf, outcome |-> "complete"]

\* Only a file with a section `common` is tried as YAML.
ReadNative(d, conf) ==
  LET c  == Content[d]
      st == Read(d, c.format, conf, c.sections)
  IN IF \/ c.format = "ini" \/ c.broken = "syntax"
        \/ c.format = "yaml" /\ "common" \notin c.sections
     THEN ReadINI(d, conf)
     ELSE CASE st.error = "none"         -> [conf |-> st.conf, outcome |-> "complete"]
            [] st.error = "conversion"   -> ReadINI(d, st.conf)
            [] st.error = "out_of_range" -> [conf |-> st.conf, outcome |-> "thrown"]

ReadConf(d, conf) == ReadNative(d, Erase(conf))

-----------------------------------------------------------------------------
VARIABLES
  conf,         \* global
  phase,        \* "starting", "configured", "serving" or "dead"
  last,         \* the file read last
  outcome,      \* how that ended: the last line readConf() logs
  loads

vars == <<conf, phase, last, outcome, loads>>

Init ==
  /\ conf = [k \in Settings |-> Default(k)]
  /\ phase = "starting"
  /\ last = "none"
  /\ outcome = "none"
  /\ loads = 0

Load(d) ==
  LET result == ReadConf(d, conf)
  IN /\ loads < MaxLoads
     /\ loads' = loads + 1
     /\ conf' = result.conf
     /\ outcome' = result.outcome
     /\ last' = d

\* main(): nobody catches what readConf() throws.
Start(d) ==
  /\ phase = "starting"
  /\ Load(d)
  /\ phase' = IF outcome' = "thrown" THEN "dead" ELSE "configured"

\* main(): environment variables override the file, this once.
ReadEnvironment ==
  /\ phase = "configured"
  /\ phase' = "serving"
  /\ conf' = [k \in Settings |-> IF k \in Environment THEN Value("environment", "", TRUE)
                                                      ELSE conf[k]]
  /\ UNCHANGED <<last, outcome, loads>>

\* A handler calls readConf(), of the file as it is by then; what it throws
\* becomes an answer 500.
Reload(d) ==
  /\ phase = "serving"
  /\ Load(d)
  /\ UNCHANGED phase

Next ==
  \/ \E d \in Docs : Start(d) \/ Reload(d)
  \/ ReadEnvironment

Spec == Init /\ [][Next]_vars

-----------------------------------------------------------------------------
\* The four lists are those of the file read last, or empty, however that load
\* ended: rulesets, groups or filters of an older file never survive a reload.
ListsFollowFile ==
  phase # "starting" => \A k \in Erased : conf[k] = Reset \/ conf[k].source = last

\* What libcron runs and the switch of the ticks agree, whatever has been
\* loaded, half loaded or refused; and as long as the list that /cron shows is
\* not that of a TOML file, whose reader fills the list and nothing else, it is
\* what libcron runs.
FromFile(k) == conf[k].source \in Docs
FromTOML(k) == FromFile(k) /\ Content[conf[k].source].format = "toml"

ScheduleIsTasks ==
  /\ conf["enableCron"] = conf["schedule"]
  /\ FromFile("cronTasks") /\ ~FromTOML("cronTasks") => conf["schedule"] = conf["cronTasks"]

\* Custom template variables come from the section that is there for them, if
\* their file has one.
TemplateVarsAreTheirs ==
  LET v == conf["templateVars"]
  IN FromFile("templateVars") /\ "template" \in Content[v.source].sections
       => v.section = "template"

\* Nothing in force is left over from another file, list or section, whichever
\* loads came before.
NothingIsStale == ListsFollowFile /\ ScheduleIsTasks /\ TemplateVarsAreTheirs

\* A server that has an access token never loses it by a reload, failed ones
\* and changes of format included.
TokenIsKept ==
  [][conf["accessToken"].source # "default"
       => conf'["accessToken"].source \notin {"default", "reset"}]_vars

\* A file that no parser accepts empties the four lists and changes nothing else.
RefusedFileChangesNothingElse ==
  [][outcome' = "refused" /\ loads' # loads /\ Content[last'].broken = "syntax"
       => \A k \in Settings \ Erased : conf'[k] = conf[k]]_vars

\* What a reload may never take away, however it ends.
ReloadsKeep == TokenIsKept /\ RefusedFileChangesNothingElse
=============================================================================
