---------------------------- MODULE ExternalConf ----------------------------
(***************************************************************************)
(* loadExternalConfig() of settings.cpp and what subconverter() of         *)
(* interfaces.cpp does with its result: the configuration a request names, *)
(* or the default one, laid over the preferences, and the arguments of the *)
(* request over both.                                                      *)
(*                                                                         *)
(* A file is a record:                                                     *)
(*   format   the reader it is meant for, "yaml", "toml" or "ini"          *)
(*   says     the settings it names, at the place where the example of its *)
(*            format has them, and their values                            *)
(*   bad      those of them whose value does not convert                   *)
(*   asINI    "accepted" or "refused": what INIReader::Parse makes of it   *)
(*   saysINI  what the INI reader finds in it, if it accepts it            *)
(* A base is "" or where it leads, a flag or a switch "undef", "false" or  *)
(* "true", and everything else a sequence of items.  Fetching, rendering,  *)
(* and the import of items (module ImportItems) are left out.              *)
(***************************************************************************)
EXTENDS ExternalSettings, Naturals, Sequences, FiniteSets, SequencesExt, Functions

CONSTANTS
  Files,        \* name -> file
  ConfRequests, \* [config, kind, args]: args maps arguments to their values
  Preferences,  \* settings of the server, with default_external_config
  maxAllowedRulesets

VARIABLES
  req, pref,
  file,       \* name of the configuration in use, "" if none
  stage,      \* "start", "yaml", "toml", "ini", "loaded", "alone", "last", "done"
  returned,   \* what loadExternalConfig() returned: "no call", "0" or "-1"
  todo,       \* settings the reader has not come to
  extconf,
  local_vars, \* variables of templates
  settings    \* the locals of subconverter() and its extra_settings

confVars == <<req, pref, file, stage, returned, todo, extconf, local_vars, settings>>

-----------------------------------------------------------------------------
(* The readers: the order in which each looks for the settings. *)

YAMLOrder ==
  <<"clash_rule_base", "surge_rule_base", "surfboard_rule_base", "mellow_rule_base",
    "quan_rule_base", "quanx_rule_base", "loon_rule_base", "sssub_rule_base",
    "enable_rule_generator", "overwrite_original_rules", "custom_proxy_group",
    "surge_ruleset", "rename", "add_emoji", "remove_old_emoji", "emoji", "include",
    "exclude", "template">>

TOMLOrder ==
  <<"enable_rule_generator", "overwrite_original_rules", "clash_rule_base",
    "surge_rule_base", "surfboard_rule_base", "mellow_rule_base", "quan_rule_base",
    "quanx_rule_base", "sssub_rule_base", "add_emoji", "remove_old_emoji", "include",
    "exclude", "custom.template", "custom_proxy_group", "surge_ruleset", "emoji", "rename">>

INIOrder ==
  <<"custom_proxy_group", "surge_ruleset", "clash_rule_base", "surge_rule_base",
    "surfboard_rule_base", "mellow_rule_base", "quan_rule_base", "quanx_rule_base",
    "loon_rule_base", "sssub_rule_base", "overwrite_original_rules",
    "enable_rule_generator", "rename", "add_emoji", "remove_old_emoji", "emoji",
    "include", "exclude", "template">>

\* struct ExternalConfig as it is constructed.
Fresh ==
  [k \in Settings |-> IF k \in Bases THEN ""
                      ELSE IF k = "enable_rule_generator" THEN "true"
                      ELSE IF k = "overwrite_original_rules" THEN "false"
                      ELSE IF k \in Switches THEN "undef" ELSE <<>>]

Said == IF stage = "ini" /\ Files[file].format # "ini" THEN Files[file].saysINI
        ELSE Files[file].says

\* ext.rename_array and ext.emoji_array are empty until something fills them.
ConfInit ==
  /\ req \in ConfRequests /\ pref \in Preferences
  /\ file = "" /\ stage = "start" /\ returned = "no call" /\ todo = <<>>
  /\ extconf = Fresh /\ local_vars = <<>>
  /\ settings = [k \in Settings |->
       IF k \in {"rename", "emoji"} THEN <<>>
       ELSE IF k \in Switches THEN "undef" ELSE pref[k]]

ConfigName == IF req.config = "" THEN pref.config ELSE req.config

Order(format) ==
  CASE format = "yaml" -> YAMLOrder
    [] format = "toml" -> TOMLOrder
    [] format = "ini"  -> INIOrder

\* A file has a name, and its settings where its reader looks.  The preferences
\* are loaded before there are requests.
ASSUME ExternalConfAssumption ==
  /\ maxAllowedRulesets \in Nat /\ "" \notin DOMAIN Files
  /\ \A f \in DOMAIN Files :
       LET c == Files[f]
       IN /\ c.format \in {"yaml", "toml", "ini"}
          /\ DOMAIN c.says \subseteq ToSet(Order(c.format))
          /\ \A k \in DOMAIN c.says \cap Switches : c.says[k] \in {"false", "true"}
  /\ \A r \in ConfRequests : r.kind \in Kinds /\ r.config \in DOMAIN Files \cup {""}
  /\ \A p \in Preferences :
       p.config \in DOMAIN Files \cup {""} /\ p["add_emoji"] \in {"false", "true"}

Choose ==
  /\ stage = "start"
  /\ file' = ConfigName
  /\ IF ConfigName = "" THEN stage' = "alone" /\ todo' = <<>>
     ELSE stage' = Files[ConfigName].format /\ todo' = Order(stage')
  /\ UNCHANGED <<req, pref, returned, extconf, local_vars, settings>>

-----------------------------------------------------------------------------
(* loadExternalConfig() *)

Reading == stage \in {"yaml", "toml"} \/ (stage = "ini" /\ Files[file].asINI = "accepted")

\* A value of the wrong type throws, in YAML and TOML, and the text goes to the
\* INI reader with what has been read so far.
Throws(k) == stage # "ini" /\ k \in Files[file].bad

TooMany(list) == maxAllowedRulesets # 0 /\ Len(list) > maxAllowedRulesets

\* What toml::format() makes of a string.
Formatted(items) == [i \in DOMAIN items |-> "\"" \o items[i] \o "\""]

\* A file gives at most one variable here: storing it replaces the others.
Take(k, value) ==
  IF k \in Templates
  THEN /\ local_vars' = IF k = "template" THEN value ELSE Formatted(value)
       /\ UNCHANGED extconf
  ELSE /\ extconf' = [extconf EXCEPT ![k] = value]
       /\ UNCHANGED local_vars

\* What is not there stays as it is, but the INI reader asks for a switch with
\* Get(), and an empty text is "undef".
Leave(k) ==
  /\ extconf' = IF stage = "ini" /\ k \in Switches THEN [extconf EXCEPT ![k] = "undef"]
                ELSE extconf
  /\ UNCHANGED local_vars

\* Mutant: the reader stops, and says that all went well.
FailReturns == stage' = "loaded" /\ returned' = "-1" /\ todo' = <<>>

Fail == stage' = "last" /\ returned' = "-1" /\ todo' = <<>>

Read ==
  /\ Reading /\ todo # <<>>
  /\ LET k == Head(todo) IN
       IF k \notin DOMAIN Said
       THEN todo' = Tail(todo) /\ Leave(k) /\ UNCHANGED <<stage, returned>>
       ELSE IF Throws(k)
       THEN stage' = "ini" /\ todo' = INIOrder /\ UNCHANGED <<returned, extconf, local_vars>>
       ELSE IF k = "surge_ruleset" /\ TooMany(Said[k])
       THEN Fail /\ UNCHANGED <<extconf, local_vars>>
       ELSE todo' = Tail(todo) /\ Take(k, Said[k]) /\ UNCHANGED <<stage, returned>>
  /\ UNCHANGED <<req, pref, file, settings>>

Refuse ==
  /\ stage = "ini" /\ Files[file].asINI = "refused"
  /\ Fail
  /\ UNCHANGED <<req, pref, file, extconf, local_vars, settings>>

Return ==
  /\ Reading /\ todo = <<>>
  /\ stage' = "loaded" /\ returned' = "0"
  /\ UNCHANGED <<req, pref, file, todo, extconf, local_vars, settings>>

-----------------------------------------------------------------------------
(* subconverter() *)

Simple   == req.kind \in {"simple", "simple nodelist"}    \* lSimpleSubscription
NodeList == req.kind \in {"nodelist", "simple nodelist"}

\* Mutant: a simple target takes policies and bases too.
UsesAll(k) == k \in TargetBases \cup Policies \cup Flags => ~NodeList

\* What a request of this kind takes from the configuration.
Uses(k) ==
  CASE k = "sssub_rule_base" -> ~NodeList
    [] k \in TargetBases \cup Policies \cup Flags -> ~NodeList /\ ~Simple
    [] OTHER -> TRUE

\* checkExternalBase(), the size() of lists, and the assignments without a test.
Counts(k) ==
  IF k \in Bases THEN extconf[k] \in {"link", "inside"}
  ELSE IF k \in Policies \cup NodeLists THEN extconf[k] # <<>>
  ELSE TRUE

Apply ==
  /\ stage = "loaded"
  /\ settings' = [k \in Settings |-> IF Uses(k) /\ Counts(k) THEN extconf[k] ELSE settings[k]]
  /\ stage' = "last"
  /\ UNCHANGED <<req, pref, file, returned, todo, extconf, local_vars>>

Given(arg) == arg \in DOMAIN req.args

ArgumentOf == [custom_proxy_group |-> "groups", surge_ruleset |-> "ruleset"]

\* Without a configuration the arguments `groups` and `ruleset` are looked at.
TakePolicies ==
  /\ stage = "alone"
  /\ settings' = [k \in Settings |->
       IF k \in Policies /\ Uses(k) /\ Given(ArgumentOf[k]) THEN req.args[ArgumentOf[k]]
       ELSE settings[k]]
  /\ stage' = "last"
  /\ UNCHANGED <<req, pref, file, returned, todo, extconf, local_vars>>

SwitchArgument == [add_emoji |-> "add_emoji", remove_old_emoji |-> "remove_emoji"]

\* tribool: `emoji` sets both, then the switch of its own, the configuration
\* and the preferences define what is not defined yet.
Switch(k) ==
  IF Given("emoji") THEN IF k = "add_emoji" THEN req.args["emoji"] ELSE "true"
  ELSE IF Given(SwitchArgument[k]) THEN req.args[SwitchArgument[k]]
  ELSE IF settings[k] # "undef" THEN settings[k]
  ELSE pref[k]

\* regValid() of a filter; the other arguments are taken as they are.
Valid(arg) == arg = "rename" \/ req.args[arg] # <<"(">>

List(k) ==
  IF k \in {"rename", "include", "exclude"} /\ Given(k) /\ Valid(k) THEN req.args[k]
  ELSE IF settings[k] # <<>> THEN settings[k]
  ELSE IF k = "rename" \/ (k = "emoji" /\ Switch("add_emoji") = "true") THEN pref[k]
  ELSE <<>>

Settle ==
  /\ stage = "last"
  /\ settings' = [k \in Settings |->
       IF k \in Switches THEN Switch(k) ELSE IF k \in NodeLists THEN List(k) ELSE settings[k]]
  /\ stage' = "done"
  /\ UNCHANGED <<req, pref, file, returned, todo, extconf, local_vars>>

ConfNext == Choose \/ Read \/ Refuse \/ Return \/ Apply \/ TakePolicies \/ Settle

ConfSpec == ConfInit /\ [][ConfNext]_confVars

-----------------------------------------------------------------------------
Done == stage = "done"
OfAnyTarget == NodeLists \cup Switches
Silent == DOMAIN req.args = {}    \* no argument of those that override
Sound == Files[file].bad = {}

\* The reader a text is meant for gives it up, and for the INI reader it is an
\* INI file, which says something else or nothing.
Mistaken ==
  Files[file].bad # {} /\ Files[file].format # "ini" /\ Files[file].asINI = "accepted"

\* What the file says of a setting, if it is something to go by.
Defines(k) ==
  /\ k \in DOMAIN Files[file].says
  /\ k \in Bases => Files[file].says[k] \in {"link", "inside"}
  /\ k \in Policies \cup NodeLists => Files[file].says[k] # <<>>

\* The settings a file without faults defines override the preferences, in
\* whatever format it is written: those of nodes for any target, the others
\* for a target that has bases and policies;
\* and the variables it gives are those of the templates.
DefinedOverrides ==
  Done /\ returned = "0" /\ Sound /\ Silent =>
    /\ \A k \in Settings :
         Defines(k) /\ (k \in OfAnyTarget \/ req.kind = "full") =>
           settings[k] = Files[file].says[k]
    /\ "template" \in DOMAIN Files[file].says => local_vars = Files[file].says["template"]

\* A setting is what it would be without configuration and arguments; a list
\* of emojis is not looked up when there are none to add.
FromPreferences(k) ==
  settings[k] = pref[k] \/ (k = "emoji" /\ settings["add_emoji"] = "false")

\* The preferences hold for a setting other than a flag that the file does not
\* name, and for the policies and bases of a target that has none.
OthersAreKept ==
  Done /\ file # "" /\ Sound /\ Silent =>
    \A k \in Settings \ Flags :
      \/ k \notin DOMAIN Files[file].says
      \/ k \notin OfAnyTarget \cup {"sssub_rule_base"} /\ req.kind # "full"
      => FromPreferences(k)

\* An argument goes before both: a filter that is a regular expression, a
\* renaming, and the switches of emojis, whatever the configuration says.
ArgumentsWin ==
  Done =>
    /\ \A k \in {"rename", "include", "exclude"} :
         Given(k) /\ Valid(k) => settings[k] = req.args[k]
    /\ Given("emoji") => settings["add_emoji"] = req.args["emoji"]
    /\ \A k \in Switches :
         Given(SwitchArgument[k]) /\ ~Given("emoji") => settings[k] = req.args[SwitchArgument[k]]

\* What the two flags are where a configuration is taken that does not name them.
Unnamed == [enable_rule_generator |-> "true", overwrite_original_rules |-> "false"]

\* The flags are the exception: a configuration that is taken sets both for a
\* target that has rules, whether it names them or not, and whatever the
\* preferences say (README-cn.md:1142 has it override with what it defines).
FlagsAreSet ==
  Done /\ (file = "" \/ Sound) =>
    \A k \in Flags :
      settings[k] = IF returned # "0" \/ req.kind # "full" THEN pref[k]
                    ELSE IF k \in DOMAIN Files[file].says THEN Files[file].says[k]
                    ELSE Unnamed[k]

\* So are groups and rulesets: their arguments count where no configuration is
\* in use, named or by default; otherwise not even where it is refused or has
\* nothing to say of them.
PoliciesAreChosen ==
  Done /\ (file = "" \/ Sound) =>
    \A k \in Policies :
      settings[k] = IF req.kind # "full" THEN pref[k]
                    ELSE IF file = "" /\ Given(ArgumentOf[k]) THEN req.args[ArgumentOf[k]]
                    ELSE IF returned = "0" /\ Defines(k) THEN Files[file].says[k]
                    ELSE pref[k]

\* An argument about nodes goes before the configuration, what the configuration
\* defines before the preferences, and those hold for everything else, except
\* for the flags and the policies, which are FlagsAreSet and PoliciesAreChosen.
PrecedenceIsKept ==
  ArgumentsWin /\ DefinedOverrides /\ OthersAreKept /\ FlagsAreSet /\ PoliciesAreChosen

\* A configuration that is refused in the end, for a fault or for too many
\* rulesets, changes no setting, though part of it has been read.  (Variables
\* that a TOML file gives before its rulesets are counted do stay.)
RefusedLeavesNoTrace ==
  Done /\ returned = "-1" /\ Silent => \A k \in Settings : FromPreferences(k)

\* Of all that the file defines, everything is in force or nothing.
AllOrNone ==
  Done /\ file # "" /\ ~Mistaken /\ Silent /\ req.kind = "full" =>
    LET says == {k \in Settings : Defines(k) /\ k \notin Files[file].bad
                                  /\ Files[file].says[k] # pref[k]}
    IN \/ \A k \in says : settings[k] = Files[file].says[k]
       \/ \A k \in says : settings[k] # Files[file].says[k]

\* A configuration is in force as a whole, or not at all, unless it is mistaken
\* for an INI file: never what stands before a value that does not convert,
\* without what stands behind it, and one that is refused changes no setting,
\* though part of it has been read.
WholeOrNothing == AllOrNone /\ RefusedLeavesNoTrace
=============================================================================
