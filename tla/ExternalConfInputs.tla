------------------------- MODULE ExternalConfInputs -------------------------
(***************************************************************************)
(* Requests for ExternalConf: in every format a file that names everything, *)
(* one that names little, one with too many rulesets, one with a value of  *)
(* the wrong type, and files of another server's default.                  *)
(***************************************************************************)
EXTENDS ExternalSettings, Sequences, Functions, TLC

File(format, says) ==
  [format |-> format, says |-> says, bad |-> {}, asINI |-> "refused", saysINI |-> <<>>]

\* Every base and list, and the flags and switches other than the preferences.
All ==
  [k \in Bases |-> IF k = "quan_rule_base" THEN "outside"
                   ELSE IF k = "surge_rule_base" THEN "link" ELSE "inside"]
  @@ [k \in Flags |-> "false"] @@ [k \in Switches |-> "false"]
  @@ [k \in Policies \cup NodeLists |-> <<"ext">>] @@ ("template" :> <<"5353">>)

Some == [include |-> <<>>, emoji |-> <<"ext">>, add_emoji |-> "true",
         surge_ruleset |-> <<"ext", "ext2">>, enable_rule_generator |-> "true",
         clash_rule_base |-> "inside"]

Many == [surge_ruleset |-> <<"ext", "ext2", "ext3">>, rename |-> <<"ext">>,
         clash_rule_base |-> "inside", overwrite_original_rules |-> "true"]

Without(says, left) == Restrict(says, DOMAIN says \ left)

Accepted(f) == [f EXCEPT !.asINI = "accepted", !.saysINI = f.says]
Faulty(f, key, asINI) == [f EXCEPT !.bad = {key}, !.asINI = asINI]

Good ==
  [yaml  |-> File("yaml", All), yamlSome |-> File("yaml", Some), yamlMany |-> File("yaml", Many),
   toml  |-> File("toml", Without(All, {"loon_rule_base", "template"})),
   tomlSome |-> File("toml", Some), tomlMany |-> File("toml", Many @@ ("custom.template" :> <<"5353">>)),
   ini   |-> Accepted(File("ini", All)), iniSome |-> Accepted(File("ini", Some)),
   iniMany |-> Accepted(File("ini", Many)), noINI |-> File("ini", Some),
   tomlBad |-> Faulty(File("toml", Many), "overwrite_original_rules", "refused"),
   yamlBad |-> Faulty(File("yaml", All), "include", "refused"),
   yamlOdd |-> Faulty(File("yaml", All), "include", "accepted")]

Pref(config) ==
  [k \in Settings \cup {"config"} |->
     IF k = "config" THEN config
     ELSE IF k \in Bases THEN "pref"
     ELSE IF k = "enable_rule_generator" THEN "true"
     ELSE IF k \in Flags \cup Switches THEN "true" ELSE <<"pref">>]

Silence == <<>>
Arguments ==
  {Silence, [groups |-> <<"arg">>, ruleset |-> <<"arg">>],
   [rename |-> <<"arg">>, include |-> <<"arg">>, exclude |-> <<"(">>],
   [emoji |-> "false", add_emoji |-> "true"], [emoji |-> "true", include |-> <<"(">>],
   [add_emoji |-> "false", remove_emoji |-> "true"], [remove_emoji |-> "false"]}

Every == [config : DOMAIN Good \cup {""}, kind : Kinds, args : Arguments]

Servers == {Pref(config) : config \in {"", "iniSome"}}
=============================================================================
