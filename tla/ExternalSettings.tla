-------------------------- MODULE ExternalSettings --------------------------
(***************************************************************************)
(* What an external configuration can set: the members of struct           *)
(* ExternalConfig (settings.h), by the names the examples give them.       *)
(***************************************************************************)
TargetBases == {"clash_rule_base", "surge_rule_base", "surfboard_rule_base",
                "mellow_rule_base", "quan_rule_base", "quanx_rule_base", "loon_rule_base"}
Bases    == TargetBases \cup {"sssub_rule_base"}
Flags    == {"enable_rule_generator", "overwrite_original_rules"}
Switches == {"add_emoji", "remove_old_emoji"}
Policies == {"custom_proxy_group", "surge_ruleset"}
NodeLists == {"rename", "emoji", "include", "exclude"}
Settings == Bases \cup Flags \cup Switches \cup Policies \cup NodeLists
Templates == {"template", "custom.template"}    \* at the root, in [custom]

Kinds == {"full", "simple", "nodelist", "simple nodelist"}
=============================================================================
