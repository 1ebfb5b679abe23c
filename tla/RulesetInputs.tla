--------------------------- MODULE RulesetInputs ---------------------------
(***************************************************************************)
(* Requests with rulesets.  For RuleConvert: of every origin and format,   *)
(* for all targets, with and without a prefix, a limit and rules of the    *)
(* base.  For ClashProviders: up to three lists, some of one file name, of *)
(* every type and with every mix of lines.                                 *)
(***************************************************************************)
EXTENDS Naturals, Sequences, Functions, SequencesExt

Ruleset(group, at, format, lines) ==
  [group |-> group, at |-> at, format |-> format, lines |-> lines]

File  == Ruleset("g1", "file", "surge",
                 <<<<"#">>, <<"DOMAIN", "a">>, <<"IP-CIDR6", "b", "no-resolve">>, <<"AND", "c">>,
                   <<"USER-AGENT", "d">>>>)
Apps  == Ruleset("g2", "link", "surge",
                 <<<<"PROCESS-NAME", "e">>, <<"DEST-PORT", "f">>, <<"SRC-PORT", "g">>>>)
Other == Ruleset("g3", "link", "quanx",
                 <<<<"DOMAIN", "h", "Proxy">>, <<"IP-CIDR", "i", "Proxy", "no-resolve">>,
                   <<"DOMAIN-KEYWORD", "j">>>>)
Kept  == Ruleset("g4", "file", "quanx", <<<<"USER-AGENT", "k", "Proxy">>>>)
Geo   == Ruleset("g5", "inline", "surge", <<<<"GEOIP", "cn">>>>)
Local == Ruleset("g6", "inline", "surge", <<<<"IP-CIDR", "l", "no-resolve">>>>)
Match == Ruleset("g7", "inline", "surge", <<<<"MATCH">>>>)
Final == Ruleset("g8", "inline", "surge", <<<<"FINAL">>>>)
Lost  == Ruleset("g9", "nowhere", "surge", <<>>)

Areas == Ruleset("g10", "link", "quanx", <<<<"GEOIP", "m", "Proxy">>, <<"DOMAIN", "n", "Proxy">>>>)

BaseRule == [fields |-> <<"DOMAIN", "z", "DIRECT">>, from |-> Ruleset("base", "inline", "surge", <<>>),
             counted |-> FALSE]

Request(targets, rulesets, prefix, max) ==
  [target : targets, rulesets : {s \in BoundedSeq(rulesets, 3) : IsInjective(s)},
   base : {<<BaseRule>>}, overwrite : BOOLEAN, prefix : prefix, max : max]

Usual ==
  Request({"clash", "surge2", "surfboard", "mellow", "quan", "quanx"},
          {File, Apps, Other, Kept, Geo, Local, Match, Final, Lost},
          BOOLEAN, {0, 1, 2})
  \cup Request({"surge"}, {File, Apps, Other, Geo, Match, Lost}, {TRUE}, {0, 1})
  \cup Request({"surge"}, {File, Apps, Other, Geo, Local, Match}, {FALSE}, {0, 2})
  \cup Request({"loon"}, {File, Apps, Other, Kept, Geo, Match, Lost}, BOOLEAN, {0, 1})
  \cup Request({"clash", "surge", "surge2", "surfboard", "mellow", "quan", "quanx", "loon"},
                  {File, Areas, Match}, BOOLEAN, {0, 2})

OwnPolicies == {"Proxy"}

-----------------------------------------------------------------------------
(* Rule providers. *)

List(group, at, type, name, lines) ==
  [group |-> group, at |-> at, type |-> type, name |-> name, lines |-> lines]

MixedList  == List("g1", "file", "surge", <<"a">>, <<"keyword", "domain", "ipcidr">>)
AgainList  == List("g2", "link", "quanx", <<"a">>, <<"domain", "keyword">>)
DomainList == List("g3", "link", "domain", <<"a", "2">>, <<"domain">>)
IPList     == List("g4", "link", "ipcidr", <<"a">>, <<"ipcidr">>)
WordList   == List("g5", "link", "surge", <<"b">>, <<"keyword">>)
YamlList   == List("g6", "link", "classical", <<"b">>, <<"keyword", "domain", "other">>)
HollowList == List("g7", "file", "surge", <<"a">>, <<>>)
LostList   == List("g8", "nowhere", "surge", <<"a">>, <<>>)
GeoRule    == List("g9", "inline", "surge", <<>>, <<"geoip">>)
MatchRule  == List("g1", "inline", "surge", <<>>, <<"match">>)
AppList    == List("g2", "file", "surge", <<"b">>, <<"other", "domain">>)

ClashRule == [key |-> <<"base">>, inline |-> TRUE, group |-> "", from |-> <<>>]

Providing(rulesets, script, prefix, classical) ==
  [rulesets : {s \in BoundedSeq(rulesets, 3) : IsInjective(s)}, script : script,
   prefix : prefix, classical : classical, base : {<<>>, <<ClashRule>>}, overwrite : BOOLEAN]

AllLists == {MixedList, AgainList, DomainList, IPList, WordList, YamlList, HollowList,
             LostList, GeoRule, MatchRule}

\* Lists with rules that are neither of domains nor of addresses need classic,
\* scripts a prefix, local files another type than those of Clash, and no file
\* name ends in a word that the code adds to others.
ClashUsual ==
  Providing(AllLists, BOOLEAN, {TRUE}, {FALSE})
  \cup Providing({MixedList, AgainList, AppList, YamlList, HollowList, MatchRule},
                 BOOLEAN, {TRUE}, {TRUE})
=============================================================================
