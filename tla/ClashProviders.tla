--------------------------- MODULE ClashProviders ---------------------------
(***************************************************************************)
(* renderClashScript() of templates.cpp: the rulesets of a Clash request   *)
(* that are not expanded.  Each list becomes one or two rule providers,    *)
(* which rules, or a script, refer to by their keys.                       *)
(*                                                                         *)
(* A ruleset is [group, at, type, name, lines]: at is "inline" for         *)
(* "[]rule", else where its path leads ("file", "link" or "nowhere"), name *)
(* its file name as a sequence of parts, and lines the kinds of its lines: *)
(* "keyword", "domain", "ipcidr" or "other", and for an inline one "match" *)
(* or "geoip" besides.  A key is a name, with parts the code puts behind   *)
(* "_".  Left out are the interval of updates and the text of the script.  *)
(***************************************************************************)
EXTENDS Naturals, Sequences, SequencesExt, Functions

CONSTANTS
  Requests    \* [rulesets, script, prefix, classical, base, overwrite]

\* proxyToClash() comes here with a managed_config_prefix or for a script.
RequestsAreSound ==
  \A r \in Requests :
    /\ {r.script, r.prefix, r.classical, r.overwrite} \subseteq BOOLEAN
    /\ r.prefix \/ r.script

VARIABLES
  req,
  todo,           \* rulesets the loop has not come to
  groups,         \* names of the lists, in order
  entry,          \* what is known of each: names, urls, rule_type, has_domain,
                  \* has_ipcidr and keywords
  rules,          \* the rules, when there is no script
  geoips, match_group,
  providers,      \* rule-providers of the output: key -> provider
  code,           \* what the script does with each list
  written

vars == <<req, todo, groups, entry, rules, geoips, match_group, providers, code, written>>

Nothing == <<>>

Init ==
  /\ req \in Requests
  /\ todo = req.rulesets
  /\ groups = <<>> /\ entry = Nothing
  /\ rules = IF req.overwrite THEN <<>> ELSE req.base
  /\ geoips = <<>> /\ match_group = ""
  /\ providers = Nothing /\ code = <<>>
  /\ written = FALSE

-----------------------------------------------------------------------------
\* A second list of one file name gets the number 2, and so on.
FreshName(file) ==
  IF file \notin Range(groups) THEN file
  ELSE LET free == {k \in 2 .. Len(groups) + 2 : Append(file, ToString(k)) \notin Range(groups)}
       IN Append(file, ToString(CHOOSE k \in free : \A j \in free : k <= j))

\* Without a prefix the name is not set for a list of rules: it is empty, since
\* what it held before has been moved to groups.
Named(x) == IF req.prefix THEN FreshName(x.name) ELSE <<>>

Inlined(kind, x)   == [key |-> <<kind>>, inline |-> TRUE, group |-> x.group, from |-> <<x>>]
RuleSet(key, x)    == [key |-> key, inline |-> FALSE, group |-> x.group, from |-> <<x>>]
Unset == [group |-> "", from |-> <<>>, url |-> "getruleset", type |-> "surge",
          has |-> {}, keyword |-> FALSE]

\* The entry of a list whose rules are read, or were read before.
Entry(name) == IF name \in DOMAIN entry THEN entry[name] ELSE Unset

ClashTypes == {"domain", "ipcidr", "classical"}

Iterate ==
  /\ todo # <<>>
  /\ todo' = Tail(todo)
  /\ UNCHANGED <<req, providers, code, written>>

\* A script only knows rules for everything else and for countries.
Inline ==
  LET x == Head(todo)
  IN /\ Iterate /\ x.at = "inline"
     /\ rules' = IF req.script THEN rules ELSE Append(rules, Inlined(x.lines[1], x))
     /\ match_group' = IF req.script /\ x.lines[1] = "match" THEN x.group ELSE match_group
     /\ geoips' = IF req.script /\ x.lines[1] = "geoip" THEN Append(geoips, x.group) ELSE geoips
     /\ UNCHANGED <<groups, entry>>

\* A list that one provider holds whole.
Added(x, name, has, url) ==
  /\ groups' = Append(groups, name)
  /\ entry' = (name :> [group |-> x.group, from |-> <<x>>, url |-> url, type |-> x.type,
                        has |-> has, keyword |-> FALSE]) @@ entry
  /\ rules' = IF req.script THEN rules ELSE Append(rules, RuleSet(name, x))

\* Lists that Clash reads: the provider has the path as its address.
ClashList ==
  LET x == Head(todo)
  IN /\ Iterate /\ x.at # "inline" /\ x.type \in ClashTypes
     /\ Added(x, FreshName(x.name), {x.type} \cap {"domain", "ipcidr"}, "path")
     /\ UNCHANGED <<geoips, match_group>>

\* classic: other lists as they are, by way of /getruleset.
Classical ==
  LET x == Head(todo)
  IN /\ Iterate /\ x.at \in {"file", "link"} /\ x.type \notin ClashTypes
     /\ req.prefix /\ req.classical
     /\ Added(x, FreshName(x.name), {}, "getruleset")
     /\ UNCHANGED <<geoips, match_group>>

\* A list that is not found or has no lines is passed over.
Missing ==
  LET x == Head(todo)
  IN /\ Iterate /\ x.at # "inline" /\ x.type \notin ClashTypes
     /\ x.at = "nowhere" \/ (x.lines = <<>> /\ ~(req.prefix /\ req.classical))
     /\ UNCHANGED <<groups, entry, rules, geoips, match_group>>

\* Mutant: domains are only referred to when there is nothing else.
RulesOfEither(x, name, has) ==
  LET is(kind) == kind = "keyword"
      keywords == SelectSeq(x.lines, is)
  IN [i \in DOMAIN keywords |-> Inlined("keyword", x)]
     \o (IF has = {"domain"} THEN <<RuleSet(Append(name, "domain"), x)>> ELSE <<>>)
     \o (IF "ipcidr" \in has THEN <<RuleSet(Append(name, "ipcidr"), x)>> ELSE <<>>)

\* Keywords become rules of their own; no rule is made of the other types.
RulesOf(x, name, has) ==
  LET is(kind) == kind = "keyword"
      keywords == SelectSeq(x.lines, is)
  IN [i \in DOMAIN keywords |-> Inlined("keyword", x)]
     \o (IF "domain" \in has THEN <<RuleSet(Append(name, "domain"), x)>> ELSE <<>>)
     \o (IF "ipcidr" \in has THEN <<RuleSet(Append(name, "ipcidr"), x)>> ELSE <<>>)

\* A list whose lines are looked through.
ReadList ==
  LET x == Head(todo)
      name == Named(x)
      has == Entry(name).has \cup (Range(x.lines) \cap {"domain", "ipcidr"})
      base == IF req.prefix THEN [Unset EXCEPT !.group = x.group, !.from = <<x>>, !.type = x.type]
              ELSE Entry(name)
  IN /\ Iterate /\ x.at \in {"file", "link"} /\ x.type \notin ClashTypes /\ x.lines # <<>>
     /\ ~(req.prefix /\ req.classical)
     /\ groups' = IF name \in Range(groups) THEN groups ELSE Append(groups, name)
     /\ entry' = (name :> [base EXCEPT !.has = has,
                                       !.keyword = @ \/ "keyword" \in Range(x.lines)]) @@ entry
     /\ rules' = IF req.script THEN rules ELSE rules \o RulesOf(x, name, has)
     /\ UNCHANGED <<geoips, match_group>>

-----------------------------------------------------------------------------
(* What is written in the end *)

\* The key of a provider for domains, or for addresses.
Key(name, behavior) ==
  IF entry[name].type = behavior THEN name ELSE Append(name, behavior)

\* The keys of a list, each with the behavior of its provider.
Keys(name) ==
  LET has == entry[name].has
  IN IF has = {} THEN name :> "classical"
     ELSE [key \in {Key(name, b) : b \in has} |-> CHOOSE b \in has : Key(name, b) = key]

Provider(name, behavior) ==
  [behavior |-> behavior, url |-> entry[name].url, from |-> entry[name].from]

\* Providers are set in the order of the lists; one key is written once.
Providers ==
  LET add(acc, name) == [key \in DOMAIN Keys(name) |-> Provider(name, Keys(name)[key])] @@ acc
  IN FoldLeft(add, Nothing, groups)

\* What the script asks of a list: lists of Clash, and those with neither
\* domains nor addresses, are one provider, and then keywords are part of it.
Step(name) ==
  LET e == entry[name]
      whole == e.has = {} \/ e.type \in {"domain", "ipcidr"}
  IN [keys |-> IF whole THEN {name} ELSE {Append(name, b) : b \in e.has},
      keyword |-> ~whole /\ e.keyword, group |-> e.group, from |-> e.from]

\* A script without lists cannot be rendered, which is only logged.
Write ==
  /\ todo = <<>> /\ ~written
  /\ written' = TRUE
  /\ providers' = Providers
  /\ code' = IF req.script THEN [i \in DOMAIN groups |-> Step(groups[i])] ELSE <<>>
  /\ UNCHANGED <<req, todo, groups, entry, rules, geoips, match_group>>

Next == Inline \/ ClashList \/ Classical \/ Missing \/ ReadList \/ Write

Spec == Init /\ [][Next]_vars

-----------------------------------------------------------------------------
(* Properties *)

\* What the client is told to do, by rules or by the script: look a key up, and
\* go to a group.
References ==
  IF req.script
  THEN UNION {{[key |-> k, group |-> code[i].group] : k \in code[i].keys} : i \in DOMAIN code}
  ELSE {[key |-> rules[i].key, group |-> rules[i].group] :
          i \in {i \in DOMAIN rules : ~rules[i].inline}}

\* Whatever a reference names is there.
ReferencesLead == written => \A r \in References : r.key \in DOMAIN providers

Holds(kind) == IF kind \in {"domain", "ipcidr"} THEN {kind, "classical"} ELSE {"classical"}

\* The lines of one kind of a list are served to its group.
Served(x, kind) ==
  \/ \E r \in References :
       /\ r.group = x.group /\ r.key \in DOMAIN providers
       /\ providers[r.key].from = <<x>> /\ providers[r.key].behavior \in Holds(kind)
  \/ kind = "keyword" /\ \/ Inlined("keyword", x) \in Range(rules)
                         \/ \E i \in DOMAIN code : code[i].from = <<x>> /\ code[i].keyword
                                                   /\ code[i].group = x.group

\* Every line of every list reaches the group of its ruleset, by a rule or by a
\* provider that holds lines of that kind and has the content of that list.
ListsReachTheirGroup ==
  written => \A x \in Range(req.rulesets) : x.at \in {"file", "link"} =>
               \A kind \in Range(x.lines) : Served(x, kind)

Place(x) == CHOOSE i \in DOMAIN req.rulesets : req.rulesets[i] = x

\* Clients use the first rule that matches: the rules of the base come first,
\* and rules, or the steps of the script, follow the order of the rulesets.
OrderIsKept ==
  LET steps == IF req.script THEN code ELSE rules
      own == {i \in DOMAIN steps : steps[i].from # <<>>}
  IN /\ \A i, j \in own : i < j => Place(steps[i].from[1]) <= Place(steps[j].from[1])
     /\ \A i \in own, j \in DOMAIN steps \ own : ~req.script => j < i
=============================================================================
