----------------------------- MODULE RuleConvert -----------------------------
(***************************************************************************)
(* How the rulesets of a request become the rules of its configuration:    *)
(* rulesetToClashStr() and rulesetToSurge() of ruleconvert.cpp, the latter *)
(* for every target that is not Clash, and the part of convertRuleset()    *)
(* that drops the policy of a QuanX rule.                                  *)
(*                                                                         *)
(* A rule is the sequence of its fields, <<type, pattern, flags...>>, with *)
(* its policy among them once it has one; a comment is a rule of the type  *)
(* "#".  A ruleset is [group, at, format, lines]: at is "inline" for       *)
(* "[]rule", else where its path leads ("file", "link", or "nowhere"); its *)
(* lines have the names of types that Surge uses.  Left out are the        *)
(* characters of a line, the update interval, the remote rulesets of the   *)
(* base, and rulesetToClash(), which nothing calls.                        *)
(***************************************************************************)
EXTENDS Naturals, Sequences, FiniteSets, SequencesExt

CONSTANTS
  Policies,   \* policies that lists have of their own
  Requests    \* [target, rulesets, base, overwrite, prefix, max], where
              \* prefix says whether there is a managed_config_prefix: there
              \* is none when the request is to expand its rulesets

Targets == {"clash", "surge", "surge2", "surfboard", "mellow", "quan", "quanx", "loon"}

RequestsAreSound ==
  \A r \in Requests :
    /\ r.target \in Targets /\ r.max \in Nat
    /\ {r.overwrite, r.prefix} \subseteq BOOLEAN
    /\ \A i \in DOMAIN r.rulesets :
         r.rulesets[i].at = "inline" => Len(r.rulesets[i].lines) = 1

VARIABLES
  req,
  todo,         \* rulesets the loop has not come to
  allRules,     \* rules for the section of rules: [fields, from, counted]
  remote,       \* what goes to [filter_remote] or [Remote Rule]
  total_rules,
  section       \* the section of rules in the end

vars == <<req, todo, allRules, remote, total_rules, section>>

NotYet == [written |-> FALSE, rules |-> <<>>]

Init ==
  /\ req \in Requests
  /\ todo = req.rulesets
  /\ allRules = <<>> /\ remote = <<>>
  /\ total_rules = 0
  /\ section = NotYet

-----------------------------------------------------------------------------
(* One rule *)

\* The types that a target knows; a type is looked up by its beginning, which
\* is why IP-CIDR6 passes everywhere.
Basic == {"DOMAIN", "DOMAIN-KEYWORD", "IP-CIDR", "IP-CIDR6", "GEOIP", "MATCH", "FINAL"}

Supported ==
  [t \in Targets |->
     Basic \cup CASE t = "clash"     -> {"SRC-PORT", "DST-PORT", "PROCESS-NAME"}
                  [] t = "surge"     -> {"USER-AGENT", "AND", "PROCESS-NAME", "DEST-PORT"}
                  [] t \in {"surge2", "mellow", "loon"}
                                     -> {"USER-AGENT", "PROCESS-NAME", "DEST-PORT"}
                  [] t = "surfboard" -> {"PROCESS-NAME", "DEST-PORT"}
                  [] t = "quanx"     -> {"USER-AGENT"}
                  [] t = "quan"      -> {"USER-AGENT"}]

Knows(target, type) ==
  type \in Supported[target] /\ ~(target = "quan" /\ type = "IP-CIDR6")

QuanLike(target) == target \in {"quan", "quanx"}

\* convertRuleset(): a QuanX rule "type, pattern, policy" loses its policy and
\* keeps a flag no-resolve behind it, if it is of one of these types.
PolicyGoes == {"DOMAIN", "DOMAIN-KEYWORD", "IP-CIDR", "IP-CIDR6", "USER-AGENT"}

Converted(line, format) ==
  IF format # "quanx" \/ line[1] \notin PolicyGoes \/ Len(line) < 3 \/ line[3] = "no-resolve"
  THEN line
  ELSE SubSeq(line, 1, 2) \o (IF Last(line) = "no-resolve" THEN <<"no-resolve">> ELSE <<>>)

\* The policy goes behind the pattern, in front of the flags; for QuanX and
\* Quantumult only the flag no-resolve is kept.
Placed(fields, group, target) ==
  LET flags == SubSeq(fields, 3, Len(fields))
  IN IF Len(fields) < 3 \/ (~QuanLike(target) /\ target # "clash" /\ fields[1] = "AND")
     THEN Append(fields, group)
     ELSE SubSeq(fields, 1, 2) \o <<group>> \o
          (IF QuanLike(target) /\ flags # <<"no-resolve">> THEN <<>> ELSE flags)

\* What the rule for everything else is called: in Clash whatever its flags
\* are, elsewhere when it has none.
InlineFields(line, target) ==
  IF target = "clash" /\ line[1] = "FINAL" THEN [line EXCEPT ![1] = "MATCH"]
  ELSE IF target # "clash" /\ line = <<"MATCH">> THEN <<"FINAL">> ELSE line

ListFields(placed, target) ==
  IF QuanLike(target) /\ placed[1] = "IP-CIDR6" THEN [placed EXCEPT ![1] = "IP6-CIDR"] ELSE placed

Rule(fields, x, counted) == [fields |-> fields, from |-> x, counted |-> counted]

-----------------------------------------------------------------------------
(* One ruleset *)

\* max_allowed_rules; 0 is no limit.
LimitReached(total) == req.max > 0 /\ total > req.max

\* One line of a list: unknown types and comments are passed over.
ExpandLine(acc, line, x) ==
  IF LimitReached(acc.total) \/ ~Knows(req.target, line[1]) THEN acc
  ELSE [rules |-> Append(acc.rules,
                         Rule(ListFields(Placed(line, x.group, req.target), req.target), x, TRUE)),
        total |-> acc.total + 1]

Expanded(x, total) ==
  FoldLeft(LAMBDA acc, line : ExpandLine(acc, Converted(line, x.format), x),
           [rules |-> <<>>, total |-> total], x.lines)

\* What becomes of a ruleset: its rule or its rules go into the section, it is
\* referred to (RULE-SET) there, or in the section of remote ones, or nothing.
Way(x) ==
  CASE x.at = "inline" -> "inline"
    [] x.at # "inline" /\ req.target = "clash" -> "expand"
    [] x.at = "nowhere" /\ req.target # "clash" -> "skip"
    [] x.at = "file" /\ req.target # "clash" ->
         CASE req.prefix /\ req.target = "surge" -> "ruleset"
           [] req.prefix /\ req.target \in {"quanx", "loon"} -> "remote"
           [] OTHER -> "expand"
    [] x.at = "link" /\ req.target # "clash" ->
         CASE req.target = "surge" ->
                IF req.prefix \/ x.format = "surge" THEN "ruleset" ELSE "skip"
           [] req.target = "quanx" ->
                IF req.prefix \/ x.format = "quanx" THEN "remote" ELSE "expand"
           [] req.target = "loon" -> "remote"
           [] OTHER -> "expand"

\* What a reference leads to: the link itself, or /getruleset of this server,
\* which converts the list to the format of the target.
Url(x) ==
  LET native == CASE req.target = "surge" -> x.format = "surge"
                  [] req.target = "quanx" -> x.format = "quanx"
                  [] OTHER -> TRUE
  IN IF x.at = "link" /\ native THEN "link" ELSE "getruleset"

\* Mutant: the list is served in the format it has.
getRulesetAsIs(type, x) ==
  LET target == IF type = 2 THEN "quanx" ELSE "surge"
      known(line) == line[1] \in Supported[target]
      lines == SelectSeq(x.lines, known)
  IN [i \in DOMAIN lines |->
        IF type = 2 THEN ListFields(Placed(lines[i], x.group, target), target) ELSE lines[i]]

\* getRuleset(): the rules at that reference, in the format of Surge (type 1),
\* whose client puts the policy in, or of QuanX (type 2).
getRuleset(type, x) ==
  LET target == IF type = 2 THEN "quanx" ELSE "surge"
      known(line) == line[1] \in Supported[target]
      lines == SelectSeq([i \in DOMAIN x.lines |-> Converted(x.lines[i], x.format)], known)
  IN [i \in DOMAIN lines |->
        IF type = 2 THEN ListFields(Placed(lines[i], x.group, target), target) ELSE lines[i]]

Iterate ==
  /\ todo # <<>> /\ ~LimitReached(total_rules)
  /\ todo' = Tail(todo)
  /\ UNCHANGED <<req, section>>

Inline ==
  LET x == Head(todo)
      fields == InlineFields(x.lines[1], req.target)
  IN /\ Iterate /\ Way(x) = "inline"
     /\ allRules' = Append(allRules, Rule(Placed(fields, x.group, req.target), x, TRUE))
     /\ total_rules' = total_rules + 1
     /\ UNCHANGED remote

RuleSet ==
  LET x == Head(todo)
  IN /\ Iterate /\ Way(x) = "ruleset"
     /\ allRules' = Append(allRules, Rule(<<"RULE-SET", Url(x), x.group>>, x, FALSE))
     /\ UNCHANGED <<remote, total_rules>>

Remote ==
  LET x == Head(todo)
  IN /\ Iterate /\ Way(x) = "remote"
     /\ remote' = Append(remote, [from |-> x, url |-> Url(x)])
     /\ UNCHANGED <<allRules, total_rules>>

\* A path that leads nowhere has no lines; neither has a download that failed.
Expand ==
  LET x == Head(todo)
      read == Expanded(x, total_rules)
  IN /\ Iterate /\ Way(x) = "expand"
     /\ allRules' = allRules \o read.rules
     /\ total_rules' = read.total
     /\ UNCHANGED remote

Skip ==
  /\ Iterate /\ Way(Head(todo)) = "skip"
  /\ UNCHANGED <<allRules, remote, total_rules>>

\* The rules of the base come first, if they are not overwritten.
Written == (IF req.overwrite THEN <<>> ELSE req.base) \o allRules

Write ==
  /\ ~section.written
  /\ todo = <<>> \/ LimitReached(total_rules)
  /\ todo' = <<>>
  /\ section' = [written |-> TRUE, rules |-> Written]
  /\ UNCHANGED <<req, allRules, remote, total_rules>>

Next == Inline \/ RuleSet \/ Remote \/ Expand \/ Skip \/ Write

Spec == Init /\ [][Next]_vars

-----------------------------------------------------------------------------
(* Properties *)

Counted == {i \in DOMAIN allRules : allRules[i].counted}

\* What a list, or a rule of its own, should become: the patterns of the rules
\* that the target knows, in their order.
Patterns(x) ==
  LET known(line) == Way(x) = "inline" \/ Knows(req.target, line[1])
      lines == SelectSeq(x.lines, known)
  IN [i \in DOMAIN lines |-> <<x.group, IF Len(lines[i]) = 1 THEN "" ELSE lines[i][2]>>]

Given ==
  FlattenSeq([i \in DOMAIN req.rulesets |->
                LET x == req.rulesets[i]
                IN CASE Way(x) \in {"inline", "expand"} -> Patterns(x)
                     [] Way(x) = "ruleset"              -> <<<<x.group, Url(x)>>>>
                     [] OTHER                           -> <<>>])

\* Clients use the first rule that matches: the rules of the base come first,
\* then those of the rulesets, in the order of the request and of their lists,
\* none of them twice, and none is missing unless as many were counted as
\* max_allowed_rules allows, wherever the limit is met.  That none more are
\* written is what README-cn.md:1098 says and the code does not do.
FirstMatchIsKept ==
  LET rest == SubSeq(section.rules, IF req.overwrite THEN 1 ELSE Len(req.base) + 1,
                     Len(section.rules))
      kept == [i \in DOMAIN rest |->
                 <<rest[i].from.group, IF Len(rest[i].fields) = 2 THEN "" ELSE rest[i].fields[2]>>]
  IN section.written =>
       /\ ~req.overwrite => IsPrefix(req.base, section.rules)
       /\ IsPrefix(kept, Given)
       /\ kept # Given => req.max > 0 /\ Cardinality(Counted) >= req.max

\* What the replacement of convertRuleset() is not made for: a rule of another
\* type keeps the policy that the QuanX list gave it, behind the one it gets.
PolicyStays(r) ==
  r.from.format = "quanx" /\ r.fields[1] \notin PolicyGoes /\ ~QuanLike(req.target)

\* Every rule is directed at the group of its ruleset: the policy is behind the
\* pattern, or behind the type if there is none, and what policy a list had of
\* its own is gone, unless PolicyStays.
PolicyIsTheirs ==
  \A i \in DOMAIN allRules :
    LET r == allRules[i]
        at == IF Len(r.fields) = 2 THEN 2 ELSE 3
    IN /\ r.fields[at] = r.from.group
       /\ (\E k \in DOMAIN r.fields \ {at} : k > 2 /\ r.fields[k] \in Policies) => PolicyStays(r)

\* Surge cannot read a link of another format, and there is no prefix for a
\* reference to this server: the list is neither converted nor referred to.
LeftOut(x) ==
  req.target = "surge" /\ ~req.prefix /\ x.at = "link" /\ x.format # "surge"

\* A ruleset with a rule that the target knows is in the configuration, in full
\* or by a reference, unless it is LeftOut.
NoRulesetIsLost ==
  section.written /\ req.max = 0 =>
    \A x \in Range(req.rulesets) :
      (\E i \in DOMAIN x.lines : Knows(req.target, x.lines[i][1])) =>
        (~LeftOut(x) <=> \/ \E i \in DOMAIN section.rules : section.rules[i].from = x
                         \/ \E i \in DOMAIN remote : remote[i].from = x)

\* The format of rules a target reads.
Native(target) == IF target = "quanx" THEN "quanx" ELSE "surge"

\* A list that the client is to fetch by itself is in a format that it reads,
\* except for Loon, which gets every link as it is.
ReferencesAreRead ==
  /\ \A i \in DOMAIN remote :
       remote[i].url = "link" => req.target = "loon" \/ remote[i].from.format = Native(req.target)
  /\ \A i \in DOMAIN allRules :
       LET r == allRules[i]
       IN r.fields[1] = "RULE-SET" /\ r.fields[2] = "link" => r.from.format = Native(req.target)

\* The references to this server, each with the ruleset it is for.
ServedHere ==
  {allRules[i].from : i \in {k \in DOMAIN allRules : allRules[k].fields[1] = "RULE-SET"
                                                   /\ allRules[k].fields[2] = "getruleset"}}
  \cup {remote[i].from : i \in {k \in DOMAIN remote : remote[k].url = "getruleset"}}

\* A list that the client fetches from this server holds, rule by rule and with
\* the policy put in, what would be in the configuration had it been expanded:
\* the two ways are separate code.  Loon is served what Surge knows.
ReferencesServe ==
  req.max = 0 =>
    \A x \in ServedHere :
      LET type == IF req.target = "quanx" THEN 2 ELSE 1
          served == getRuleset(type, x)
          whole == [i \in DOMAIN served |->
                      IF type = 2 THEN served[i] ELSE Placed(served[i], x.group, req.target)]
          rules == Expanded(x, 0).rules
          known(fields) == Knows(req.target, fields[1])
      IN [i \in DOMAIN rules |-> rules[i].fields] =
           IF req.target = "loon" THEN SelectSeq(whole, known) ELSE whole
=============================================================================
