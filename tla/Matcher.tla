------------------------------- MODULE Matcher -------------------------------
(***************************************************************************)
(* Which nodes a rule of the configuration selects: matchRange() and       *)
(* applyMatcher() of subexport.cpp, used by proxy groups, renames, emojis  *)
(* and the filters on remarks.                                             *)
(*                                                                         *)
(* A rule "!!ON=target!!rest" is [on, target, rest]; without "!!ON=" its   *)
(* on is "any".  A remark is a sequence of tokens, a regular expression    *)
(* the set of tokens it finds ({} is the empty text), and the target of    *)
(* GROUPID, INSERT and PORT a sequence of terms [op, lo, hi].              *)
(***************************************************************************)
EXTENDS Integers, Sequences, SequencesExt

CONSTANT Word   \* 2^32, the number of values of GroupId, scaled down

ASSUME WordAssumption == Word \in Nat /\ Word % 2 = 0 /\ Word > 0

\* Proxy::GroupId is a uint32_t; the ids given to it, and the target that
\* matchRange() takes, are ints.
ToU32(n) == n % Word
ToInt(n) == LET u == n % Word IN IF u < Word \div 2 THEN u ELSE u - Word

Distance(n) == IF n < 0 THEN -n ELSE n

\* One term of a range: "n", "a-b", "!n", "!a-b", "n-" and "n+"; the sign of
\* "!-n" is outside the group of its expression and lost.
TermHolds(t, n) ==
  CASE t.op = "is"    -> n = t.lo
    [] t.op = "in"    -> n \in t.lo..t.hi
    [] t.op = "not"   -> n # Distance(t.lo)
    [] t.op = "notin" -> n \notin t.lo..t.hi
    [] t.op = "upto"  -> n <= t.lo
    [] t.op = "from"  -> n >= t.lo

\* A negated term decides, whatever the terms before it said; another one can
\* only add to them.
Decides(t) == t.op \in {"not", "notin"}

\* matchRange(): one term holds, and none that decides after it does not.
MatchRange(range, n) ==
  \E i \in DOMAIN range :
    /\ TermHolds(range[i], n)
    /\ \A j \in DOMAIN range : j > i /\ Decides(range[j]) => TermHolds(range[j], n)

\* regFind(): the expression matches somewhere in the text.
RegFind(text, pattern) == \E i \in DOMAIN text : text[i] \in pattern

\* applyMatcher(); what it returns in real_rule is rule.rest.
ApplyMatcher(rule, node) ==
  CASE rule.on = "any"     -> TRUE
    [] rule.on = "GROUP"   -> node.Group \in rule.target
    [] rule.on = "GROUPID" -> MatchRange(rule.target, ToInt(node.GroupId))
    [] rule.on = "INSERT"  -> MatchRange(rule.target, ToInt(-node.GroupId))
    [] rule.on = "TYPE"    -> node.Type # "Unknow" /\ node.Type \in rule.target
    [] rule.on = "PORT"    -> MatchRange(rule.target, node.Port)
    [] rule.on = "SERVER"  -> node.Hostname \in rule.target

\* Rules of groups and of the filters also match without a second condition.
Selects(rule, node) ==
  ApplyMatcher(rule, node) /\ (rule.rest = {} \/ RegFind(node.Remark, rule.rest))

\* Rules of renames and emojis need one.
Rewrites(rule, node) ==
  ApplyMatcher(rule, node) /\ rule.rest # {} /\ RegFind(node.Remark, rule.rest)

\* chkIgnore()
ChkIgnore(node, exclude, include) ==
  \/ \E x \in exclude : Selects(x, node)
  \/ include # {} /\ \A x \in include : ~Selects(x, node)

TermIs(n)  == [op |-> "is", lo |-> n, hi |-> n]
TermNot(n) == [op |-> "not", lo |-> n, hi |-> n]
Rule(on, target) == [on |-> on, target |-> target, rest |-> {}]
Named(pattern)   == [on |-> "any", target |-> {}, rest |-> pattern]
=============================================================================
