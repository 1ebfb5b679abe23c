----------------------------- MODULE MCRulesets -----------------------------
(***************************************************************************)
(* Rulesets for TLC: two preference files that share a ruleset, one more   *)
(* that fetches on every request, and an external configuration.  A        *)
(* history variable tells whether a handler that changes the shared lists  *)
(* has ever run beside another one.  rulesetsContent is bounded: with      *)
(* races it may grow past every list.                                      *)
(***************************************************************************)
EXTENDS Rulesets, TLC

VARIABLE raced

MCFiles == {[rules |-> <<"a", "b">>, update |-> FALSE],
            [rules |-> <<"b", "c">>, update |-> FALSE],
            [rules |-> <<"a", "b">>, update |-> TRUE]}

MCExternal == {<<"x">>}

MaxContent == 4
Bounded == Len(rulesetsContent) <= MaxContent

Changing(w) == pc[w] \in {"lock", "read", "load", "decide", "erase", "fetch"}

MCInit == Init /\ raced = FALSE

MCNext ==
  /\ Next
  /\ raced' = (raced \/ \E w, v \in Workers :
                           w # v /\ Changing(w)' /\ pc'[v] # "idle")

MCSpec == MCInit /\ [][MCNext]_<<vars, raced>>

\* As long as no reload and no refresh runs beside another handler, an answer is
\* made from the contents of exactly the rulesets its request wants, in their
\* order: none missing, none twice, none of another list, whichever files were
\* loaded, uploaded, edited or unreadable before.
AnswerHasItsRules ==
  ~raced => \A w \in Workers : pc[w] = "answer" => got[w] = wanted[w]

=============================================================================
