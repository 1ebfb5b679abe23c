------------------------------- MODULE MCGist -------------------------------
(***************************************************************************)
(* Gist for TLC: two targets, an upload path that is also the name of a    *)
(* target, and a history variable for what may cost a link.                *)
(***************************************************************************)
EXTENDS Gist, TLC, FiniteSets

VARIABLE disturbed    \* has the process died in an upload, or have two uploads
                      \* run side by side?

MCInit == Init /\ disturbed = FALSE

Uploading == {w \in Workers : pc[w] # "idle"}

MCNext ==
  /\ Next
  /\ disturbed' = (disturbed \/ (Uploading # {} /\ Crash) \/ Cardinality(Uploading') > 1)

MCSpec == MCInit /\ [][MCNext]_<<vars, disturbed>>

Symmetry == Permutations(Workers)

\* A link that was given to the user stays the link of that file: what is
\* uploaded later, and reported, is found there, whichever requests failed and
\* whichever answers were lost in between.
LinksStayCurrent == ~disturbed => \A l \in links : gists[l.gist][l.path] >= done[l.path]

\* The same when uploads may run side by side.
LinksStayCurrentAlways == \A l \in links : gists[l.gist][l.path] >= done[l.path]
=============================================================================
