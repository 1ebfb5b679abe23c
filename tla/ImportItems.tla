---------------------------- MODULE ImportItems ----------------------------
(***************************************************************************)
(* importItems() of src/src/lib/handler/settings.cpp, for lists of lines   *)
(* (YAML and INI) and for lists of TOML tables: every item that imports a  *)
(* file or a link is replaced by the items found there.                    *)
(*                                                                         *)
(* An item is a name; Contents says which of them are imports, and of what *)
(* lines: NotFound for a path that is neither a file nor a link, <<>> for  *)
(* a file out of scope or empty, or a download that failed.  A line that   *)
(* is blank or a comment is Skipped.                                       *)
(***************************************************************************)
EXTENDS Naturals, Sequences, SequencesExt

CONSTANTS
  Plain,        \* items that import nothing
  Contents,     \* [imports -> sequences of lines \cup {NotFound}]
  NotFound, Skipped

Imports == DOMAIN Contents
Items == Plain \cup Imports

ASSUME ImportItemsAssumption == Plain \cap Imports = {}

\* What `content` holds after looking for an import: when there is neither a
\* file nor a link, what it held before, from the last import that was found.
Fetch(x, content) == IF Contents[x] = NotFound THEN content ELSE Contents[x]

-----------------------------------------------------------------------------
(* int importItems(string_array &target, bool scope_limit) *)

\* Mutant: the lines of an imported file go in front.
ImportLineFirst(st, x) ==
  LET content == Fetch(x, st.content)
      kept(line) == line # Skipped
  IN IF x \notin Imports THEN [st EXCEPT !.result = Append(@, x)]
     ELSE [st EXCEPT !.result = SelectSeq(content, kept) \o @, !.content = content,
                     !.failed = @ \/ content = <<>>]

ImportLine(st, x) ==
  LET content == Fetch(x, st.content)
      kept(line) == line # Skipped
  IN IF st.failed THEN st
     ELSE IF x \notin Imports THEN [st EXCEPT !.result = Append(@, x)]
     ELSE IF content = <<>> THEN [st EXCEPT !.failed = TRUE, !.content = content]
     ELSE [st EXCEPT !.result = @ \o SelectSeq(content, kept), !.content = content]

\* The list is swapped only when every import gave something.
ImportedLines(target) ==
  LET end == FoldLeft(ImportLine, [result |-> <<>>, content |-> <<>>, failed |-> FALSE], target)
  IN IF end.failed THEN [items |-> target, returns |-> "-1"]
     ELSE [items |-> end.result, returns |-> "0"]

-----------------------------------------------------------------------------
(* void importItems(std::vector<toml::value> &root, ...) *)

\* An import that gives nothing is left out; comments are the TOML parser's.
ImportTable(st, x) ==
  LET content == Fetch(x, st.content)
      table(line) == line # Skipped
  IN IF x \notin Imports THEN [st EXCEPT !.result = Append(@, x)]
     ELSE [st EXCEPT !.result = @ \o SelectSeq(content, table), !.content = content]

ImportedTables(root) ==
  FoldLeft(ImportTable, [result |-> <<>>, content |-> <<>>], root).result
=============================================================================
