------------------------------- MODULE MCINI -------------------------------
(***************************************************************************)
(* The INI store for TLC.  Either every text of at most MaxLines lines     *)
(* grows line by line, and what Parse() makes of it with the flags of one  *)
(* of its users is compared with the items that stand under each title; or *)
(* an object goes through every sequence of calls, on two sections and a   *)
(* few texts, of which two fail to parse.                                  *)
(***************************************************************************)
EXTENDS INIReader

CONSTANTS Alphabet,   \* the lines a text may hold
          MaxLines

VARIABLES
  use,        \* who uses the reader, or "object"
  text

\* The flags of readConf(), of loadExternalConfig(), and of the Surge
\* subscription reader, which names the sections it wants.
FlagsOf ==
  [preferences |-> [Defaults EXCEPT !.allowDup = TRUE],
   external    |-> [Defaults EXCEPT !.isolated = "s"],
   surge       |-> [Defaults EXCEPT !.allowDup = TRUE, !.keepEmpty = FALSE, !.isolated = "s",
                                    !.include = <<"s">>, !.direct = {"s"}],
   object      |-> [Defaults EXCEPT !.allowDup = TRUE]]

MCFlags == FlagsOf["object"]

Lines == {Title("s"), Title("t"), Item("a", "1"), Item("b", "2"), Text("x"), Blank}

\* Sections in either order, a repeated one, an item outside of any section.
MCTexts == {<<>>,
            <<Title("s"), Item("a", "1"), Title("t")>>,
            <<Title("t"), Item("b", "1"), Title("s"), Item("a", "1"), Title("t"), Item("b", "2")>>,
            <<Title("t"), Blank, Title("")>>,
            <<Item("a", "1")>>}

MCInit == StoreInit /\ use \in DOMAIN FlagsOf /\ text = <<>>

ReadOn ==
  /\ use # "object" /\ Len(text) < MaxLines
  /\ \E line \in Alphabet : text' = Append(text, line)
  /\ UNCHANGED <<storeVars, use>>

Call == use = "object" /\ StoreNext /\ UNCHANGED <<use, text>>

MCNext == ReadOn \/ Call

MCSpec == MCInit /\ [][MCNext]_<<storeVars, use, text>>

-----------------------------------------------------------------------------
FlagsNow == FlagsOf[use]
made == Parsed(FlagsNow, text)

Titles == {i \in DOMAIN text : text[i].kind = "title"}

\* The section a line stands in, by the last title above it.
SectionOf(i) ==
  LET above == {j \in Titles : j < i}
  IN IF above = {} THEN FlagsNow.isolated
     ELSE text[CHOOSE j \in above : \A k \in above : k <= j].section

\* The items of the lines in D, in the order of the text.
ItemsAt(D) ==
  LET in(i) == i \in D
      at == SelectSeq([i \in DOMAIN text |-> i], in)
  IN [k \in DOMAIN at |-> [name |-> text[at[k]].name, value |-> text[at[k]].value]]

\* The lines "name=value" that stand in a section.
LinesIn(section) == {i \in DOMAIN text : text[i].kind = "item" /\ SectionOf(i) = section}

ItemsIn(section) == ItemsAt(LinesIn(section))

Repeated == \E i, j \in Titles : i # j /\ text[i].section = text[j].section
SectionsIn == {text[i].section : i \in Titles} \ {NoSection}

\* No line is ever filed under a section it does not stand in, nor twice, nor
\* out of order: what a section holds is a part of what the text gives it.
NothingInvented ==
  \A s \in DOMAIN made.content :
    LET named(x) == x.name # NONAME
    IN \E D \in SUBSET LinesIn(s) : SelectSeq(made.content[s], named) = ItemsAt(D)

\* A text whose titles are all different, and whose items all stand below a
\* title, is read completely: each section, empty ones included, with exactly
\* its items, for the readers that want all of it: readConf() and
\* loadExternalConfig() depend on it.
DistinctTitlesAreComplete ==
  LET sound == ~Repeated /\ (\A i \in DOMAIN text : text[i].kind = "item" => SectionOf(i) # NoSection)
      isolated == \E i \in Titles : text[i].section = FlagsNow.isolated
  IN FlagsNow.include = <<>> /\ text # <<>> /\ sound /\ ~isolated
       => /\ made.status = "NONE"
          /\ SectionsIn \subseteq DOMAIN made.content
          /\ \A s \in DOMAIN made.content : made.content[s] = ItemsIn(s)

\* With IncludeSection() only those sections are stored, whatever else the text
\* holds and in whatever order ("only these sections will be stored").
IncludedOnly ==
  use = "surge" =>
    /\ DOMAIN made.content \subseteq Range(FlagsNow.include)
    /\ made.status = "NONE"

\* What Parse() stores is what the text says: nothing else, all of it if the
\* titles differ, and no section a reader did not ask for.
ParseIsFaithful == NothingInvented /\ DistinctTitlesAreComplete /\ IncludedOnly

\* What ToString() writes, Parse() reads back as the same sections in the same
\* order, whatever calls or texts have made the object: gistconf.ini is rewritten
\* this way after every upload.
RoundTrip ==
  /\ FlagsNow.direct = {} /\ made.status = "NONE"
       => Parsed(FlagsNow, ToLines(made.content, made.order)) = made
  /\ LET again == Parsed(MCFlags, ToLines(content, order))
     IN use = "object" => again.content = content /\ again.order = order
=============================================================================
