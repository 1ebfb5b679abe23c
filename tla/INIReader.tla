----------------------------- MODULE INIReader -----------------------------
(***************************************************************************)
(* The INI store (src/src/lib/utils/ini_reader/ini_reader.h): how Parse()  *)
(* makes sections of items of a text, and an INIReader object over a       *)
(* sequence of calls: the map of sections, their order, the section        *)
(* "entered", and the cache of the last section looked up, an iterator     *)
(* into the map that later calls follow without looking again.             *)
(*                                                                         *)
(* A line of a text is a title "[section]", an item "name=value", a text   *)
(* without "=", or a blank or comment.  What the code does to the          *)
(* characters of a line (trimming, escapes, code pages) is left out.  A    *)
(* multimap of items is the sequence of its items in insertion order; the  *)
(* code only ever asks it for the items of one name, and those keep their  *)
(* insertion order.                                                        *)
(*                                                                         *)
(* The iterator is modelled by the key its node has now: the node moves    *)
(* with a rename, and Dangling stands for a node that has been destroyed.  *)
(* last_error, which only GetLastError() reads, and RenameSection(), which *)
(* nothing calls, are left out.                                            *)
(***************************************************************************)
EXTENDS Naturals, Sequences, FiniteSets, Functions, SequencesExt

CONSTANTS
  Sections,     \* names the callers use
  Names,        \* item names they use
  Values,
  Texts,        \* what Parse() is given
  Flags,        \* the flags of the object, set before the first call
  MaxItems,     \* bound: items of a section
  Dangling

NoSection == ""
NONAME == "{NONAME}"

ASSUME INIReaderAssumption ==
  NoSection \notin Sections /\ Dangling \notin Sections

-----------------------------------------------------------------------------
(* Parse() *)

Title(section)    == [kind |-> "title", section |-> section]
Item(name, value) == [kind |-> "item", name |-> name, value |-> value]
Text(value)       == [kind |-> "text", value |-> value]
Blank             == [kind |-> "blank", value |-> ""]

\* The flags of a fresh INIReader; every user starts from these.
Defaults ==
  [allowDup  |-> FALSE,      \* allow_dup_section_titles
   keepEmpty |-> TRUE,       \* keep_empty_section
   anyLine   |-> FALSE,      \* store_any_line
   isolated  |-> NoSection,  \* isolated_items_section, if store_isolated_line
   exclude   |-> {},         \* exclude_sections
   include   |-> <<>>,       \* include_sections
   direct    |-> {}]         \* direct_save_sections

\* __priv_chk_ignore
Ignored(o, section) ==
  \/ section \in o.exclude
  \/ o.include # <<>> /\ section \notin Range(o.include)

\* The locals of Parse() and the members it fills.
Start(o) ==
  [content  |-> <<>>,          \* ini_content: section name -> items
   order    |-> <<>>,          \* section_order
   group    |-> <<>>,          \* itemGroup
   cur      |-> o.isolated,    \* curSection
   title    |-> NoSection,     \* thisSection
   isolated |-> o.isolated # NoSection,                             \* inIsolatedSection
   excluded |-> o.isolated # NoSection /\ Ignored(o, o.isolated),   \* inExcludedSection
   direct   |-> o.isolated # NoSection /\ o.isolated \in o.direct,  \* inDirectSaveSection
   read     |-> <<>>,          \* read_sections
   status   |-> "reading"]     \* or "stopped" (break), or what Parse() returns

ParseFails(st, error) == [st EXCEPT !.status = error]

EndsSection(o, st) == st.cur # NoSection /\ (o.keepEmpty \/ st.group # <<>>)

\* A section that is not in the map yet goes into it, unless it holds the
\* isolated items and the title just read is the one they belong to.
StoreSection(o, st) ==
  IF st.isolated /\ o.isolated = st.title THEN st
  ELSE [st EXCEPT
          !.content = (st.cur :> st.group) @@ @,
          !.order = IF st.cur \in Range(@) THEN @ ELSE Append(@, st.cur),
          !.read = IF st.group = <<>> THEN @ ELSE Append(@, st.cur)]

\* The section before a title ends.  Items of a repeated section are merged
\* into a copy of the stored one (auto iter = ini_content.at(...)), and lost.
EndSection(o, st) ==
  IF ~EndsSection(o, st) THEN st
  ELSE IF st.cur \notin DOMAIN st.content THEN StoreSection(o, st)
  ELSE IF o.allowDup \/ st.content[st.cur] = <<>> THEN st
  ELSE ParseFails(st, "DUPLICATE")

BeginSection(o, st) ==
  [st EXCEPT !.group = <<>>, !.cur = st.title, !.isolated = FALSE,
             !.excluded = Ignored(o, st.title), !.direct = st.title \in o.direct]

ReadTitle(o, st, section) ==
  LET ended == EndSection(o, [st EXCEPT !.title = section])
      begun == BeginSection(o, ended)
  IN IF ended.status # "reading" THEN ended
     ELSE IF o.include # <<>> /\ o.include = begun.read
     THEN [begun EXCEPT !.status = "stopped"]    \* all included sections read
     ELSE begun

AddItem(st, name, value) ==
  [st EXCEPT !.group = Append(@, [name |-> name, value |-> value])]

ReadItem(st, line) ==
  IF st.excluded THEN st
  ELSE IF st.cur = NoSection THEN ParseFails(st, "OUTOFBOUND")
  ELSE AddItem(st, line.name, line.value)

\* The lines that are kept whole, under the name {NONAME}.
KeptWhole(o, st, line) ==
  /\ ~st.excluded /\ st.cur # NoSection
  /\ st.direct \/ (o.anyLine /\ line.kind = "text")

WholeLine(line) ==
  IF line.kind = "item" THEN line.name \o "=" \o line.value ELSE line.value

ReadLine(o, st, line) ==
  IF st.status # "reading" \/ (line.kind = "blank" /\ ~st.direct) THEN st
  ELSE IF line.kind = "title" THEN ReadTitle(o, st, line.section)
  ELSE IF KeptWhole(o, st, line) THEN AddItem(st, NONAME, WholeLine(line))
  ELSE IF line.kind = "item" THEN ReadItem(st, line)
  ELSE st

\* Mutant: the last section is forgotten.
EndParseForgets(o, st) ==
  IF st.status \in {"reading", "stopped"} THEN [st EXCEPT !.status = "NONE"] ELSE st

\* The last section of the text: here a repeated one is merged in place, or
\* dropped if it was empty before and neither flag allows it.
EndParse(o, st) ==
  LET new    == st.cur \notin DOMAIN st.content
      merges == o.allowDup \/ o.isolated = st.title
      ended  == IF ~EndsSection(o, st) THEN st
                ELSE IF new THEN StoreSection(o, st)
                ELSE IF merges THEN [st EXCEPT !.content[st.cur] = @ \o st.group]
                ELSE IF st.content[st.cur] = <<>> THEN st
                ELSE ParseFails(st, "DUPLICATE")
  IN IF st.status \notin {"reading", "stopped"} THEN st
     ELSE IF ended.status = "DUPLICATE" THEN ended
     ELSE [ended EXCEPT !.status = "NONE"]

\* What Parse() leaves in the object, given a text that is not empty.
Parsed(o, lines) ==
  LET read(st, line) == ReadLine(o, st, line)
      end == EndParse(o, FoldLeft(read, Start(o), lines))
  IN [content |-> end.content, order |-> end.order, status |-> end.status]

-----------------------------------------------------------------------------
(***************************************************************************)
(* ToString(): a title for each section in order, its items, and an empty  *)
(* line unless the last item ends in "=".                                  *)
(***************************************************************************)
ItemLine(item) ==
  IF item.name = NONAME THEN Text(item.value) ELSE Item(item.name, item.value)

SectionLines(items) ==
  [i \in DOMAIN items |-> ItemLine(items[i])]
    \o (IF items # <<>> /\ Last(items).value = "" THEN <<>> ELSE <<Blank>>)

ToLines(content, order) ==
  FlattenSeq([i \in DOMAIN order |->
                <<Title(order[i])>>
                  \o (IF order[i] \in DOMAIN content THEN SectionLines(content[order[i]])
                                                     ELSE <<>>)])

-----------------------------------------------------------------------------
(* The object *)

VARIABLES
  parsed,
  content,      \* ini_content
  order,        \* section_order
  current,      \* current_section
  cached,       \* cached_section
  node          \* cached_section_content: the key of its node, NoSection for
                \* end(), or Dangling

storeVars == <<parsed, content, order, current, cached, node>>

StoreInit ==
  /\ parsed = FALSE
  /\ content = <<>> /\ order = <<>>
  /\ current = NoSection
  /\ cached = NoSection /\ node = NoSection

SectionExist(s) == s \in DOMAIN content

\* Every lookup by section name leaves the section in the cache.
Cache(s) ==
  /\ cached' = s
  /\ node' = IF s = cached THEN node ELSE s

Uncache == cached' = NoSection /\ node' = NoSection

-----------------------------------------------------------------------------
\* Parse() of a text that is not empty: EraseAll() and read.  (An empty text
\* is refused before anything is erased.)
Parse ==
  /\ \E text \in Texts :
       LET result == Parsed(Flags, text)
       IN /\ text # <<>>
          /\ content' = result.content
          /\ order' = result.order
          /\ parsed' = (result.status = "NONE")
  /\ Uncache
  /\ UNCHANGED current

EraseAll ==
  /\ content' = <<>> /\ order' = <<>> /\ parsed' = FALSE
  /\ Uncache
  /\ UNCHANGED current

\* EnterSection() looks the section up whether or not it is cached.
EnterSection(s) ==
  /\ SectionExist(s)
  /\ current' = s /\ cached' = s /\ node' = s
  /\ UNCHANGED <<parsed, content, order>>

SetCurrentSection(s) ==
  /\ current' = s
  /\ UNCHANGED <<parsed, content, order, cached, node>>

\* ItemExist, ItemPrefixExist (parsed or not); GetItems, GetAll, Get and the
\* typed readers built on them (only when parsed).
Lookup(s) ==
  /\ SectionExist(s)
  /\ Cache(s)
  /\ UNCHANGED <<parsed, content, order, current>>

-----------------------------------------------------------------------------
Set(s, name, value) ==
  LET item == [name |-> name, value |-> value]
  IN /\ SectionExist(s) => Len(content[s]) < MaxItems
     /\ parsed' = TRUE
     /\ \/ /\ SectionExist(s)
           /\ content' = [content EXCEPT ![s] = Append(@, item)]
           /\ UNCHANGED order
        \/ /\ ~SectionExist(s)
           /\ content' = [x \in DOMAIN content \cup {s} |->
                            IF x = s THEN <<item>> ELSE content[x]]
           /\ order' = Append(order, s)
     /\ UNCHANGED <<current, cached, node>>

\* Erase(): all items of a name; the iterator is looked up again.
Erase(s, name) ==
  LET other(item) == item.name # name
      left == SelectSeq(content[s], other)
  IN /\ SectionExist(s)
     /\ content' = [content EXCEPT ![s] = left]
     /\ node' = IF left # content[s] /\ cached = s THEN s ELSE node
     /\ UNCHANGED <<parsed, order, current, cached>>

\* EraseFirst(): ini_content.at() throws when there is no such section.
EraseFirst(s, name) ==
  LET first(item) == item.name = name
  IN /\ SectionExist(s)
     /\ content' = [content EXCEPT ![s] = RemoveFirstMatch(@, first)]
     /\ UNCHANGED <<parsed, order, current, cached, node>>

\* EraseSection(): its items go, the section stays.
EraseSection(s) ==
  /\ SectionExist(s)
  /\ content' = [content EXCEPT ![s] = <<>>]
  /\ IF cached = s THEN Uncache ELSE UNCHANGED <<cached, node>>
  /\ UNCHANGED <<parsed, order, current>>

\* Mutant: the cache outlives the section.
RemoveSectionKeepsCache(s) ==
  /\ SectionExist(s)
  /\ content' = [x \in DOMAIN content \ {s} |-> content[x]]
  /\ order' = Remove(order, s)
  /\ node' = IF node = s THEN Dangling ELSE node
  /\ UNCHANGED <<parsed, current, cached>>

\* Mutant: the section stays in section_order.
RemoveSectionKeepsOrder(s) ==
  /\ SectionExist(s)
  /\ content' = [x \in DOMAIN content \ {s} |-> content[x]]
  /\ IF cached = s THEN Uncache
     ELSE UNCHANGED cached /\ node' = IF node = s THEN Dangling ELSE node
  /\ UNCHANGED <<parsed, order, current>>

RemoveSection(s) ==
  /\ SectionExist(s)
  /\ content' = [x \in DOMAIN content \ {s} |-> content[x]]
  /\ order' = Remove(order, s)
  /\ IF cached = s THEN Uncache
     ELSE UNCHANGED cached /\ node' = IF node = s THEN Dangling ELSE node
  /\ UNCHANGED <<parsed, current>>

StoreNext ==
  \/ Parse \/ EraseAll
  \/ \E s \in Sections :
       \/ EnterSection(s) \/ SetCurrentSection(s) \/ Lookup(s)
       \/ EraseSection(s) \/ RemoveSection(s)
       \/ \E name \in Names :
            Erase(s, name) \/ EraseFirst(s, name) \/ \E v \in Values : Set(s, name, v)

StoreSpec == StoreInit /\ [][StoreNext]_storeVars

-----------------------------------------------------------------------------
\* A lookup that finds its section in the cache follows the iterator instead of
\* searching: after any sequence of calls that erase, remove and add sections,
\* the cached section is in the map and the iterator points to its node, never
\* to another section's node or to one that has been destroyed.
CacheIsCoherent ==
  cached # NoSection => cached \in DOMAIN content /\ node = cached
=============================================================================
