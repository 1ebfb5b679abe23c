----------------------------- MODULE Generator -----------------------------
(***************************************************************************)
(* simpleGenerator(), which writes the artifacts of generate.ini one after *)
(* the other with one request, one response and one list of items, and     *)
(* getProfile(), which turns profiles into the argument of subconverter(). *)
(*                                                                         *)
(* Arguments and items are sequences of <<key, value>>: a multimap that is *)
(* written out and read again by key, where only the order of equal keys   *)
(* tells.  A url is the sequence of the links it joins with "|".           *)
(***************************************************************************)
EXTENDS Integers, Sequences, SequencesExt

CONSTANT Setups

VARIABLES
  setup,     \* the files, the links, and what the program is asked for
  sections, at,
  status_code, info,    \* response; info is the header Subscription-UserInfo
  allItems,
  files,     \* what has been written, by path
  reported,  \* the user info logged, by section
  exit       \* the code that simpleGenerator() returns, or where it is

generatorVars == <<setup, sections, at, status_code, info, allItems, files, reported, exit>>

GeneratorInit ==
  /\ setup \in Setups
  /\ sections = <<>> /\ at = 0
  /\ status_code = 200 /\ info = ""
  /\ allItems = <<>> /\ files = <<>> /\ reported = <<>>
  /\ exit = "start"

-----------------------------------------------------------------------------
(* Arguments and items *)

Keys(items) == {items[i][1] : i \in DOMAIN items}

\* Get(): the first of equal keys.
Item(items, k) == items[SelectInSeq(items, LAMBDA x : x[1] = k)][2]

\* getUrlArg(): the last of equal keys.
getUrlArg(argument, k, none) ==
  IF k \in Keys(argument) THEN argument[SelectLastInSeq(argument, LAMBDA x : x[1] = k)][2]
  ELSE none

-----------------------------------------------------------------------------
(* getProfile().  A file is [empty, sound, has, items]: whether it has no  *)
(* text, is parsed to its end, and what of [Profile] is stored.            *)

NewINI == [parsed |-> FALSE, has |-> FALSE, items |-> <<>>]

\* A text without a character leaves the content of the file before.
Parse(ini, file) ==
  IF file.empty THEN ini ELSE [parsed |-> file.sound, has |-> file.has, items |-> file.items]

Fails(ini, file) == (file.empty \/ ~file.sound) /\ ~ini.has

Known(ini) == IF ini.parsed /\ ini.has THEN ini.items ELSE <<>>

Url(items) == IF "url" \in Keys(items) THEN Item(items, "url") ELSE <<>>

\* Mutant: the url of a profile takes the place of those before it.
AddUrlReplaces(all_urls, url) == IF url = <<>> THEN all_urls ELSE url

AddUrl(all_urls, url) == all_urls \o url

\* The url of all profiles, when more than one is named: one INIReader reads
\* all the files.
Combined(profiles, first, names) ==
  LET read(acc, n) ==
        IF n \notin DOMAIN profiles THEN acc
        ELSE LET ini == Parse(acc.ini, profiles[n])
             IN  [ini |-> ini,
                  urls |-> IF Fails(ini, profiles[n]) THEN acc.urls
                           ELSE AddUrl(acc.urls, Url(Known(ini)))]
  IN  FoldLeft(read, [ini |-> first, urls |-> Url(Known(first))], Tail(names)).urls

\* iter->second = all_urls; without a url in the first profile iter is end().
Replaced(contents, urls) ==
  [contents EXCEPT ![SelectInSeq(contents, LAMBDA x : x[1] = "url")] = <<"url", urls>>]

Refused(code) == {[code |-> code, query |-> <<>>]}

\* The request's own arguments come last, its token among them.
Query(contents, token, argument) == contents \o <<<<"token", token>>>> \o argument

Died == -1

\* What can come of it: an error, the argument for subconverter(), or, for a
\* write through end(), the death of the process as well.  split() of no name is
\* empty, and its first element is read.
getProfile(argument) ==
  LET names    == getUrlArg(argument, "name", <<>>)
      token    == getUrlArg(argument, "token", "")
      file     == setup.profiles[names[1]]
      ini      == Parse(NewINI, file)
      contents == Known(ini)
      own      == Len(names) = 1 /\ "profile_token" \in Keys(contents)
  IN  IF names = <<>> THEN Refused(Died)
      ELSE IF token = "" THEN Refused(403)
      ELSE IF names[1] \notin DOMAIN setup.profiles THEN Refused(404)
      ELSE IF Fails(ini, file) \/ contents = <<>> THEN Refused(500)
      ELSE IF token # (IF own THEN Item(contents, "profile_token") ELSE setup.accessToken)
      THEN Refused(403)
      ELSE IF Len(names) = 1
      THEN {[code |-> 200, query |-> Query(contents, setup.accessToken, argument)]}
      ELSE IF "url" \in Keys(contents)
      THEN {[code |-> 200,
             query |-> Query(Replaced(contents, Combined(setup.profiles, ini, names)),
                             token, argument)]}
      ELSE {[code |-> 200, query |-> Query(contents, token, argument)],
            [code |-> Died, query |-> <<>>]}

-----------------------------------------------------------------------------
(* subconverter(), as far as its argument decides: the first link that     *)
(* does not do ends it, with an error or with an exception, and after the  *)
(* nodes are there the base of the target may be missing.  The content is  *)
(* told by the target, the links, the expansion of rules, and whether the  *)
(* request is authorized.                                                  *)

Result(code, content, tells) == [code |-> code, content |-> content, tells |-> tells]

\* The links among `urls` of which the answer is of one of these kinds.
Only(links, kinds, urls) == SelectSeq(urls, LAMBDA l : links[l] \in kinds)

subconverter(argument) ==
  LET target == getUrlArg(argument, "target", "")
      urls   == getUrlArg(argument, "url", <<>>)
      bad    == Only(setup.links, {"down", "strange"}, urls)
      tell   == Only(setup.links, {"tells"}, urls)
      tells  == IF tell = <<>> THEN "" ELSE Last(tell)
  IN  IF target = "" \/ urls = <<>> THEN Result(400, <<>>, "")
      ELSE IF bad # <<>> THEN Result(IF setup.links[bad[1]] = "down" THEN 400 ELSE Died, <<>>, "")
      ELSE IF target = "baseless" THEN Result(400, <<>>, tells)
      ELSE Result(200, <<target, urls, getUrlArg(argument, "expand", ""),
                         getUrlArg(argument, "token", "") = setup.accessToken>>, tells)

AnswerTo(p) == IF p.code = 200 THEN subconverter(p.query) ELSE Result(p.code, <<>>, "")

Answers(argument) == {AnswerTo(p) : p \in getProfile(argument)}

\* The handler of /getprofile; the server goes on when subconverter() throws.
Serve ==
  /\ exit = "start" /\ setup.config = "none"
  /\ \E r \in Answers(setup.argument) :
       status_code' = r.code /\ files' = [answer |-> r.content]
  /\ exit' = "answered"
  /\ UNCHANGED <<setup, sections, at, info, allItems, reported>>

-----------------------------------------------------------------------------
(* simpleGenerator().  The status is set to 200 before each artifact. *)

ArtifactNamed(artifacts, n) == artifacts[SelectInSeq(artifacts, LAMBDA x : x.name = n)]

ArtifactOf(n) == ArtifactNamed(setup.artifacts, n).items
Current  == ArtifactOf(sections[at])

Start ==
  LET known == {setup.artifacts[i].name : i \in DOMAIN setup.artifacts}
  IN  /\ exit = "start" /\ setup.config # "none"
      /\ exit' = CASE setup.config = "empty" -> "-1"
                   [] setup.config = "broken" -> "-2"
                   [] setup.config = "sound" /\ ~(ToSet(setup.generateProfiles) \subseteq known) -> "-3"
                   [] OTHER -> "running"
      /\ sections' = IF setup.generateProfiles # <<>> THEN setup.generateProfiles
                     ELSE [i \in DOMAIN setup.artifacts |-> setup.artifacts[i].name]
      /\ at' = 1
      /\ UNCHANGED <<setup, status_code, info, allItems, files, reported>>

Generating == exit = "running" /\ at \in DOMAIN sections

With(f, x, value) == [y \in DOMAIN f \cup {x} |-> IF y = x THEN value ELSE f[y]]

Write(path, content) == files' = With(files, path, content)

WithoutPath ==
  /\ Generating /\ "path" \notin Keys(Current)
  /\ at' = at + 1 /\ status_code' = 200
  /\ UNCHANGED <<setup, sections, info, allItems, files, reported, exit>>

\* emplace() of a header that is there already changes nothing, and those of an
\* artifact that failed are still there.
Generate(results) ==
  \E r \in results :
    LET told == IF info = "" THEN r.tells ELSE info
    IN  /\ status_code' = r.code
        /\ IF r.code = 200
           THEN /\ Write(Item(Current, "path"), r.content)
                /\ reported' = With(reported, at, told)
                /\ info' = "" /\ at' = at + 1
                /\ UNCHANGED exit
           ELSE /\ info' = told
                /\ IF r.code = Died THEN exit' = "aborted" /\ UNCHANGED at
                   ELSE IF Len(sections) = 1 THEN exit' = "-1" /\ UNCHANGED at
                   ELSE at' = at + 1 /\ UNCHANGED exit
                /\ UNCHANGED <<files, reported>>
        /\ UNCHANGED <<setup, sections>>

ProfileArgument(items) ==
  <<<<"name", Item(items, "profile")>>, <<"token", setup.accessToken>>, <<"expand", "true">>>>

FromProfile ==
  /\ Generating /\ {"path", "profile"} \subseteq Keys(Current)
  /\ Generate(Answers(ProfileArgument(Current)))
  /\ UNCHANGED allItems

Plain == Generating /\ "path" \in Keys(Current) /\ "profile" \notin Keys(Current)

Downloaded(url) == IF Len(url) = 1 /\ setup.links[url[1]] # "down" THEN url ELSE <<>>

\* A download that fails is written as an empty file, unless it is the only one.
Direct ==
  LET content == Downloaded(Url(Current))
  IN  /\ Plain /\ "direct" \in Keys(Current)
      /\ status_code' = 200
      /\ IF content = <<>> /\ Len(sections) = 1
         THEN exit' = "-1" /\ UNCHANGED <<at, files>>
         ELSE at' = at + 1 /\ Write(Item(Current, "path"), content) /\ UNCHANGED exit
      /\ UNCHANGED <<setup, sections, info, allItems, reported>>

\* Mutant: GetItems() adds to what the list holds, it does not replace it.
TakenAdded(items, old) == old \o items \o <<<<"expand", "true">>>>

Taken(items, old) == items \o <<<<"expand", "true">>>>

ToConvert(items) == SelectSeq(items, LAMBDA x : x[1] # "path")

FromItems ==
  LET taken == Taken(Current, allItems)
  IN  /\ Plain /\ "direct" \notin Keys(Current)
      /\ allItems' = taken
      /\ Generate({subconverter(ToConvert(taken))})

EndGenerate ==
  /\ exit = "running" /\ at \notin DOMAIN sections
  /\ exit' = "0"
  /\ UNCHANGED <<setup, sections, at, status_code, info, allItems, files, reported>>

GeneratorNext == Serve \/ Start \/ WithoutPath \/ FromProfile \/ Direct \/ FromItems \/ EndGenerate

GeneratorSpec == GeneratorInit /\ [][GeneratorNext]_generatorVars
-----------------------------------------------------------------------------
(* Properties *)

\* What the artifact i gives when it is the only thing generated: nothing when
\* it has no path or its download fails.
Alone(i) ==
  LET items == ArtifactOf(sections[i])
  IN  IF "path" \notin Keys(items) THEN {}
      ELSE IF "profile" \in Keys(items) THEN Answers(ProfileArgument(items))
      ELSE IF "direct" \notin Keys(items) THEN {subconverter(ToConvert(Taken(items, <<>>)))}
      ELSE IF Downloaded(Url(items)) = <<>> THEN {}
      ELSE {Result(200, Downloaded(Url(items)), "")}

Good(i) == {r \in Alone(i) : r.code = 200}

PathOf(i) == Item(ArtifactOf(sections[i]), "path")

\* Set apart: a download that fails among other artifacts leaves an empty file,
\* where alone it leaves the path as it is.
Emptied(i) ==
  LET items == ArtifactOf(sections[i])
  IN  /\ {"path", "direct"} \subseteq Keys(items) /\ "profile" \notin Keys(items)
      /\ Downloaded(Url(items)) = <<>>

\* What the artifact i may leave at its path.
Left(i) == {r.content : r \in Good(i)} \cup {c \in {<<>>} : Emptied(i)}

\* What is written at a path is of the last artifact that names it and leaves
\* something.
LastIsKept ==
  /\ \A p \in DOMAIN files :
       \E i \in 1..(at - 1) :
         /\ files[p] \in Left(i) /\ PathOf(i) = p
         /\ \A j \in (i + 1)..(at - 1) : Left(j) # {} => PathOf(j) # p
  /\ \A i \in 1..(at - 1) : Left(i) # {} => PathOf(i) \in DOMAIN files

\* A path holds what the last artifact that names it and could be generated
\* gives alone, whatever the artifacts before it were, failed or threw; or it is
\* empty, of a download that failed. The only artifact leaves no file if it fails.
FilesStandAlone == exit \in {"running", "0", "-1", "aborted"} => LastIsKept

\* The user info reported for an artifact is its own, unless one that failed
\* came before it.
InfoIsTheirs ==
  \A i \in DOMAIN reported :
    \/ \E r \in Good(i) : reported[i] = r.tells
    \/ \E j \in 1..(i - 1) : \E r \in Alone(j) : r.code # 200 /\ reported[i] = r.tells

\* An artifact of the generator is what it would be alone, whatever was made,
\* failed or threw before it, or an empty file for a download that failed among
\* others; the user info reported with it is its own unless
\* one that failed stands before it.
ArtifactsStandAlone == FilesStandAlone /\ InfoIsTheirs

\* A profile read from its start to its end, with a section [Profile].
Whole(n) ==
  n \in DOMAIN setup.profiles /\ ~setup.profiles[n].empty
    /\ setup.profiles[n].sound /\ setup.profiles[n].has

\* Several profiles are converted with the urls of all that can be read, each
\* once and in the order named, and with none when the request has its own.  Set
\* apart: an empty file stands for the profile that was read before it, and where
\* the first profile has several url items the last of them is all there is, the
\* joined ones being put into the first.
ProfilesAreJoined ==
  LET names == getUrlArg(setup.argument, "name", <<>>)
      there(n) == n \in DOMAIN setup.profiles
      url(n) == IF Whole(n) THEN Url(setup.profiles[n].items) ELSE <<>>
      read(i) == names[SelectLastInSeq(SubSeq(names, 1, i),
                                       LAMBDA n : there(n) /\ ~setup.profiles[n].empty)]
      urls  == FlattenSeq([i \in DOMAIN names |-> IF there(names[i]) THEN url(read(i)) ELSE <<>>])
      items == setup.profiles[names[1]].items
      several == Len(SelectSeq(items, LAMBDA x : x[1] = "url")) > 1
  IN  exit = "answered" /\ status_code = 200 =>
        files.answer[2] = IF "url" \in Keys(setup.argument)
                          THEN getUrlArg(setup.argument, "url", <<>>)
                          ELSE IF several THEN getUrlArg(items, "url", <<>>) ELSE urls
=============================================================================
