------------------------------ MODULE MCRequest ------------------------------
(***************************************************************************)
(* The stages of a /sub request, for TLC: the configuration it names, the  *)
(* parsing of its documents, the gathering of its nodes, the conversion of *)
(* its rulesets, the rule providers of Clash, the answer as a whole, and   *)
(* the generator, which makes such requests itself.  subconverter() runs   *)
(* one after the other in one thread; each is explored here on inputs of   *)
(* its own, so that what it can meet does not depend on the choices made   *)
(* for the stages before it. A behaviour is a behaviour of the stage       *)
(* chosen in Init; the variables of the others are idle.  The variables of *)
(* Nodes, ExternalConf and Generator are theirs, some shared with other    *)
(* stages.                                                                 *)
(***************************************************************************)
EXTENDS Nodes, ExternalConf, Generator, TLC

VARIABLES
  part,                                                   \* the stage explored
  allRules, remote, total_rules, section,                 \* RuleConvert
  groups, entry, rules, geoips, match_group, providers, written, code,
                                                          \* ClashProviders
  doc, reader, locals, parsed, index,                     \* Parsers
  scene, step, arg, urls, found, subInfo, headers, uploads, answers
                                                          \* Subconverter

nodesOnly     == nodesVars
rulesOnly     == <<allRules, remote, total_rules, section>>
providersOnly == <<groups, entry, rules, geoips, match_group, providers, written, code>>
confOnly      == <<pref, file, stage, returned, extconf, local_vars, settings>>
parsersOnly   == <<doc, reader, locals, parsed, index>>
generatorOnly == <<setup, sections, status_code, info, allItems, files, reported, exit>>
answerOnly    == <<scene, step, arg, urls, found, subInfo, headers, uploads, answers>>

NI == INSTANCE NodesInputs
RI == INSTANCE RulesetInputs
EI == INSTANCE ExternalConfInputs
DI == INSTANCE ParsersInputs
SI == INSTANCE SubconverterInputs

MCNodesRequests   == NI!Usual
MCEmoji           == NI!Emojilike
RulesRequests     == RI!Usual
ProvidersRequests == RI!ClashUsual
MCConfRequests    == EI!Every
MCFiles           == EI!Good
MCPreferences     == EI!Servers
ParsersDocuments  == DI!Every
MCSetups          == SI!GeneratorSetups
AnswerScenes      == SI!Every

R == INSTANCE RuleConvert WITH Requests <- RulesRequests, Policies <- RI!OwnPolicies
P == INSTANCE ClashProviders WITH Requests <- ProvidersRequests
D == INSTANCE Parsers WITH Documents <- ParsersDocuments
S == INSTANCE Subconverter WITH Scenes <- AnswerScenes,
       stream_rules <- SI!stream_rules, time_rules <- SI!time_rules,
       Step <- SI!Step, Word <- SI!Modulus, Day <- SI!Day, Now <- SI!Now

ASSUME InputsAssumption == R!RequestsAreSound /\ P!RequestsAreSound

IdleNodes     == /\ given = <<>> /\ phase = "idle" /\ links = <<>> /\ groupID = <<>>
                 /\ insert_nodes = <<>> /\ nodes = <<>> /\ status = 0
IdleRules     == allRules = <<>> /\ remote = <<>> /\ total_rules = <<>> /\ section = <<>>
IdleProviders == /\ groups = <<>> /\ entry = <<>> /\ rules = <<>> /\ geoips = <<>>
                 /\ match_group = <<>> /\ providers = <<>> /\ written = <<>> /\ code = <<>>
IdleConf      == /\ pref = <<>> /\ file = <<>> /\ stage = "idle" /\ returned = <<>>
                 /\ extconf = <<>> /\ local_vars = <<>> /\ settings = <<>>
IdleParsers   == doc = <<>> /\ reader = <<>> /\ locals = <<>> /\ parsed = <<>> /\ index = <<>>
IdleGenerator == /\ setup = <<>> /\ sections = <<>> /\ status_code = <<>> /\ info = <<>>
                 /\ allItems = <<>> /\ files = <<>> /\ reported = <<>> /\ exit = "idle"
IdleAnswer    == /\ scene = <<>> /\ step = <<>> /\ arg = <<>> /\ urls = <<>> /\ found = <<>>
                 /\ subInfo = <<>> /\ headers = <<>> /\ uploads = <<>> /\ answers = <<>>

Init ==
  \/ /\ part = "nodes" /\ NodesInit /\ req = <<>> /\ todo = <<>> /\ at = <<>>
     /\ IdleRules /\ IdleProviders /\ IdleConf /\ IdleParsers /\ IdleGenerator /\ IdleAnswer
  \/ /\ part = "rules" /\ R!Init /\ at = <<>>
     /\ IdleNodes /\ IdleProviders /\ IdleConf /\ IdleParsers /\ IdleGenerator /\ IdleAnswer
  \/ /\ part = "providers" /\ P!Init /\ at = <<>>
     /\ IdleNodes /\ IdleRules /\ IdleConf /\ IdleParsers /\ IdleGenerator /\ IdleAnswer
  \/ /\ part = "conf" /\ ConfInit /\ at = <<>>
     /\ IdleNodes /\ IdleRules /\ IdleProviders /\ IdleParsers /\ IdleGenerator /\ IdleAnswer
  \/ /\ part = "parse" /\ D!Init /\ req = <<>> /\ todo = <<>>
     /\ IdleNodes /\ IdleRules /\ IdleProviders /\ IdleConf /\ IdleGenerator /\ IdleAnswer
  \/ /\ part = "generate" /\ GeneratorInit /\ req = <<>> /\ todo = <<>>
     /\ IdleNodes /\ IdleRules /\ IdleProviders /\ IdleConf /\ IdleParsers /\ IdleAnswer
  \/ /\ part = "answer" /\ S!Init /\ req = <<>> /\ todo = <<>> /\ at = <<>>
     /\ IdleNodes /\ IdleRules /\ IdleProviders /\ IdleConf /\ IdleParsers /\ IdleGenerator

Next ==
  \/ /\ part = "nodes" /\ NodesNext
     /\ UNCHANGED <<part, req, todo, at, rulesOnly, providersOnly, confOnly, parsersOnly, generatorOnly,
                    answerOnly>>
  \/ /\ part = "rules" /\ R!Next
     /\ UNCHANGED <<part, at, nodesOnly, providersOnly, confOnly, parsersOnly, generatorOnly,
                    answerOnly>>
  \/ /\ part = "providers" /\ P!Next
     /\ UNCHANGED <<part, at, nodesOnly, rulesOnly, confOnly, parsersOnly, generatorOnly, answerOnly>>
  \/ /\ part = "conf" /\ ConfNext
     /\ UNCHANGED <<part, at, nodesOnly, rulesOnly, providersOnly, parsersOnly, generatorOnly,
                    answerOnly>>
  \/ /\ part = "parse" /\ D!Next
     /\ UNCHANGED <<part, req, todo, nodesOnly, rulesOnly, providersOnly, confOnly,
                    generatorOnly, answerOnly>>
  \/ /\ part = "generate" /\ GeneratorNext
     /\ UNCHANGED <<part, req, todo, nodesOnly, rulesOnly, providersOnly, confOnly, parsersOnly,
                    answerOnly>>
  \/ /\ part = "answer" /\ S!Next
     /\ UNCHANGED <<part, req, todo, at, nodesOnly, rulesOnly, providersOnly, confOnly,
                    parsersOnly, generatorOnly>>

Spec == Init /\ [][Next]_<<part, req, todo, at, nodesOnly, rulesOnly, providersOnly, confOnly,
                           parsersOnly, generatorOnly, answerOnly>>

-----------------------------------------------------------------------------
(* What each stage guarantees; its module states and explains the parts.   *)
(* Those of Nodes, ExternalConf and Generator are checked as they are.     *)

\* Conversion keeps what the rules mean: their order, which decides the match,
\* and their groups, none of them left out below the limit.  Every ruleset is
\* there in full or by a reference in a format of the target, which leads to the
\* rules that would have been there in full.  The exceptions are named: lists
\* that are LeftOut, policies with PolicyStays, and the links of Loon.
RulesAreKept ==
  part = "rules" => R!FirstMatchIsKept /\ R!PolicyIsTheirs
                    /\ R!NoRulesetIsLost /\ R!ReferencesAreRead /\ R!ReferencesServe

\* Whatever a rule or the script refers to is there, in the order of the
\* rulesets, and every line of every list reaches the group of its ruleset.
ProvidersServe ==
  part = "providers" => P!ReferencesLead /\ P!OrderIsKept /\ P!ListsReachTheirGroup

\* A node says what its entry says and reaches the server that entry names,
\* whatever stands before it in the document, but for the fields that the
\* parsers carry over from one entry to the next.
EntriesStandAlone == part = "parse" => D!EntriesStandAlone /\ D!ServersAreTheirs

\* However many parsers are tried on a text, each entry that gives a node gives
\* one, in the order of the text, and the nodes are numbered without gap.
EveryEntryIsReadOnce == part = "parse" => D!EveryEntryIsReadOnce

\* Requests that ask for the same get the same: one that leaves the format to
\* the table of clients and one that names it, a HEAD and a GET, a client and
\* its next version; and one that fails has uploaded nothing.
AnswersAgree ==
  part = "answer" => S!AutoIsExplicit /\ S!UpgradesKeep /\ S!HeadTellsTheSame /\ S!ErrorsLeaveNothing

\* The user info of an answer is that of the last link that has any, traffic
\* and end, and its amounts add up.
InfoIsOfOneLink == part = "answer" => S!InfoIsOfOneLink /\ S!TrafficAddsUp
=============================================================================
