---------------------------- MODULE ServerProofs ----------------------------
(***************************************************************************)
(* Proofs about the server and what it runs for a request.                 *)
(*                                                                         *)
(* Server: the loop check of on_request() works for any number of workers  *)
(* and clients and any backlog.                                            *)
(* ExternalConf: whatever the files, preferences and requests are, an      *)
(* argument goes before the configuration and that before the preferences, *)
(* and a configuration is in force as a whole or not at all.               *)
(* Generator: whatever the artifacts, profiles and links are, each is what *)
(* it would be alone.                                                      *)
(* Nodes: whatever the links of a request are and whichever of them fail,  *)
(* what a link brings is there as a whole or not at all, filtered and in   *)
(* its place, and its group tells it from the nodes of the other links.    *)
(***************************************************************************)
EXTENDS Server, ExternalConf, Generator, Nodes, FiniteSetTheorems,
        WellFoundedInduction, TLAPS

-----------------------------------------------------------------------------
(* Server *)

\* The part of the typing that the argument needs: pc and serves are arrays.
Arrays ==
  /\ pc = [t \in Threads |-> pc[t]]
  /\ serves = [w \in Workers |-> serves[w]]

\* Only requests without the header reach a handler.
HandlersServeClients ==
  \A w \in Workers : pc[w] \in {"handler", "fetch"} => ~Flagged(serves[w])

\* Workers handle requests and the main thread runs scripts, which matters
\* because both wait for downloads with the same code.
WorkersHandle ==
  /\ pc[Main] \notin {"accepted", "handler"}
  /\ \A w \in Workers : pc[w] # "script"

IInv == Arrays /\ HandlersServeClients /\ WorkersHandle

-----------------------------------------------------------------------------
\* No request is served when the server starts.
LEMMA InitIInv == Init => IInv
BY ServerAssumption DEF Init, IInv, Arrays, HandlersServeClients, WorkersHandle, Threads

\* The steps of a worker: a request with the header is rejected, never handled.
LEMMA WorkerSteps ==
  ASSUME IInv, NEW w \in Workers, Accept(w) \/ Reject(w) \/ Handle(w) \/ Answer(w)
  PROVE  IInv'
<1> USE ServerAssumption DEF IInv, Arrays, HandlersServeClients, WorkersHandle, Threads
<1>1. CASE Accept(w) BY <1>1 DEF Accept
<1>2. CASE Reject(w) BY <1>2 DEF Reject, Finish
<1>3. CASE Handle(w) BY <1>3 DEF Handle
<1>4. CASE Answer(w) BY <1>4 DEF Answer, Finish
<1>5. QED BY <1>1, <1>2, <1>3, <1>4

\* A download changes where a thread waits, not whom it serves.
LEMMA FetchSteps ==
  ASSUME IInv, NEW t \in Threads, FetchElsewhere(t) \/ FetchSelf(t) \/ FetchEnds(t)
  PROVE  IInv'
<1> USE ServerAssumption DEF IInv, Arrays, HandlersServeClients, WorkersHandle, Threads
<1>1. CASE StartFetch(t) BY <1>1 DEF StartFetch
<1>2. CASE FetchEnds(t)
  <2>1. pc[t] = "fetch" /\ serves' = serves
        /\ pc' = [pc EXCEPT ![t] = IF t = Main THEN "script" ELSE "handler"]
    BY <1>2 DEF FetchEnds, Resume
  <2>2. QED BY <2>1
<1>3. QED BY <1>1, <1>2 DEF FetchElsewhere, FetchSelf

\* The steps of the main thread and of the clients serve nobody.
LEMMA OtherSteps ==
  ASSUME IInv,
         \/ \E c \in Clients : Send(c)
         \/ Signal \/ Tick \/ Sleep \/ ScriptEnds \/ Interrupt \/ Exit
         \/ UNCHANGED vars
  PROVE  IInv'
<1> USE ServerAssumption DEF IInv, Arrays, HandlersServeClients, WorkersHandle, Threads
<1>1. CASE UNCHANGED <<serves, pc>> BY <1>1
<1>2. CASE serves' = serves /\ \E to \in {"sleep", "script", "loop", "exited"} : Goto(to)
  BY <1>2 DEF Goto
<1>3. QED
  BY <1>1, <1>2 DEF Send, Signal, Tick, Sleep, ScriptEnds, Interrupt, Exit, vars

\* The loop check: whatever requests arrive, in whatever order workers take
\* them, no worker that waits for a download serves one that another thread
\* waits for.  Waiting never chains, however many workers there are.
THEOREM WaitsNeverChain == Spec => []NoChainOfWaits
<1>1. IInv /\ [Next]_vars => IInv'
  BY WorkerSteps, FetchSteps, OtherSteps DEF Next
<1>2. IInv => NoChainOfWaits
  BY DEF IInv, HandlersServeClients, NoChainOfWaits
<1>3. QED BY <1>1, <1>2, InitIInv, PTL DEF Spec

-----------------------------------------------------------------------------
(* ExternalConf *)

\* The settings of a request before a configuration is looked at.
OwnSettings == [k \in Settings |->
          IF k \in {"rename", "emoji"} THEN <<>>
          ELSE IF k \in Switches THEN "undef" ELSE pref[k]]

Says == Files[file].says

\* What the reader has come past is read, and nothing else is.
IsRead(rest) ==
  /\ \A k \in Settings :
       /\ k \in DOMAIN Says => k \in ToSet(rest) \/ extconf[k] = Says[k]
       /\ k \notin DOMAIN Says => extconf[k] = Fresh[k]
  /\ "template" \in DOMAIN Says => "template" \in ToSet(rest) \/ local_vars = Says["template"]

\* A reader reads the file it is meant for, or a value that does not convert has
\* brought the text to the INI reader.
ReaderIsSound ==
  /\ file \in DOMAIN Files /\ settings = OwnSettings
  /\ \/ stage = Files[file].format /\ IsRead(todo)
     \/ stage = "ini" /\ Files[file].format # "ini" /\ Files[file].bad # {}

\* What subconverter() has taken from a configuration that was read to its end.
IsTaken ==
  /\ \A k \in Settings :
       Defines(k) /\ (k \in OfAnyTarget \/ req.kind = "full") => settings[k] = Says[k]
  /\ "template" \in DOMAIN Says => local_vars = Says["template"]
  /\ \A k \in Settings \ Flags :
       \/ k \notin DOMAIN Says
       \/ k \notin OfAnyTarget \cup {"sssub_rule_base"} /\ req.kind # "full"
       => settings[k] = OwnSettings[k]
  /\ \A k \in Policies :
       settings[k] = IF req.kind = "full" /\ Defines(k) THEN Says[k] ELSE OwnSettings[k]
  /\ \A k \in Flags :
       settings[k] = IF req.kind # "full" THEN OwnSettings[k]
                     ELSE IF k \in DOMAIN Says THEN Says[k] ELSE Unnamed[k]

\* What subconverter() has taken from the arguments where there is none.
IsAlone ==
  /\ \A k \in Policies :
       settings[k] = IF req.kind = "full" /\ Given(ArgumentOf[k]) THEN req.args[ArgumentOf[k]]
                     ELSE OwnSettings[k]
  /\ \A k \in Flags : settings[k] = OwnSettings[k]

LastIsSound ==
  \/ file = "" /\ returned = "no call" /\ IsAlone
  \/ file \in DOMAIN Files /\ returned = "-1" /\ settings = OwnSettings
  \/ file \in DOMAIN Files /\ returned = "0" /\ (IsTaken \/ Mistaken)

ConfInv ==
  /\ req \in ConfRequests /\ pref \in Preferences
  /\ stage \in {"start", "yaml", "toml", "ini", "loaded", "alone", "last", "done"}
  /\ todo \in Seq(Settings \cup Templates) /\ DOMAIN extconf = Settings
  /\ stage \in {"start", "alone"} => settings = OwnSettings /\ file = "" /\ returned = "no call"
  /\ stage = "start" => extconf = Fresh
  /\ stage \in {"yaml", "toml", "ini"} => ReaderIsSound
  /\ stage = "loaded" =>
       /\ file \in DOMAIN Files /\ returned = "0" /\ settings = OwnSettings
       /\ IsRead(<<>>) \/ Mistaken
  /\ stage = "last" => LastIsSound
  /\ PrecedenceIsKept /\ WholeOrNothing

-----------------------------------------------------------------------------
\* Which settings are of which kind.
LEMMA KindsApart ==
  /\ "template" \notin Settings /\ "custom.template" \notin Settings
  /\ \A k \in Bases : k \notin Flags \cup Switches \cup Policies \cup NodeLists
  /\ \A k \in Switches : k \notin Flags \cup Policies \cup NodeLists
  /\ \A k \in Policies : k \notin Flags \cup NodeLists
  /\ \A k \in NodeLists : k \notin Flags
  /\ \A k \in Settings : k \in Bases \cup Flags \cup Switches \cup Policies \cup NodeLists
  /\ TargetBases = Bases \ {"sssub_rule_base"} /\ "sssub_rule_base" \in Bases
  /\ {"rename", "emoji"} \subseteq NodeLists /\ "add_emoji" \in Switches
BY DEF Settings, Bases, TargetBases, Flags, Switches, Policies, NodeLists

\* What a configuration holds before it is read.
LEMMA FreshIs ==
  /\ DOMAIN Fresh = Settings
  /\ \A k \in Bases : Fresh[k] = ""
  /\ \A k \in Switches : Fresh[k] = "undef"
  /\ \A k \in Policies \cup NodeLists : Fresh[k] = <<>>
  /\ \A k \in Flags : Fresh[k] = Unnamed[k]
<1>1. \A k \in Settings : Fresh[k] = IF k \in Bases THEN ""
                      ELSE IF k = "enable_rule_generator" THEN "true"
                      ELSE IF k = "overwrite_original_rules" THEN "false"
                      ELSE IF k \in Switches THEN "undef" ELSE <<>>
  BY Zenon DEF Fresh
<1>2. Bases \cup Switches \cup Policies \cup NodeLists \subseteq Settings
  BY DEF Settings
<1>3. "enable_rule_generator" \in Flags /\ "overwrite_original_rules" \in Flags
  BY DEF Flags
<1>4. DOMAIN Fresh = Settings
  BY DEF Fresh
<1>5. \A k \in Flags : Fresh[k] = Unnamed[k]
  <2>1. Flags = {"enable_rule_generator", "overwrite_original_rules"} /\ Flags \subseteq Settings
    BY DEF Flags, Settings
  <2>2. \A k \in Flags : k \notin Bases
    BY KindsApart
  <2>3. /\ Fresh["enable_rule_generator"] = "true"
        /\ Fresh["overwrite_original_rules"] = "false"
    BY <1>1, <1>3, <2>1, <2>2
  <2>4. /\ Unnamed["enable_rule_generator"] = "true"
        /\ Unnamed["overwrite_original_rules"] = "false"
    BY DEF Unnamed
  <2> QED BY <2>1, <2>3, <2>4
<1> QED BY <1>1, <1>2, <1>3, <1>4, <1>5, KindsApart, Zenon

LEMMA OwnIs ==
  /\ DOMAIN OwnSettings = Settings
  /\ \A k \in Switches : OwnSettings[k] = "undef"
  /\ OwnSettings["rename"] = <<>> /\ OwnSettings["emoji"] = <<>>
  /\ \A k \in Settings \ (Switches \cup {"rename", "emoji"}) : OwnSettings[k] = pref[k]
<1>1. Switches \cup {"rename", "emoji"} \subseteq Settings
  BY DEF Settings, NodeLists
<1> QED BY <1>1, KindsApart, Zenon DEF OwnSettings

\* The readers look for settings and variables, and none for both variables.
LEMMA OrderIs ==
  ASSUME NEW f \in {"yaml", "toml", "ini"}
  PROVE  /\ Order(f) \in Seq(Settings \cup Templates)
         /\ "template" \in ToSet(Order(f)) => "custom.template" \notin ToSet(Order(f))
<1> USE DEF Settings, Bases, TargetBases, Flags, Switches, Policies, NodeLists, Templates, ToSet
<1>1. /\ YAMLOrder \in Seq(Settings \cup Templates) /\ "custom.template" \notin ToSet(YAMLOrder)
  BY SMTT(60) DEF YAMLOrder
<1>2. /\ TOMLOrder \in Seq(Settings \cup Templates) /\ "template" \notin ToSet(TOMLOrder)
  BY SMTT(60) DEF TOMLOrder
<1>3. /\ INIOrder \in Seq(Settings \cup Templates) /\ "custom.template" \notin ToSet(INIOrder)
  BY SMTT(60) DEF INIOrder
<1> QED BY <1>1, <1>2, <1>3 DEF Order

LEMMA NothingIsSeq == ASSUME NEW X PROVE <<>> \in Seq(X)
OBVIOUS

\* The elements of a sequence are its first and those of the rest.
LEMMA FirstAndRest ==
  ASSUME NEW X, NEW s \in Seq(X), s # <<>>
  PROVE  /\ Head(s) \in X /\ Tail(s) \in Seq(X)
         /\ ToSet(s) = {Head(s)} \cup ToSet(Tail(s))
<1>1. Len(s) \in Nat /\ Len(s) >= 1 /\ DOMAIN s = 1..Len(s)
  OBVIOUS
<1>2. Tail(s) \in Seq(X) /\ Len(Tail(s)) = Len(s) - 1 /\ Head(s) = s[1]
  BY <1>1
<1>3. \A i \in 1..Len(s) - 1 : Tail(s)[i] = s[i + 1]
  BY <1>1
<1>4. ASSUME NEW x \in ToSet(s) PROVE x = Head(s) \/ x \in ToSet(Tail(s))
  <2>1. PICK i \in 1..Len(s) : x = s[i]
    BY <1>1 DEF ToSet
  <2>2. CASE i = 1
    BY <1>2, <2>1, <2>2
  <2>3. CASE i # 1
    <3>1. i - 1 \in 1..Len(s) - 1 /\ (i - 1) + 1 = i
      BY <1>1, <2>3
    <3>2. Tail(s)[i - 1] = x /\ i - 1 \in DOMAIN Tail(s)
      BY <1>2, <1>3, <2>1, <3>1
    <3> QED BY <3>2, Zenon DEF ToSet
  <2> QED BY <2>2, <2>3
<1>5. ASSUME NEW x \in ToSet(Tail(s)) PROVE x \in ToSet(s)
  <2>1. PICK i \in 1..Len(s) - 1 : x = s[i + 1]
    BY <1>1, <1>2, <1>3 DEF ToSet
  <2>2. i + 1 \in DOMAIN s
    BY <1>1
  <2> QED BY <2>1, <2>2, Zenon DEF ToSet
<1>6. Head(s) \in ToSet(s)
  BY <1>1, <1>2 DEF ToSet
<1> QED BY <1>1, <1>2, <1>4, <1>5, <1>6

-----------------------------------------------------------------------------
LEMMA InitConfInv == ConfInit => ConfInv
<1> SUFFICES ASSUME ConfInit PROVE ConfInv
  OBVIOUS
<1>1. settings = OwnSettings /\ stage = "start" /\ extconf = Fresh /\ todo = <<>>
  BY DEF ConfInit, OwnSettings
<1>2. PrecedenceIsKept /\ WholeOrNothing
  BY <1>1 DEF PrecedenceIsKept, WholeOrNothing, ArgumentsWin, DefinedOverrides, OthersAreKept,
              FlagsAreSet, PoliciesAreChosen, AllOrNone, RefusedLeavesNoTrace, Done
<1>3. req \in ConfRequests /\ pref \in Preferences /\ file = "" /\ returned = "no call"
  BY DEF ConfInit
<1>4. todo \in Seq(Settings \cup Templates) /\ DOMAIN extconf = Settings
  BY <1>1, FreshIs, NothingIsSeq
<1>5. ~(stage \in {"yaml", "toml", "ini"}) /\ stage # "loaded" /\ stage # "last"
  BY <1>1
<1> HIDE DEF ConfInit
<1> QED BY <1>1, <1>2, <1>3, <1>4, <1>5 DEF ConfInv

\* Until a step settles a request, the properties say nothing.
LEMMA NotYet ==
  ASSUME stage' # "done"
  PROVE  (PrecedenceIsKept /\ WholeOrNothing)'
BY DEF PrecedenceIsKept, WholeOrNothing, ArgumentsWin, DefinedOverrides, OthersAreKept,
       FlagsAreSet, PoliciesAreChosen, AllOrNone, RefusedLeavesNoTrace, Done

LEMMA ChooseStep == ASSUME ConfInv, Choose PROVE ConfInv'
<1>1. UNCHANGED <<req, pref, returned, extconf, local_vars, settings>> /\ file' = ConfigName
      /\ settings = OwnSettings /\ OwnSettings' = OwnSettings /\ extconf = Fresh /\ returned = "no call"
  BY DEF Choose, ConfInv, OwnSettings
<1>2. CASE ConfigName = ""
  <2>1. stage' = "alone" /\ todo' = <<>>
    BY <1>2 DEF Choose
  <2>2. (PrecedenceIsKept /\ WholeOrNothing)'
    BY <2>1, NotYet
  <2>3. stage' = "alone" /\ file' = "" /\ settings' = OwnSettings' /\ returned' = "no call"
    BY <1>1, <1>2, <2>1
  <2>4. /\ req' \in ConfRequests /\ pref' \in Preferences /\ DOMAIN extconf' = Settings
        /\ todo' \in Seq(Settings \cup Templates)
    BY <1>1, <2>1, FreshIs, NothingIsSeq, Zenon DEF ConfInv
  <2>5. ~(stage' \in {"start", "yaml", "toml", "ini"}) /\ stage' # "loaded" /\ stage' # "last"
    BY <2>3
  <2> QED BY <2>2, <2>3, <2>4, <2>5 DEF ConfInv
<1>3. CASE ConfigName # ""
  <2>1. stage' = Files[ConfigName].format /\ todo' = Order(stage')
    BY <1>3 DEF Choose
  <2>2. ConfigName \in DOMAIN Files
    BY <1>3, ExternalConfAssumption DEF ConfigName, ConfInv
  <2>3. stage' \in {"yaml", "toml", "ini"} /\ DOMAIN Files[ConfigName].says \subseteq ToSet(todo')
    BY <2>1, <2>2, ExternalConfAssumption
  <2>4. todo' \in Seq(Settings \cup Templates)
    BY <2>1, <2>3, OrderIs
  <2>5. IsRead(todo)'
    BY <1>1, <2>3 DEF IsRead, Says
  <2>6. ReaderIsSound'
    BY <1>1, <2>1, <2>2, <2>5 DEF ReaderIsSound
  <2>7. (PrecedenceIsKept /\ WholeOrNothing)'
    BY <2>3, NotYet
  <2> QED BY <1>1, <2>3, <2>4, <2>6, <2>7 DEF ConfInv
<1> QED BY <1>2, <1>3

\* A text is read by the reader it is meant for, or it is mistaken.
LEMMA WhoReads ==
  ASSUME ConfInv, Reading
  PROVE  /\ settings = OwnSettings /\ file \in DOMAIN Files /\ stage \in {"yaml", "toml", "ini"}
         /\ \/ stage = Files[file].format /\ IsRead(todo) /\ Said = Says
            \/ stage = "ini" /\ Files[file].format # "ini" /\ Mistaken
<1>1. stage \in {"yaml", "toml", "ini"} /\ ReaderIsSound
  BY DEF Reading, ConfInv
<1>2. CASE stage = Files[file].format /\ IsRead(todo)
  <2>1. Said = Says
    BY <1>2 DEF Said, Says
  <2> QED BY <1>1, <1>2, <2>1 DEF ReaderIsSound
<1>3. CASE stage = "ini" /\ Files[file].format # "ini" /\ Files[file].bad # {}
  BY <1>1, <1>3 DEF ReaderIsSound, Reading, Mistaken
<1> QED BY <1>1, <1>2, <1>3 DEF ReaderIsSound

\* The settings of a configuration stay those there are.
LEMMA SettingsStay ==
  ASSUME DOMAIN extconf = Settings, NEW k, NEW value, Take(k, value) \/ Leave(k)
  PROVE  DOMAIN extconf' = Settings
BY DEF Take, Leave

\* Passing a setting that the file does not name.
LEMMA LeaveReads ==
  ASSUME ConfInv, IsRead(todo), todo # <<>>, Head(todo) \notin DOMAIN Says, UNCHANGED file,
         Leave(Head(todo)), todo' = Tail(todo)
  PROVE  IsRead(todo)'
<1> DEFINE k == Head(todo)
<1>1. ToSet(todo) = {k} \cup ToSet(Tail(todo)) /\ DOMAIN extconf = Settings
  BY FirstAndRest DEF ConfInv
<1>2. Says' = Says /\ local_vars' = local_vars /\ ToSet(todo)' = ToSet(Tail(todo))
  BY DEF Says, Leave
<1>3. k \in Switches => k \in Settings /\ extconf[k] = Fresh[k] /\ Fresh[k] = "undef"
  BY FreshIs DEF IsRead, Settings
<1> HIDE DEF k
<1>4. \A x \in Settings : extconf'[x] = extconf[x]
  BY <1>1, <1>3 DEF Leave, k
<1>5. k \notin DOMAIN Says
  BY DEF k
<1> QED BY <1>1, <1>2, <1>4, <1>5 DEF IsRead

\* Taking a setting or a variable that comes next.
LEMMA TakeReads ==
  ASSUME ConfInv, IsRead(todo), stage = Files[file].format, file \in DOMAIN Files, todo # <<>>,
         Head(todo) \in DOMAIN Says, UNCHANGED file, Take(Head(todo), Says[Head(todo)]),
         todo' = Tail(todo)
  PROVE  IsRead(todo)'
<1> DEFINE k == Head(todo)
<1>1. IsRead(todo) /\ stage = Files[file].format /\ file \in DOMAIN Files
      /\ stage \in {"yaml", "toml", "ini"}
  BY ExternalConfAssumption
<1>2. /\ k \in Settings \cup Templates /\ ToSet(todo) = {k} \cup ToSet(Tail(todo))
      /\ DOMAIN extconf = Settings
  BY FirstAndRest DEF ConfInv
<1>3. Says' = Says
  BY DEF Says
<1> HIDE DEF k
<1>4. CASE k \in Templates
  <2>1. extconf' = extconf /\ (k = "template" => local_vars' = Says[k])
    BY <1>4 DEF Take, k
  <2>2. k \notin Settings
    BY <1>4, KindsApart DEF Templates
  <2>3. ASSUME "template" \in DOMAIN Says PROVE k = "template"
    <3>1. "template" \in ToSet(Order(stage)) /\ k \in ToSet(Order(stage))
      BY <1>1, <2>3, ExternalConfAssumption DEF Says, k
    <3>2. k # "custom.template"
      BY <1>1, <3>1, OrderIs
    <3> QED BY <1>4, <3>2 DEF Templates
  <2> QED BY <1>1, <1>2, <1>3, <2>1, <2>2, <2>3 DEF IsRead
<1>5. CASE k \notin Templates
  <2>1. extconf' = [extconf EXCEPT ![k] = Says[k]] /\ local_vars' = local_vars /\ k # "template"
    BY <1>5 DEF Take, k, Templates
  <2>2. /\ DOMAIN extconf' = Settings
        /\ \A x \in Settings : extconf'[x] = IF x = k THEN Says[k] ELSE extconf[x]
    BY <1>2, <2>1
  <2>3. k \in DOMAIN Says
    BY DEF k
  <2> QED BY <1>1, <1>2, <1>3, <2>1, <2>2, <2>3 DEF IsRead
<1> QED BY <1>4, <1>5

LEMMA ReadStep == ASSUME ConfInv, Read PROVE ConfInv'
<1> DEFINE k == Head(todo)
<1>1. /\ UNCHANGED <<req, pref, file, settings>> /\ Reading /\ todo # <<>>
      /\ Tail(todo) \in Seq(Settings \cup Templates) /\ DOMAIN extconf = Settings
      /\ OwnSettings' = OwnSettings /\ Says' = Says
  BY FirstAndRest DEF Read, ConfInv, OwnSettings, Says
<1>2. /\ settings = OwnSettings /\ file \in DOMAIN Files /\ stage \in {"yaml", "toml", "ini"}
      /\ \/ stage = Files[file].format /\ IsRead(todo) /\ Said = Says
         \/ stage = "ini" /\ Files[file].format # "ini" /\ Mistaken
  BY <1>1, WhoReads
<1>3. req' \in ConfRequests /\ pref' \in Preferences
  BY <1>1 DEF ConfInv
\* The reader goes on with the next setting.
<1>4. ASSUME UNCHANGED stage, todo' = Tail(todo), DOMAIN extconf' = Settings,
             stage = Files[file].format /\ IsRead(todo) /\ Said = Says => IsRead(todo)'
      PROVE  ConfInv'
  <2>1. ReaderIsSound'
    BY <1>1, <1>2, <1>4 DEF ReaderIsSound, Mistaken
  <2>2. (PrecedenceIsKept /\ WholeOrNothing)'
    BY <1>2, <1>4, NotYet
  <2>3. stage' \in {"yaml", "toml", "ini"} /\ todo' \in Seq(Settings \cup Templates)
    BY <1>1, <1>2, <1>4
  <2> QED BY <1>3, <1>4, <2>1, <2>2, <2>3 DEF ConfInv
<1>5. CASE k \notin DOMAIN Said
  <2>1. UNCHANGED stage /\ todo' = Tail(todo) /\ Leave(k)
    BY <1>5 DEF Read
  <2>2. DOMAIN extconf' = Settings
    BY <1>1, <2>1, SettingsStay
  <2> QED BY <1>1, <1>4, <1>5, <2>1, <2>2, LeaveReads
<1>6. CASE k \in DOMAIN Said /\ Throws(k)
  <2>1. stage' = "ini" /\ todo' = Order("ini") /\ UNCHANGED <<returned, extconf, local_vars>>
    BY <1>6 DEF Read, Order
  <2>2. Files[file].bad # {} /\ Files[file].format # "ini"
    BY <1>2, <1>6 DEF Throws
  <2>3. ReaderIsSound'
    BY <1>1, <1>2, <2>1, <2>2 DEF ReaderIsSound
  <2>4. (PrecedenceIsKept /\ WholeOrNothing)'
    BY <2>1, NotYet
  <2>5. todo' \in Seq(Settings \cup Templates) /\ stage' \in {"yaml", "toml", "ini"}
        /\ DOMAIN extconf' = Settings
    BY <1>1, <2>1, OrderIs
  <2> QED BY <1>3, <2>1, <2>3, <2>4, <2>5 DEF ConfInv
<1>7. CASE k \in DOMAIN Said /\ ~Throws(k) /\ k = "surge_ruleset" /\ TooMany(Said[k])
  <2>1. stage' = "last" /\ returned' = "-1" /\ todo' = <<>> /\ UNCHANGED <<extconf, local_vars>>
    BY <1>7 DEF Read, Fail
  <2>2. LastIsSound'
    BY <1>1, <1>2, <2>1 DEF LastIsSound
  <2>3. (PrecedenceIsKept /\ WholeOrNothing)'
    BY <2>1, NotYet
  <2>4. todo' \in Seq(Settings \cup Templates) /\ DOMAIN extconf' = Settings
    BY <1>1, <2>1, NothingIsSeq
  <2> QED BY <1>3, <2>1, <2>2, <2>3, <2>4 DEF ConfInv
<1>8. CASE k \in DOMAIN Said /\ ~Throws(k) /\ ~(k = "surge_ruleset" /\ TooMany(Said[k]))
  <2>1. todo' = Tail(todo) /\ Take(k, Said[k]) /\ UNCHANGED <<stage, returned>>
    BY <1>8 DEF Read
  <2>2. DOMAIN extconf' = Settings
    BY <1>1, <2>1, SettingsStay
  <2> QED BY <1>1, <1>2, <1>4, <1>8, <2>1, <2>2, TakeReads
<1> QED BY <1>5, <1>6, <1>7, <1>8

LEMMA RefuseStep == ASSUME ConfInv, Refuse PROVE ConfInv'
<1>1. /\ ReaderIsSound /\ stage' = "last" /\ returned' = "-1" /\ todo' = <<>> /\ OwnSettings' = OwnSettings
      /\ UNCHANGED <<req, pref, file, extconf, local_vars, settings>>
  BY DEF Refuse, Fail, ConfInv, OwnSettings
<1>2. LastIsSound'
  BY <1>1 DEF LastIsSound, ReaderIsSound
<1>3. (PrecedenceIsKept /\ WholeOrNothing)'
  BY <1>1, NotYet
<1>4. /\ req' \in ConfRequests /\ pref' \in Preferences
      /\ todo' \in Seq(Settings \cup Templates) /\ DOMAIN extconf' = Settings
  BY <1>1, NothingIsSeq, Zenon DEF ConfInv
<1> QED BY <1>1, <1>2, <1>3, <1>4 DEF ConfInv

LEMMA ReturnStep == ASSUME ConfInv, Return PROVE ConfInv'
<1>1. /\ stage' = "loaded" /\ returned' = "0" /\ Reading /\ todo = <<>> /\ OwnSettings' = OwnSettings /\ Says' = Says
      /\ UNCHANGED <<req, pref, file, todo, extconf, local_vars, settings>>
  BY DEF Return, OwnSettings, Says
<1>2. file \in DOMAIN Files /\ settings = OwnSettings /\ (IsRead(<<>>) \/ Mistaken)
  BY <1>1, WhoReads
<1>3. (IsRead(<<>>) \/ Mistaken)'
  BY <1>1, <1>2 DEF IsRead, Mistaken
<1>4. (PrecedenceIsKept /\ WholeOrNothing)'
  BY <1>1, NotYet
<1>5. /\ req' \in ConfRequests /\ pref' \in Preferences
      /\ todo' \in Seq(Settings \cup Templates) /\ DOMAIN extconf' = Settings
  BY <1>1 DEF ConfInv
<1>6. file' \in DOMAIN Files /\ settings' = OwnSettings'
  BY <1>1, <1>2
<1> QED BY <1>1, <1>3, <1>4, <1>5, <1>6 DEF ConfInv

\* Whether a setting is taken from the configuration, by its kind.
LEMMA UsesIs ==
  ASSUME req.kind \in Kinds
  PROVE  /\ \A k \in OfAnyTarget : Uses(k)
         /\ req.kind = "full" => \A k \in Settings : Uses(k)
         /\ req.kind # "full" => \A k \in TargetBases \cup Policies \cup Flags : ~Uses(k)
<1>1. req.kind = "full" <=> ~NodeList /\ ~Simple
  BY DEF NodeList, Simple, Kinds
<1>2. \A k \in {"sssub_rule_base"} : Uses(k) <=> ~NodeList
  BY KindsApart, Zenon DEF Uses
<1>3. \A k \in TargetBases \cup Policies \cup Flags : Uses(k) <=> (~NodeList /\ ~Simple)
  BY KindsApart, Zenon DEF Uses
<1>4. \A k : k # "sssub_rule_base" /\ k \notin TargetBases \cup Policies \cup Flags => Uses(k)
  BY Zenon DEF Uses
<1>5. \A k \in OfAnyTarget : k # "sssub_rule_base" /\ k \notin TargetBases \cup Policies \cup Flags
  BY KindsApart DEF OfAnyTarget
<1>6. \A k \in Settings : k = "sssub_rule_base" \/ k \in TargetBases \cup Policies \cup Flags
                          \/ k \in OfAnyTarget
  BY KindsApart DEF OfAnyTarget
<1> QED BY <1>1, <1>2, <1>3, <1>4, <1>5, <1>6

\* What subconverter() takes from a configuration that was read to its end.
LEMMA ApplyTakes ==
  ASSUME ConfInv, Apply, IsRead(<<>>)
  PROVE  IsTaken'
<1>1. /\ UNCHANGED <<req, file, local_vars>> /\ Says' = Says /\ OwnSettings' = OwnSettings /\ settings = OwnSettings
  BY DEF Apply, ConfInv, Says, OwnSettings
<1>2. req.kind \in Kinds
  BY ExternalConfAssumption DEF ConfInv
<1>3. \A k \in Settings :
        settings'[k] = IF Uses(k) /\ Counts(k) THEN extconf[k] ELSE OwnSettings[k]
  BY <1>1 DEF Apply
<1>4. \A k \in Settings : IF k \in DOMAIN Says THEN extconf[k] = Says[k] ELSE extconf[k] = Fresh[k]
  BY DEF IsRead, ToSet
<1>5. "template" \in DOMAIN Says => local_vars = Says["template"]
  BY DEF IsRead, ToSet
<1>6. ASSUME NEW k \in Settings, Defines(k), k \in OfAnyTarget \/ req.kind = "full"
      PROVE  settings'[k] = Says[k]
  <2>1. extconf[k] = Says[k]
    BY <1>4, <1>6 DEF Defines, Says
  <2>2. Counts(k)
    BY <1>6, <2>1, KindsApart DEF Counts, Defines, Says
  <2>3. Uses(k)
    BY <1>2, <1>6, UsesIs
  <2> QED BY <1>3, <2>1, <2>2, <2>3
<1>7. ASSUME NEW k \in Settings \ Flags, k \notin DOMAIN Says
      PROVE  settings'[k] = OwnSettings[k]
  <2>1. extconf[k] = Fresh[k]
    BY <1>4, <1>7
  <2>2. CASE k \in Switches
    BY <1>3, <2>1, <2>2, FreshIs, OwnIs
  <2>3. CASE k \notin Switches
    <3>1. k \in Bases \/ k \in Policies \cup NodeLists
      BY <1>7, <2>3, KindsApart
    <3>2. ~Counts(k)
      BY <2>1, <3>1, FreshIs, KindsApart DEF Counts
    <3> QED BY <1>3, <3>2
  <2> QED BY <2>2, <2>3
<1>8. ASSUME NEW k \in Settings \ Flags, k \notin OfAnyTarget \cup {"sssub_rule_base"},
             req.kind # "full"
      PROVE  settings'[k] = OwnSettings[k]
  <2>1. k \in TargetBases \cup Policies
    BY <1>8, KindsApart DEF OfAnyTarget
  <2>2. ~Uses(k)
    BY <1>2, <1>8, <2>1, UsesIs
  <2> QED BY <1>3, <2>2
<1>9. \A k : Defines(k)' <=> Defines(k)
  BY <1>1 DEF Defines
<1>10. ASSUME NEW k \in Policies
       PROVE  settings'[k] = IF req.kind = "full" /\ Defines(k) THEN Says[k] ELSE OwnSettings[k]
  <2>1. k \in Settings /\ k \notin Bases \cup Flags
    BY KindsApart DEF Settings
  <2>2. CASE req.kind = "full" /\ Defines(k)
    BY <1>6, <2>1, <2>2
  <2>3. CASE req.kind # "full"
    BY <1>2, <1>3, <2>1, <2>3, UsesIs
  <2>4. CASE req.kind = "full" /\ ~Defines(k)
    <3>1. k \in DOMAIN Says => Says[k] = <<>>
      BY <2>1, <2>4 DEF Defines, Says
    <3>2. extconf[k] = <<>>
      BY <1>4, <2>1, <3>1, FreshIs
    <3>3. ~Counts(k)
      BY <2>1, <3>2 DEF Counts
    <3> QED BY <1>3, <2>1, <2>4, <3>3
  <2> QED BY <2>2, <2>3, <2>4
<1>11. ASSUME NEW k \in Flags
       PROVE  settings'[k] = IF req.kind # "full" THEN OwnSettings[k]
                             ELSE IF k \in DOMAIN Says THEN Says[k] ELSE Unnamed[k]
  <2>1. k \in Settings /\ k \notin Bases \cup Policies \cup NodeLists
    BY KindsApart DEF Settings
  <2>2. Counts(k)
    BY <2>1, Zenon DEF Counts
  <2>3. CASE req.kind = "full"
    BY <1>2, <1>3, <1>4, <2>1, <2>2, <2>3, UsesIs, FreshIs
  <2>4. CASE req.kind # "full"
    BY <1>2, <1>3, <2>1, <2>4, UsesIs
  <2> QED BY <2>3, <2>4
<1> QED BY <1>1, <1>5, <1>6, <1>7, <1>8, <1>9, <1>10, <1>11 DEF IsTaken

LEMMA ApplyStep == ASSUME ConfInv, Apply PROVE ConfInv'
<1>1. /\ stage' = "last" /\ UNCHANGED <<req, pref, file, returned, todo, extconf, local_vars>>
      /\ settings = OwnSettings /\ file \in DOMAIN Files /\ returned = "0"
      /\ IsRead(<<>>) \/ Mistaken
      /\ OwnSettings' = OwnSettings /\ Says' = Says /\ (Mistaken' <=> Mistaken)
  BY DEF Apply, ConfInv, OwnSettings, Says, Mistaken
<1>2. /\ req' \in ConfRequests /\ pref' \in Preferences /\ req.kind \in Kinds
      /\ todo' \in Seq(Settings \cup Templates) /\ DOMAIN extconf' = Settings
  BY <1>1, ExternalConfAssumption DEF ConfInv
<1>3. LastIsSound'
  BY <1>1, ApplyTakes DEF LastIsSound
<1>4. (PrecedenceIsKept /\ WholeOrNothing)'
  BY <1>1, NotYet
<1> QED BY <1>1, <1>2, <1>3, <1>4 DEF ConfInv

LEMMA TakePoliciesStep == ASSUME ConfInv, TakePolicies PROVE ConfInv'
<1>1. /\ stage' = "last" /\ UNCHANGED <<req, pref, file, returned, todo, extconf, local_vars>>
      /\ file = "" /\ returned = "no call" /\ settings = OwnSettings
      /\ OwnSettings' = OwnSettings /\ (\A arg : Given(arg)' <=> Given(arg))
  BY DEF TakePolicies, ConfInv, OwnSettings, Given
<1>2. LastIsSound'
  <2>1. \A k \in Settings :
          settings'[k] = IF k \in Policies /\ Uses(k) /\ Given(ArgumentOf[k])
                         THEN req.args[ArgumentOf[k]] ELSE settings[k]
    BY DEF TakePolicies
  <2>2. \A k \in Policies : Uses(k) <=> req.kind = "full"
    <3>1. req.kind \in Kinds
      BY ExternalConfAssumption DEF ConfInv
    <3>2. Policies \subseteq Settings
      BY DEF Settings
    <3> QED BY <3>1, <3>2, UsesIs
  <2>3. \A k \in Policies \cup Flags : k \in Settings /\ (k \in Flags => k \notin Policies)
    BY KindsApart DEF Settings
  <2>4. IsAlone'
    BY <1>1, <2>1, <2>2, <2>3 DEF IsAlone
  <2> QED BY <1>1, <2>4 DEF LastIsSound
<1>3. (PrecedenceIsKept /\ WholeOrNothing)'
  BY <1>1, NotYet
<1>4. /\ req' \in ConfRequests /\ pref' \in Preferences
      /\ todo' \in Seq(Settings \cup Templates) /\ DOMAIN extconf' = Settings
  BY <1>1 DEF ConfInv
<1> QED BY <1>1, <1>2, <1>3, <1>4 DEF ConfInv

\* What a file names for a setting that subconverter() took, or nothing.
LEMMA AddEmojiIs ==
  ASSUME ConfInv, stage = "last", returned # "no call", settings = OwnSettings \/ IsTaken
  PROVE  settings["add_emoji"] \in {"undef", "false", "true"}
<1>1. file \in DOMAIN Files /\ (settings = OwnSettings \/ IsTaken)
  BY DEF ConfInv, LastIsSound
<1>2. "add_emoji" \in Settings /\ "add_emoji" \in OfAnyTarget /\ "add_emoji" \in Switches
      /\ "add_emoji" \notin Flags \cup Bases \cup Policies \cup NodeLists
  BY KindsApart DEF OfAnyTarget, Settings
<1>3. OwnSettings["add_emoji"] = "undef"
  BY <1>2, OwnIs
<1>4. CASE IsTaken /\ "add_emoji" \in DOMAIN Says
  <2>1. Defines("add_emoji")
    BY <1>2, <1>4 DEF Defines, Says
  <2>2. settings["add_emoji"] = Says["add_emoji"]
    BY <1>2, <1>4, <2>1 DEF IsTaken
  <2>3. Says["add_emoji"] \in {"false", "true"}
    BY <1>1, <1>2, <1>4, ExternalConfAssumption DEF Says
  <2> QED BY <2>2, <2>3
<1>5. CASE IsTaken /\ "add_emoji" \notin DOMAIN Says
  BY <1>2, <1>3, <1>5 DEF IsTaken
<1> QED BY <1>1, <1>3, <1>4, <1>5

\* A setting no configuration has changed becomes that of the preferences.
LEMMA OwnSettles ==
  ASSUME ConfInv, Settle, returned # "no call", settings = OwnSettings \/ IsTaken, Silent,
         NEW k \in Settings, settings[k] = OwnSettings[k]
  PROVE  \/ settings'[k] = pref[k]
         \/ k = "emoji" /\ settings'["add_emoji"] = "false" /\ settings'[k] = <<>>
<1>1. /\ stage = "last" /\ settings' = [x \in Settings |->
          IF x \in Switches THEN Switch(x) ELSE IF x \in NodeLists THEN List(x) ELSE settings[x]]
  BY DEF Settle
<1>2. \A arg : ~Given(arg)
  BY DEF Silent, Given
<1>3. CASE k \in Switches
  <2>1. settings[k] = "undef" /\ settings'[k] = Switch(k)
    BY <1>1, <1>3, OwnIs
  <2> QED BY <1>2, <2>1, Zenon DEF Switch
<1>4. CASE k \in NodeLists
  <2>1. settings'[k] = List(k)
    BY <1>1, <1>4, KindsApart
  <2>2. List(k) = IF settings[k] # <<>> THEN settings[k]
                  ELSE IF k = "rename" \/ (k = "emoji" /\ Switch("add_emoji") = "true") THEN pref[k]
                  ELSE <<>>
    BY <1>2, Zenon DEF List
  <2>3. CASE k = "rename"
    BY <2>1, <2>2, <2>3, OwnIs
  <2>4. CASE k = "emoji"
    <3>1. "add_emoji" \in Settings /\ settings'["add_emoji"] = Switch("add_emoji")
      BY <1>1, KindsApart DEF Settings
    <3>2. Switch("add_emoji") = IF settings["add_emoji"] # "undef" THEN settings["add_emoji"]
                                ELSE pref["add_emoji"]
      BY <1>2, Zenon DEF Switch
    <3>3. settings["add_emoji"] \in {"undef", "false", "true"}
      BY <1>1, AddEmojiIs
    <3>4. pref["add_emoji"] \in {"false", "true"}
      BY ExternalConfAssumption DEF ConfInv
    <3>5. Switch("add_emoji") = "true" \/ Switch("add_emoji") = "false"
      BY <3>2, <3>3, <3>4
    <3>6. settings[k] = <<>>
      BY <2>4, OwnIs
    <3> QED BY <2>1, <2>2, <2>4, <3>1, <3>5, <3>6
  <2>5. CASE k \notin {"rename", "emoji"}
    <3>1. settings[k] = pref[k]
      BY <1>4, <2>5, OwnIs, KindsApart
    <3> QED BY <2>1, <2>2, <2>5, <3>1
  <2> QED BY <2>3, <2>4, <2>5
<1>5. CASE k \notin Switches \cup NodeLists
  BY <1>1, <1>5, OwnIs, KindsApart
<1> QED BY <1>3, <1>4, <1>5

\* What a file defines and subconverter() took stays when nothing overrides it.
LEMMA TakenSettles ==
  ASSUME ConfInv, Settle, file \in DOMAIN Files, Silent, NEW k \in Settings, Defines(k),
         settings[k] = Says[k]
  PROVE  settings'[k] = Says[k]
<1>1. settings' = [x \in Settings |->
          IF x \in Switches THEN Switch(x) ELSE IF x \in NodeLists THEN List(x) ELSE settings[x]]
  BY DEF Settle
<1>2. \A arg : ~Given(arg)
  BY DEF Silent, Given
<1>3. CASE k \in Switches
  <2>1. Says[k] \in {"false", "true"}
    BY <1>3, ExternalConfAssumption DEF Defines, Says
  <2>2. settings[k] # "undef" /\ settings'[k] = Switch(k)
    BY <1>1, <1>3, <2>1
  <2>3. Switch(k) = settings[k]
    BY <1>2, <2>2, Zenon DEF Switch
  <2> QED BY <2>2, <2>3
<1>4. CASE k \in NodeLists
  <2>1. settings[k] # <<>> /\ settings'[k] = List(k)
    BY <1>1, <1>4, KindsApart DEF Defines, Says
  <2>2. List(k) = settings[k]
    BY <1>2, <2>1, Zenon DEF List
  <2> QED BY <2>1, <2>2
<1>5. CASE k \notin Switches \cup NodeLists
  BY <1>1, <1>5
<1> QED BY <1>3, <1>4, <1>5

LEMMA SettleStep == ASSUME ConfInv, Settle PROVE ConfInv'
<1>1. /\ stage = "last" /\ stage' = "done" /\ LastIsSound
      /\ UNCHANGED <<req, pref, file, returned, todo, extconf, local_vars>>
      /\ settings' = [x \in Settings |->
           IF x \in Switches THEN Switch(x) ELSE IF x \in NodeLists THEN List(x) ELSE settings[x]]
      /\ Says' = Says
  BY DEF Settle, ConfInv, Says
<1>2. /\ Silent' = Silent /\ \A k : Defines(k)' <=> Defines(k)
      /\ \A k : Given(k)' <=> Given(k)
      /\ \A k : Valid(k)' <=> Valid(k)
  BY <1>1 DEF Silent, Defines, Given, Valid
<1>3. ArgumentsWin'
  <2>1. ASSUME NEW k \in {"rename", "include", "exclude"}, Given(k), Valid(k)
        PROVE  settings'[k] = req.args[k]
    <3>1. k \in NodeLists /\ k \in Settings /\ k \notin Switches
      BY <2>1, KindsApart DEF NodeLists, Settings
    <3>2. settings'[k] = List(k)
      BY <1>1, <3>1
    <3> QED BY <2>1, <3>2, Zenon DEF List
  <2>2. "add_emoji" \in Switches /\ Switches \subseteq Settings
    BY DEF Switches, Settings
  <2>3. \A k \in Switches : settings'[k] = Switch(k)
    BY <1>1, <2>2
  <2>4. Given("emoji") => Switch("add_emoji") = req.args["emoji"]
    BY Zenon DEF Switch
  <2>5. \A k \in Switches :
          Given(SwitchArgument[k]) /\ ~Given("emoji") => Switch(k) = req.args[SwitchArgument[k]]
    BY Zenon DEF Switch
  <2>6. Given("emoji") => settings'["add_emoji"] = req.args["emoji"]
    BY <2>2, <2>3, <2>4, Zenon
  <2>7. \A k \in Switches : Given(SwitchArgument[k]) /\ ~Given("emoji")
          => settings'[k] = req.args[SwitchArgument[k]]
    BY <2>3, <2>5, Zenon
  <2>8. req' = req
    BY <1>1
  <2> QED BY <1>2, <2>1, <2>6, <2>7, <2>8, Zenon DEF ArgumentsWin
<1>4. ASSUME returned = "0", ~Mistaken, Silent
      PROVE  /\ IsTaken /\ file \in DOMAIN Files
             /\ \A k \in Settings : Defines(k) /\ (k \in OfAnyTarget \/ req.kind = "full")
                  => settings'[k] = Says[k]
  <2>1. IsTaken /\ file \in DOMAIN Files
    BY <1>1, <1>4 DEF LastIsSound
  <2> QED BY <1>4, <2>1, TakenSettles DEF IsTaken
<1>5. DefinedOverrides'
  <2>1. req' = req /\ returned' = returned /\ local_vars' = local_vars /\ Files[file].says = Says
        /\ Files[file'].says = Says
    BY <1>1 DEF Says
  <2>2. returned = "0" /\ ~Mistaken /\ Silent =>
          ("template" \in DOMAIN Says => local_vars = Says["template"])
    BY <1>4 DEF IsTaken
  <2>3. Sound' => ~Mistaken
    BY <1>1 DEF Sound, Mistaken
  <2> QED BY <1>2, <1>4, <2>1, <2>2, <2>3, Zenon DEF DefinedOverrides
<1>6. ASSUME NEW k \in Settings, returned # "no call", settings = OwnSettings \/ IsTaken, Silent,
             settings[k] = OwnSettings[k]
      PROVE  FromPreferences(k)'
  BY <1>1, <1>6, OwnSettles DEF FromPreferences
<1>7. OthersAreKept'
  <2>1. ASSUME file # "", Sound, Silent, NEW k \in Settings \ Flags,
               \/ k \notin DOMAIN Says
               \/ k \notin OfAnyTarget \cup {"sssub_rule_base"} /\ req.kind # "full"
        PROVE  FromPreferences(k)'
    <3>1. returned # "no call" /\ (settings = OwnSettings \/ IsTaken)
      BY <1>1, <2>1 DEF LastIsSound, Sound, Mistaken
    <3>2. settings[k] = OwnSettings[k]
      BY <2>1, <3>1 DEF IsTaken
    <3> QED BY <1>6, <2>1, <3>1, <3>2
  <2>2. req' = req /\ file' = file /\ Files[file'].says = Says /\ (Sound' <=> Sound)
    BY <1>1 DEF Says, Sound
  <2> QED BY <1>2, <2>1, <2>2, Zenon DEF OthersAreKept
<1>8. RefusedLeavesNoTrace'
  <2>1. ASSUME returned = "-1", Silent, NEW k \in Settings PROVE FromPreferences(k)'
    <3>1. settings = OwnSettings /\ returned # "no call"
      BY <1>1, <2>1 DEF LastIsSound
    <3> QED BY <1>6, <2>1, <3>1
  <2>2. returned' = returned
    BY <1>1
  <2> QED BY <1>2, <2>1, <2>2, Zenon DEF RefusedLeavesNoTrace
<1>9. AllOrNone'
  <2> DEFINE says == {k \in Settings : Defines(k) /\ k \notin Files[file].bad /\ Says[k] # pref[k]}
  <2>1. ASSUME file # "", ~Mistaken, Silent, req.kind = "full"
        PROVE  \/ \A k \in says : settings'[k] = Says[k]
               \/ \A k \in says : settings'[k] # Says[k]
    <3>1. CASE returned = "0"
      BY <1>4, <2>1, <3>1
    <3>2. CASE returned # "0"
      <4>1. settings = OwnSettings /\ returned # "no call"
        BY <1>1, <2>1, <3>2 DEF LastIsSound
      <4>2. ASSUME NEW k \in says PROVE settings'[k] # Says[k]
        <5>1. CASE settings'[k] = pref[k]
          BY <5>1
        <5>2. CASE k = "emoji" /\ settings'[k] = <<>>
          <6>1. Says[k] # <<>>
            BY <5>2, KindsApart DEF Defines, Says
          <6> QED BY <5>2, <6>1
        <5> QED BY <1>1, <2>1, <4>1, <5>1, <5>2, OwnSettles
      <4> QED BY <4>2
    <3> QED BY <3>1, <3>2
  <2>2. req' = req /\ file' = file /\ pref' = pref /\ Files[file].says = Says
        /\ (Mistaken' <=> Mistaken)
    BY <1>1 DEF Says, Mistaken
  <2>3. says = {k \in Settings : Defines(k)' /\ k \notin Files[file'].bad
                                 /\ Files[file'].says[k] # pref'[k]}
    BY <1>2, <2>2
  <2> HIDE DEF says
  <2> QED BY <1>2, <2>1, <2>2, <2>3 DEF AllOrNone
<1>13. ASSUME NEW k \in Flags \cup Policies
       PROVE  settings'[k] = settings[k] /\ OwnSettings[k] = pref[k]
  <2>1. k \in Settings /\ k \notin Switches \cup NodeLists
    BY KindsApart DEF Settings
  <2>2. k \notin {"rename", "emoji"}
    BY <2>1, KindsApart
  <2> QED BY <1>1, <2>1, <2>2, OwnIs
<1>14. FlagsAreSet'
  <2> DEFINE value(k) == IF returned # "0" \/ req.kind # "full" THEN pref[k]
                         ELSE IF k \in DOMAIN Says THEN Says[k] ELSE Unnamed[k]
  <2>1. ASSUME file = "" \/ Sound, NEW k \in Flags PROVE settings'[k] = value(k)
    <3>1. CASE file = "" /\ returned = "no call" /\ IsAlone
      BY <1>13, <3>1 DEF IsAlone
    <3>2. CASE returned = "-1" /\ settings = OwnSettings
      BY <1>13, <3>2
    <3>3. CASE returned = "0" /\ IsTaken
      BY <1>13, <3>3 DEF IsTaken
    <3>4. CASE file \in DOMAIN Files /\ returned = "0" /\ Mistaken
      <4>1. file = ""
        BY <2>1, <3>4 DEF Sound, Mistaken
      <4> QED BY <3>4, <4>1, ExternalConfAssumption
    <3> HIDE DEF value
    <3> QED BY <1>1, <3>1, <3>2, <3>3, <3>4 DEF LastIsSound
  <2>2. /\ req' = req /\ file' = file /\ returned' = returned /\ pref' = pref
        /\ Files[file].says = Says /\ (Sound' <=> Sound)
    BY <1>1 DEF Says, Sound
  <2> QED BY <2>1, <2>2 DEF FlagsAreSet
<1>15. PoliciesAreChosen'
  <2> DEFINE value(k) == IF req.kind # "full" THEN pref[k]
                         ELSE IF file = "" /\ Given(ArgumentOf[k]) THEN req.args[ArgumentOf[k]]
                         ELSE IF returned = "0" /\ Defines(k) THEN Says[k]
                         ELSE pref[k]
  <2>1. ASSUME file = "" \/ Sound, NEW k \in Policies PROVE settings'[k] = value(k)
    <3>1. CASE file = "" /\ returned = "no call" /\ IsAlone
      BY <1>13, <3>1 DEF IsAlone
    <3>2. CASE file # "" /\ returned = "-1" /\ settings = OwnSettings
      BY <1>13, <3>2
    <3>3. CASE file # "" /\ returned = "0" /\ IsTaken
      BY <1>13, <3>3 DEF IsTaken
    <3>4. CASE file # "" /\ Mistaken
      BY <2>1, <3>4 DEF Sound, Mistaken
    <3> HIDE DEF value
    <3> QED BY <1>1, <3>1, <3>2, <3>3, <3>4, ExternalConfAssumption DEF LastIsSound
  <2>2. /\ req' = req /\ file' = file /\ returned' = returned /\ pref' = pref
        /\ Files[file].says = Says /\ (Sound' <=> Sound)
    BY <1>1 DEF Says, Sound
  <2> QED BY <1>2, <2>1, <2>2 DEF PoliciesAreChosen
<1>10. (PrecedenceIsKept /\ WholeOrNothing)'
  BY <1>3, <1>5, <1>7, <1>8, <1>9, <1>14, <1>15 DEF PrecedenceIsKept, WholeOrNothing
<1>11. /\ req' \in ConfRequests /\ pref' \in Preferences
       /\ todo' \in Seq(Settings \cup Templates) /\ DOMAIN extconf' = Settings
  BY <1>1 DEF ConfInv
<1>12. stage' = "done"
  BY <1>1
<1> QED BY <1>10, <1>11, <1>12 DEF ConfInv

LEMMA NextConfInv == ConfInv /\ [ConfNext]_confVars => ConfInv'
<1> SUFFICES ASSUME ConfInv, [ConfNext]_confVars PROVE ConfInv'
  OBVIOUS
<1>1. CASE UNCHANGED confVars
  <2>1. /\ UNCHANGED <<req, pref, file, stage, returned, todo, extconf, local_vars, settings>>
        /\ OwnSettings' = OwnSettings /\ Says' = Says
    BY <1>1 DEF confVars, OwnSettings, Says
  <2>2. /\ \A k : Defines(k)' <=> Defines(k)
        /\ \A k : FromPreferences(k)' <=> FromPreferences(k)
        /\ Mistaken' <=> Mistaken
    BY <2>1 DEF Defines, FromPreferences, Mistaken
  <2>3. \A rest : IsRead(rest)' <=> IsRead(rest)
    BY <2>1 DEF IsRead
  <2>4. /\ ReaderIsSound' = ReaderIsSound /\ (LastIsSound' <=> LastIsSound)
    BY <2>1, <2>2, <2>3 DEF ReaderIsSound, LastIsSound, IsTaken, IsAlone, Given
  <2>5. (ArgumentsWin' <=> ArgumentsWin)
    BY <2>1 DEF ArgumentsWin, Done, Given, Valid
  <2>6. (DefinedOverrides' <=> DefinedOverrides) /\ (OthersAreKept' <=> OthersAreKept)
    BY <2>1, <2>2 DEF DefinedOverrides, OthersAreKept, Done, Sound, Silent
  <2>7. (RefusedLeavesNoTrace' <=> RefusedLeavesNoTrace) /\ (AllOrNone' <=> AllOrNone)
    BY <2>1, <2>2 DEF RefusedLeavesNoTrace, AllOrNone, Done, Silent
  <2>8. (FlagsAreSet' <=> FlagsAreSet) /\ (PoliciesAreChosen' <=> PoliciesAreChosen)
    BY <2>1, <2>2 DEF FlagsAreSet, PoliciesAreChosen, Done, Sound, Given
  <2> QED BY <2>1, <2>2, <2>3, <2>4, <2>5, <2>6, <2>7, <2>8 DEF ConfInv, PrecedenceIsKept, WholeOrNothing
<1> QED BY <1>1, ChooseStep, ReadStep, RefuseStep, ReturnStep, ApplyStep, TakePoliciesStep,
           SettleStep DEF ConfNext

\* Every state of a request and its configuration satisfies the invariant.
LEMMA ConfInvHolds == ConfSpec => []ConfInv
BY InitConfInv, NextConfInv, PTL DEF ConfSpec

\* For all files, preferences and requests: what an argument about nodes gives
\* goes before the configuration (subconverter(), interfaces.cpp), what the
\* configuration defines before the preferences, in whatever of the three formats
\* it is written (loadExternalConfig(), settings.cpp), and the preferences hold
\* for everything else.  Flags and policies go by rules of their own: a
\* configuration that is taken sets both flags, and the arguments for policies
\* count where there is no configuration.
THEOREM PrecedenceHolds == ConfSpec => []PrecedenceIsKept
<1>1. ConfInv => PrecedenceIsKept
  BY Zenon DEF ConfInv
<1> QED BY <1>1, ConfInvHolds, PTL

\* For all files, preferences and requests: loadExternalConfig() puts all that
\* a configuration defines in force, or nothing of it, also when the reader
\* gives up in the middle and the text goes to the next reader.
THEOREM AllOrNothing == ConfSpec => []WholeOrNothing
<1>1. ConfInv => WholeOrNothing
  BY Zenon DEF ConfInv
<1> QED BY <1>1, ConfInvHolds, PTL

-----------------------------------------------------------------------------
(* Generator *)

LEMMA SubStays == ASSUME UNCHANGED setup PROVE \A f : subconverter(f)' = subconverter(f)
BY DEF subconverter

LEMMA getStays == ASSUME UNCHANGED setup PROVE \A f : getProfile(f)' = getProfile(f)
BY DEF getProfile

LEMMA OneProfile ==
  ASSUME NEW argument
  PROVE  \E q : \A p \in getProfile(argument) : p = q \/ p.code = Died
<1> DEFINE names    == getUrlArg(argument, "name", <<>>)
           token    == getUrlArg(argument, "token", "")
           first    == setup.profiles[names[1]]
           ini      == Parse(NewINI, first)
           contents == Known(ini)
           own      == Len(names) = 1 /\ "profile_token" \in Keys(contents)
           secret   == IF own THEN Item(contents, "profile_token") ELSE setup.accessToken
           single   == [code |-> 200, query |-> Query(contents, setup.accessToken, argument)]
           urls     == Combined(setup.profiles, ini, names)
           joined   == [code |-> 200, query |-> Query(Replaced(contents, urls), token, argument)]
           plain    == [code |-> 200, query |-> Query(contents, token, argument)]
           dead     == [code |-> Died, query |-> <<>>]
<1>1. getProfile(argument) =
        IF names = <<>> THEN Refused(Died)
        ELSE IF token = "" THEN Refused(403)
        ELSE IF names[1] \notin DOMAIN setup.profiles THEN Refused(404)
        ELSE IF Fails(ini, first) \/ contents = <<>> THEN Refused(500)
        ELSE IF token # secret THEN Refused(403)
        ELSE IF Len(names) = 1 THEN {single}
        ELSE IF "url" \in Keys(contents) THEN {joined} ELSE {plain, dead}
  BY Zenon DEF getProfile
<1>2. dead.code = Died /\ \A c : \E q : Refused(c) = {q}
  BY Zenon DEF Refused
<1> HIDE DEF names, token, first, ini, contents, own, secret, single, urls, joined, plain, dead
<1>3. \/ \E c : getProfile(argument) = Refused(c)
      \/ getProfile(argument) = {single} \/ getProfile(argument) = {joined}
      \/ getProfile(argument) = {plain, dead}
  BY <1>1
<1>4. \/ \E q : getProfile(argument) = {q}
      \/ getProfile(argument) = {plain, dead}
  BY <1>2, <1>3, Zenon
<1> QED BY <1>2, <1>4

\* What comes of an argument is one thing, or the death of the process.
LEMMA OneAnswer ==
  ASSUME NEW argument, NEW r \in Answers(argument), NEW s \in Answers(argument),
         r.code # Died, s.code # Died
  PROVE  r = s
<1>1. PICK q : \A p \in getProfile(argument) : p = q \/ p.code = Died
  BY OneProfile
<1>2. \A p : p.code = Died => AnswerTo(p).code = Died
  BY DEF AnswerTo, Died, Result
<1> QED BY <1>1, <1>2 DEF Answers

\* So an artifact that gives something else than an answer, once, has none.
LEMMA NoneIsGood ==
  ASSUME NEW i, NEW r \in Alone(i), r.code # 200, r.code # Died
  PROVE  Good(i) = {}
<1> DEFINE items == ArtifactOf(sections[i])
<1>1. \/ Alone(i) = {} \/ Alone(i) = Answers(ProfileArgument(items))
      \/ Alone(i) = {Result(200, Downloaded(Url(items)), "")}
      \/ Alone(i) = {subconverter(ToConvert(Taken(items, <<>>)))}
  BY Zenon DEF Alone
<1>2. 200 # Died
  BY DEF Died
<1> HIDE DEF items
<1>3. ASSUME NEW s \in Alone(i), s.code = 200 PROVE s = r
  <2>1. s.code # Died
    BY <1>2, <1>3
  <2>2. CASE Alone(i) = Answers(ProfileArgument(items))
    BY <2>1, <2>2, OneAnswer
  <2>3. CASE \E x : Alone(i) = {x}
    BY <2>3
  <2> QED BY <1>1, <2>2, <2>3, Zenon
<1>4. \A s \in Alone(i) : s.code # 200
  BY <1>3
<1> QED BY <1>4 DEF Good

\* An artifact, and what it gives alone, stays what it is.
LEMMA ArtifactStays ==
  ASSUME UNCHANGED <<setup, sections>>
  PROVE  \A i : /\ ArtifactOf(sections[i])' = ArtifactOf(sections[i])
                /\ Alone(i)' = Alone(i) /\ Good(i)' = Good(i) /\ PathOf(i)' = PathOf(i)
                /\ Left(i)' = Left(i)
<1>1. \A a : subconverter(a)' = subconverter(a)
  BY DEF subconverter
<1>2. \A a : getProfile(a)' = getProfile(a)
  BY DEF getProfile
<1>3. \A a : Answers(a)' = Answers(a)
  <2>1. \A p : AnswerTo(p)' = AnswerTo(p)
    BY <1>1 DEF AnswerTo
  <2> QED BY <1>2, <2>1 DEF Answers
<1>4. \A i : ArtifactOf(sections[i])' = ArtifactOf(sections[i])
  BY DEF ArtifactOf
<1>5. \A items : ProfileArgument(items)' = ProfileArgument(items)
  BY DEF ProfileArgument
<1>9. \A url : Downloaded(url)' = Downloaded(url)
  BY DEF Downloaded
<1>6. \A i : Alone(i)' = Alone(i)
  BY <1>1, <1>3, <1>4, <1>5, <1>9 DEF Alone
<1>7. \A i : Good(i)' = Good(i)
  BY <1>6 DEF Good
<1>8. \A i : PathOf(i)' = PathOf(i)
  BY <1>4 DEF PathOf
<1>10. \A i : Left(i)' = Left(i)
  <2>1. \A i : Emptied(i)' = Emptied(i)
    BY <1>4, <1>9 DEF Emptied
  <2> QED BY <1>7, <2>1 DEF Left
<1> QED BY <1>4, <1>6, <1>7, <1>8, <1>10

\* What is good may be left; where nothing is good, an empty file may be.
LEMMA GoodIsLeft ==
  ASSUME NEW i
  PROVE  /\ \A r \in Good(i) : r.content \in Left(i)
         /\ Good(i) = {} /\ ~Emptied(i) => Left(i) = {}
BY DEF Left

\* The header that waits in the response, if any, is of an artifact that failed.
InfoIsOfAFailure ==
  info = "" \/ \E j \in 1..(at - 1) : \E r \in Alone(j) : r.code # 200 /\ info = r.tells

GeneratorInv ==
  /\ at \in Nat
  /\ exit = "start" => files = <<>> /\ reported = <<>> /\ info = ""
  /\ exit = "running" =>
       at >= 1 /\ DOMAIN reported \subseteq 1..(at - 1) /\ InfoIsOfAFailure
  /\ FilesStandAlone /\ InfoIsTheirs

\* The next artifact is written.
LEMMA WrittenIsKept ==
  ASSUME at \in Nat, LastIsKept, UNCHANGED <<setup, sections>>, at >= 1, at' = at + 1,
         NEW c \in Left(at), Write(PathOf(at), c)
  PROVE  LastIsKept'
<1>1. \A i : Left(i)' = Left(i) /\ PathOf(i)' = PathOf(i)
  BY ArtifactStays
<1>2. /\ DOMAIN files' = DOMAIN files \cup {PathOf(at)}
      /\ \A p \in DOMAIN files' : files'[p] = IF p = PathOf(at) THEN c ELSE files[p]
  BY DEF Write, With
<1>3. at' - 1 = at /\ at \in 1..(at' - 1) /\ \A i \in 1..(at - 1) : i \in 1..(at' - 1)
  OBVIOUS
<1>4. ASSUME NEW p \in DOMAIN files'
      PROVE  \E i \in 1..(at' - 1) :
               /\ files'[p] \in Left(i) /\ PathOf(i) = p
               /\ \A j \in (i + 1)..(at' - 1) : Left(j) # {} => PathOf(j) # p
  <2>1. CASE p = PathOf(at)
    <3>1. (at + 1)..(at' - 1) = {}
      BY <1>3
    <3> QED BY <1>2, <1>3, <2>1, <3>1
  <2>2. CASE p # PathOf(at)
    <3>1. PICK i \in 1..(at - 1) :
            /\ files[p] \in Left(i) /\ PathOf(i) = p
            /\ \A j \in (i + 1)..(at - 1) : Left(j) # {} => PathOf(j) # p
      BY <1>2, <2>2 DEF LastIsKept
    <3>3. \A j \in (i + 1)..(at' - 1) : j = at \/ j \in (i + 1)..(at - 1)
      BY <1>3, <3>1
    <3>4. \A j \in (i + 1)..(at' - 1) : Left(j) # {} => PathOf(j) # p
      BY <2>2, <3>1, <3>3
    <3>5. files'[p] \in Left(i) /\ i \in 1..(at' - 1)
      BY <1>2, <1>3, <2>2, <3>1
    <3> QED BY <3>1, <3>4, <3>5
  <2> QED BY <2>1, <2>2
<1>5. ASSUME NEW i \in 1..(at' - 1), Left(i) # {} PROVE PathOf(i) \in DOMAIN files'
  <2>1. i = at \/ i \in 1..(at - 1)
    BY <1>3
  <2> QED BY <1>2, <1>5, <2>1 DEF LastIsKept
<1> QED BY <1>1, <1>4, <1>5 DEF LastIsKept

\* The next artifact is passed over.
LEMMA PassedIsKept ==
  ASSUME at \in Nat, LastIsKept, UNCHANGED <<setup, sections, files>>, at >= 1, at' = at + 1,
         Left(at) = {}
  PROVE  LastIsKept'
<1>1. \A i : Left(i)' = Left(i) /\ PathOf(i)' = PathOf(i)
  BY ArtifactStays
<1>2. at' - 1 = at /\ \A i \in 1..(at - 1) : i \in 1..(at' - 1)
  OBVIOUS
<1>3. \A i \in 1..(at' - 1) : i = at \/ i \in 1..(at - 1)
  BY <1>2
<1>4. ASSUME NEW p \in DOMAIN files
      PROVE  \E i \in 1..(at' - 1) :
               /\ files[p] \in Left(i) /\ PathOf(i) = p
               /\ \A j \in (i + 1)..(at' - 1) : Left(j) # {} => PathOf(j) # p
  <2>1. PICK i \in 1..(at - 1) :
          /\ files[p] \in Left(i) /\ PathOf(i) = p
          /\ \A j \in (i + 1)..(at - 1) : Left(j) # {} => PathOf(j) # p
    BY DEF LastIsKept
  <2>2. \A j \in (i + 1)..(at' - 1) : j = at \/ j \in (i + 1)..(at - 1)
    BY <1>2, <2>1
  <2> QED BY <1>2, <2>1, <2>2
<1>5. ASSUME NEW i \in 1..(at' - 1), Left(i) # {} PROVE PathOf(i) \in DOMAIN files
  BY <1>3, <1>5 DEF LastIsKept
<1>6. files' = files
  OBVIOUS
<1> QED BY <1>1, <1>4, <1>5, <1>6 DEF LastIsKept

\* Where a step leaves what the properties are about, they stay.
LEMMA FilesStay ==
  ASSUME LastIsKept, UNCHANGED <<setup, sections, at, files>>
  PROVE  LastIsKept'
<1>1. \A i : Left(i)' = Left(i) /\ PathOf(i)' = PathOf(i)
  BY ArtifactStays
<1>2. at' = at /\ files' = files
  OBVIOUS
<1> QED BY <1>1, <1>2 DEF LastIsKept

\* Nothing is reported anew.
LEMMA ReportsStay ==
  ASSUME InfoIsTheirs, UNCHANGED <<setup, sections, reported>>
  PROVE  InfoIsTheirs'
<1>1. \A i : Good(i)' = Good(i) /\ Alone(i)' = Alone(i)
  BY ArtifactStays
<1>2. reported' = reported
  OBVIOUS
<1> QED BY <1>1, <1>2 DEF InfoIsTheirs

\* The header that waits is still of an artifact that failed.
LEMMA InfoStays ==
  ASSUME at \in Nat, InfoIsOfAFailure, UNCHANGED <<setup, sections, info>>, at' = at \/ at' = at + 1
  PROVE  InfoIsOfAFailure'
<1>1. \A i : Alone(i)' = Alone(i)
  BY ArtifactStays
<1>2. \A i \in 1..(at - 1) : i \in 1..(at' - 1)
  OBVIOUS
<1>3. info' = info
  OBVIOUS
<1> QED BY <1>1, <1>2, <1>3 DEF InfoIsOfAFailure

\* A response for an artifact, made with whatever header waits in it.
LEMMA GenerateStep ==
  ASSUME GeneratorInv, Generating, "path" \in Keys(Current), Generate(Alone(at)), ~Emptied(at)
  PROVE  GeneratorInv'
<1> DEFINE told(r) == IF info = "" THEN r.tells ELSE info
<1>1. PICK r \in Alone(at) :
        /\ IF r.code = 200
           THEN /\ Write(Item(Current, "path"), r.content)
                /\ reported' = With(reported, at, told(r))
                /\ info' = "" /\ at' = at + 1
                /\ UNCHANGED exit
           ELSE /\ info' = told(r)
                /\ IF r.code = Died THEN exit' = "aborted" /\ UNCHANGED at
                   ELSE IF Len(sections) = 1 THEN exit' = "-1" /\ UNCHANGED at
                   ELSE at' = at + 1 /\ UNCHANGED exit
                /\ UNCHANGED <<files, reported>>
        /\ UNCHANGED <<setup, sections>>
  BY Zenon DEF Generate
<1>2. /\ at \in Nat /\ at >= 1 /\ DOMAIN reported \subseteq 1..(at - 1) /\ exit = "running"
      /\ InfoIsOfAFailure /\ LastIsKept /\ InfoIsTheirs
      /\ UNCHANGED <<setup, sections>>
  BY <1>1 DEF GeneratorInv, Generating, FilesStandAlone
<1>3. /\ \A i : Good(i)' = Good(i) /\ Alone(i)' = Alone(i) /\ Left(i)' = Left(i)
      /\ at \notin 1..(at - 1)
  BY <1>2, ArtifactStays
\* What is told is of this artifact, or of one before it that failed.
<1>4. told(r) = r.tells \/ \E j \in 1..(at - 1) : \E s \in Alone(j) : s.code # 200 /\ told(r) = s.tells
  BY <1>2 DEF InfoIsOfAFailure
<1> HIDE DEF told
<1>5. CASE r.code = 200
  <2>1. /\ r \in Good(at) /\ Write(PathOf(at), r.content) /\ at' = at + 1 /\ exit' = "running"
        /\ info' = ""
    BY <1>1, <1>2, <1>5 DEF Good, PathOf, Current
  <2>2. LastIsKept'
    BY <1>2, <2>1, GoodIsLeft, WrittenIsKept
  <2>3. /\ DOMAIN reported' = DOMAIN reported \cup {at}
        /\ \A i \in DOMAIN reported' : reported'[i] = IF i = at THEN told(r) ELSE reported[i]
    <3>1. reported' = With(reported, at, told(r))
      BY <1>1, <1>5
    <3> QED BY <3>1 DEF With
  <2>4. InfoIsTheirs'
    <3>1. ASSUME NEW i \in DOMAIN reported'
          PROVE  \/ \E s \in Good(i) : reported'[i] = s.tells
                 \/ \E j \in 1..(i - 1) : \E s \in Alone(j) : s.code # 200 /\ reported'[i] = s.tells
      <4>1. CASE i = at
        <5>1. reported'[at] = told(r)
          BY <2>3, <3>1, <4>1
        <5> QED BY <1>4, <2>1, <4>1, <5>1
      <4>2. CASE i # at
        <5>1. i \in DOMAIN reported /\ reported'[i] = reported[i]
          BY <2>3, <3>1, <4>2
        <5> QED BY <1>2, <5>1 DEF InfoIsTheirs
      <4> QED BY <4>1, <4>2
    <3> QED BY <1>3, <3>1 DEF InfoIsTheirs
  <2>5. DOMAIN reported' \subseteq 1..(at' - 1) /\ at' \in Nat /\ at' >= 1
    <3>1. at \in Nat /\ at >= 1 /\ at' = at + 1 /\ DOMAIN reported \subseteq 1..(at - 1)
      BY <1>2, <2>1, Zenon
    <3>2. DOMAIN reported' = DOMAIN reported \cup {at}
      BY <2>3
    <3> QED BY <3>1, <3>2
  <2> QED BY <2>1, <2>2, <2>4, <2>5 DEF GeneratorInv, FilesStandAlone, InfoIsOfAFailure
<1>6. CASE r.code # 200
  <2>1. UNCHANGED <<files, reported, setup, sections>> /\ info' = told(r)
    BY <1>1, <1>6
  <2>2. InfoIsTheirs'
    BY <1>2, <2>1, ReportsStay
  <2>3. CASE r.code = Died \/ Len(sections) = 1
    <3>1. at' = at /\ exit' \in {"aborted", "-1"}
      BY <1>1, <1>6, <2>3
    <3>2. LastIsKept'
      BY <1>2, <2>1, <3>1, FilesStay
    <3> QED BY <1>2, <2>2, <3>1, <3>2 DEF GeneratorInv, FilesStandAlone
  <2>4. CASE r.code # Died /\ Len(sections) # 1
    <3>1. at' = at + 1 /\ exit' = "running"
      BY <1>1, <1>2, <1>6, <2>4
    <3>2. Left(at) = {}
      BY <1>6, <2>4, NoneIsGood, GoodIsLeft
    <3>3. LastIsKept'
      BY <1>2, <2>1, <3>1, <3>2, PassedIsKept
    <3>4. InfoIsOfAFailure'
      <4>1. at \in 1..(at' - 1) /\ \A j \in 1..(at - 1) : j \in 1..(at' - 1)
        BY <1>2, <3>1
      <4>2. \E j \in 1..(at' - 1) : \E s \in Alone(j) : s.code # 200 /\ told(r) = s.tells
        BY <1>4, <1>6, <4>1
      <4> QED BY <1>3, <2>1, <4>2 DEF InfoIsOfAFailure
    <3>5. DOMAIN reported' \subseteq 1..(at' - 1) /\ at' \in Nat /\ at' >= 1
      BY <1>2, <2>1, <3>1
    <3> QED BY <2>2, <3>1, <3>3, <3>4, <3>5 DEF GeneratorInv, FilesStandAlone
  <2> QED BY <2>3, <2>4
<1> QED BY <1>5, <1>6

LEMMA NothingIsEmpty == DOMAIN <<>> = {}
OBVIOUS

LEMMA InitGeneratorInv == GeneratorInit => GeneratorInv
<1> SUFFICES ASSUME GeneratorInit PROVE GeneratorInv
  OBVIOUS
<1>1. at \in Nat /\ exit = "start" /\ files = <<>> /\ reported = <<>> /\ info = ""
  BY DEF GeneratorInit
<1>2. InfoIsTheirs
  BY <1>1, NothingIsEmpty, Zenon DEF InfoIsTheirs
<1>3. FilesStandAlone
  BY <1>1 DEF FilesStandAlone
<1> QED BY <1>1, <1>2, <1>3 DEF GeneratorInv

LEMMA ServeStep == ASSUME GeneratorInv, Serve PROVE GeneratorInv'
<1>1. exit' = "answered" /\ UNCHANGED <<setup, sections, at, reported>>
  BY DEF Serve
<1>2. InfoIsTheirs'
  BY <1>1, ReportsStay DEF GeneratorInv
<1>3. FilesStandAlone'
  BY <1>1 DEF FilesStandAlone
<1> QED BY <1>1, <1>2, <1>3 DEF GeneratorInv

LEMMA StartStep == ASSUME GeneratorInv, Start PROVE GeneratorInv'
<1>1. at' = 1 /\ files' = <<>> /\ reported' = <<>> /\ info' = "" /\ exit' # "start"
  BY DEF Start, GeneratorInv
<1>2. DOMAIN files' = {} /\ DOMAIN reported' = {}
  BY <1>1, NothingIsEmpty, Zenon
<1>3. at' \in Nat /\ at' >= 1 /\ 1..(at' - 1) = {}
  <2>1. at' = 1
    BY DEF Start
  <2> QED BY <2>1
<1>4. LastIsKept' /\ InfoIsTheirs'
  BY <1>2, <1>3, Zenon DEF LastIsKept, InfoIsTheirs
<1>5. InfoIsOfAFailure' /\ FilesStandAlone' /\ DOMAIN reported' \subseteq 1..(at' - 1)
  BY <1>1, <1>2, <1>4, Zenon DEF FilesStandAlone, InfoIsOfAFailure
<1> QED BY <1>1, <1>3, <1>4, <1>5 DEF GeneratorInv

\* The generator goes on, and nothing is reported and no header comes or goes.
LEMMA GoesOn ==
  ASSUME GeneratorInv, Generating, UNCHANGED <<setup, sections, info, reported, exit>>,
         at' = at + 1, LastIsKept'
  PROVE  GeneratorInv'
<1>1. /\ at \in Nat /\ at >= 1 /\ exit' = "running" /\ at' = at + 1 /\ reported' = reported
      /\ DOMAIN reported \subseteq 1..(at - 1)
  BY DEF GeneratorInv, Generating
<1>2. InfoIsTheirs' /\ InfoIsOfAFailure'
  BY <1>1, ReportsStay, InfoStays DEF GeneratorInv, Generating
<1>3. at' \in Nat /\ at' >= 1 /\ DOMAIN reported' \subseteq 1..(at' - 1)
  BY <1>1
<1> QED BY <1>1, <1>2, <1>3 DEF GeneratorInv, FilesStandAlone

LEMMA WithoutPathStep == ASSUME GeneratorInv, WithoutPath PROVE GeneratorInv'
<1>1. Generating /\ at' = at + 1 /\ UNCHANGED <<setup, sections, info, files, reported, exit>>
  BY DEF WithoutPath
<1>2. Left(at) = {}
  BY DEF WithoutPath, Left, Good, Alone, Emptied, Current
<1>3. at \in Nat /\ at >= 1 /\ LastIsKept
  BY <1>1 DEF GeneratorInv, Generating, FilesStandAlone
<1>4. LastIsKept'
  BY <1>1, <1>2, <1>3, PassedIsKept
<1> QED BY <1>1, <1>4, GoesOn

LEMMA FromProfileStep == ASSUME GeneratorInv, FromProfile PROVE GeneratorInv'
<1>1. Generating /\ "path" \in Keys(Current) /\ "profile" \in Keys(Current)
      /\ Generate(Answers(ProfileArgument(Current)))
  BY DEF FromProfile
<1>2. Alone(at) = Answers(ProfileArgument(Current)) /\ ~Emptied(at)
  BY <1>1, Zenon DEF Alone, Emptied, Current
<1> QED BY <1>1, <1>2, GenerateStep

LEMMA FromItemsStep == ASSUME GeneratorInv, FromItems PROVE GeneratorInv'
<1>1. Generating /\ "path" \in Keys(Current) /\ "profile" \notin Keys(Current)
      /\ "direct" \notin Keys(Current)
      /\ Generate({subconverter(ToConvert(Taken(Current, allItems)))})
  BY DEF FromItems, Plain
<1>2. Taken(Current, allItems) = Taken(Current, <<>>)
  BY DEF Taken
<1>3. Alone(at) = {subconverter(ToConvert(Taken(Current, allItems)))}
  BY <1>1, <1>2, Zenon DEF Alone, Current
<1>4. ~Emptied(at)
  BY <1>1 DEF Emptied, Current
<1> QED BY <1>1, <1>3, <1>4, GenerateStep

LEMMA DirectStep == ASSUME GeneratorInv, Direct PROVE GeneratorInv'
<1> DEFINE content == Downloaded(Url(Current))
<1>1. /\ Generating /\ UNCHANGED <<setup, sections, info, reported>>
      /\ IF content = <<>> /\ Len(sections) = 1
         THEN exit' = "-1" /\ UNCHANGED <<at, files>>
         ELSE at' = at + 1 /\ Write(Item(Current, "path"), content) /\ UNCHANGED exit
  BY Zenon DEF Direct, Plain
<1>2. /\ content # <<>> => Alone(at) = {Result(200, content, "")}
      /\ content = <<>> => Emptied(at)
  BY Zenon DEF Direct, Plain, Alone, Emptied, Current
<1>3. content \in Left(at) /\ Item(Current, "path") = PathOf(at)
  <2>1. Item(Current, "path") = PathOf(at)
    BY DEF PathOf, Current
  <2> HIDE DEF content
  <2>3. CASE content = <<>>
    <3>1. Emptied(at)
      BY <1>2, <2>3
    <3>2. content \in {c \in {<<>>} : Emptied(at)}
      BY <2>3, <3>1
    <3> QED BY <2>1, <3>2, Zenon DEF Left
  <2>4. CASE content # <<>>
    <3> DEFINE r == Result(200, content, "")
    <3>1. r.code = 200 /\ r.content = content
      BY DEF Result
    <3>2. r \in Alone(at)
      BY <1>2, <2>4, Zenon
    <3> HIDE DEF r
    <3>3. r \in Good(at)
      BY <3>1, <3>2 DEF Good
    <3> QED BY <2>1, <3>1, <3>3, GoodIsLeft
  <2> QED BY <2>3, <2>4
<1>4. at \in Nat /\ at >= 1 /\ LastIsKept /\ InfoIsTheirs
  BY <1>1 DEF GeneratorInv, Generating, FilesStandAlone
<1> HIDE DEF content
<1>5. CASE content = <<>> /\ Len(sections) = 1
  <2>1. exit' = "-1" /\ UNCHANGED <<setup, sections, info, reported, at, files>>
    BY <1>1, <1>5
  <2>2. InfoIsTheirs'
    BY <1>4, <2>1, ReportsStay
  <2>3. FilesStandAlone'
    <3>1. LastIsKept'
      BY <1>4, <2>1, FilesStay
    <3> QED BY <3>1 DEF FilesStandAlone
  <2> QED BY <1>4, <2>1, <2>2, <2>3 DEF GeneratorInv
<1>6. CASE ~(content = <<>> /\ Len(sections) = 1)
  <2>1. /\ at' = at + 1 /\ Write(PathOf(at), content)
        /\ UNCHANGED <<setup, sections, info, reported, exit>>
    BY <1>1, <1>3, <1>6
  <2>2. LastIsKept'
    BY <1>3, <1>4, <2>1, WrittenIsKept
  <2> QED BY <1>1, <2>1, <2>2, GoesOn
<1> QED BY <1>5, <1>6

LEMMA EndGenerateStep == ASSUME GeneratorInv, EndGenerate PROVE GeneratorInv'
<1>1. exit = "running" /\ exit' = "0" /\ UNCHANGED <<setup, sections, at, files, reported>>
  BY DEF EndGenerate
<1>2. LastIsKept' /\ InfoIsTheirs'
  BY <1>1, FilesStay, ReportsStay DEF GeneratorInv, FilesStandAlone
<1> QED BY <1>1, <1>2 DEF GeneratorInv, FilesStandAlone

LEMMA NextGeneratorInv == GeneratorInv /\ [GeneratorNext]_generatorVars => GeneratorInv'
<1> SUFFICES ASSUME GeneratorInv, [GeneratorNext]_generatorVars PROVE GeneratorInv'
  OBVIOUS
<1>1. CASE UNCHANGED generatorVars
  <2>1. UNCHANGED <<setup, sections, at, info, files, reported, exit>>
    BY <1>1 DEF generatorVars
  <2>2. InfoIsTheirs'
    BY <2>1, ReportsStay DEF GeneratorInv
  <2>3. FilesStandAlone'
    BY <2>1, FilesStay DEF GeneratorInv, FilesStandAlone
  <2>4. exit = "running" => InfoIsOfAFailure'
    BY <2>1, InfoStays DEF GeneratorInv
  <2> QED BY <2>1, <2>2, <2>3, <2>4 DEF GeneratorInv
<1> QED BY <1>1, ServeStep, StartStep, WithoutPathStep, FromProfileStep, DirectStep,
           FromItemsStep, EndGenerateStep DEF GeneratorNext

\* For all artifacts, profiles and links: a path holds what the last artifact of
\* generate.ini that names it and leaves something gives when it is generated
\* alone, or is empty where that is a download that failed; a lone artifact that
\* fails leaves no file; and the user info reported for one is its own or that of
\* a failure before it, whatever simpleGenerator() has made with the same request
\* and response.
THEOREM ArtifactsAreAlone == GeneratorSpec => []ArtifactsStandAlone
<1>1. GeneratorInv => ArtifactsStandAlone
  BY Zenon DEF GeneratorInv, ArtifactsStandAlone
<1> QED BY <1>1, InitGeneratorInv, NextGeneratorInv, PTL DEF GeneratorSpec

-----------------------------------------------------------------------------
(* Nodes *)

\* The links of a request: those of insert_url or its own.
Source(r, ins) == IF ins THEN r.inserts ELSE r.urls

\* The group that the loops give to the link k.
Number(ins, k) == IF ins THEN -k ELSE k - 1

\* A placeholder, and a node that the link k brought.
Placeholder(n) == n.Type = "Unknow" /\ n.Hostname = NoGroup
Brought(n, r, ins, k) ==
  n.GroupId = ToU32(Number(ins, k)) /\ n.Hostname \in From(Source(r, ins)[k])

\* What a link brings if it brings anything.
Wanted(r, link) ==
  IF link.kind = "single" THEN link.nodes ELSE FilterNodes(link.nodes, r.exclude, r.include)

Filters(link) == link.kind \in {"SUB", "Local"}

Passes(n, r) ==
  /\ \A x \in r.exclude : Own(x) => ~Selects(x, n)
  /\ r.include # {} /\ (\A x \in r.include : Own(x)) => \E x \in r.include : Selects(x, n)

IsBlock(ns, link, whole, before) ==
  /\ \A j \in DOMAIN whole : before + j \in DOMAIN ns /\ ns[before + j].Hostname = whole[j]
  /\ \A i \in DOMAIN ns : ns[i].Hostname \in From(link) => i - before \in DOMAIN whole

\* The nodes of a link stand side by side, and have passed the filters.
Stands(ns, r, link) ==
  /\ link.kind # "script" /\ (\E i \in DOMAIN ns : ns[i].Hostname \in From(link)) =>
       \E before \in 0..Len(ns) : IsBlock(ns, link, Hosts(Wanted(r, link)), before)
  /\ Filters(link) => \A i \in DOMAIN ns : ns[i].Hostname \in From(link) => Passes(ns[i], r)

\* None of them is missing.
IsThere(ns, r, link) ==
  Filters(link) =>
    \A m \in Range(Wanted(r, link)) : \E i \in DOMAIN ns : ns[i].Hostname = m.Hostname

AreNodes(ns) == ns \in Seq(Range(ns)) /\ \A i \in DOMAIN ns : DOMAIN ns[i] = NodeFields

\* Each is a placeholder or was brought by one of the links.
Owned(ns, r) ==
  \A i \in DOMAIN ns :
    Placeholder(ns[i]) \/ \E ins \in BOOLEAN : \E k \in DOMAIN Source(r, ins) : Brought(ns[i], r, ins, k)

Ordered(ns, r) ==
  \A i, j \in DOMAIN ns :
    i < j /\ ns[i].Type # "Unknow" /\ ns[j].Type # "Unknow" =>
      Position(ns[i], r.prepend) <= Position(ns[j], r.prepend)

\* A list when the loop has come to the end of the link d.
Gathered(ns, r, ins, d) ==
  /\ AreNodes(ns)
  /\ \A i \in DOMAIN ns : Placeholder(ns[i]) \/ \E k \in 1..d : Brought(ns[i], r, ins, k)
  /\ \A i, j \in DOMAIN ns : \A k, l \in 1..d :
       i < j /\ Brought(ns[i], r, ins, k) /\ Brought(ns[j], r, ins, l) => k <= l
  /\ \A k \in DOMAIN Source(r, ins) : Stands(ns, r, Source(r, ins)[k])
  /\ ~r.skip => \A k \in 1..d : IsThere(ns, r, Source(r, ins)[k])

\* The list when the loop has come to its end.
Complete(ns, r, ins) == Gathered(ns, r, ins, Len(Source(r, ins)))

\* The links the loop has not come to when it has come to the end of the link d.
Rest(s, d) == [i \in 1..(Len(s) - d) |-> s[d + i]]

Loop(ahead, ns, r, ins, d) ==
  /\ d \in 0..Len(Source(r, ins))
  /\ ahead = Rest(Source(r, ins), d)
  /\ Gathered(ns, r, ins, d)

\* Both lists in one.
Merged(ns, r) ==
  \A ins \in BOOLEAN : \A k \in DOMAIN Source(r, ins) : Stands(ns, r, Source(r, ins)[k])

NoneMissing(ns, r) ==
  ~r.skip /\ r.filter = {} =>
    \A ins \in BOOLEAN : \A k \in DOMAIN Source(r, ins) : IsThere(ns, r, Source(r, ins)[k])

HeadAnswered == status = 200 /\ given.head
Answered     == status = 200 /\ ~given.head

ListsAreOwned ==
  /\ given \in NodesRequests
  /\ phase \in {"insert", "urls", "merge", "filter", "rename", "done"} /\ status \in {0, 200, 400}
  /\ phase = "done" <=> status # 0
  /\ given.head => phase \in {"insert", "urls", "done"}
  /\ AreNodes(insert_nodes) /\ Owned(insert_nodes, given)
  /\ AreNodes(nodes) /\ Owned(nodes, given)

InsertsAreRead ==
  phase = "insert" =>
    nodes = <<>> /\ groupID \in Int /\ Loop(links, insert_nodes, given, TRUE, -groupID - 1)

UrlsAreRead ==
  phase = "urls" => groupID \in Int /\ Loop(links, nodes, given, FALSE, groupID)

ListsAreComplete ==
  /\ phase \in {"urls", "merge", "filter"} \/ HeadAnswered => Complete(insert_nodes, given, TRUE)
  /\ phase = "merge" \/ HeadAnswered => Complete(nodes, given, FALSE)

ListsAreMerged == phase = "filter" => Merged(nodes, given)

NothingIsLost ==
  phase \in {"filter", "rename"} \/ Answered =>
    (given.sort \/ Ordered(nodes, given)) /\ NoneMissing(nodes, given)

NodesInv ==
  /\ ListsAreOwned
  /\ InsertsAreRead /\ UrlsAreRead
  /\ ListsAreComplete /\ ListsAreMerged /\ NothingIsLost

-----------------------------------------------------------------------------
\* A set of numbers that is not empty has a least one.
LEMMA LeastNumber ==
  ASSUME NEW T \in SUBSET Nat, T # {}
  PROVE  \E k \in T : \A l \in T : k <= l
<1> DEFINE R == OpToRel(<, Nat)
<1>1. PICK k \in T : \A l \in T : <<l, k>> \notin R
  BY NatLessThanWellFounded, WFMin
<1>2. \A l, m \in Nat : l < m => <<l, m>> \in R
  <2>1. TAKE l, m \in Nat
  <2>2. HAVE l < m
  <2>3. <<l, m>> \in Nat \X Nat /\ <<l, m>>[1] < <<l, m>>[2]
    BY <2>2
  <2>4. QED BY <2>3 DEF OpToRel
<1> HIDE DEF R
<1>3. \A l \in T : ~(l < k)
  BY <1>1, <1>2
<1>4. QED BY <1>3

\* The numbers of a uint32_t come round once.
LEMMA Wraps ==
  ASSUME NEW z \in Int, 0 <= z, z < Word
  PROVE  z % Word = z /\ (z - Word) % Word = z /\ (z + Word) % Word = z
BY WordAssumption

LEMMA HalfWord == Word \div 2 \in Nat /\ 2 * (Word \div 2) = Word
BY WordAssumption

\* A number that an int can hold is read back from a group id.
LEMMA ReadBack ==
  ASSUME NEW z \in Int, 2 * z < Word, -Word <= 2 * z
  PROVE  /\ ToU32(z) = IF z < 0 THEN z + Word ELSE z
         /\ ToInt(ToU32(z)) = z
         /\ 2 * z # -Word => ToInt(-ToU32(z)) = -z
<1> USE WordAssumption
<1>1. CASE z < 0
  <2> DEFINE y == z + Word
  <2>1. y \in Int /\ 0 <= y /\ y < Word /\ y - Word = z
    BY <1>1
  <2>2. (y - Word) % Word = y /\ y % Word = y
    BY <2>1, Wraps
  <2>3. ToU32(z) = y
    BY <2>1, <2>2 DEF ToU32
  <2>4. ToInt(y) = z
    <3> HIDE DEF y
    <3>1. ~(y < Word \div 2)
      BY <1>1, <2>1, HalfWord
    <3>2. QED BY <2>1, <2>2, <3>1 DEF ToInt
  <2> DEFINE m == -z
  <2>5. m \in Int /\ 0 <= m /\ m < Word /\ m - Word = -y /\ 2 * m <= Word
    BY <1>1
  <2>6. (m - Word) % Word = m
    BY <2>5, Wraps
  <2>7. 2 * z # -Word => ToInt(-y) = m
    <3> HAVE 2 * z # -Word
    <3>1. m < Word \div 2
      BY <2>5, HalfWord
    <3> HIDE DEF m, y
    <3>2. (-y) % Word = m
      BY <2>5, <2>6
    <3>3. QED BY <3>1, <3>2 DEF ToInt
  <2>8. QED BY <1>1, <2>3, <2>4, <2>7
<1>2. CASE z = 0
  <2>1. 0 % Word = 0
    BY Wraps
  <2>2. 0 < Word \div 2 /\ -0 = 0
    <3>1. -0 = 0
      BY \A x \in Int : -x = 0 - x, 0 \in Int, 0 - 0 = 0
    <3>2. 0 < Word \div 2
      BY HalfWord
    <3>3. QED BY <3>1, <3>2
  <2>3. ToU32(0) = 0 /\ ToInt(0) = 0
    BY <2>1, <2>2 DEF ToU32, ToInt
  <2>4. QED BY <1>2, <2>2, <2>3
<1>3. CASE 0 < z
  <2>1. z % Word = z /\ z < Word \div 2
    BY <1>3, Wraps, HalfWord
  <2>2. ToU32(z) = z /\ ToInt(z) = z
    BY <2>1 DEF ToU32, ToInt
  <2> DEFINE m == Word - z
  <2>3. m \in Int /\ 0 <= m /\ m < Word /\ m - Word = -z
    BY <1>3
  <2>4. (m - Word) % Word = m /\ ~(m < Word \div 2)
    <3>1. (m - Word) % Word = m
      BY <2>3, Wraps
    <3>2. ~(m < Word \div 2)
      BY <1>3, HalfWord, WordAssumption
    <3>3. QED BY <3>1, <3>2
  <2> HIDE DEF m
  <2>5. (-z) % Word = m
    BY <2>3, <2>4
  <2>6. ToInt(-z) = -z
    BY <2>3, <2>4, <2>5 DEF ToInt
  <2>7. QED BY <1>3, <2>2, <2>6
<1>4. QED BY <1>1, <1>2, <1>3

\* A range of one number finds that number.
LEMMA OneTerm ==
  ASSUME NEW k \in Int, NEW n
  PROVE  MatchRange(<<TermIs(k)>>, n) <=> n = k
<1>1. DOMAIN <<TermIs(k)>> = {1} /\ <<TermIs(k)>>[1] = TermIs(k)
  OBVIOUS
<1>2. TermHolds(TermIs(k), n) <=> n = k
  BY DEF TermHolds, TermIs
<1>3. MatchRange(<<TermIs(k)>>, n) <=> TermHolds(TermIs(k), n)
  BY <1>1 DEF MatchRange
<1>4. QED BY <1>2, <1>3

LEMMA SelectsNumber ==
  ASSUME NEW k \in Int, NEW n
  PROVE  /\ Selects(Rule("GROUPID", <<TermIs(k)>>), n) <=> ToInt(n.GroupId) = k
         /\ Selects(Rule("INSERT", <<TermIs(k)>>), n) <=> ToInt(-n.GroupId) = k
<1>1. ApplyMatcher(Rule("GROUPID", <<TermIs(k)>>), n) <=> ToInt(n.GroupId) = k
  BY OneTerm DEF ApplyMatcher, Rule
<1>2. ApplyMatcher(Rule("INSERT", <<TermIs(k)>>), n) <=> ToInt(-n.GroupId) = k
  BY OneTerm DEF ApplyMatcher, Rule
<1>3. \A on : Rule(on, <<TermIs(k)>>).rest = {}
  BY DEF Rule
<1>4. QED BY <1>1, <1>2, <1>3 DEF Selects

-----------------------------------------------------------------------------
\* The place of the item j of those kept: there is one, and j places up to it.
LEMMA PlaceIsThere ==
  ASSUME NEW n \in Nat, NEW P \in SUBSET (1..n), NEW j \in 1..Cardinality(P)
  PROVE  Place(P, j) \in P /\ Cardinality(P \cap 1..Place(P, j)) = j
<1> DEFINE Upto(i) == Cardinality(P \cap 1..i)
           T == {i \in Nat : j <= Upto(i)}
<1>1. \A i \in Nat : IsFiniteSet(P \cap 1..i) /\ Upto(i) \in Nat
  <2>1. TAKE i \in Nat
  <2>2. IsFiniteSet(1..i) /\ P \cap 1..i \in SUBSET (1..i)
    BY FS_Interval
  <2>3. QED BY <2>2, FS_Subset, FS_CardinalityType
<1>2. n \in T
  <2>1. P \cap 1..n = P
    OBVIOUS
  <2>2. Cardinality(P) \in Nat
    BY <1>1, <2>1
  <2>3. QED BY <2>1, <2>2
<1>3. PICK i \in T : \A l \in T : i <= l
  <2> HIDE DEF T
  <2>1. T \in SUBSET Nat BY DEF T
  <2>2. QED BY <1>2, <2>1, LeastNumber
<1>4. i # 0
  <2>1. P \cap 1..0 = {}
    OBVIOUS
  <2>2. Upto(0) = 0
    BY <2>1, FS_EmptySet
  <2>3. QED BY <1>3, <2>2
<1>5. i \in Nat /\ i - 1 \in Nat /\ j <= Upto(i) /\ Upto(i - 1) < j
  <2>1. i \in Nat /\ i - 1 \in Nat
    BY <1>3, <1>4
  <2>2. i - 1 \notin T
    BY <1>3, <2>1
  <2>3. Upto(i - 1) \in Nat
    BY <1>1, <2>1
  <2>4. j \in Int
    OBVIOUS
  <2>5. QED BY <1>3, <2>1, <2>2, <2>3, <2>4
<1>6. IF i \in P THEN P \cap 1..i = (P \cap 1..(i - 1)) \cup {i} ELSE P \cap 1..i = P \cap 1..(i - 1)
  BY <1>5
<1>7. i \notin P \cap 1..(i - 1)
  BY <1>5
<1>8. i \in P /\ Upto(i) = j
  <2>1. CASE i \notin P
    <3>1. Upto(i) = Upto(i - 1)
      BY <2>1, <1>6
    <3>2. Upto(i) \in Nat /\ Upto(i - 1) \in Nat
      BY <1>1, <1>5
    <3>3. QED BY <1>5, <3>1, <3>2
  <2>2. CASE i \in P
    <3>1. Upto(i) = Upto(i - 1) + 1
      BY <2>2, <1>1, <1>5, <1>6, <1>7, FS_AddElement
    <3>2. Upto(i - 1) \in Nat
      BY <1>1, <1>5
    <3>3. QED BY <1>5, <2>2, <3>1, <3>2
  <2>3. QED BY <2>1, <2>2
<1>9. \E p \in P : Cardinality(P \cap 1..p) = j
  BY <1>8
<1>10. QED BY <1>9 DEF Place

\* The items kept are in their order.
LEMMA PlacesAreOrdered ==
  ASSUME NEW n \in Nat, NEW P \in SUBSET (1..n), NEW i \in 1..Cardinality(P), NEW j \in 1..Cardinality(P),
         i < j
  PROVE  Place(P, i) < Place(P, j)
<1> DEFINE a == Place(P, i)
           b == Place(P, j)
<1>1. a \in P /\ b \in P /\ Cardinality(P \cap 1..a) = i /\ Cardinality(P \cap 1..b) = j
  BY PlaceIsThere
<1> HIDE DEF a, b
<1>2. a \in Nat /\ b \in Nat
  BY <1>1
<1>3. CASE b <= a
  <2>1. P \cap 1..b \in SUBSET (P \cap 1..a)
    BY <1>2, <1>3
  <2>2. IsFiniteSet(1..a) /\ P \cap 1..a \in SUBSET (1..a)
    <3>1. IsFiniteSet(1..a)
      BY <1>2, FS_Interval
    <3>2. QED BY <3>1
  <2>3. j <= i
    BY <1>1, <2>1, <2>2, FS_Subset
  <2>4. i \in Int /\ j \in Int
    OBVIOUS
  <2>5. QED BY <2>3, <2>4
<1>4. QED BY <1>2, <1>3 DEF a, b

\* What is kept of a list is a list, each item of which is one of it.
LEMMA KeptIsPart ==
  ASSUME NEW s, s \in Seq(Range(s)), NEW P \in SUBSET (DOMAIN s)
  PROVE  /\ Kept(s, P) \in Seq(Range(Kept(s, P)))
         /\ DOMAIN Kept(s, P) = 1..Cardinality(P)
         /\ \A j \in DOMAIN Kept(s, P) :
              Place(P, j) \in P /\ Kept(s, P)[j] = s[Place(P, j)]
         /\ \A i, j \in DOMAIN Kept(s, P) : i < j => Place(P, i) < Place(P, j)
<1>1. Len(s) \in Nat /\ DOMAIN s = 1..Len(s)
  OBVIOUS
<1>2. Cardinality(P) \in Nat
  <2>1. IsFiniteSet(1..Len(s)) /\ P \in SUBSET (1..Len(s))
    BY <1>1, FS_Interval
  <2>2. QED BY <2>1, FS_Subset, FS_CardinalityType
<1>3. DOMAIN Kept(s, P) = 1..Cardinality(P) /\ \A j \in 1..Cardinality(P) : Kept(s, P)[j] = s[Place(P, j)]
  BY DEF Kept
<1>4. Kept(s, P) \in [1..Cardinality(P) -> Range(Kept(s, P))]
  BY <1>3 DEF Range, Kept
<1>5. Kept(s, P) \in Seq(Range(Kept(s, P)))
  BY <1>2, <1>4
<1>6. QED BY <1>1, <1>3, <1>5, PlaceIsThere, PlacesAreOrdered
-----------------------------------------------------------------------------
LEMMA IsList ==
  ASSUME NEW S, NEW s \in Seq(S)
  PROVE  s \in Seq(Range(s))
<1>1. Len(s) \in Nat /\ s \in [1..Len(s) -> S] /\ DOMAIN s = 1..Len(s)
  OBVIOUS
<1>2. \A i \in 1..Len(s) : s[i] \in Range(s)
  BY <1>1 DEF Range
<1>3. s \in [1..Len(s) -> Range(s)]
  BY <1>1, <1>2
<1>4. QED BY <1>1, <1>3

\* Two lists, one after the other.
LEMMA Joined ==
  ASSUME NEW s, s \in Seq(Range(s)), NEW t, t \in Seq(Range(t))
  PROVE  /\ s \o t \in Seq(Range(s \o t)) /\ Len(s \o t) = Len(s) + Len(t)
         /\ Len(s) \in Nat /\ DOMAIN s = 1..Len(s) /\ Len(t) \in Nat /\ DOMAIN t = 1..Len(t)
         /\ DOMAIN (s \o t) = 1..(Len(s) + Len(t))
         /\ \A i \in DOMAIN s : i \in DOMAIN (s \o t) /\ (s \o t)[i] = s[i]
         /\ \A i \in DOMAIN t : Len(s) + i \in DOMAIN (s \o t) /\ (s \o t)[Len(s) + i] = t[i]
         /\ \A i \in DOMAIN (s \o t) : i \in DOMAIN s \/ (i - Len(s) \in DOMAIN t /\ i \notin DOMAIN s)
<1> DEFINE S == Range(s) \cup Range(t)
<1>1. s \in Seq(S) /\ t \in Seq(S)
  <2>1. Range(s) \subseteq S /\ Range(t) \subseteq S
    OBVIOUS
  <2> HIDE DEF S
  <2>2. QED BY <2>1
<1> HIDE DEF S
<1>2. s \o t \in Seq(S) /\ Len(s \o t) = Len(s) + Len(t)
  BY <1>1
<1>3. s \o t \in Seq(Range(s \o t))
  BY <1>2, IsList
<1>4. QED BY <1>1, <1>2, <1>3

\* The place of a link among all those of the request.
Among(r, ins, k) == IF ins THEN k ELSE Len(r.inserts) + k

LEMMA AllLinks ==
  ASSUME NEW r \in NodesRequests, NEW ins \in BOOLEAN, NEW k \in DOMAIN Source(r, ins)
  PROVE  /\ Among(r, ins, k) \in DOMAIN (r.inserts \o r.urls)
         /\ (r.inserts \o r.urls)[Among(r, ins, k)] = Source(r, ins)[k]
<1> DEFINE s == r.inserts
           t == r.urls
<1>1. s \in Seq(Range(s)) /\ t \in Seq(Range(t))
  BY NodesAssumption
<1>2. /\ ins => k \in DOMAIN s /\ Source(r, ins) = s /\ Among(r, ins, k) = k
      /\ ~ins => k \in DOMAIN t /\ Source(r, ins) = t /\ Among(r, ins, k) = Len(s) + k
  BY DEF Source, Among
<1> HIDE DEF s, t
<1>3. CASE ins
  <2>1. k \in DOMAIN (s \o t) /\ (s \o t)[k] = s[k]
    BY <1>1, <1>2, <1>3, Joined
  <2>2. QED BY <1>2, <1>3, <2>1 DEF s, t
<1>4. CASE ~ins
  <2>1. Len(s) + k \in DOMAIN (s \o t) /\ (s \o t)[Len(s) + k] = t[k]
    BY <1>1, <1>2, <1>4, Joined
  <2>2. QED BY <1>2, <1>4, <2>1 DEF s, t
<1>5. QED BY <1>3, <1>4

\* What is assumed of the requests, by the source of a link.
LEMMA LinksOfRequest ==
  ASSUME NEW r \in NodesRequests, NEW ins \in BOOLEAN
  PROVE  /\ Source(r, ins) \in Seq(Range(Source(r, ins)))
         /\ IF ins THEN 2 * Len(Source(r, ins)) < Word ELSE 2 * Len(Source(r, ins)) <= Word
         /\ \A k \in DOMAIN Source(r, ins) : IsLink(Source(r, ins)[k])
<1>1. /\ r.inserts \in Seq(Range(r.inserts)) /\ 2 * Len(r.inserts) < Word
      /\ r.urls \in Seq(Range(r.urls)) /\ 2 * Len(r.urls) <= Word
  BY NodesAssumption
<1>2. \A i \in DOMAIN (r.inserts \o r.urls) : IsLink((r.inserts \o r.urls)[i])
  BY NodesAssumption
<1>3. \A k \in DOMAIN Source(r, ins) : IsLink(Source(r, ins)[k])
  BY <1>2, AllLinks
<1>4. QED BY <1>1, <1>3 DEF Source

\* A host is of one link only.
LEMMA LinksAreApart ==
  ASSUME NEW r \in NodesRequests, NEW a \in BOOLEAN, NEW b \in BOOLEAN,
         NEW k \in DOMAIN Source(r, a), NEW l \in DOMAIN Source(r, b), NEW h,
         h \in From(Source(r, a)[k]), h \in From(Source(r, b)[l])
  PROVE  a = b /\ k = l
<1>1. Among(r, a, k) = Among(r, b, l)
  <2> DEFINE all == r.inserts \o r.urls
  <2>1. \A i, j \in DOMAIN all : From(all[i]) \cap From(all[j]) # {} => i = j
    BY NodesAssumption
  <2>2. /\ Among(r, a, k) \in DOMAIN all /\ h \in From(all[Among(r, a, k)])
        /\ Among(r, b, l) \in DOMAIN all /\ h \in From(all[Among(r, b, l)])
    BY AllLinks
  <2> HIDE DEF all
  <2>3. QED BY <2>1, <2>2
<1>2. r.inserts \in Seq(Range(r.inserts)) /\ r.urls \in Seq(Range(r.urls))
  BY NodesAssumption
<1>3. /\ IF a THEN k \in 1..Len(r.inserts) ELSE k \in 1..Len(r.urls)
      /\ IF b THEN l \in 1..Len(r.inserts) ELSE l \in 1..Len(r.urls)
      /\ Len(r.inserts) \in Nat /\ Len(r.urls) \in Nat
  BY <1>2 DEF Source
<1>4. CASE a /\ b
  <2>1. k = l
    BY <1>1, <1>4 DEF Among
  <2>2. QED BY <2>1, <1>4
<1>5. CASE a /\ ~b
  <2>1. k = Len(r.inserts) + l
    BY <1>1, <1>5 DEF Among
  <2>2. QED BY <2>1, <1>3, <1>5
<1>6. CASE ~a /\ b
  <2>1. l = Len(r.inserts) + k
    BY <1>1, <1>6 DEF Among
  <2>2. QED BY <2>1, <1>3, <1>6
<1>7. CASE ~a /\ ~b
  <2>1. Len(r.inserts) + k = Len(r.inserts) + l
    BY <1>1, <1>7 DEF Among
  <2>2. k = l
    BY <2>1, <1>3, <1>7
  <2>3. QED BY <2>2, <1>7
<1>8. QED BY <1>4, <1>5, <1>6, <1>7

\* A rule that asks for nothing a node gets from its link does not tell nodes
\* apart that differ in that.
LEMMA OwnRules ==
  ASSUME NEW x, Own(x), NEW n, NEW m,
         n.Type = m.Type, n.Port = m.Port, n.Hostname = m.Hostname, n.Remark = m.Remark
  PROVE  Selects(x, n) <=> Selects(x, m)
<1>1. ApplyMatcher(x, n) <=> ApplyMatcher(x, m)
  <2>1. CASE x.on = "any" BY <2>1 DEF ApplyMatcher
  <2>2. CASE x.on = "TYPE" BY <2>2 DEF ApplyMatcher
  <2>3. CASE x.on = "PORT" BY <2>3 DEF ApplyMatcher
  <2>4. CASE x.on = "SERVER" BY <2>4 DEF ApplyMatcher
  <2>5. QED BY <2>1, <2>2, <2>3, <2>4 DEF Own
<1>2. QED BY <1>1 DEF Selects

\* filterNodes() keeps nodes of the list that pass.
LEMMA FilterNodesKeeps ==
  ASSUME NEW ns, ns \in Seq(Range(ns)), NEW exclude, NEW include
  PROVE  /\ FilterNodes(ns, exclude, include) \in Seq(Range(FilterNodes(ns, exclude, include)))
         /\ \A j \in DOMAIN FilterNodes(ns, exclude, include) :
              \E i \in DOMAIN ns : /\ FilterNodes(ns, exclude, include)[j] = ns[i]
                                   /\ ~ChkIgnore(ns[i], exclude, include)
<1> DEFINE P == {i \in DOMAIN ns : ~ChkIgnore(ns[i], exclude, include)}
<1>1. P \in SUBSET (DOMAIN ns) /\ \A i \in P : ~ChkIgnore(ns[i], exclude, include)
  OBVIOUS
<1>2. FilterNodes(ns, exclude, include) = Kept(ns, P)
  BY DEF FilterNodes
<1> HIDE DEF P
<1>3. QED BY <1>1, <1>2, KeptIsPart

LEMMA PlacedIsNode ==
  ASSUME NEW n, DOMAIN n = NodeFields, NEW link, NEW id
  PROVE  /\ DOMAIN Placed(n, link, id) = NodeFields
         /\ Placed(n, link, id).GroupId = ToU32(id)
         /\ Placed(n, link, id).Hostname = n.Hostname /\ Placed(n, link, id).Type = n.Type
         /\ Placed(n, link, id).Port = n.Port /\ Placed(n, link, id).Remark = n.Remark
BY DEF Placed, NodeFields

LEMMA UnknownIsPlaceholder == DOMAIN Unknown = NodeFields /\ Placeholder(Unknown)
BY DEF Unknown, NodeFields, Placeholder

\* A node that is not ignored passes, also when it has been given its group.
LEMMA PlacedPasses ==
  ASSUME NEW r, NEW n, DOMAIN n = NodeFields, ~ChkIgnore(n, r.exclude, r.include), NEW link, NEW id
  PROVE  Passes(Placed(n, link, id), r)
<1> DEFINE m == Placed(n, link, id)
<1>1. \A x : Own(x) => (Selects(x, m) <=> Selects(x, n))
  BY PlacedIsNode, OwnRules
<1>2. (\A x \in r.exclude : ~Selects(x, n)) /\ (r.include # {} => \E x \in r.include : Selects(x, n))
  BY DEF ChkIgnore
<1> HIDE DEF m
<1>3. Passes(m, r)
  BY <1>1, <1>2 DEF Passes
<1>4. QED BY <1>3 DEF m
-----------------------------------------------------------------------------
\* What addNodes() adds for a link, in the group id.
Brings(added, r, link, id) ==
  /\ AreNodes(added)
  /\ \A i \in DOMAIN added :
       Placeholder(added[i]) \/ (added[i].GroupId = ToU32(id) /\ added[i].Hostname \in From(link))
  /\ link.kind \in {"SUB", "Local", "single"} => Hosts(added) = Hosts(Wanted(r, link))
  /\ Filters(link) => \A i \in DOMAIN added : Passes(added[i], r)

\* A list of nodes, filtered and placed.
LEMMA ManyBrings ==
  ASSUME NEW link, link.nodes \in Seq(Range(link.nodes)),
         \A i \in DOMAIN link.nodes : DOMAIN link.nodes[i] = NodeFields, NEW id
  PROVE  LET kept == FilterNodes(link.nodes, given.exclude, given.include)
         IN  /\ AreNodes(Many(link, id))
             /\ \A i \in DOMAIN Many(link, id) :
                  /\ Many(link, id)[i].GroupId = ToU32(id) /\ Many(link, id)[i].Hostname \in From(link)
                  /\ Passes(Many(link, id)[i], given)
             /\ Hosts(Many(link, id)) = Hosts(kept)
<1> DEFINE kept == FilterNodes(link.nodes, given.exclude, given.include)
           many == Many(link, id)
<1>1. kept \in Seq(Range(kept))
  BY FilterNodesKeeps
<1>2. \A j \in DOMAIN kept : \E i \in DOMAIN link.nodes :
        kept[j] = link.nodes[i] /\ ~ChkIgnore(link.nodes[i], given.exclude, given.include)
  BY FilterNodesKeeps
<1>3. many = [i \in DOMAIN kept |-> Placed(kept[i], link, id)]
  BY DEF Many
<1> HIDE DEF kept, many
<1>4. \A j \in DOMAIN kept :
        DOMAIN kept[j] = NodeFields /\ ~ChkIgnore(kept[j], given.exclude, given.include)
  BY <1>2
<1>5. \A j \in DOMAIN kept : kept[j].Hostname \in From(link)
  BY <1>2 DEF From, Hosts, Range
<1>6. DOMAIN many = DOMAIN kept /\ \A i \in DOMAIN many : many[i] = Placed(kept[i], link, id)
  BY <1>3
<1>7. \A i \in DOMAIN many :
        /\ DOMAIN many[i] = NodeFields /\ many[i].GroupId = ToU32(id)
        /\ many[i].Hostname = kept[i].Hostname /\ Passes(many[i], given)
  BY <1>4, <1>6, PlacedIsNode, PlacedPasses
<1>8. many \in Seq(Range(many))
  <2>1. Len(kept) \in Nat /\ DOMAIN many = 1..Len(kept)
    BY <1>1, <1>6
  <2>2. many \in [1..Len(kept) -> Range(many)]
    BY <1>3, <2>1 DEF Range
  <2>3. QED BY <2>1, <2>2
<1>9. Hosts(many) = Hosts(kept)
  BY <1>6, <1>7 DEF Hosts
<1>10. QED BY <1>5, <1>6, <1>7, <1>8, <1>9 DEF AreNodes, many, kept

\* One node.
LEMMA OneBrings ==
  ASSUME NEW n, DOMAIN n = NodeFields
  PROVE  AreNodes(<<n>>) /\ DOMAIN <<n>> = {1} /\ <<n>>[1] = n
<1>1. DOMAIN <<n>> = {1} /\ <<n>>[1] = n /\ <<n>> \in Seq({n})
  OBVIOUS
<1>2. <<n>> \in Seq(Range(<<n>>))
  BY <1>1, IsList
<1>3. QED BY <1>1, <1>2 DEF AreNodes

LEMMA AddedBrings ==
  ASSUME NEW link, IsLink(link), NEW ran \in BOOLEAN, NEW fetched \in BOOLEAN, NEW id \in Int,
         ~LinkFails(Resolved(link, ran), fetched)
  PROVE  Brings(Added(Resolved(link, ran), id), given, link, id)
<1> DEFINE l == Resolved(link, ran)
           A == Added(l, id)
<1>1. /\ DOMAIN link = {"kind", "tag", "gives", "nodes"} /\ CanGive(link.kind, link.nodes)
      /\ link.kind = "script" => link.gives # "script" /\ CanGive(link.gives, link.nodes)
      /\ link.nodes \in Seq(Range(link.nodes))
      /\ \A i \in DOMAIN link.nodes : DOMAIN link.nodes[i] = NodeFields
  BY DEF IsLink
<1>2. l.nodes = link.nodes /\ (link.kind # "script" => l.kind = link.kind)
      /\ (link.kind = "script" => l.kind \in {link.gives, "bad"})
  BY <1>1 DEF Resolved
<1>3. l.kind \in LinkKinds \ {"script"} /\ (l.kind = "single" => Len(link.nodes) = 1)
  BY <1>1, <1>2 DEF CanGive, LinkKinds
<1>4. From(l) = From(link)
  BY <1>2 DEF From
<1> HIDE DEF l
<1>5. CASE l.kind \in {"SUB", "Local"}
  <2>1. A = Many(l, id)
    BY <1>5 DEF Added
  <2>2. link.kind # "script" => link.kind = l.kind /\ Wanted(given, link) = FilterNodes(l.nodes, given.exclude, given.include)
    BY <1>2, <1>5 DEF Wanted
  <2>3. link.kind \in {"SUB", "Local", "single"} => link.kind # "script"
    OBVIOUS
  <2>4. l.nodes \in Seq(Range(l.nodes)) /\ \A i \in DOMAIN l.nodes : DOMAIN l.nodes[i] = NodeFields
    BY <1>1, <1>2
  <2>5. QED BY <1>4, <2>1, <2>2, <2>3, <2>4, ManyBrings DEF Brings, l
<1>6. CASE l.kind = "single"
  <2> DEFINE n == link.nodes[1]
  <2>1. DOMAIN link.nodes = {1} /\ DOMAIN n = NodeFields
    BY <1>1, <1>3, <1>6
  <2>2. A = <<Placed(n, l, id)>>
    BY <1>2, <1>6 DEF Added, Found
  <2>3. n.Hostname \in From(link)
    BY <2>1 DEF From, Hosts, Range
  <2>4. Hosts(A) = Hosts(link.nodes)
    <3>1. DOMAIN A = {1} /\ A[1].Hostname = n.Hostname
      BY <2>1, <2>2, PlacedIsNode
    <3> HIDE DEF A
    <3>2. QED BY <2>1, <3>1 DEF Hosts
  <2>5. link.kind \in {"SUB", "Local", "single"} => link.kind = "single"
    BY <1>2, <1>6
  <2>6. AreNodes(A) /\ DOMAIN A = {1} /\ A[1].GroupId = ToU32(id) /\ A[1].Hostname = n.Hostname
    BY <2>1, <2>2, PlacedIsNode, OneBrings
  <2> HIDE DEF A, n
  <2>7. QED BY <2>3, <2>4, <2>5, <2>6 DEF Brings, Wanted, Filters, A, l
<1>7. CASE l.kind \in {"nullnode", "bad"}
  <2>1. link.kind \notin {"SUB", "Local", "single"}
    BY <1>2, <1>7
  <2>2. A = <<Unknown>> \/ A = <<Placed(Unknown, l, id)>>
    BY <1>7 DEF Added, Found
  <2>3. Placeholder(Placed(Unknown, l, id)) /\ DOMAIN Placed(Unknown, l, id) = NodeFields
    BY UnknownIsPlaceholder, PlacedIsNode DEF Placeholder
  <2>4. AreNodes(A) /\ DOMAIN A = {1} /\ Placeholder(A[1])
    BY <2>2, <2>3, UnknownIsPlaceholder, OneBrings
  <2> HIDE DEF A
  <2>5. QED BY <2>1, <2>4 DEF Brings, Filters, A, l
<1>8. QED BY <1>3, <1>5, <1>6, <1>7 DEF LinkKinds
-----------------------------------------------------------------------------
\* A placeholder is of no link.
LEMMA PlaceholdersHost ==
  ASSUME NEW r \in NodesRequests, NEW ins \in BOOLEAN, NEW k \in DOMAIN Source(r, ins), NEW n, Placeholder(n)
  PROVE  n.Hostname \notin From(Source(r, ins)[k])
<1>1. IsLink(Source(r, ins)[k])
  BY LinksOfRequest
<1>2. NoGroup \notin From(Source(r, ins)[k])
  BY <1>1 DEF IsLink, From, Hosts, Range
<1>3. QED BY <1>2 DEF Placeholder

\* Before the loop.
LEMMA GatherNone ==
  ASSUME NEW r, NEW ins \in BOOLEAN
  PROVE  Gathered(<<>>, r, ins, 0)
<1>1. DOMAIN <<>> = {} /\ <<>> \in Seq({})
  OBVIOUS
<1>2. AreNodes(<<>>)
  BY <1>1, IsList DEF AreNodes
<1>3. \A k \in DOMAIN Source(r, ins) : Stands(<<>>, r, Source(r, ins)[k])
  BY <1>1 DEF Stands
<1>4. 1..0 = {}
  OBVIOUS
<1>5. QED BY <1>1, <1>2, <1>3, <1>4 DEF Gathered

\* A node that is listed is of a link the loop has come to.
LEMMA HostsGathered ==
  ASSUME NEW r \in NodesRequests, NEW ins \in BOOLEAN, NEW d \in 0..Len(Source(r, ins)),
         NEW ns, Gathered(ns, r, ins, d), NEW i \in DOMAIN ns,
         NEW b \in BOOLEAN, NEW k \in DOMAIN Source(r, b), ns[i].Hostname \in From(Source(r, b)[k])
  PROVE  b = ins /\ k \in 1..d
<1>1. ~Placeholder(ns[i])
  BY PlaceholdersHost
<1>2. PICK l \in 1..d : Brought(ns[i], r, ins, l)
  BY <1>1 DEF Gathered
<1>3. l \in DOMAIN Source(r, ins)
  BY LinksOfRequest
<1>4. QED BY <1>2, <1>3, LinksAreApart DEF Brought

\* The same of what the link d + 1 brings.
LEMMA HostsBrought ==
  ASSUME NEW r \in NodesRequests, NEW ins \in BOOLEAN, NEW d \in DOMAIN Source(r, ins),
         NEW added, NEW id, Brings(added, r, Source(r, ins)[d], id), NEW i \in DOMAIN added,
         NEW b \in BOOLEAN, NEW k \in DOMAIN Source(r, b), added[i].Hostname \in From(Source(r, b)[k])
  PROVE  b = ins /\ k = d
<1>1. ~Placeholder(added[i])
  BY PlaceholdersHost
<1>2. added[i].Hostname \in From(Source(r, ins)[d])
  BY <1>1 DEF Brings
<1>3. QED BY <1>2, LinksAreApart

\* A link that failed brings nothing, which is right if it may be skipped.
LEMMA GatherFailed ==
  ASSUME NEW r \in NodesRequests, NEW ins \in BOOLEAN, NEW d \in 0..(Len(Source(r, ins)) - 1),
         NEW ns, Gathered(ns, r, ins, d), r.skip
  PROVE  Gathered(ns, r, ins, d + 1)
<1>1. Len(Source(r, ins)) \in Nat /\ DOMAIN Source(r, ins) = 1..Len(Source(r, ins))
  BY LinksOfRequest
<1>2. d \in 0..Len(Source(r, ins)) /\ 1..d \subseteq 1..(d + 1) /\ 1..(d + 1) \subseteq DOMAIN Source(r, ins)
  BY <1>1
<1>3. \A i \in DOMAIN ns : \A k \in 1..(d + 1) : Brought(ns[i], r, ins, k) => k \in 1..d
  BY <1>2, HostsGathered DEF Brought
<1>4. \A i \in DOMAIN ns : Placeholder(ns[i]) \/ \E k \in 1..(d + 1) : Brought(ns[i], r, ins, k)
  BY <1>2 DEF Gathered
<1>5. \A i, j \in DOMAIN ns : \A k, l \in 1..(d + 1) :
        i < j /\ Brought(ns[i], r, ins, k) /\ Brought(ns[j], r, ins, l) => k <= l
  BY <1>3 DEF Gathered
<1>6. QED BY <1>4, <1>5 DEF Gathered

\* The nodes of other links are where they were.
LEMMA StandsOn ==
  ASSUME NEW r, NEW link, NEW ns, AreNodes(ns), NEW more, AreNodes(more), Stands(ns, r, link),
         \A i \in DOMAIN more : more[i].Hostname \notin From(link)
  PROVE  Stands(ns \o more, r, link)
<1> DEFINE all == ns \o more
<1>1. /\ Len(ns) \in Nat /\ DOMAIN ns = 1..Len(ns) /\ Len(all) \in Nat /\ Len(ns) <= Len(all)
      /\ \A i \in DOMAIN ns : i \in DOMAIN all /\ all[i] = ns[i]
      /\ \A i \in DOMAIN more : Len(ns) + i \in DOMAIN all /\ all[Len(ns) + i] = more[i]
      /\ \A i \in DOMAIN all : i \in DOMAIN ns \/ i - Len(ns) \in DOMAIN more
      /\ DOMAIN all \subseteq Int
  BY Joined DEF AreNodes
<1> HIDE DEF all
<1>2. \A i \in DOMAIN all : all[i].Hostname \in From(link) => i \in DOMAIN ns /\ all[i] = ns[i]
  <2>1. TAKE i \in DOMAIN all
  <2>2. CASE i \in DOMAIN ns
    BY <1>1, <2>2
  <2>3. CASE i - Len(ns) \in DOMAIN more
    <3>1. Len(ns) + (i - Len(ns)) = i
      BY <1>1
    <3>2. all[i] = more[i - Len(ns)]
      BY <1>1, <2>3, <3>1
    <3>3. QED BY <2>3, <3>2
  <2>4. QED BY <1>1, <2>2, <2>3
<1>3. ASSUME link.kind # "script", NEW i \in DOMAIN all, all[i].Hostname \in From(link)
      PROVE  \E before \in 0..Len(all) : IsBlock(all, link, Hosts(Wanted(r, link)), before)
  <2>1. PICK before \in 0..Len(ns) : IsBlock(ns, link, Hosts(Wanted(r, link)), before)
    BY <1>2, <1>3 DEF Stands
  <2>2. before \in 0..Len(all)
    BY <1>1
  <2>3. IsBlock(all, link, Hosts(Wanted(r, link)), before)
    BY <1>1, <1>2, <2>1 DEF IsBlock
  <2>4. QED BY <2>2, <2>3
<1>4. QED BY <1>2, <1>3 DEF Stands, all

\* So are those of a link in a list that is put behind another.
LEMMA StandsBehind ==
  ASSUME NEW r, NEW link, IsLink(link), NEW ns, AreNodes(ns), NEW more, AreNodes(more),
         Stands(more, r, link), \A i \in DOMAIN ns : ns[i].Hostname \notin From(link)
  PROVE  Stands(ns \o more, r, link)
<1> DEFINE all == ns \o more
           whole == Hosts(Wanted(r, link))
<1>1. /\ Len(ns) \in Nat /\ DOMAIN ns = 1..Len(ns) /\ Len(more) \in Nat /\ Len(all) = Len(ns) + Len(more)
      /\ \A i \in DOMAIN ns : i \in DOMAIN all /\ all[i] = ns[i]
      /\ \A i \in DOMAIN more : Len(ns) + i \in DOMAIN all /\ all[Len(ns) + i] = more[i]
      /\ \A i \in DOMAIN all : i \in DOMAIN ns \/ i - Len(ns) \in DOMAIN more
      /\ DOMAIN all \subseteq Int /\ DOMAIN more \subseteq Int
  BY Joined DEF AreNodes
<1>2. DOMAIN whole \subseteq Int
  <2>1. Wanted(r, link) \in Seq(Range(Wanted(r, link)))
    BY FilterNodesKeeps DEF Wanted, IsLink
  <2>2. QED BY <2>1 DEF Hosts
<1> HIDE DEF all, whole
<1>3. \A i \in DOMAIN all : all[i].Hostname \in From(link) =>
        i - Len(ns) \in DOMAIN more /\ all[i] = more[i - Len(ns)]
  <2>1. TAKE i \in DOMAIN all
  <2>2. HAVE all[i].Hostname \in From(link)
  <2>3. i \notin DOMAIN ns /\ i \in Int
    BY <1>1, <2>2
  <2>4. i - Len(ns) \in DOMAIN more /\ Len(ns) + (i - Len(ns)) = i
    BY <1>1, <2>3
  <2>5. QED BY <1>1, <2>4
<1>4. ASSUME link.kind # "script", NEW i \in DOMAIN all, all[i].Hostname \in From(link)
      PROVE  \E before \in 0..Len(all) : IsBlock(all, link, whole, before)
  <2>1. PICK b \in 0..Len(more) : IsBlock(more, link, whole, b)
    BY <1>3, <1>4 DEF Stands, whole
  <2> DEFINE before == Len(ns) + b
  <2>2. before \in 0..Len(all)
    BY <1>1
  <2>3. \A j \in DOMAIN whole : before + j \in DOMAIN all /\ all[before + j].Hostname = whole[j]
    <3>1. TAKE j \in DOMAIN whole
    <3>2. b + j \in DOMAIN more /\ more[b + j].Hostname = whole[j]
      BY <2>1 DEF IsBlock
    <3>3. before + j = Len(ns) + (b + j)
      BY <1>1, <1>2
    <3> HIDE DEF before
    <3>4. QED BY <1>1, <3>2, <3>3
  <2>4. \A l \in DOMAIN all : all[l].Hostname \in From(link) => l - before \in DOMAIN whole
    <3>1. TAKE l \in DOMAIN all
    <3>2. HAVE all[l].Hostname \in From(link)
    <3>3. (l - Len(ns)) - b \in DOMAIN whole
      BY <1>3, <2>1, <3>2 DEF IsBlock
    <3>4. l - before = (l - Len(ns)) - b
      BY <1>1
    <3> HIDE DEF before
    <3>5. QED BY <3>3, <3>4
  <2>5. QED BY <2>2, <2>3, <2>4 DEF IsBlock
<1>5. QED BY <1>3, <1>4 DEF Stands, all, whole

\* What a link brings stands by itself.
LEMMA BringsStands ==
  ASSUME NEW r, NEW link, IsLink(link), NEW added, NEW id, Brings(added, r, link, id)
  PROVE  /\ Stands(added, r, link) /\ IsThere(added, r, link)
<1>1. AreNodes(added) /\ Len(added) \in Nat /\ DOMAIN added = 1..Len(added)
  BY DEF Brings, AreNodes
<1>2. ASSUME link.kind \in {"SUB", "Local", "single"}
      PROVE  /\ DOMAIN added = DOMAIN Wanted(r, link)
             /\ \A i \in DOMAIN added : added[i].Hostname = Wanted(r, link)[i].Hostname
  <2>1. Hosts(added) = Hosts(Wanted(r, link))
    BY <1>2 DEF Brings
  <2>2. DOMAIN Hosts(added) = DOMAIN added /\ DOMAIN Hosts(Wanted(r, link)) = DOMAIN Wanted(r, link)
    BY DEF Hosts
  <2>3. /\ \A i \in DOMAIN added : Hosts(added)[i] = added[i].Hostname
        /\ \A i \in DOMAIN Wanted(r, link) : Hosts(Wanted(r, link))[i] = Wanted(r, link)[i].Hostname
    BY DEF Hosts
  <2>4. QED BY <2>1, <2>2, <2>3
<1>3. IsThere(added, r, link)
  BY <1>2 DEF IsThere, Filters, Range
<1>4. ASSUME link.kind # "script", NEW i \in DOMAIN added, added[i].Hostname \in From(link)
      PROVE  IsBlock(added, link, Hosts(Wanted(r, link)), 0)
  <2>1. link.nodes # <<>>
    <3>1. CASE link.nodes = <<>>
      <4>1. DOMAIN link.nodes = {}
        BY <3>1
      <4>2. From(link) = {}
        BY <4>1 DEF From, Hosts, Range
      <4>3. QED BY <1>4, <4>2
    <3>2. QED BY <3>1
  <2>2. link.kind \in {"SUB", "Local", "single"}
    BY <1>4, <2>1 DEF IsLink, CanGive, LinkKinds
  <2> DEFINE whole == Hosts(Wanted(r, link))
  <2>3. DOMAIN whole = DOMAIN added /\ \A j \in DOMAIN whole : whole[j] = added[j].Hostname
    BY <1>2, <2>2 DEF Hosts
  <2> HIDE DEF whole
  <2>4. \A j \in DOMAIN added : 0 + j = j /\ j - 0 = j
    BY <1>1
  <2>5. IsBlock(added, link, whole, 0)
    BY <2>3, <2>4 DEF IsBlock
  <2>6. QED BY <2>5 DEF whole
<1>5. 0 \in 0..Len(added)
  BY <1>1
<1>6. Filters(link) => \A i \in DOMAIN added : Passes(added[i], r)
  BY DEF Brings
<1>7. QED BY <1>3, <1>4, <1>5, <1>6 DEF Stands

\* A link that is read is put at the end of the list.
LEMMA GatherMore ==
  ASSUME NEW r \in NodesRequests, NEW ins \in BOOLEAN, NEW d \in 0..(Len(Source(r, ins)) - 1),
         NEW ns, Gathered(ns, r, ins, d),
         NEW added, Brings(added, r, Source(r, ins)[d + 1], Number(ins, d + 1))
  PROVE  Gathered(ns \o added, r, ins, d + 1)
<1> DEFINE all  == ns \o added
           link == Source(r, ins)[d + 1]
<1>1. AreNodes(ns) /\ AreNodes(added)
  BY DEF Gathered, Brings
<1>2. /\ Len(ns) \in Nat /\ DOMAIN ns = 1..Len(ns)
      /\ \A i \in DOMAIN ns : i \in DOMAIN all /\ all[i] = ns[i]
      /\ \A i \in DOMAIN added : Len(ns) + i \in DOMAIN all /\ all[Len(ns) + i] = added[i]
      /\ \A i \in DOMAIN all : i \in DOMAIN ns \/ (i - Len(ns) \in DOMAIN added /\ i \notin DOMAIN ns)
      /\ DOMAIN all \subseteq Nat \ {0} /\ all \in Seq(Range(all))
  BY <1>1, Joined DEF AreNodes
<1> HIDE DEF all
<1>3. \A i \in DOMAIN all :
        \/ i \in DOMAIN ns /\ all[i] = ns[i]
        \/ i > Len(ns) /\ i - Len(ns) \in DOMAIN added /\ all[i] = added[i - Len(ns)]
  <2>1. TAKE i \in DOMAIN all
  <2>2. CASE i \in DOMAIN ns
    BY <1>2, <2>2
  <2>3. CASE i - Len(ns) \in DOMAIN added /\ i \notin DOMAIN ns
    <3>1. Len(ns) + (i - Len(ns)) = i /\ i > Len(ns)
      BY <1>2, <2>3
    <3>2. QED BY <1>2, <2>3, <3>1
  <2>4. QED BY <1>2, <2>2, <2>3
<1>4. /\ DOMAIN Source(r, ins) = 1..Len(Source(r, ins)) /\ Len(Source(r, ins)) \in Nat
      /\ \A k \in DOMAIN Source(r, ins) : IsLink(Source(r, ins)[k])
  BY LinksOfRequest
<1>5. /\ d + 1 \in DOMAIN Source(r, ins) /\ d \in 0..Len(Source(r, ins)) /\ 1..d \subseteq 1..(d + 1)
      /\ 1..(d + 1) \subseteq DOMAIN Source(r, ins) /\ d + 1 \in 1..(d + 1)
      /\ \A k \in 1..(d + 1) : k \in 1..d \/ k = d + 1
  BY <1>4
<1>6. IsLink(link)
  BY <1>4, <1>5
<1>7. \A i \in DOMAIN ns : \A k \in DOMAIN Source(r, ins) :
        ns[i].Hostname \in From(Source(r, ins)[k]) => k \in 1..d
  BY <1>5, HostsGathered
<1>8. \A i \in DOMAIN added : \A k \in DOMAIN Source(r, ins) :
        added[i].Hostname \in From(Source(r, ins)[k]) => k = d + 1
  BY <1>5, HostsBrought
<1>9. AreNodes(all)
  BY <1>1, <1>2, <1>3 DEF AreNodes
<1>10. ASSUME NEW i \in DOMAIN all
       PROVE  Placeholder(all[i]) \/ \E k \in 1..(d + 1) : Brought(all[i], r, ins, k)
  <2>1. CASE i \in DOMAIN ns /\ all[i] = ns[i]
    BY <1>5, <2>1 DEF Gathered
  <2>2. CASE i - Len(ns) \in DOMAIN added /\ all[i] = added[i - Len(ns)]
    <3>1. Placeholder(all[i]) \/ Brought(all[i], r, ins, d + 1)
      BY <2>2 DEF Brings, Brought
    <3>2. QED BY <1>5, <3>1
  <2>3. QED BY <1>3, <2>1, <2>2
<1>11. ASSUME NEW i \in DOMAIN all, NEW j \in DOMAIN all, NEW k \in 1..(d + 1), NEW l \in 1..(d + 1),
              i < j, Brought(all[i], r, ins, k), Brought(all[j], r, ins, l)
       PROVE  k <= l
  <2>1. k \in DOMAIN Source(r, ins) /\ l \in DOMAIN Source(r, ins)
        /\ all[i].Hostname \in From(Source(r, ins)[k]) /\ all[j].Hostname \in From(Source(r, ins)[l])
    BY <1>5, <1>11 DEF Brought
  <2>2. CASE j > Len(ns) /\ j - Len(ns) \in DOMAIN added /\ all[j] = added[j - Len(ns)]
    <3>1. l = d + 1
      BY <1>8, <2>1, <2>2
    <3>2. QED BY <3>1
  <2>3. CASE j \in DOMAIN ns /\ all[j] = ns[j]
    <3>1. i \in DOMAIN ns
      BY <1>2, <1>11, <2>3
    <3>2. all[i] = ns[i] /\ k \in 1..d /\ l \in 1..d
      BY <1>2, <1>7, <2>1, <2>3, <3>1
    <3>3. QED BY <1>11, <2>3, <3>1, <3>2 DEF Gathered
  <2>4. QED BY <1>3, <2>2, <2>3
<1>12. ASSUME NEW k \in DOMAIN Source(r, ins)
       PROVE  Stands(all, r, Source(r, ins)[k])
  <2>1. CASE k = d + 1
    <3>1. Stands(added, r, link)
      BY <1>6, BringsStands
    <3>2. \A i \in DOMAIN ns : ns[i].Hostname \notin From(link)
      <4>1. ~(d + 1 \in 1..d)
        OBVIOUS
      <4>2. QED BY <1>5, <1>7, <4>1
    <3> HIDE DEF link
    <3>3. Stands(all, r, link)
      BY <1>1, <1>6, <3>1, <3>2, StandsBehind DEF all
    <3>4. QED BY <2>1, <3>3 DEF link
  <2>2. CASE k # d + 1
    <3>1. \A i \in DOMAIN added : added[i].Hostname \notin From(Source(r, ins)[k])
      BY <1>8, <2>2
    <3>2. Stands(ns, r, Source(r, ins)[k])
      BY DEF Gathered
    <3>3. QED BY <1>1, <3>1, <3>2, StandsOn DEF all
  <2>3. QED BY <2>1, <2>2
<1>13. ASSUME ~r.skip, NEW k \in 1..(d + 1)
       PROVE  IsThere(all, r, Source(r, ins)[k])
  <2>1. CASE k \in 1..d
    <3>1. IsThere(ns, r, Source(r, ins)[k])
      BY <1>13, <2>1 DEF Gathered
    <3>2. QED BY <1>2, <3>1 DEF IsThere
  <2>2. CASE k = d + 1
    <3>1. IsThere(added, r, link)
      BY <1>6, BringsStands
    <3>2. IsThere(all, r, link)
      BY <1>2, <3>1 DEF IsThere
    <3>3. QED BY <2>2, <3>2
  <2>3. QED BY <1>5, <2>1, <2>2
<1>14. QED BY <1>9, <1>10, <1>11, <1>12, <1>13 DEF Gathered, all
-----------------------------------------------------------------------------
\* A node of insert_url is before all others or behind them.
LEMMA Positions ==
  ASSUME NEW r \in NodesRequests, NEW ins \in BOOLEAN, NEW k \in DOMAIN Source(r, ins),
         NEW n, Brought(n, r, ins, k), NEW prepend \in BOOLEAN
  PROVE  Position(n, prepend) = IF ins THEN (IF prepend THEN k - Word ELSE k + Word) ELSE k - 1
<1>1. k \in Nat \ {0} /\ (IF ins THEN 2 * k < Word ELSE 2 * k <= Word)
  BY LinksOfRequest, WordAssumption
<1>2. Word \in Nat
  BY WordAssumption
<1>3. CASE ins
  <2>1. n.GroupId = ToU32(-k)
    BY <1>3 DEF Brought, Number
  <2> DEFINE z == -k
  <2>2. z \in Int /\ 2 * z < Word /\ -Word <= 2 * z /\ z < 0
    BY <1>1, <1>2, <1>3
  <2>3. ToU32(z) = z + Word /\ ToInt(ToU32(z)) = z
    BY <2>2, ReadBack
  <2>4. z + Word = Word - k /\ -Word - z = k - Word /\ Word - z = k + Word
    BY <1>1, <1>2
  <2>5. ~(Word - k < Word \div 2)
    BY <1>1, <1>2, <1>3, HalfWord
  <2> HIDE DEF z
  <2>6. n.GroupId = Word - k /\ ToInt(n.GroupId) = z
    BY <2>1, <2>3, <2>4 DEF z
  <2>7. QED BY <1>3, <2>4, <2>5, <2>6 DEF Position
<1>4. CASE ~ins
  <2> DEFINE z == k - 1
  <2>1. n.GroupId = ToU32(z)
    BY <1>4 DEF Brought, Number
  <2>2. z \in Int /\ 2 * z < Word /\ -Word <= 2 * z /\ ~(z < 0)
    BY <1>1, <1>2, <1>4
  <2> HIDE DEF z
  <2>3. ToU32(z) = z /\ ToInt(ToU32(z)) = z
    BY <2>2, ReadBack
  <2>4. z < Word \div 2
    BY <2>2, <1>2, HalfWord
  <2>5. Position(n, prepend) = z
    BY <2>1, <2>3, <2>4 DEF Position
  <2>6. QED BY <1>4, <2>5 DEF z
<1>5. QED BY <1>3, <1>4

\* The links come to are links of the request.
LEMMA GatheredIsOwned ==
  ASSUME NEW r \in NodesRequests, NEW ins \in BOOLEAN, NEW d \in 0..Len(Source(r, ins)),
         NEW ns, Gathered(ns, r, ins, d)
  PROVE  AreNodes(ns) /\ Owned(ns, r)
<1>1. 1..d \subseteq DOMAIN Source(r, ins)
  BY LinksOfRequest
<1>2. QED BY <1>1 DEF Gathered, Owned

\* The list of a loop is in the order of its links.
LEMMA GatheredIsOrdered ==
  ASSUME NEW r \in NodesRequests, NEW ins \in BOOLEAN, NEW ns, Complete(ns, r, ins)
  PROVE  Ordered(ns, r)
<1>1. r.prepend \in BOOLEAN
  BY NodesAssumption
<1>2. Len(Source(r, ins)) \in Nat /\ DOMAIN Source(r, ins) = 1..Len(Source(r, ins))
  BY LinksOfRequest
<1>3. SUFFICES ASSUME NEW i \in DOMAIN ns, NEW j \in DOMAIN ns, i < j,
                      ns[i].Type # "Unknow", ns[j].Type # "Unknow"
               PROVE  Position(ns[i], r.prepend) <= Position(ns[j], r.prepend)
  BY DEF Ordered
<1>4. ~Placeholder(ns[i]) /\ ~Placeholder(ns[j])
  BY <1>3 DEF Placeholder
<1>5. PICK k \in DOMAIN Source(r, ins) : Brought(ns[i], r, ins, k)
  BY <1>2, <1>4 DEF Complete, Gathered
<1>6. PICK l \in DOMAIN Source(r, ins) : Brought(ns[j], r, ins, l)
  BY <1>2, <1>4 DEF Complete, Gathered
<1>7. k <= l /\ k \in Nat /\ l \in Nat /\ Word \in Nat
  BY <1>2, <1>3, <1>5, <1>6, WordAssumption DEF Complete, Gathered
<1>8. /\ Position(ns[i], r.prepend) = IF ins THEN (IF r.prepend THEN k - Word ELSE k + Word) ELSE k - 1
      /\ Position(ns[j], r.prepend) = IF ins THEN (IF r.prepend THEN l - Word ELSE l + Word) ELSE l - 1
  BY <1>1, <1>5, <1>6, Positions
<1>9. CASE ins /\ r.prepend
  BY <1>7, <1>8, <1>9
<1>10. CASE ins /\ ~r.prepend
  BY <1>7, <1>8, <1>10
<1>11. CASE ~ins
  BY <1>7, <1>8, <1>11
<1>12. QED BY <1>9, <1>10, <1>11

\* Two lists in one, if the first is before the second.
LEMMA JoinNodes ==
  ASSUME NEW r, NEW a, AreNodes(a), Owned(a, r), Ordered(a, r),
         NEW b, AreNodes(b), Owned(b, r), Ordered(b, r),
         \A i \in DOMAIN a, j \in DOMAIN b : a[i].Type # "Unknow" /\ b[j].Type # "Unknow" =>
           Position(a[i], r.prepend) <= Position(b[j], r.prepend)
  PROVE  AreNodes(a \o b) /\ Owned(a \o b, r) /\ Ordered(a \o b, r)
<1> DEFINE all == a \o b
<1>1. /\ Len(a) \in Nat /\ DOMAIN a = 1..Len(a) /\ all \in Seq(Range(all))
      /\ DOMAIN b \subseteq Int /\ DOMAIN all \subseteq Nat \ {0}
      /\ \A i \in DOMAIN a : i \in DOMAIN all /\ all[i] = a[i]
      /\ \A i \in DOMAIN b : Len(a) + i \in DOMAIN all /\ all[Len(a) + i] = b[i]
      /\ \A i \in DOMAIN all : i \in DOMAIN a \/ (i - Len(a) \in DOMAIN b /\ i \notin DOMAIN a)
  BY Joined DEF AreNodes
<1> HIDE DEF all
<1>2. \A i \in DOMAIN all :
        \/ i \in DOMAIN a /\ all[i] = a[i]
        \/ i > Len(a) /\ i - Len(a) \in DOMAIN b /\ all[i] = b[i - Len(a)]
  <2>1. TAKE i \in DOMAIN all
  <2>2. CASE i \in DOMAIN a
    BY <1>1, <2>2
  <2>3. CASE i - Len(a) \in DOMAIN b /\ i \notin DOMAIN a
    <3>1. Len(a) + (i - Len(a)) = i /\ i > Len(a)
      BY <1>1, <2>3
    <3>2. QED BY <1>1, <2>3, <3>1
  <2>4. QED BY <1>1, <2>2, <2>3
<1>3. AreNodes(all)
  BY <1>1, <1>2 DEF AreNodes
<1>4. Owned(all, r)
  BY <1>2 DEF Owned
<1>5. ASSUME NEW i \in DOMAIN all, NEW j \in DOMAIN all, i < j,
             all[i].Type # "Unknow", all[j].Type # "Unknow"
      PROVE  Position(all[i], r.prepend) <= Position(all[j], r.prepend)
  <2>1. CASE j \in DOMAIN a
    <3>1. i \in DOMAIN a /\ all[i] = a[i] /\ all[j] = a[j]
      BY <1>1, <1>5, <2>1
    <3>2. QED BY <1>5, <2>1, <3>1 DEF Ordered
  <2>2. CASE i \in DOMAIN a /\ j - Len(a) \in DOMAIN b /\ all[j] = b[j - Len(a)]
    BY <1>1, <1>5, <2>2
  <2>3. CASE /\ i - Len(a) \in DOMAIN b /\ all[i] = b[i - Len(a)]
             /\ j - Len(a) \in DOMAIN b /\ all[j] = b[j - Len(a)]
    <3>1. i - Len(a) < j - Len(a)
      BY <1>1, <1>5
    <3>2. QED BY <1>5, <2>3, <3>1 DEF Ordered
  <2>4. QED BY <1>2, <2>1, <2>2, <2>3
<1>6. QED BY <1>3, <1>4, <1>5 DEF Ordered, all

\* prepend_insert_url decides which list comes first.
LEMMA MergeLists ==
  ASSUME NEW r \in NodesRequests, NEW inserted, Complete(inserted, r, TRUE), NEW own, Complete(own, r, FALSE)
  PROVE  LET all == IF r.prepend THEN inserted \o own ELSE own \o inserted
         IN  /\ AreNodes(all) /\ Owned(all, r) /\ Ordered(all, r) /\ Merged(all, r)
             /\ NoneMissing(all, r)
<1> DEFINE list(ins) == IF ins THEN inserted ELSE own
           all == IF r.prepend THEN inserted \o own ELSE own \o inserted
<1>1. \A ins \in BOOLEAN :
        /\ Complete(list(ins), r, ins)
        /\ Len(Source(r, ins)) \in Nat /\ DOMAIN Source(r, ins) = 1..Len(Source(r, ins))
        /\ Len(Source(r, ins)) \in 0..Len(Source(r, ins))
  <2>1. TAKE ins \in BOOLEAN
  <2>2. Complete(list(ins), r, ins)
    <3>1. CASE ins
      BY <3>1
    <3>2. CASE ~ins
      BY <3>2
    <3>3. QED BY <3>1, <3>2
  <2>3. /\ Len(Source(r, ins)) \in Nat /\ DOMAIN Source(r, ins) = 1..Len(Source(r, ins))
        /\ Len(Source(r, ins)) \in 0..Len(Source(r, ins))
    BY LinksOfRequest
  <2>4. QED BY <2>2, <2>3
<1>2. \A ins \in BOOLEAN : AreNodes(list(ins)) /\ Owned(list(ins), r) /\ Ordered(list(ins), r)
  BY <1>1, GatheredIsOwned, GatheredIsOrdered DEF Complete
<1>3. r.prepend \in BOOLEAN
  BY NodesAssumption
<1>4. all = list(r.prepend) \o list(~r.prepend)
  BY <1>3
<1> HIDE DEF list, all
<1>5. ASSUME NEW i \in DOMAIN list(r.prepend), NEW j \in DOMAIN list(~r.prepend),
             list(r.prepend)[i].Type # "Unknow", list(~r.prepend)[j].Type # "Unknow"
      PROVE  Position(list(r.prepend)[i], r.prepend) <= Position(list(~r.prepend)[j], r.prepend)
  <2> DEFINE m == list(r.prepend)[i]
             n == list(~r.prepend)[j]
  <2>1. ~Placeholder(m) /\ ~Placeholder(n)
    BY <1>5 DEF Placeholder
  <2>2. PICK k \in DOMAIN Source(r, r.prepend) : Brought(m, r, r.prepend, k)
    BY <1>1, <1>3, <2>1 DEF Complete, Gathered
  <2>3. PICK l \in DOMAIN Source(r, ~r.prepend) : Brought(n, r, ~r.prepend, l)
    BY <1>1, <1>3, <2>1 DEF Complete, Gathered
  <2>4. (~r.prepend) \in BOOLEAN
    OBVIOUS
  <2>5. k \in Nat \ {0} /\ l \in Nat \ {0} /\ Word \in Nat
    <3>1. k \in Nat \ {0}
      BY <1>1, <1>3
    <3>2. l \in Nat \ {0}
      BY <1>1, <2>4
    <3>3. QED BY <3>1, <3>2, WordAssumption
  <2>6. /\ IF r.prepend THEN 2 * k < Word ELSE 2 * k <= Word
        /\ IF ~r.prepend THEN 2 * l < Word ELSE 2 * l <= Word
    <3> DEFINE fits(ins, c) == IF ins THEN 2 * c < Word ELSE 2 * c <= Word
    <3>1. \A ins \in BOOLEAN : \A c \in DOMAIN Source(r, ins) : fits(ins, c)
      <4>1. TAKE ins \in BOOLEAN
      <4>2. TAKE c \in DOMAIN Source(r, ins)
      <4> DEFINE len == Len(Source(r, ins))
      <4>3. c \in Nat /\ c <= len /\ len \in Nat /\ Word \in Nat
        BY <1>1, WordAssumption
      <4>4. IF ins THEN 2 * len < Word ELSE 2 * len <= Word
        BY LinksOfRequest
      <4> HIDE DEF len
      <4>5. 2 * len < Word => 2 * c < Word
        BY <4>3
      <4>6. 2 * len <= Word => 2 * c <= Word
        BY <4>3
      <4>7. QED BY <4>4, <4>5, <4>6
    <3> HIDE DEF fits
    <3>2. fits(r.prepend, k) /\ fits(~r.prepend, l)
      BY <1>3, <2>4, <2>2, <2>3, <3>1
    <3>3. QED BY <3>2 DEF fits
  <2> HIDE DEF m, n
  <2>7. CASE r.prepend
    <3>1. Position(m, r.prepend) = k - Word /\ Position(n, r.prepend) = l - 1
      BY <1>3, <2>2, <2>3, <2>7, Positions
    <3>2. k - Word <= l - 1
      BY <2>5, <2>6, <2>7
    <3>3. QED BY <3>1, <3>2 DEF m, n
  <2>8. CASE ~r.prepend
    <3>1. Position(m, r.prepend) = k - 1 /\ Position(n, r.prepend) = l + Word
      BY <1>3, <2>2, <2>3, <2>8, Positions
    <3>2. k - 1 <= l + Word
      BY <2>5, <2>6, <2>8
    <3>3. QED BY <3>1, <3>2 DEF m, n
  <2>9. QED BY <2>7, <2>8
<1>6. AreNodes(all) /\ Owned(all, r) /\ Ordered(all, r)
  BY <1>2, <1>3, <1>4, <1>5, JoinNodes
<1>7. ASSUME NEW ins \in BOOLEAN, NEW k \in DOMAIN Source(r, ins)
      PROVE  Stands(all, r, Source(r, ins)[k])
  <2>1. IsLink(Source(r, ins)[k]) /\ Stands(list(ins), r, Source(r, ins)[k])
    BY <1>1, LinksOfRequest DEF Complete, Gathered
  <2>2. \A i \in DOMAIN list(~ins) : list(~ins)[i].Hostname \notin From(Source(r, ins)[k])
    BY <1>1, HostsGathered DEF Complete
  <2>3. CASE ins = r.prepend
    BY <1>2, <1>3, <1>4, <2>1, <2>2, <2>3, StandsOn
  <2>4. CASE ins = ~r.prepend
    BY <1>2, <1>3, <1>4, <2>1, <2>2, <2>4, StandsBehind
  <2>5. QED BY <1>3, <2>3, <2>4
<1>8. ASSUME ~r.skip, NEW ins \in BOOLEAN, NEW k \in DOMAIN Source(r, ins)
      PROVE  IsThere(all, r, Source(r, ins)[k])
  <2>1. IsThere(list(ins), r, Source(r, ins)[k])
    BY <1>1, <1>8 DEF Complete, Gathered
  <2>2. \A i \in DOMAIN list(ins) : \E j \in DOMAIN all : all[j] = list(ins)[i]
    <3> DEFINE s == list(r.prepend)
               t == list(~r.prepend)
    <3>1. s \in Seq(Range(s)) /\ t \in Seq(Range(t)) /\ all = s \o t
      BY <1>2, <1>3, <1>4 DEF AreNodes
    <3>2. list(ins) = s \/ list(ins) = t
      <4>1. CASE ins = r.prepend
        BY <4>1
      <4>2. CASE ins = ~r.prepend
        BY <4>2
      <4>3. QED BY <1>3, <4>1, <4>2
    <3> HIDE DEF s, t
    <3>3. /\ \A i \in DOMAIN s : i \in DOMAIN all /\ all[i] = s[i]
          /\ \A i \in DOMAIN t : Len(s) + i \in DOMAIN all /\ all[Len(s) + i] = t[i]
      BY <3>1, Joined
    <3>4. QED BY <3>2, <3>3
  <2>3. QED BY <2>1, <2>2 DEF IsThere
<1>9. QED BY <1>6, <1>7, <1>8 DEF Merged, NoneMissing, all
-----------------------------------------------------------------------------
\* What is rewritten in a node leaves it in its place.
Alike(m, n) ==
  DOMAIN m = NodeFields /\ m.Type = n.Type /\ m.Hostname = n.Hostname /\ m.GroupId = n.GroupId

LEMMA AlikeLists ==
  ASSUME NEW r, NEW ns, AreNodes(ns), NEW more,
         more = [i \in DOMAIN ns |-> more[i]], \A i \in DOMAIN ns : Alike(more[i], ns[i])
  PROVE  /\ AreNodes(more)
         /\ Owned(ns, r) => Owned(more, r)
         /\ Ordered(ns, r) => Ordered(more, r)
         /\ NoneMissing(ns, r) => NoneMissing(more, r)
<1>1. DOMAIN more = DOMAIN ns /\ Len(ns) \in Nat /\ DOMAIN ns = 1..Len(ns)
  BY DEF AreNodes
<1>2. more \in Seq(Range(more))
  <2>1. more \in [1..Len(ns) -> Range(more)]
    BY <1>1 DEF Range
  <2>2. QED BY <1>1, <2>1
<1>3. AreNodes(more)
  BY <1>1, <1>2 DEF AreNodes, Alike
<1>4. Owned(ns, r) => Owned(more, r)
  BY <1>1 DEF Owned, Placeholder, Brought, Alike
<1>5. Ordered(ns, r) => Ordered(more, r)
  <2>1. \A i \in DOMAIN ns : Position(more[i], r.prepend) = Position(ns[i], r.prepend)
    BY DEF Alike, Position
  <2>2. QED BY <1>1, <2>1 DEF Ordered, Alike
<1>6. NoneMissing(ns, r) => NoneMissing(more, r)
  BY <1>1 DEF NoneMissing, IsThere, Alike
<1>7. QED BY <1>3, <1>4, <1>5, <1>6

\* What is kept of a list is in its order.
LEMMA KeptNodes ==
  ASSUME NEW r, NEW ns, AreNodes(ns), NEW P \in SUBSET (DOMAIN ns)
  PROVE  /\ AreNodes(Kept(ns, P))
         /\ Owned(ns, r) => Owned(Kept(ns, P), r)
         /\ Ordered(ns, r) => Ordered(Kept(ns, P), r)
<1> DEFINE kept == Kept(ns, P)
<1>1. /\ kept \in Seq(Range(kept))
      /\ \A j \in DOMAIN kept : Place(P, j) \in DOMAIN ns /\ kept[j] = ns[Place(P, j)]
      /\ \A i, j \in DOMAIN kept : i < j => Place(P, i) < Place(P, j)
  BY KeptIsPart DEF AreNodes
<1> HIDE DEF kept
<1>2. AreNodes(kept)
  BY <1>1 DEF AreNodes
<1>3. Owned(ns, r) => Owned(kept, r)
  BY <1>1 DEF Owned
<1>4. Ordered(ns, r) => Ordered(kept, r)
  BY <1>1 DEF Ordered
<1>5. QED BY <1>2, <1>3, <1>4 DEF kept

\* Sorting changes the order alone.
LEMMA SortedNodes ==
  ASSUME NEW r, NEW ns, AreNodes(ns), NEW p \in Bijection(DOMAIN ns, DOMAIN ns)
  PROVE  LET sorted == [i \in DOMAIN ns |-> ns[p[i]]]
         IN  /\ AreNodes(sorted)
             /\ Owned(ns, r) => Owned(sorted, r)
             /\ NoneMissing(ns, r) => NoneMissing(sorted, r)
<1> DEFINE sorted == [i \in DOMAIN ns |-> ns[p[i]]]
<1>1. Len(ns) \in Nat /\ DOMAIN ns = 1..Len(ns)
  BY DEF AreNodes
<1>2. p \in Surjection(DOMAIN ns, DOMAIN ns)
  BY DEF Bijection
<1>3. p \in [DOMAIN ns -> DOMAIN ns] /\ \A i \in DOMAIN ns : \E j \in DOMAIN ns : p[j] = i
  BY <1>2 DEF Surjection
<1>4. DOMAIN sorted = DOMAIN ns /\ \A i \in DOMAIN sorted : sorted[i] = ns[p[i]] /\ p[i] \in DOMAIN ns
  BY <1>3
<1>5. sorted \in Seq(Range(sorted))
  <2>1. sorted \in [1..Len(ns) -> Range(sorted)]
    BY <1>1 DEF Range
  <2>2. QED BY <1>1, <2>1
<1>6. \A i \in DOMAIN ns : \E j \in DOMAIN sorted : sorted[j] = ns[i]
  BY <1>3, <1>4
<1> HIDE DEF sorted
<1>7. AreNodes(sorted)
  BY <1>4, <1>5 DEF AreNodes
<1>8. Owned(ns, r) => Owned(sorted, r)
  BY <1>4 DEF Owned
<1>9. NoneMissing(ns, r) => NoneMissing(sorted, r)
  BY <1>6 DEF NoneMissing, IsThere
<1>10. QED BY <1>7, <1>8, <1>9 DEF sorted

\* preprocessNodes() rewrites the remark alone.
LEMMA PreprocessedIsAlike ==
  ASSUME NEW n, DOMAIN n = NodeFields
  PROVE  Alike(Preprocessed(n), n)
<1>1. \A m, x : DOMAIN m = NodeFields => Alike([m EXCEPT !.Remark = x], m)
  BY DEF Alike, NodeFields
<1>2. \A m : DOMAIN m = NodeFields => Alike(m, m)
  BY DEF Alike
<1>3. \A k, m : Alike(k, m) /\ Alike(m, n) => Alike(k, n)
  BY DEF Alike
<1>4. \A m : DOMAIN m = NodeFields => Alike(Rename(m), m)
  BY <1>1, <1>2 DEF Rename
<1>5. \A m : DOMAIN m = NodeFields => Alike(AddEmoji(m), m)
  BY <1>1, <1>2 DEF AddEmoji
<1> DEFINE bare == IF given.removeEmoji
                   THEN [n EXCEPT !.Remark = Trim(RemoveEmoji(@))] ELSE n
<1>6. Alike(bare, n)
  BY <1>1, <1>2
<1>7. Preprocessed(n) = IF given.addEmoji THEN AddEmoji(Rename(bare)) ELSE Rename(bare)
  BY DEF Preprocessed
<1> HIDE DEF bare
<1>8. Alike(Rename(bare), n)
  BY <1>3, <1>4, <1>6 DEF Alike
<1>9. Alike(AddEmoji(Rename(bare)), n)
  BY <1>3, <1>5, <1>8 DEF Alike
<1>10. QED BY <1>7, <1>8, <1>9

\* filter() and the group of the request.
LEMMA FilteredKeeps ==
  ASSUME NEW ns, AreNodes(ns), Owned(ns, given), given.sort \/ Ordered(ns, given), NoneMissing(ns, given),
         NEW ran \in BOOLEAN
  PROVE  LET kept == IF given.filter # {} /\ HasEngine /\ ran THEN Filtered(ns) ELSE ns
             more == [i \in DOMAIN kept |->
                        IF given.group = NoGroup THEN kept[i]
                        ELSE [kept[i] EXCEPT !.Group = given.group]]
         IN  /\ AreNodes(more) /\ Owned(more, given)
             /\ (given.sort \/ Ordered(more, given)) /\ NoneMissing(more, given)
<1> DEFINE P == {i \in DOMAIN ns : ~FilterTrue(ns[i])}
           kept == IF given.filter # {} /\ HasEngine /\ ran THEN Filtered(ns) ELSE ns
           more == [i \in DOMAIN kept |->
                      IF given.group = NoGroup THEN kept[i]
                      ELSE [kept[i] EXCEPT !.Group = given.group]]
<1>1. Filtered(ns) = Kept(ns, P) /\ P \in SUBSET (DOMAIN ns)
  BY DEF Filtered
<1> HIDE DEF P
<1>2. /\ AreNodes(kept) /\ Owned(kept, given) /\ (given.sort \/ Ordered(kept, given))
      /\ NoneMissing(kept, given)
  <2>1. CASE given.filter # {} /\ HasEngine /\ ran
    <3>1. AreNodes(kept) /\ Owned(kept, given) /\ (given.sort \/ Ordered(kept, given))
      BY <1>1, <2>1, KeptNodes
    <3>2. NoneMissing(kept, given)
      BY <2>1 DEF NoneMissing
    <3>3. QED BY <3>1, <3>2
  <2>2. CASE ~(given.filter # {} /\ HasEngine /\ ran)
    BY <2>2
  <2>3. QED BY <2>1, <2>2
<1> HIDE DEF kept
<1>3. \A i \in DOMAIN kept : Alike(more[i], kept[i])
  <2>1. TAKE i \in DOMAIN kept
  <2>2. DOMAIN kept[i] = NodeFields
    BY <1>2 DEF AreNodes
  <2>3. QED BY <2>2 DEF Alike, NodeFields
<1>4. more = [i \in DOMAIN kept |-> more[i]]
  OBVIOUS
<1> HIDE DEF more
<1>5. AreNodes(more) /\ Owned(more, given) /\ (Ordered(kept, given) => Ordered(more, given)) /\ NoneMissing(more, given)
  BY <1>2, <1>3, <1>4, AlikeLists
<1>6. QED BY <1>2, <1>5 DEF more, kept

\* preprocessNodes() and the sorting.
LEMMA PreprocessKeeps ==
  ASSUME NEW before, AreNodes(before), Owned(before, given), given.sort \/ Ordered(before, given),
         NoneMissing(before, given), NEW after,
         LET ns == [i \in DOMAIN before |-> Preprocessed(before[i])]
         IN  IF given.sort
             THEN \E p \in Bijection(DOMAIN ns, DOMAIN ns) : after = [i \in DOMAIN ns |-> ns[p[i]]]
             ELSE after = ns
  PROVE  /\ AreNodes(after) /\ Owned(after, given)
         /\ (given.sort \/ Ordered(after, given)) /\ NoneMissing(after, given)
<1> DEFINE ns == [i \in DOMAIN before |-> Preprocessed(before[i])]
<1>1. \A i \in DOMAIN before : Alike(ns[i], before[i])
  BY PreprocessedIsAlike DEF AreNodes
<1>2. ns = [i \in DOMAIN before |-> ns[i]]
  OBVIOUS
<1>3. IF given.sort
      THEN \E p \in Bijection(DOMAIN ns, DOMAIN ns) : after = [i \in DOMAIN ns |-> ns[p[i]]]
      ELSE after = ns
  OBVIOUS
<1> HIDE DEF ns
<1>4. AreNodes(ns) /\ Owned(ns, given) /\ (given.sort \/ Ordered(ns, given)) /\ NoneMissing(ns, given)
  BY <1>1, <1>2, AlikeLists
<1>5. CASE given.sort
  BY <1>3, <1>4, <1>5, SortedNodes
<1>6. CASE ~given.sort
  BY <1>3, <1>4, <1>6
<1>7. QED BY <1>5, <1>6
-----------------------------------------------------------------------------
LEMMA RestOfLinks ==
  ASSUME NEW s, s \in Seq(Range(s)), NEW d \in 0..Len(s)
  PROVE  /\ Rest(s, 0) = s
         /\ Rest(s, d) = <<>> => d = Len(s)
         /\ Rest(s, d) # <<>> =>
              d \in 0..(Len(s) - 1) /\ Head(Rest(s, d)) = s[d + 1] /\ Tail(Rest(s, d)) = Rest(s, d + 1)
<1> DEFINE S == Range(s)
<1>1. s \in Seq(S) /\ Len(s) \in Nat /\ DOMAIN s = 1..Len(s)
  OBVIOUS
<1> HIDE DEF S
<1>2. Rest(s, 0) = s
  BY <1>1 DEF Rest
<1>3. Rest(s, d) \in Seq(S) /\ Len(Rest(s, d)) = Len(s) - d
  BY <1>1 DEF Rest
<1>4. Rest(s, d) = <<>> => d = Len(s)
  <2>1. HAVE Rest(s, d) = <<>>
  <2>2. Len(<<>>) = 0
    OBVIOUS
  <2>3. Len(s) - d = 0
    BY <1>3, <2>1, <2>2
  <2>4. d \in Int /\ Len(s) \in Int
    BY <1>1
  <2>5. QED BY <2>3, <2>4
<1>5. ASSUME Rest(s, d) # <<>>
      PROVE  d \in 0..(Len(s) - 1) /\ Head(Rest(s, d)) = s[d + 1] /\ Tail(Rest(s, d)) = Rest(s, d + 1)
  <2>1. d \in 0..(Len(s) - 1)
    BY <1>1, <1>3, <1>5
  <2>2. Head(Rest(s, d)) = Rest(s, d)[1] /\ Rest(s, d)[1] = s[d + 1]
    BY <1>1, <1>3, <2>1 DEF Rest
  <2> DEFINE rest == Rest(s, d)
             tail == Tail(rest)
  <2>3. rest \in Seq(S) /\ rest # <<>> /\ Len(rest) = Len(s) - d
    BY <1>3, <1>5
  <2> HIDE DEF rest
  <2>4. tail \in Seq(S) /\ Len(tail) = Len(rest) - 1 /\ \A i \in 1..Len(tail) : tail[i] = rest[i + 1]
    BY <2>3
  <2> HIDE DEF tail
  <2>5. Len(tail) = Len(s) - (d + 1)
    BY <1>1, <2>1, <2>3, <2>4
  <2>6. \A i \in 1..(Len(s) - (d + 1)) : tail[i] = s[d + 1 + i]
    <3>1. TAKE i \in 1..(Len(s) - (d + 1))
    <3>2. i + 1 \in 1..(Len(s) - d) /\ d + (i + 1) = d + 1 + i
      BY <1>1, <2>1
    <3>3. rest[i + 1] = s[d + (i + 1)]
      BY <3>2 DEF rest, Rest
    <3>4. tail[i] = rest[i + 1]
      BY <2>4, <2>5
    <3>5. QED BY <3>2, <3>3, <3>4
  <2>7. tail = Rest(s, d + 1)
    <3>1. DOMAIN tail = 1..(Len(s) - (d + 1)) /\ tail = [i \in DOMAIN tail |-> tail[i]]
      BY <2>4, <2>5
    <3>2. QED BY <2>6, <3>1 DEF Rest
  <2>8. QED BY <2>1, <2>2, <2>7 DEF tail, rest
<1>6. QED BY <1>2, <1>4, <1>5

\* A turn of a loop that comes to its end.
LEMMA LoopTurns ==
  ASSUME given \in NodesRequests, NEW ins \in BOOLEAN, NEW d, NEW ns, Loop(links, ns, given, ins, d),
         links # <<>>, NEW fetched \in BOOLEAN, NEW ran \in BOOLEAN, NEW id, id = Number(ins, d + 1),
         LinkFails(Resolved(Head(links), ran), fetched) => given.skip
  PROVE  LET link == Resolved(Head(links), ran)
             more == IF LinkFails(link, fetched) THEN ns ELSE ns \o Added(link, id)
         IN  Loop(Tail(links), more, given, ins, d + 1) /\ AreNodes(more) /\ Owned(more, given)
<1> DEFINE s    == Source(given, ins)
           link == Resolved(Head(links), ran)
           more == IF LinkFails(link, fetched) THEN ns ELSE ns \o Added(link, id)
<1>1. s \in Seq(Range(s)) /\ (\A k \in DOMAIN s : IsLink(s[k])) /\ Len(s) \in Nat /\ DOMAIN s = 1..Len(s)
  BY LinksOfRequest
<1>2. d \in 0..Len(s) /\ links = Rest(s, d) /\ Gathered(ns, given, ins, d)
  BY DEF Loop
<1>3. d \in 0..(Len(s) - 1) /\ Head(links) = s[d + 1] /\ Tail(links) = Rest(s, d + 1)
  BY <1>1, <1>2, RestOfLinks
<1>4. d + 1 \in 0..Len(s) /\ d + 1 \in DOMAIN s /\ id \in Int
  BY <1>1, <1>3 DEF Number
<1>5. Gathered(more, given, ins, d + 1)
  <2>1. CASE LinkFails(link, fetched)
    BY <1>2, <1>3, <2>1, GatherFailed
  <2>2. CASE ~LinkFails(link, fetched)
    <3>1. IsLink(s[d + 1])
      BY <1>1, <1>4
    <3>2. Brings(Added(link, id), given, s[d + 1], id)
      BY <1>3, <1>4, <2>2, <3>1, AddedBrings
    <3>3. Gathered(ns \o Added(link, id), given, ins, d + 1)
      BY <1>2, <1>3, <3>2, GatherMore
    <3>4. QED BY <2>2, <3>3
  <2>3. QED BY <2>1, <2>2
<1> HIDE DEF more
<1>6. AreNodes(more) /\ Owned(more, given)
  BY <1>4, <1>5, GatheredIsOwned
<1>7. QED BY <1>3, <1>4, <1>5, <1>6 DEF Loop, more

LEMMA NodesInitHolds == NodesInit => NodesInv
<1> SUFFICES ASSUME NodesInit PROVE NodesInv
  OBVIOUS
<1>1. given \in NodesRequests
  BY DEF NodesInit
<1>2. Source(given, TRUE) = given.inserts
  BY DEF Source
<1>3. Loop(links, <<>>, given, TRUE, 0)
  <2>1. given.inserts \in Seq(Range(given.inserts)) /\ 0 \in 0..Len(given.inserts)
    <3>1. given.inserts \in Seq(Range(given.inserts))
      BY <1>1, NodesAssumption
    <3>2. QED BY <3>1
  <2>2. links = Rest(given.inserts, 0)
    BY <2>1, RestOfLinks DEF NodesInit
  <2>3. QED BY <1>2, <2>1, <2>2, GatherNone DEF Loop
<1>4. AreNodes(<<>>) /\ Owned(<<>>, given)
  <2>1. 0 \in 0..Len(Source(given, TRUE))
    BY <1>3 DEF Loop
  <2>2. QED BY <1>1, <2>1, GatherNone, GatheredIsOwned
<1>5. -groupID - 1 = 0 /\ groupID \in Int
  <2>1. groupID \in Int /\ groupID + 1 = 0
    BY DEF NodesInit
  <2>2. QED BY <2>1
<1>6. ListsAreOwned
  BY <1>1, <1>4 DEF NodesInit, ListsAreOwned
<1>7. InsertsAreRead
  BY <1>3, <1>5 DEF NodesInit, InsertsAreRead
<1>8. UrlsAreRead /\ ListsAreComplete /\ ListsAreMerged /\ NothingIsLost
  BY DEF NodesInit, UrlsAreRead, ListsAreComplete, ListsAreMerged, NothingIsLost, Answered, HeadAnswered
<1>9. QED BY <1>6, <1>7, <1>8 DEF NodesInv

\* A request that fails has nothing to keep.
LEMMA FailedHolds ==
  ASSUME NodesInv, AnswerWith(400), UNCHANGED <<given, insert_nodes, nodes>>
  PROVE  NodesInv'
<1>1. phase' = "done" /\ status' = 400
  BY DEF AnswerWith
<1>2. ListsAreOwned'
  BY <1>1 DEF NodesInv, ListsAreOwned
<1>3. InsertsAreRead' /\ UrlsAreRead' /\ ListsAreMerged'
  BY <1>1 DEF InsertsAreRead, UrlsAreRead, ListsAreMerged
<1>4. ListsAreComplete' /\ NothingIsLost'
  BY <1>1 DEF ListsAreComplete, NothingIsLost, Answered, HeadAnswered
<1>5. QED BY <1>2, <1>3, <1>4 DEF NodesInv

LEMMA InsertLinkHolds ==
  ASSUME NodesInv, InsertLink
  PROVE  NodesInv'
<1>1. PICK fetched \in BOOLEAN, ran \in BOOLEAN :
        LET link == Resolved(Head(links), ran)
        IN  \/ LinkFails(link, fetched) /\ FailedLink
            \/ /\ LinkFails(link, fetched) => given.skip
               /\ insert_nodes' = IF LinkFails(link, fetched) THEN insert_nodes
                                  ELSE insert_nodes \o Added(link, groupID)
               /\ links' = Tail(links)
               /\ groupID' = groupID - 1
               /\ UNCHANGED <<given, phase, nodes, status>>
  BY DEF InsertLink
<1> DEFINE link == Resolved(Head(links), ran)
<1>2. CASE FailedLink
  BY <1>2, FailedHolds DEF FailedLink
<1>3. CASE /\ LinkFails(link, fetched) => given.skip
           /\ insert_nodes' = IF LinkFails(link, fetched) THEN insert_nodes
                              ELSE insert_nodes \o Added(link, groupID)
           /\ links' = Tail(links)
           /\ groupID' = groupID - 1
           /\ UNCHANGED <<given, phase, nodes, status>>
  <2>1. phase = "insert" /\ links # <<>> /\ given \in NodesRequests /\ groupID \in Int
        /\ nodes = <<>> /\ Loop(links, insert_nodes, given, TRUE, -groupID - 1)
    BY DEF InsertLink, NodesInv, ListsAreOwned, InsertsAreRead
  <2>2. groupID = Number(TRUE, (-groupID - 1) + 1) /\ (-groupID - 1) + 1 = -(groupID - 1) - 1
        /\ groupID - 1 \in Int
    BY <2>1 DEF Number
  <2>3. /\ Loop(links', insert_nodes', given, TRUE, (-groupID - 1) + 1)
        /\ AreNodes(insert_nodes') /\ Owned(insert_nodes', given)
    BY <1>3, <2>1, <2>2, LoopTurns
  <2>4. phase' = "insert" /\ status' = status /\ given' = given /\ nodes' = nodes /\ groupID' = groupID - 1
    BY <1>3, <2>1
  <2>5. ListsAreOwned'
    BY <2>1, <2>3, <2>4 DEF NodesInv, ListsAreOwned
  <2>6. InsertsAreRead'
    BY <2>1, <2>2, <2>3, <2>4 DEF InsertsAreRead
  <2>7. UrlsAreRead' /\ ListsAreComplete' /\ ListsAreMerged' /\ NothingIsLost'
    BY <2>4, <2>5 DEF ListsAreOwned, UrlsAreRead, ListsAreComplete, ListsAreMerged, NothingIsLost,
                      Answered, HeadAnswered
  <2>8. QED BY <2>5, <2>6, <2>7 DEF NodesInv
<1>4. QED BY <1>1, <1>2, <1>3

LEMMA StartUrlsHolds ==
  ASSUME NodesInv, StartUrls
  PROVE  NodesInv'
<1>1. given \in NodesRequests /\ nodes = <<>> /\ groupID \in Int
      /\ Loop(links, insert_nodes, given, TRUE, -groupID - 1) /\ links = <<>>
  BY DEF NodesInv, ListsAreOwned, InsertsAreRead, StartUrls
<1>2. Complete(insert_nodes, given, TRUE)
  <2>1. Source(given, TRUE) \in Seq(Range(Source(given, TRUE)))
    BY <1>1, LinksOfRequest
  <2>2. -groupID - 1 = Len(Source(given, TRUE))
    <3>1. -groupID - 1 \in 0..Len(Source(given, TRUE)) /\ Rest(Source(given, TRUE), -groupID - 1) = <<>>
      BY <1>1 DEF Loop
    <3>2. QED BY <2>1, <3>1, RestOfLinks
  <2>3. QED BY <1>1, <2>2 DEF Loop, Complete
<1>3. Loop(given.urls, <<>>, given, FALSE, 0)
  <2>1. Source(given, FALSE) = given.urls
    BY DEF Source
  <2>2. given.urls \in Seq(Range(given.urls)) /\ 0 \in 0..Len(given.urls)
    <3>1. given.urls \in Seq(Range(given.urls))
      BY <1>1, NodesAssumption
    <3>2. QED BY <3>1
  <2>3. given.urls = Rest(given.urls, 0)
    BY <2>2, RestOfLinks
  <2>4. QED BY <2>1, <2>2, <2>3, GatherNone DEF Loop
<1>4. /\ phase' = "urls" /\ status' = status /\ given' = given /\ links' = given.urls /\ groupID' = 0
      /\ insert_nodes' = insert_nodes /\ nodes' = nodes /\ phase = "insert"
  BY DEF StartUrls
<1>5. ListsAreOwned'
  BY <1>4 DEF NodesInv, ListsAreOwned
<1>6. UrlsAreRead'
  <2>1. nodes' = <<>>
    BY <1>1, <1>4
  <2>2. Loop(links', nodes', given', FALSE, groupID')
    BY <1>3, <1>4, <2>1
  <2>3. groupID' \in Int
    BY <1>4
  <2>4. QED BY <2>2, <2>3 DEF UrlsAreRead
<1>7. ListsAreComplete'
  <2>1. status' = 0
    BY <1>4, <1>5 DEF ListsAreOwned
  <2>2. Complete(insert_nodes', given', TRUE)
    BY <1>2, <1>4
  <2>3. ~HeadAnswered' /\ phase' # "merge"
    BY <1>4, <2>1 DEF HeadAnswered
  <2>4. QED BY <2>2, <2>3 DEF ListsAreComplete
<1>8. InsertsAreRead' /\ ListsAreMerged' /\ NothingIsLost'
  BY <1>4, <1>5 DEF ListsAreOwned, InsertsAreRead, ListsAreMerged, NothingIsLost, Answered
<1>9. QED BY <1>5, <1>6, <1>7, <1>8 DEF NodesInv

LEMMA UrlLinkHolds ==
  ASSUME NodesInv, UrlLink
  PROVE  NodesInv'
<1>1. PICK fetched \in BOOLEAN, ran \in BOOLEAN :
        LET link == Resolved(Head(links), ran)
        IN  \/ LinkFails(link, fetched) /\ FailedLink
            \/ /\ LinkFails(link, fetched) => given.skip
               /\ nodes' = IF LinkFails(link, fetched) THEN nodes
                           ELSE nodes \o Added(link, groupID)
               /\ links' = Tail(links)
               /\ groupID' = groupID + 1
               /\ UNCHANGED <<given, phase, insert_nodes, status>>
  BY DEF UrlLink
<1> DEFINE link == Resolved(Head(links), ran)
<1>2. CASE FailedLink
  BY <1>2, FailedHolds DEF FailedLink
<1>3. CASE /\ LinkFails(link, fetched) => given.skip
           /\ nodes' = IF LinkFails(link, fetched) THEN nodes
                       ELSE nodes \o Added(link, groupID)
           /\ links' = Tail(links)
           /\ groupID' = groupID + 1
           /\ UNCHANGED <<given, phase, insert_nodes, status>>
  <2>1. phase = "urls" /\ links # <<>> /\ given \in NodesRequests /\ groupID \in Int
        /\ Loop(links, nodes, given, FALSE, groupID)
    BY DEF UrlLink, NodesInv, ListsAreOwned, UrlsAreRead
  <2>2. groupID = Number(FALSE, groupID + 1) /\ groupID + 1 \in Int
    BY <2>1 DEF Number
  <2>3. /\ Loop(links', nodes', given, FALSE, groupID + 1)
        /\ AreNodes(nodes') /\ Owned(nodes', given)
    BY <1>3, <2>1, <2>2, LoopTurns
  <2>4. /\ phase' = "urls" /\ status' = status /\ given' = given /\ insert_nodes' = insert_nodes
        /\ groupID' = groupID + 1
    BY <1>3, <2>1
  <2>5. ListsAreOwned'
    BY <2>1, <2>3, <2>4 DEF NodesInv, ListsAreOwned
  <2>6. UrlsAreRead'
    BY <2>1, <2>2, <2>3, <2>4 DEF UrlsAreRead
  <2>7. ListsAreComplete'
    <3>1. status' = 0
      BY <2>4, <2>5 DEF ListsAreOwned
    <3>2. Complete(insert_nodes', given', TRUE)
      BY <2>1, <2>4 DEF NodesInv, ListsAreComplete
    <3>3. ~HeadAnswered' /\ phase' # "merge"
      BY <2>4, <3>1 DEF HeadAnswered
    <3>4. QED BY <3>2, <3>3 DEF ListsAreComplete
  <2>8. InsertsAreRead' /\ ListsAreMerged' /\ NothingIsLost'
    BY <2>4, <2>5 DEF ListsAreOwned, InsertsAreRead, ListsAreMerged, NothingIsLost, Answered
  <2>9. QED BY <2>5, <2>6, <2>7, <2>8 DEF NodesInv
<1>4. QED BY <1>1, <1>2, <1>3

LEMMA FetchedHolds ==
  ASSUME NodesInv, Fetched
  PROVE  NodesInv'
<1>1. given \in NodesRequests /\ groupID \in Int /\ Loop(links, nodes, given, FALSE, groupID) /\ links = <<>>
      /\ phase = "urls" /\ UNCHANGED <<given, links, groupID, insert_nodes, nodes>>
  BY DEF NodesInv, ListsAreOwned, UrlsAreRead, Fetched
<1>2. Complete(nodes, given, FALSE)
  <2>1. Source(given, FALSE) \in Seq(Range(Source(given, FALSE)))
    BY <1>1, LinksOfRequest
  <2>2. groupID = Len(Source(given, FALSE))
    <3>1. groupID \in 0..Len(Source(given, FALSE)) /\ Rest(Source(given, FALSE), groupID) = <<>>
      BY <1>1 DEF Loop
    <3>2. QED BY <2>1, <3>1, RestOfLinks
  <2>3. QED BY <1>1, <2>2 DEF Loop, Complete
<1>3. CASE AnswerWith(400)
  BY <1>1, <1>3, FailedHolds
<1>4. CASE ~AnswerWith(400)
  <2>1. \/ phase' = "done" /\ status' = 200 /\ given.head
        \/ phase' = "merge" /\ status' = status /\ ~given.head
    BY <1>4 DEF Fetched, AnswerWith
  <2>2. ListsAreOwned'
    BY <1>1, <2>1 DEF NodesInv, ListsAreOwned
  <2>3. Complete(insert_nodes, given, TRUE)
    BY <1>1 DEF NodesInv, ListsAreComplete
  <2>4. ListsAreComplete'
    BY <1>1, <1>2, <2>3 DEF ListsAreComplete
  <2>5. InsertsAreRead' /\ UrlsAreRead' /\ ListsAreMerged'
    BY <2>1 DEF InsertsAreRead, UrlsAreRead, ListsAreMerged
  <2>6. NothingIsLost'
    BY <1>1, <2>1, <2>2 DEF ListsAreOwned, NothingIsLost, Answered
  <2>7. QED BY <2>2, <2>4, <2>5, <2>6 DEF NodesInv
<1>5. QED BY <1>3, <1>4

LEMMA MergeHolds ==
  ASSUME NodesInv, Merge
  PROVE  NodesInv'
<1>1. /\ given \in NodesRequests /\ phase = "merge"
      /\ Complete(insert_nodes, given, TRUE) /\ Complete(nodes, given, FALSE)
  BY DEF NodesInv, ListsAreOwned, ListsAreComplete, Merge
<1>2. /\ AreNodes(nodes') /\ Owned(nodes', given) /\ Ordered(nodes', given) /\ Merged(nodes', given)
      /\ NoneMissing(nodes', given)
  BY <1>1, MergeLists DEF Merge
<1>3. /\ phase' = "filter" /\ status' = status /\ given' = given /\ insert_nodes' = insert_nodes
  BY DEF Merge
<1>4. ListsAreOwned'
  BY <1>1, <1>2, <1>3 DEF NodesInv, ListsAreOwned
<1>5. ListsAreComplete'
  BY <1>1, <1>3, <1>4 DEF ListsAreOwned, ListsAreComplete, HeadAnswered
<1>6. ListsAreMerged' /\ NothingIsLost'
  BY <1>2, <1>3 DEF ListsAreMerged, NothingIsLost
<1>7. InsertsAreRead' /\ UrlsAreRead'
  BY <1>3 DEF InsertsAreRead, UrlsAreRead
<1>8. QED BY <1>4, <1>5, <1>6, <1>7 DEF NodesInv

LEMMA FilterHolds ==
  ASSUME NodesInv, Filter
  PROVE  NodesInv'
<1>1. /\ AreNodes(nodes) /\ Owned(nodes, given)
      /\ given.sort \/ Ordered(nodes, given)
      /\ NoneMissing(nodes, given)
  BY DEF NodesInv, ListsAreOwned, NothingIsLost, Filter
<1>2. /\ AreNodes(nodes') /\ Owned(nodes', given)
      /\ given.sort \/ Ordered(nodes', given)
      /\ NoneMissing(nodes', given)
  BY <1>1, FilteredKeeps DEF Filter
<1>3. /\ phase = "filter" /\ phase' = "rename" /\ status' = status /\ given' = given
      /\ insert_nodes' = insert_nodes
  BY DEF Filter
<1>4. ListsAreOwned'
  BY <1>2, <1>3 DEF NodesInv, ListsAreOwned
<1>5. NothingIsLost'
  BY <1>2, <1>3 DEF NothingIsLost
<1>6. InsertsAreRead' /\ UrlsAreRead' /\ ListsAreMerged' /\ ListsAreComplete'
  BY <1>3, <1>4 DEF ListsAreOwned, InsertsAreRead, UrlsAreRead, ListsAreMerged, ListsAreComplete, HeadAnswered
<1>7. QED BY <1>4, <1>5, <1>6 DEF NodesInv

LEMMA PreprocessHolds ==
  ASSUME NodesInv, Preprocess
  PROVE  NodesInv'
<1>1. /\ AreNodes(nodes) /\ Owned(nodes, given)
      /\ given.sort \/ Ordered(nodes, given)
      /\ NoneMissing(nodes, given)
  BY DEF NodesInv, ListsAreOwned, NothingIsLost, Preprocess
<1>2. /\ AreNodes(nodes') /\ Owned(nodes', given)
      /\ given.sort \/ Ordered(nodes', given)
      /\ NoneMissing(nodes', given)
  BY <1>1, PreprocessKeeps DEF Preprocess
<1>3. /\ ~given.head /\ phase' = "done" /\ status' = 200 /\ given' = given
      /\ insert_nodes' = insert_nodes
  BY DEF NodesInv, ListsAreOwned, Preprocess, AnswerWith
<1>4. ListsAreOwned'
  BY <1>2, <1>3 DEF NodesInv, ListsAreOwned
<1>5. NothingIsLost'
  BY <1>2, <1>3 DEF NothingIsLost
<1>6. InsertsAreRead' /\ UrlsAreRead' /\ ListsAreMerged' /\ ListsAreComplete'
  BY <1>3 DEF InsertsAreRead, UrlsAreRead, ListsAreMerged, ListsAreComplete, HeadAnswered
<1>7. QED BY <1>4, <1>5, <1>6 DEF NodesInv

LEMMA NodesStepHolds == NodesInv /\ [NodesNext]_nodesVars => NodesInv'
<1> SUFFICES ASSUME NodesInv, [NodesNext]_nodesVars PROVE NodesInv'
  OBVIOUS
<1>1. CASE UNCHANGED nodesVars
  <2>1. /\ given' = given /\ phase' = phase /\ links' = links /\ groupID' = groupID
        /\ insert_nodes' = insert_nodes /\ nodes' = nodes /\ status' = status
    BY <1>1 DEF nodesVars
  <2>2. ListsAreOwned'
    BY <2>1 DEF NodesInv, ListsAreOwned
  <2>3. InsertsAreRead'
    BY <2>1 DEF NodesInv, InsertsAreRead
  <2>4. UrlsAreRead'
    BY <2>1 DEF NodesInv, UrlsAreRead
  <2>5. ListsAreComplete' /\ ListsAreMerged'
    BY <2>1 DEF NodesInv, ListsAreComplete, ListsAreMerged, HeadAnswered
  <2>6. NothingIsLost'
    BY <2>1 DEF NodesInv, NothingIsLost, Answered
  <2>7. QED BY <2>2, <2>3, <2>4, <2>5, <2>6 DEF NodesInv
<1>2. QED BY <1>1, InsertLinkHolds, StartUrlsHolds, UrlLinkHolds, FetchedHolds, MergeHolds,
             FilterHolds, PreprocessHolds DEF NodesNext

LEMMA NodesInvHolds == NodesSpec => []NodesInv
BY NodesInitHolds, NodesStepHolds, PTL DEF NodesSpec
-----------------------------------------------------------------------------
\* What a listed node that is no placeholder comes from.
LEMMA RealIsBrought ==
  ASSUME ListsAreOwned, NEW n \in RealNodes
  PROVE  \E ins \in BOOLEAN : \E k \in DOMAIN Source(given, ins) : Brought(n, given, ins, k)
<1>1. \/ \E i \in DOMAIN nodes : nodes[i] = n
      \/ \E i \in DOMAIN insert_nodes : insert_nodes[i] = n
  BY DEF RealNodes, AllNodes, Range
<1>2. ~Placeholder(n)
  BY DEF RealNodes, Placeholder
<1>3. QED BY <1>1, <1>2 DEF ListsAreOwned, Owned

\* The number of a link is read back from the group of its nodes.
LEMMA NumberIsRead ==
  ASSUME NEW r \in NodesRequests, NEW ins \in BOOLEAN, NEW k \in DOMAIN Source(r, ins),
         NEW n, Brought(n, r, ins, k)
  PROVE  /\ k \in Nat \ {0}
         /\ ToInt(n.GroupId) = Number(ins, k) /\ ToInt(-n.GroupId) = -Number(ins, k)
<1> DEFINE s == Source(r, ins)
           z == Number(ins, k)
<1>1. Len(s) \in Nat /\ k \in 1..Len(s) /\ (IF ins THEN 2 * Len(s) < Word ELSE 2 * Len(s) <= Word)
  BY LinksOfRequest
<1>2. Word \in Nat
  BY WordAssumption
<1>3. z \in Int /\ 2 * z < Word /\ -Word <= 2 * z /\ 2 * z # -Word
  <2> HIDE DEF s
  <2>1. CASE ins
    <3>1. z = -k
      BY <2>1 DEF Number
    <3>2. 2 * k < Word /\ k \in Nat \ {0}
      BY <1>1, <1>2, <2>1
    <3>3. QED BY <1>2, <3>1, <3>2
  <2>2. CASE ~ins
    <3>1. z = k - 1
      BY <2>2 DEF Number
    <3>2. 2 * k <= Word /\ k \in Nat \ {0}
      BY <1>1, <1>2, <2>2
    <3>3. QED BY <1>2, <3>1, <3>2
  <2>3. QED BY <2>1, <2>2
<1>4. n.GroupId = ToU32(z)
  BY DEF Brought
<1> HIDE DEF z
<1>5. ToInt(ToU32(z)) = z /\ ToInt(-ToU32(z)) = -z
  BY <1>3, ReadBack
<1>6. QED BY <1>1, <1>4, <1>5 DEF z

\* How the code numbers the links: those of insert_url from one on.
LEMMA NumbersFollow ==
  ASSUME NodesInv, NEW n \in RealNodes
  PROVE  /\ \A k \in DOMAIN given.urls :
              Selects(Rule("GROUPID", <<TermIs(k - 1)>>), n) <=> n.Hostname \in From(given.urls[k])
         /\ \A k \in DOMAIN given.inserts :
              Selects(Rule("INSERT", <<TermIs(k)>>), n) <=> n.Hostname \in From(given.inserts[k])
<1>1. given \in NodesRequests /\ Source(given, TRUE) = given.inserts /\ Source(given, FALSE) = given.urls
  BY DEF NodesInv, ListsAreOwned, Source
<1> PICK ins \in BOOLEAN : \E l \in DOMAIN Source(given, ins) : Brought(n, given, ins, l)
  BY RealIsBrought DEF NodesInv
<1>2. PICK l \in DOMAIN Source(given, ins) : Brought(n, given, ins, l)
  OBVIOUS
<1>3. l \in Nat \ {0} /\ ToInt(n.GroupId) = Number(ins, l) /\ ToInt(-n.GroupId) = -Number(ins, l)
  BY <1>1, <1>2, NumberIsRead
<1>4. \A a \in BOOLEAN : \A k \in DOMAIN Source(given, a) :
        n.Hostname \in From(Source(given, a)[k]) <=> a = ins /\ k = l
  BY <1>1, <1>2, LinksAreApart DEF Brought
<1>5. \A a \in BOOLEAN : DOMAIN Source(given, a) \subseteq Nat \ {0}
  <2>1. TAKE a \in BOOLEAN
  <2>2. DOMAIN Source(given, a) = 1..Len(Source(given, a))
    BY <1>1, LinksOfRequest
  <2>3. QED BY <2>2
<1>6. ASSUME NEW k \in DOMAIN given.urls
      PROVE  Selects(Rule("GROUPID", <<TermIs(k - 1)>>), n) <=> n.Hostname \in From(given.urls[k])
  <2>1. n.Hostname \in From(given.urls[k]) <=> ~ins /\ k = l
    BY <1>1, <1>4
  <2>2. k \in Nat \ {0}
    BY <1>5, <1>1
  <2>3. k - 1 = Number(ins, l) <=> ~ins /\ k = l
    BY <1>3, <2>2 DEF Number
  <2>4. QED BY <1>3, <2>1, <2>2, <2>3, SelectsNumber
<1>7. ASSUME NEW k \in DOMAIN given.inserts
      PROVE  Selects(Rule("INSERT", <<TermIs(k)>>), n) <=> n.Hostname \in From(given.inserts[k])
  <2>1. n.Hostname \in From(given.inserts[k]) <=> ins /\ k = l
    BY <1>1, <1>4
  <2>2. k \in Nat \ {0}
    BY <1>5, <1>1
  <2>3. k = -Number(ins, l) <=> ins /\ k = l
    BY <1>3, <2>2 DEF Number
  <2>4. QED BY <1>3, <2>1, <2>2, <2>3, SelectsNumber
<1>8. QED BY <1>6, <1>7

LEMMA GroupsFollow == NodesInv => GroupsTellLinksApart
<1> SUFFICES ASSUME NodesInv PROVE GroupsTellLinksApart
  OBVIOUS
<1>1. \A k \in DOMAIN given.inserts : 1 + k - 1 = k
  <2>1. given.inserts = Source(given, TRUE) /\ given \in NodesRequests
    BY DEF NodesInv, ListsAreOwned, Source
  <2>2. given.inserts \in Seq(Range(given.inserts))
    BY <2>1, LinksOfRequest, Zenon
  <2>3. DOMAIN given.inserts \subseteq Nat
    BY <2>2
  <2>4. \A k \in Nat : 1 + k - 1 = k
    OBVIOUS
  <2>5. QED BY <2>3, <2>4
<1>2. \A n \in RealNodes, k \in DOMAIN given.inserts :
        Selects(Rule("INSERT", <<TermIs(1 + k - 1)>>), n) <=> n.Hostname \in From(given.inserts[k])
  BY <1>1, NumbersFollow
<1>3. \A n \in RealNodes, k \in DOMAIN given.urls :
        Selects(Rule("GROUPID", <<TermIs(k - 1)>>), n) <=> n.Hostname \in From(given.urls[k])
  BY NumbersFollow
<1>4. 1 \in {0, 1}
  OBVIOUS
<1>5. QED BY <1>2, <1>3, <1>4, Zenon DEF GroupsTellLinksApart

\* !!GROUPID= and !!INSERT= tell the links of every request apart, from whichever
\* of its two numbers !!INSERT= counts them, as long as it has fewer of them than
\* half the numbers of a group id.
THEOREM GroupsAreApart == NodesSpec => []GroupsTellLinksApart
BY NodesInvHolds, GroupsFollow, PTL

-----------------------------------------------------------------------------
\* The links of a request, whatever list they are in.
LEMMA LinksAre ==
  ASSUME given \in NodesRequests, NEW link \in Range(given.urls) \cup Range(given.inserts)
  PROVE  \E ins \in BOOLEAN : \E k \in DOMAIN Source(given, ins) : link = Source(given, ins)[k]
<1>1. \/ \E k \in DOMAIN Source(given, FALSE) : link = Source(given, FALSE)[k]
      \/ \E k \in DOMAIN Source(given, TRUE) : link = Source(given, TRUE)[k]
  BY DEF Range, Source
<1>2. QED BY <1>1

\* Nodes of links the loop is not about are not there, so they stand too.
LEMMA GatheredIsMerged ==
  ASSUME NEW r \in NodesRequests, NEW ins \in BOOLEAN, NEW d \in 0..Len(Source(r, ins)),
         NEW ns, Gathered(ns, r, ins, d)
  PROVE  Merged(ns, r)
<1> SUFFICES ASSUME NEW b \in BOOLEAN, NEW k \in DOMAIN Source(r, b)
             PROVE  Stands(ns, r, Source(r, b)[k])
  BY DEF Merged
<1>1. CASE b = ins
  BY <1>1 DEF Gathered
<1>2. CASE b # ins
  <2>1. \A i \in DOMAIN ns : ns[i].Hostname \notin From(Source(r, b)[k])
    BY <1>2, HostsGathered
  <2>2. QED BY <2>1 DEF Stands
<1>3. QED BY <1>1, <1>2

\* As long as the lists are gathered and merged, the links stand in both.
LEMMA BothMerged ==
  ASSUME NodesInv, phase \in {"insert", "urls", "merge", "filter"}
  PROVE  Merged(insert_nodes, given) /\ Merged(nodes, given)
<1>1. given \in NodesRequests
  BY DEF NodesInv, ListsAreOwned
<1>2. \A ns, ins : ins \in BOOLEAN /\ Complete(ns, given, ins) => Merged(ns, given)
  <2>1. \A ins \in BOOLEAN : Len(Source(given, ins)) \in 0..Len(Source(given, ins))
    BY <1>1, LinksOfRequest
  <2>2. QED BY <1>1, <2>1, GatheredIsMerged DEF Complete
<1>3. \A ahead, ns, ins, d : ins \in BOOLEAN /\ Loop(ahead, ns, given, ins, d) => Merged(ns, given)
  BY <1>1, GatheredIsMerged DEF Loop
<1>4. CASE phase = "insert"
  <2>1. Loop(links, insert_nodes, given, TRUE, -groupID - 1) /\ nodes = <<>>
    BY <1>4 DEF NodesInv, InsertsAreRead
  <2>2. DOMAIN <<>> = {}
    OBVIOUS
  <2>3. Merged(nodes, given)
    BY <2>1, <2>2 DEF Merged, Stands
  <2>4. QED BY <1>3, <2>1, <2>3
<1>5. CASE phase = "urls"
  BY <1>2, <1>3, <1>5 DEF NodesInv, UrlsAreRead, ListsAreComplete
<1>6. CASE phase = "merge"
  BY <1>2, <1>6 DEF NodesInv, ListsAreComplete
<1>7. CASE phase = "filter"
  BY <1>2, <1>7 DEF NodesInv, ListsAreComplete, ListsAreMerged
<1>8. QED BY <1>4, <1>5, <1>6, <1>7

LEMMA LinksStand == NodesInv => LinksStayWhole
<1> SUFFICES ASSUME NodesInv, phase \in {"insert", "urls", "merge", "filter"},
                    NEW link \in Range(given.urls) \cup Range(given.inserts),
                    NEW ns \in {insert_nodes, nodes}
             PROVE  LET whole == Hosts(Wanted(given, link))
                    IN  link.kind # "script" /\ From(link) \cap Range(Hosts(ns)) # {} =>
                          \E before \in 0..Len(ns) : IsBlock(ns, link, whole, before)
  BY DEF LinksStayWhole, Wanted, IsBlock
<1>1. Stands(ns, given, link)
  BY BothMerged, LinksAre DEF Merged, NodesInv, ListsAreOwned
<1>2. From(link) \cap Range(Hosts(ns)) # {} => \E i \in DOMAIN ns : ns[i].Hostname \in From(link)
  BY DEF Range, Hosts
<1>3. QED BY <1>1, <1>2 DEF Stands

LEMMA NothingMisses == NodesInv => NothingIsMissing
<1> SUFFICES ASSUME NodesInv, status = 200, ~given.skip, given.filter = {},
                    NEW link \in Range(given.urls) \cup Range(given.inserts), link.kind \in {"SUB", "Local"}
             PROVE  Range(Hosts(Wanted(given, link))) \subseteq {n.Hostname : n \in AllNodes}
  BY DEF NothingIsMissing, Wanted
<1>1. given \in NodesRequests /\ Filters(link)
  BY DEF NodesInv, ListsAreOwned, Filters
<1> PICK ins \in BOOLEAN : \E k \in DOMAIN Source(given, ins) : link = Source(given, ins)[k]
  BY <1>1, LinksAre
<1>2. PICK k \in DOMAIN Source(given, ins) : link = Source(given, ins)[k]
  OBVIOUS
<1>3. IsThere(nodes, given, link) \/ IsThere(insert_nodes, given, link)
  <2>1. CASE given.head
    <3>1. Complete(insert_nodes, given, TRUE) /\ Complete(nodes, given, FALSE)
      BY <2>1 DEF NodesInv, ListsAreComplete, HeadAnswered
    <3>2. DOMAIN Source(given, ins) = 1..Len(Source(given, ins))
      BY <1>1, LinksOfRequest
    <3>3. Gathered(IF ins THEN insert_nodes ELSE nodes, given, ins, Len(Source(given, ins)))
      BY <3>1 DEF Complete
    <3>4. QED BY <1>2, <3>2, <3>3 DEF Gathered
  <2>2. CASE ~given.head
    BY <1>2, <2>2 DEF NodesInv, NothingIsLost, Answered, NoneMissing
  <2>3. QED BY <2>1, <2>2
<1>4. ASSUME NEW h \in Range(Hosts(Wanted(given, link)))
      PROVE  \E n \in AllNodes : h = n.Hostname
  <2>1. PICK m \in Range(Wanted(given, link)) : h = m.Hostname
    BY DEF Range, Hosts
  <2>2. (\E i \in DOMAIN nodes : nodes[i].Hostname = h) \/ \E i \in DOMAIN insert_nodes : insert_nodes[i].Hostname = h
    BY <1>1, <1>3, <2>1 DEF IsThere
  <2>3. QED BY <2>2 DEF AllNodes, Range
<1>5. QED BY <1>4

LEMMA FiltersHold == NodesInv => SubscriptionsAreFiltered
<1> SUFFICES ASSUME NodesInv, phase \in {"urls", "merge", "filter"}, NEW n \in RealNodes,
                    NEW link \in Range(given.urls) \cup Range(given.inserts),
                    link.kind \in {"SUB", "Local"}, n.Hostname \in From(link)
             PROVE  Passes(n, given)
  BY DEF SubscriptionsAreFiltered, Passes
<1>1. Stands(insert_nodes, given, link) /\ Stands(nodes, given, link)
  BY BothMerged, LinksAre DEF Merged, NodesInv, ListsAreOwned
<1>2. (\E i \in DOMAIN nodes : nodes[i] = n) \/ \E i \in DOMAIN insert_nodes : insert_nodes[i] = n
  BY DEF RealNodes, AllNodes, Range
<1>3. QED BY <1>1, <1>2 DEF Stands, Filters

LEMMA OrderHolds == NodesInv => OutputKeepsOrder
<1> SUFFICES ASSUME NodesInv, phase \in {"filter", "rename"} \/ Answered, ~given.sort,
                    NEW i \in DOMAIN nodes, NEW j \in DOMAIN nodes, i < j, {nodes[i], nodes[j]} \subseteq RealNodes
             PROVE  Position(nodes[i], given.prepend) <= Position(nodes[j], given.prepend)
  BY DEF OutputKeepsOrder, Answered
<1>1. Ordered(nodes, given)
  BY DEF NodesInv, NothingIsLost
<1>2. nodes[i].Type # "Unknow" /\ nodes[j].Type # "Unknow"
  BY DEF RealNodes
<1>3. QED BY <1>1, <1>2 DEF Ordered

\* Whichever links fail, the nodes of a link of any request are there as a whole
\* or not at all, filtered, none missing that may not be skipped, and in order.
THEOREM NodesStayWhole == NodesSpec => []NodesAreWhole
<1>1. NodesInv => NodesAreWhole
  BY LinksStand, NothingMisses, FiltersHold, OrderHolds DEF NodesAreWhole
<1>2. QED BY <1>1, NodesInvHolds, PTL
=============================================================================
