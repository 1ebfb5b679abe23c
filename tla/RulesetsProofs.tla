--------------------------- MODULE RulesetsProofs ---------------------------
(***************************************************************************)
(* Proofs about Rulesets, for any number of workers, any preference files  *)
(* and any external configurations: reloads exclude each other, a request  *)
(* that brings its own rulesets is isolated from them, and one that has    *)
(* met no race is answered from its own rulesets.                          *)
(***************************************************************************)
EXTENDS MCRulesets, TLAPS

\* A worker uses the global contents only for a list that was equal to the
\* global one when it compared them.
UsesGlobal(w) == pc[w] = "take" \/ (pc[w] \in {"erase", "fetch"} /\ after[w] = "take")

\* Where a worker goes after a reload or a refresh is set before it starts.
AfterIsSet ==
  \A w \in Workers :
    /\ pc[w] \in {"write", "lock", "read", "load"} => after[w] \in {"idle", "copy"}
    /\ pc[w] = "decide" => after[w] = "idle"
    /\ pc[w] \in {"erase", "fetch"} => after[w] \in {"idle", "take"}

GlobalIsNotExternal ==
  \A w \in Workers : UsesGlobal(w) => wanted[w] \in GlobalLists

ExternalIsFetched ==
  \A w \in Workers : pc[w] = "answer" /\ wanted[w] \notin GlobalLists => got[w] = wanted[w]

\* From the lock of readConf() to its end the list stays erased.
StaysErased == \A w \in Workers : pc[w] \in {"read", "load"} => customRulesets = <<>>

IInv ==
  /\ TypeOK
  /\ got = [w \in Workers |-> got[w]] /\ next = [w \in Workers |-> next[w]]
  /\ OneReload
  /\ StaysErased
  /\ AfterIsSet
  /\ GlobalIsNotExternal
  /\ ExternalIsFetched

-----------------------------------------------------------------------------
\* The server starts with the invariant.
LEMMA InitIInv == Init => IInv
BY RulesetsAssumption DEF Init, IInv, TypeOK, OneReload, StaysErased, AfterIsSet, GlobalIsNotExternal,
   UsesGlobal, ExternalIsFetched, GlobalLists, PC

\* The steps of readConf(): only Lock enters, when nobody holds the lock, and
\* only Load leaves.
LEMMA ReloadSteps ==
  ASSUME IInv, NEW w \in Workers, Lock(w) \/ Read(w) \/ Load(w) \/ Decide(w)
  PROVE  IInv'
<1> USE RulesetsAssumption DEF IInv, TypeOK, Goto, global, locals, GlobalLists
<1>1. CASE Lock(w)
  BY <1>1 DEF Lock, OneReload, StaysErased, AfterIsSet, GlobalIsNotExternal, UsesGlobal,
     ExternalIsFetched, PC
<1>2. CASE Read(w)
  BY <1>2 DEF Read, OneReload, StaysErased, AfterIsSet, GlobalIsNotExternal, UsesGlobal,
     ExternalIsFetched, PC
<1>3. CASE Load(w)
  <2> DEFINE to == IF after[w] = "idle" THEN "decide" ELSE after[w]
  <2>1. /\ pc[w] = "load" /\ pc' = [pc EXCEPT ![w] = to]
        /\ after[w] \in {"idle", "copy"}
        /\ UNCHANGED <<file, rulesetsContent, after, prefdata, next, wanted, got>>
    BY <1>3 DEF Load, AfterIsSet
  <2>2. TypeOK'
    BY <1>3, <2>1 DEF Load, PC
  <2>3. OneReload' /\ StaysErased'
    BY <1>3, <2>1 DEF Load, OneReload, StaysErased
  <2>4. AfterIsSet' /\ GlobalIsNotExternal' /\ ExternalIsFetched'
    BY <2>1 DEF AfterIsSet, GlobalIsNotExternal, UsesGlobal, ExternalIsFetched
  <2>5. QED BY <2>1, <2>2, <2>3, <2>4
<1>4. CASE Decide(w)
  BY <1>4 DEF Decide, OneReload, StaysErased, AfterIsSet, GlobalIsNotExternal, UsesGlobal,
     ExternalIsFetched, PC
<1>5. QED BY <1>1, <1>2, <1>3, <1>4

\* A handler begins.
LEMMA BeginSteps ==
  ASSUME IInv, NEW w \in Workers,
         Sub(w) \/ ReadConf(w) \/ UpdateConf(w) \/ WriteConf(w) \/ RefreshRules(w)
  PROVE  IInv'
<1> USE RulesetsAssumption DEF IInv, TypeOK, Goto, global, locals, GlobalLists,
        OneReload, StaysErased, AfterIsSet, GlobalIsNotExternal, UsesGlobal, ExternalIsFetched, PC
<1>1. CASE Sub(w)          BY <1>1 DEF Sub
<1>2. CASE ReadConf(w)     BY <1>2 DEF ReadConf
<1>3. CASE UpdateConf(w)   BY <1>3 DEF UpdateConf
<1>4. CASE WriteConf(w)    BY <1>4 DEF WriteConf
<1>5. CASE RefreshRules(w) BY <1>5 DEF RefreshRules
<1>6. QED BY <1>1, <1>2, <1>3, <1>4, <1>5

\* subconverter(): the comparison sends a list that is not the global one to a
\* local fetch, whose result no step of another worker touches.
LEMMA RequestSteps ==
  ASSUME IInv, NEW w \in Workers, Copy(w) \/ Compare(w) \/ Take(w) \/ Answer(w)
  PROVE  IInv'
<1> USE RulesetsAssumption DEF IInv, TypeOK, Goto, global, GlobalLists,
        OneReload, StaysErased, AfterIsSet, GlobalIsNotExternal, UsesGlobal, ExternalIsFetched, PC
<1>1. CASE Copy(w)    BY <1>1 DEF Copy
<1>2. CASE Compare(w)
  <2>1. CASE wanted[w] # customRulesets BY <1>2, <2>1 DEF Compare
  <2>2. CASE wanted[w] = customRulesets
    <3>1. /\ pc' = [pc EXCEPT ![w] = IF updateRulesetOnRequest THEN "erase" ELSE "take"]
          /\ after' = [after EXCEPT ![w] = "take"]
          /\ pc[w] = "compare" /\ wanted[w] \in GlobalLists
          /\ UNCHANGED <<file, holder, global, prefdata, next, wanted, got>>
      BY <1>2, <2>2 DEF Compare
    <3>2. TypeOK'
      BY <3>1
    <3>3. OneReload' /\ StaysErased' /\ AfterIsSet' /\ GlobalIsNotExternal' /\ ExternalIsFetched'
      BY <3>1
    <3>4. QED BY <3>1, <3>2, <3>3
  <2>3. QED BY <2>1, <2>2
<1>3. CASE Take(w)    BY <1>3 DEF Take
<1>4. CASE Answer(w)  BY <1>4 DEF Answer
<1>5. QED BY <1>1, <1>2, <1>3, <1>4

\* refreshRulesets() changes only the global contents.
LEMMA RefreshSteps ==
  ASSUME IInv, NEW w \in Workers, Erase(w) \/ Fetch(w) \/ Fetched(w)
  PROVE  IInv'
<1> USE RulesetsAssumption DEF IInv, TypeOK, Goto, global, GlobalLists,
        OneReload, StaysErased, AfterIsSet, GlobalIsNotExternal, UsesGlobal, ExternalIsFetched, PC
<1>1. CASE Erase(w)   BY <1>1 DEF Erase
<1>2. CASE Fetch(w)   BY <1>2 DEF Fetch
<1>3. CASE Fetched(w) BY <1>3 DEF Fetched
<1>4. QED BY <1>1, <1>2, <1>3

\* The invariant is inductive.
LEMMA NextIInv == IInv /\ [Next]_vars => IInv'
<1> SUFFICES ASSUME IInv, [Next]_vars PROVE IInv'
  OBVIOUS
<1>1. CASE Edit
  BY <1>1 DEF Edit, IInv, TypeOK, global, locals, GlobalLists, OneReload, StaysErased, AfterIsSet,
     GlobalIsNotExternal, UsesGlobal, ExternalIsFetched
<1>2. CASE UNCHANGED vars
  BY <1>2 DEF vars, IInv, TypeOK, global, locals, GlobalLists, OneReload, StaysErased, AfterIsSet,
     GlobalIsNotExternal, UsesGlobal, ExternalIsFetched
<1>3. QED
  BY <1>1, <1>2, ReloadSteps, BeginSteps, RequestSteps, RefreshSteps DEF Next

\* IInv holds in every state of the running server.
THEOREM Invariance == Spec => []IInv
BY InitIInv, NextIInv, PTL DEF Spec

\* Type correctness: in particular customRulesets is always a whole list of one
\* of the preference files, or empty.
THEOREM TypeCorrect == Spec => []TypeOK
<1>1. IInv => TypeOK
  BY DEF IInv
<1>2. QED BY <1>1, Invariance, PTL

\* However many handlers ask for a reload at once, one at a time is between the
\* lock of readConf() and its end.
THEOREM ReloadsExclude == Spec => []OneReload
<1>1. IInv => OneReload
  BY DEF IInv
<1>2. QED BY <1>1, Invariance, PTL

\* An external configuration that names another list than any preference file
\* is answered from exactly its rulesets, whatever runs beside the request.
THEOREM ExternalIsolation ==
  ASSUME External \cap GlobalLists = {}
  PROVE  Spec => []ExternalIsIsolated
<1>1. IInv => ExternalIsIsolated
  BY DEF IInv, ExternalIsFetched, ExternalIsIsolated, GlobalLists
<1>2. QED BY <1>1, Invariance, PTL

\* A reload leaves the list of the file it read, or nothing when it could not
\* read the file: no schedule of the other workers lets an old list survive it.
THEOREM ReloadReplaces == Spec => ReloadReplacesRules
<1> DEFINE Replaces == \A w \in Workers :
             pc[w] = "load" /\ pc'[w] # "load"
               => customRulesets' = IF prefdata[w] = Unreadable THEN <<>>
                                                                ELSE prefdata[w].rules
<1>1. ASSUME IInv, Next PROVE Replaces
  <2> SUFFICES ASSUME NEW w \in Workers, pc[w] = "load", pc'[w] # "load"
               PROVE  customRulesets' = IF prefdata[w] = Unreadable THEN <<>>
                                                                    ELSE prefdata[w].rules
    OBVIOUS
  <2>1. pc \in [Workers -> PC] /\ customRulesets = <<>>
    BY <1>1 DEF IInv, TypeOK, StaysErased
  <2>2. Load(w)
    BY <1>1, <2>1 DEF Next, Goto, locals, global, Sub, ReadConf, UpdateConf, WriteConf,
       RefreshRules, Lock, Read, Load, Decide, Copy, Compare, Take, Answer, Erase, Fetch, Fetched, Edit
  <2>3. QED BY <2>1, <2>2 DEF Load
<1>2. IInv /\ [Next]_vars => [Replaces]_vars
  BY <1>1
<1>3. QED BY <1>2, Invariance, PTL DEF Spec, ReloadReplacesRules
-----------------------------------------------------------------------------
(* Answers, as long as no reload and no refresh runs beside another handler. *)

ChangesAlone == \A v, w \in Workers : v # w /\ Changing(w) => pc[v] = "idle"

\* Outside of reloads and refreshes the contents are those of the list, unless
\* each request fetches them anew.
InSync == (\A w \in Workers : ~Changing(w)) => updateRulesetOnRequest \/ rulesetsContent = customRulesets

\* A refresh has come to a position of the list.
Fetching ==
  \A w \in Workers : pc[w] = "fetch" =>
    /\ next[w] \in 1..Len(customRulesets) + 1
    /\ rulesetsContent = SubSeq(customRulesets, 1, next[w] - 1)

\* A request that uses the global contents wants the global list.
WantsGlobal ==
  \A w \in Workers :
    /\ UsesGlobal(w) => wanted[w] = customRulesets
    /\ pc[w] = "take" => rulesetsContent = customRulesets
    /\ pc[w] = "answer" => got[w] = wanted[w]

\* With API mode, requests do not read the preferences.
RequestsDoNotReload ==
  \A w \in Workers : pc[w] \in {"write", "lock", "read", "load"} => after[w] = "idle"

AnswersInv == ChangesAlone /\ InSync /\ Fetching /\ WantsGlobal /\ RequestsDoNotReload

\* The lists are sequences of rulesets.
LEMMA ListsAreSequences ==
  ASSUME TypeOK
  PROVE  \E S : customRulesets \in Seq(S)
<1>1. CASE customRulesets = <<>>
  <2>1. customRulesets \in Seq({})
    BY <1>1
  <2> QED BY <2>1
<1>2. ASSUME NEW f \in Files, customRulesets = f.rules
      PROVE  \E S : customRulesets \in Seq(S)
  BY <1>2, ListsAssumption
<1> QED BY <1>1, <1>2 DEF TypeOK, GlobalLists

\* A step that races no one: while a worker changes the lists the others are
\* idle, before the step and after it.
LEMMA OthersIdle ==
  ASSUME ChangesAlone', NEW w \in Workers, Changing(w)', NEW v \in Workers, v # w
  PROVE  pc'[v] = "idle"
BY DEF ChangesAlone, Changing

\* The steps of readConf(), which no request is beside.
LEMMA ReloadKeepsAnswers ==
  ASSUME APIMode, IInv, AnswersInv, ChangesAlone', NEW w \in Workers,
         Lock(w) \/ Read(w) \/ Load(w) \/ Decide(w)
  PROVE  AnswersInv'
<1> USE DEF IInv, TypeOK, Goto, global, locals
<1>1. CASE Lock(w)
  <2>1. Changing(w)' /\ pc'[w] = "read" /\ UNCHANGED <<rulesetsContent, locals>>
    BY <1>1 DEF Lock, Changing
  <2>2. \A v \in Workers : v # w => pc'[v] = "idle"
    BY <2>1, OthersIdle
  <2>3. \A v \in Workers : v # w => pc[v] = "idle"
    BY <1>1, <2>2 DEF Lock
  <2> QED BY <1>1, <2>1, <2>2 DEF Lock, AnswersInv, InSync, Fetching, WantsGlobal, UsesGlobal, RequestsDoNotReload
<1>2. CASE Read(w)
  <2>1. Changing(w) /\ Changing(w)' /\ pc'[w] = "load" /\ pc[w] = "read"
        /\ UNCHANGED <<global, after, next, wanted, got>>
    BY <1>2 DEF Read, Changing
  <2>2. \A v \in Workers : v # w => pc'[v] = "idle"
    BY <2>1, OthersIdle
  <2> QED BY <2>1, <2>2 DEF AnswersInv, InSync, Fetching, WantsGlobal, UsesGlobal, RequestsDoNotReload
<1>3. CASE Load(w)
  <2>1. pc[w] = "load" /\ Changing(w) /\ UNCHANGED <<after, next, wanted, got>>
    BY <1>3 DEF Load, Changing
  <2>2. after[w] = "idle"
    BY <2>1 DEF AnswersInv, RequestsDoNotReload
  <2>3. pc' = [pc EXCEPT ![w] = "decide"] /\ Changing(w)'
    BY <1>3, <2>2 DEF Load, Changing
  <2>4. \A v \in Workers : v # w => pc'[v] = "idle"
    BY <2>3, OthersIdle
  <2> QED BY <2>1, <2>2, <2>3, <2>4
          DEF AnswersInv, InSync, Fetching, WantsGlobal, UsesGlobal, RequestsDoNotReload
<1>4. CASE Decide(w)
  <2>1. pc[w] = "decide" /\ Changing(w) /\ UNCHANGED <<global, after, next, wanted, got>>
    BY <1>4 DEF Decide, Changing
  <2>2. after[w] = "idle"
    BY <2>1 DEF AfterIsSet
  <2>3. \A v \in Workers : v # w => pc'[v] = "idle"
    BY <1>4, <2>1 DEF Decide, AnswersInv, ChangesAlone
  <2>4. pc'[w] = IF updateRulesetOnRequest THEN "idle" ELSE "erase"
    BY <1>4 DEF Decide
  <2>5. (\A v \in Workers : ~Changing(v)') => updateRulesetOnRequest'
    BY <2>1, <2>4 DEF Changing
  <2> QED BY <2>1, <2>2, <2>3, <2>4, <2>5
          DEF AnswersInv, InSync, Fetching, WantsGlobal, UsesGlobal, RequestsDoNotReload
<1> QED BY <1>1, <1>2, <1>3, <1>4

\* A handler begins.
LEMMA BeginKeepsAnswers ==
  ASSUME APIMode, IInv, AnswersInv, ChangesAlone', NEW w \in Workers,
         Sub(w) \/ ReadConf(w) \/ UpdateConf(w) \/ WriteConf(w) \/ RefreshRules(w)
  PROVE  AnswersInv'
<1>1. UNCHANGED <<global, next, wanted, got>>
  BY DEF Sub, ReadConf, UpdateConf, WriteConf, RefreshRules, locals
<1>2. /\ \A v \in Workers : v # w => pc'[v] = pc[v] /\ after'[v] = after[v]
      /\ pc[w] \in {"idle", "write"} /\ pc'[w] \in {"copy", "lock", "write", "erase"}
      /\ pc'[w] # "copy" => after'[w] = "idle"
  BY DEF Sub, ReadConf, UpdateConf, WriteConf, RefreshRules, Goto, IInv, TypeOK,
     AnswersInv, RequestsDoNotReload, locals
<1>3. InSync'
  BY <1>1, <1>2 DEF AnswersInv, InSync, Changing, global
<1>4. Fetching' /\ WantsGlobal' /\ RequestsDoNotReload'
  BY <1>1, <1>2 DEF AnswersInv, Fetching, WantsGlobal, UsesGlobal, RequestsDoNotReload, global
<1> QED BY <1>3, <1>4 DEF AnswersInv

\* subconverter(): a request that takes the global contents compared its list
\* with the global one, and nothing has changed either since.
LEMMA RequestKeepsAnswers ==
  ASSUME APIMode, IInv, AnswersInv, ChangesAlone', NEW w \in Workers,
         Copy(w) \/ Compare(w) \/ Take(w) \/ Answer(w)
  PROVE  AnswersInv'
<1>1. /\ UNCHANGED <<global, next>>
      /\ \A v \in Workers : v # w => /\ pc'[v] = pc[v] /\ after'[v] = after[v]
                                     /\ wanted'[v] = wanted[v] /\ got'[v] = got[v]
  BY DEF Copy, Compare, Take, Answer, Goto, IInv, TypeOK
<1>2. ~Changing(w)
  BY DEF Copy, Compare, Take, Answer, Goto, Changing
<1>3. Fetching' /\ RequestsDoNotReload'
  <2>1. pc'[w] \notin {"fetch", "write", "lock", "read", "load"}
    BY DEF Copy, Compare, Take, Answer, Goto, IInv, TypeOK
  <2> QED BY <1>1, <2>1 DEF AnswersInv, Fetching, RequestsDoNotReload, global
<1>4. InSync'
  BY <1>1, <1>2 DEF AnswersInv, InSync, Changing, global
<1>5. CASE Copy(w)
  <2>1. pc'[w] = "compare"
    BY <1>5 DEF Copy, Goto, IInv, TypeOK
  <2>2. WantsGlobal'
    BY <1>1, <2>1 DEF AnswersInv, WantsGlobal, UsesGlobal, global
  <2> QED BY <1>3, <1>4, <2>2 DEF AnswersInv
<1>6. CASE Compare(w) /\ wanted[w] # customRulesets
  <2>1. pc'[w] = "answer" /\ got'[w] = wanted[w] /\ wanted' = wanted
    BY <1>6 DEF Compare, Goto, IInv, TypeOK
  <2>2. WantsGlobal'
    BY <1>1, <2>1 DEF AnswersInv, WantsGlobal, UsesGlobal, global
  <2> QED BY <1>3, <1>4, <2>2 DEF AnswersInv
<1>7. CASE Compare(w) /\ wanted[w] = customRulesets
  <2>1. /\ pc[w] = "compare" /\ pc'[w] = IF updateRulesetOnRequest THEN "erase" ELSE "take"
        /\ wanted'[w] = customRulesets
    BY <1>7 DEF Compare, Goto, IInv, TypeOK
  <2>2. ~updateRulesetOnRequest => rulesetsContent = customRulesets
    <3>1. \A v \in Workers : ~Changing(v)
      BY <2>1 DEF AnswersInv, ChangesAlone, Changing
    <3> QED BY <3>1 DEF AnswersInv, InSync
  <2>3. WantsGlobal'
    BY <1>1, <2>1, <2>2 DEF AnswersInv, WantsGlobal, UsesGlobal, global
  <2> QED BY <1>3, <1>4, <2>3 DEF AnswersInv
<1>8. CASE Take(w)
  <2>1. pc[w] = "take" /\ pc'[w] = "answer" /\ got'[w] = rulesetsContent /\ wanted' = wanted
    BY <1>8 DEF Take, Goto, IInv, TypeOK
  <2>2. WantsGlobal'
    BY <1>1, <2>1 DEF AnswersInv, WantsGlobal, UsesGlobal, global
  <2> QED BY <1>3, <1>4, <2>2 DEF AnswersInv
<1>9. CASE Answer(w)
  <2>1. pc'[w] = "idle"
    BY <1>9 DEF Answer, Goto, IInv, TypeOK
  <2>2. WantsGlobal'
    BY <1>1, <2>1 DEF AnswersInv, WantsGlobal, UsesGlobal, global
  <2> QED BY <1>3, <1>4, <2>2 DEF AnswersInv
<1> QED BY <1>5, <1>6, <1>7, <1>8, <1>9

\* refreshRulesets(): one ruleset after the other, up to the last.
LEMMA RefreshKeepsAnswers ==
  ASSUME APIMode, IInv, AnswersInv, ChangesAlone', NEW w \in Workers,
         Erase(w) \/ Fetch(w) \/ Fetched(w)
  PROVE  AnswersInv'
<1>1. /\ UNCHANGED <<customRulesets, updateRulesetOnRequest, after, wanted, got>>
      /\ Changing(w) /\ pc[w] \in {"erase", "fetch"}
      /\ \A v \in Workers : v # w => pc'[v] = pc[v] /\ next'[v] = next[v]
  BY DEF Erase, Fetch, Fetched, Goto, IInv, TypeOK, global, Changing
<1>2. \A v \in Workers : v # w => pc[v] = "idle" /\ pc'[v] = "idle"
  BY <1>1 DEF AnswersInv, ChangesAlone
<1>3. PICK S : customRulesets \in Seq(S)
  BY ListsAreSequences DEF IInv
<1>4. after[w] \in {"idle", "take"}
  BY <1>1 DEF IInv, AfterIsSet
<1>5. CASE Erase(w)
  <2>1. rulesetsContent' = <<>> /\ next'[w] = 1 /\ pc'[w] = "fetch"
    BY <1>5 DEF Erase, Goto, IInv, TypeOK
  <2>2. SubSeq(customRulesets, 1, 0) = <<>>
    BY <1>3
  <2>3. Fetching'
    BY <1>1, <1>2, <1>3, <2>1, <2>2 DEF Fetching
  <2>4. InSync' /\ WantsGlobal' /\ RequestsDoNotReload'
    BY <1>1, <1>2, <2>1 DEF AnswersInv, InSync, Changing, WantsGlobal, UsesGlobal, RequestsDoNotReload
  <2> QED BY <2>3, <2>4 DEF AnswersInv
<1>6. CASE Fetch(w)
  <2> DEFINE n == next[w]
  <2>1. /\ pc[w] = "fetch" /\ pc' = pc /\ n <= Len(customRulesets)
        /\ rulesetsContent' = Append(rulesetsContent, customRulesets[n]) /\ next'[w] = n + 1
    BY <1>6 DEF Fetch, IInv, TypeOK
  <2>2. n \in 1..Len(customRulesets) /\ rulesetsContent = SubSeq(customRulesets, 1, n - 1)
    BY <2>1 DEF AnswersInv, Fetching
  <2>3. rulesetsContent' = SubSeq(customRulesets, 1, n)
    BY <1>3, <2>1, <2>2
  <2>4. n + 1 \in 1..Len(customRulesets) + 1 /\ (n + 1) - 1 = n
    BY <1>3, <2>2
  <2>5. Fetching'
    BY <1>1, <1>2, <2>1, <2>3, <2>4 DEF Fetching
  <2>6. InSync' /\ WantsGlobal' /\ RequestsDoNotReload'
    BY <1>1, <1>2, <2>1 DEF AnswersInv, InSync, Changing, WantsGlobal, UsesGlobal, RequestsDoNotReload
  <2> QED BY <2>5, <2>6 DEF AnswersInv
<1>7. CASE Fetched(w)
  <2>1. /\ pc[w] = "fetch" /\ pc'[w] = after[w] /\ next[w] > Len(customRulesets)
        /\ UNCHANGED rulesetsContent
    BY <1>7 DEF Fetched, Goto, IInv, TypeOK, global
  <2>2. next[w] \in 1..Len(customRulesets) + 1 /\ rulesetsContent = SubSeq(customRulesets, 1, next[w] - 1)
    BY <2>1 DEF AnswersInv, Fetching
  <2>3. rulesetsContent = customRulesets
    <3>1. next[w] - 1 = Len(customRulesets)
      BY <1>3, <2>1, <2>2
    <3> QED BY <1>3, <2>2, <3>1
  <2>4. Fetching' /\ InSync' /\ WantsGlobal' /\ RequestsDoNotReload'
    BY <1>1, <1>2, <1>4, <2>1, <2>3
       DEF AnswersInv, Fetching, InSync, WantsGlobal, UsesGlobal, RequestsDoNotReload
  <2> QED BY <2>4 DEF AnswersInv
<1> QED BY <1>5, <1>6, <1>7

Unraced == ~raced => AnswersInv

LEMMA StepKeepsAnswers ==
  ASSUME APIMode, IInv, Unraced, [MCNext]_<<vars, raced>>
  PROVE  Unraced'
<1>1. CASE UNCHANGED <<vars, raced>>
  BY <1>1 DEF vars, global, locals, Unraced, AnswersInv, ChangesAlone, Changing, InSync, Fetching,
     WantsGlobal, UsesGlobal, RequestsDoNotReload
<1>2. CASE MCNext
  <2> SUFFICES ASSUME ~raced' PROVE AnswersInv'
    BY DEF Unraced
  <2>1. Next /\ AnswersInv /\ ~(\E w, v \in Workers : w # v /\ Changing(w)' /\ pc'[v] # "idle")
    BY <1>2 DEF MCNext, Unraced
  <2>2. ChangesAlone'
    BY <2>1 DEF ChangesAlone, Changing
  <2>3. CASE Edit
    BY <2>1, <2>3 DEF Edit, global, locals, AnswersInv, ChangesAlone, Changing, InSync, Fetching,
       WantsGlobal, UsesGlobal, RequestsDoNotReload
  <2> QED BY <2>1, <2>2, <2>3, ReloadKeepsAnswers, BeginKeepsAnswers, RequestKeepsAnswers,
             RefreshKeepsAnswers DEF Next
<1> QED BY <1>1, <1>2

\* In API mode every answer is made from the contents of exactly the rulesets
\* its request wants, in their order, for any preference files, edited, uploaded
\* or unreadable, and any number of workers: as long as no reload and no refresh
\* has run beside another handler.
THEOREM AnswersHaveTheirRules ==
  ASSUME APIMode
  PROVE  MCSpec => []AnswerHasItsRules
<1>1. MCInit => IInv /\ Unraced
  <2> SUFFICES ASSUME MCInit PROVE IInv /\ Unraced
    OBVIOUS
  <2>1. IInv /\ \A w \in Workers : pc[w] = "idle"
    BY InitIInv DEF MCInit, Init
  <2>2. InSync
    BY DEF MCInit, Init, InSync
  <2> QED BY <2>1, <2>2 DEF Unraced, AnswersInv, ChangesAlone, Changing, Fetching, WantsGlobal,
             UsesGlobal, RequestsDoNotReload
<1>2. IInv /\ Unraced /\ [MCNext]_<<vars, raced>> => (IInv /\ Unraced)'
  <2>1. [MCNext]_<<vars, raced>> => [Next]_vars
    BY DEF MCNext
  <2> QED BY <2>1, NextIInv, StepKeepsAnswers
<1>3. Unraced => AnswerHasItsRules
  BY DEF Unraced, AnswersInv, WantsGlobal, AnswerHasItsRules
<1> QED BY <1>1, <1>2, <1>3, PTL DEF MCSpec
=============================================================================
