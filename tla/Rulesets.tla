------------------------------ MODULE Rulesets ------------------------------
(***************************************************************************)
(* Rulesets of the running server: global.customRulesets (which rulesets   *)
(* the preferences name), global.rulesetsContent (what was fetched for     *)
(* them), and the handlers that change or use them: /sub (interfaces.cpp), *)
(* /readconf, /updateconf, /refreshrules (main.cpp), each on one of the    *)
(* worker threads, with readConf() and refreshRulesets() of settings.cpp.  *)
(*                                                                         *)
(* Neither list is locked.  The code may copy a vector while another       *)
(* thread changes it, which is undefined; here every access to a vector is *)
(* atomic, the mildest outcome a build can produce, and refreshRulesets()  *)
(* is a loop of such accesses with a blocking fetch between them.          *)
(*                                                                         *)
(* A preference file is what it says of rulesets, a sequence of ruleset    *)
(* names and the flag update_ruleset_on_request, or Unreadable.  An        *)
(* external configuration is the sequence of rulesets it names.            *)
(***************************************************************************)
EXTENDS Naturals, Sequences

CONSTANTS
  Workers,          \* threads that serve requests (max_concurrent_threads)
  Files,            \* preference files: [rules, update] records
  External,         \* rulesets of external configurations of requests
  Unreadable,       \* a file no parser accepts, a truncated one among them
  Nobody,
  APIMode,          \* global.APIMode, as every file here sets it
  Conf,             \* are /readconf and /updateconf called?
  Refresh,          \* is /refreshrules called?
  Edits             \* is the preference file edited on disk?

ASSUME RulesetsAssumption ==
  /\ Unreadable \notin Files /\ Nobody \notin Workers
  /\ \A f \in Files : f.update \in BOOLEAN
  /\ {APIMode, Conf, Refresh, Edits} \subseteq BOOLEAN

\* What a preference file says of rulesets is a list of them.
ASSUME ListsAssumption == \A f \in Files : f.rules \in Seq({f.rules[i] : i \in DOMAIN f.rules})

VARIABLES
  file,             \* global.prefPath on disk
  holder,           \* gMutexConfigure
  customRulesets, updateRulesetOnRequest, rulesetsContent,
  pc,
  after,            \* where a worker goes after readConf or refreshRulesets
  prefdata,         \* the file a worker's readConf has read
  next,             \* position of a worker in the loop of refreshRulesets
  wanted, got       \* lCustomRulesets and lRulesetContent of its request

global == <<customRulesets, updateRulesetOnRequest, rulesetsContent>>
locals == <<after, prefdata, next, wanted, got>>
vars   == <<file, holder, global, pc, locals>>

PC == {"idle", "write", "lock", "read", "load", "decide", "copy", "compare", "erase",
       "fetch", "take", "answer"}

\* main(): readConf() and refreshRulesets() have run before the server starts.
Init ==
  /\ file \in Files
  /\ holder = Nobody
  /\ customRulesets = file.rules
  /\ updateRulesetOnRequest = file.update
  /\ rulesetsContent = IF file.update THEN <<>> ELSE file.rules
  /\ pc = [w \in Workers |-> "idle"]
  /\ after = [w \in Workers |-> "idle"]
  /\ prefdata = [w \in Workers |-> Unreadable]
  /\ next = [w \in Workers |-> 1]
  /\ wanted = [w \in Workers |-> <<>>]
  /\ got = [w \in Workers |-> <<>>]

Goto(w, from, to) ==
  /\ pc[w] = from
  /\ pc' = [pc EXCEPT ![w] = to]

\* Only the owner of the machine does this, with an editor.
Edit ==
  /\ Edits
  /\ \E f \in Files \cup {Unreadable} : file' = f
  /\ UNCHANGED <<holder, global, pc, locals>>

-----------------------------------------------------------------------------
(* Handlers begin: a request, or one of the administrative calls. *)

\* Without API mode a request reads the preferences first.
Sub(w) ==
  /\ Goto(w, "idle", IF APIMode THEN "copy" ELSE "lock")
  /\ after' = [after EXCEPT ![w] = "copy"]
  /\ UNCHANGED <<file, holder, global, prefdata, next, wanted, got>>

ReadConf(w) ==
  /\ Conf
  /\ Goto(w, "idle", "lock")
  /\ after' = [after EXCEPT ![w] = "idle"]
  /\ UNCHANGED <<file, holder, global, prefdata, next, wanted, got>>

\* fileWrite() truncates the file, then fills it; no lock is taken.
UpdateConf(w) ==
  /\ Conf
  /\ Goto(w, "idle", "write")
  /\ file' = Unreadable
  /\ after' = [after EXCEPT ![w] = "idle"]
  /\ UNCHANGED <<holder, global, prefdata, next, wanted, got>>

WriteConf(w) ==
  /\ Goto(w, "write", "lock")
  /\ \E f \in Files \cup {Unreadable} : file' = f
  /\ UNCHANGED <<holder, global, locals>>

RefreshRules(w) ==
  /\ Refresh
  /\ Goto(w, "idle", "erase")
  /\ after' = [after EXCEPT ![w] = "idle"]
  /\ UNCHANGED <<file, holder, global, prefdata, next, wanted, got>>

-----------------------------------------------------------------------------
(* readConf() *)

\* Mutant: the lists are not erased before the file is read.
LockKeepsLists(w) ==
  /\ holder = Nobody
  /\ Goto(w, "lock", "read")
  /\ holder' = w
  /\ UNCHANGED <<file, global, locals>>

Lock(w) ==
  /\ holder = Nobody
  /\ Goto(w, "lock", "read")
  /\ holder' = w
  /\ customRulesets' = <<>>
  /\ UNCHANGED <<file, updateRulesetOnRequest, rulesetsContent, locals>>

Read(w) ==
  /\ Goto(w, "read", "load")
  /\ prefdata' = [prefdata EXCEPT ![w] = file]
  /\ UNCHANGED <<file, holder, global, after, next, wanted, got>>

\* A file that cannot be loaded changes nothing more.  Then the lock is given
\* back.
Load(w) ==
  LET loaded == prefdata[w] # Unreadable
  IN /\ Goto(w, "load", IF after[w] = "idle" THEN "decide" ELSE after[w])
     /\ holder' = Nobody
     /\ customRulesets' = IF loaded THEN prefdata[w].rules ELSE customRulesets
     /\ updateRulesetOnRequest' = IF loaded THEN prefdata[w].update ELSE updateRulesetOnRequest
     /\ UNCHANGED <<file, rulesetsContent, locals>>

\* Mutant: the administrative handlers do not fetch the new rulesets.
DecideNoRefresh(w) ==
  /\ Goto(w, "decide", "idle")
  /\ UNCHANGED <<file, holder, global, locals>>

\* After readConf() the administrative handlers refresh the rulesets, unless
\* every request does, by what the flag is by then.
Decide(w) ==
  /\ Goto(w, "decide", IF updateRulesetOnRequest THEN "idle" ELSE "erase")
  /\ UNCHANGED <<file, holder, global, locals>>

-----------------------------------------------------------------------------
(* subconverter() *)

\* The request's own list: a copy of the global one, or the external one.
Copy(w) ==
  /\ Goto(w, "copy", "compare")
  /\ \E rules \in {customRulesets} \cup External : wanted' = [wanted EXCEPT ![w] = rules]
  /\ UNCHANGED <<file, holder, global, after, prefdata, next, got>>

\* Mutant: requests never fetch their own rulesets.
CompareIgnoresExternal(w) ==
  /\ Goto(w, "compare", IF updateRulesetOnRequest THEN "erase" ELSE "take")
  /\ after' = [after EXCEPT ![w] = "take"]
  /\ UNCHANGED <<file, holder, global, prefdata, next, wanted, got>>

\* A list that differs from the global one is fetched into a local array, which
\* no other thread sees; otherwise the global array is used.
Compare(w) ==
  /\ \/ /\ wanted[w] # customRulesets
        /\ Goto(w, "compare", "answer")
        /\ got' = [got EXCEPT ![w] = wanted[w]]
        /\ UNCHANGED after
     \/ /\ wanted[w] = customRulesets
        /\ Goto(w, "compare", IF updateRulesetOnRequest THEN "erase" ELSE "take")
        /\ after' = [after EXCEPT ![w] = "take"]
        /\ UNCHANGED got
  /\ UNCHANGED <<file, holder, global, prefdata, next, wanted>>

Take(w) ==
  /\ Goto(w, "take", "answer")
  /\ got' = [got EXCEPT ![w] = rulesetsContent]
  /\ UNCHANGED <<file, holder, global, after, prefdata, next, wanted>>

Answer(w) ==
  /\ Goto(w, "answer", "idle")
  /\ wanted' = [wanted EXCEPT ![w] = <<>>]
  /\ got' = [got EXCEPT ![w] = <<>>]
  /\ UNCHANGED <<file, holder, global, after, prefdata, next>>

-----------------------------------------------------------------------------
(* refreshRulesets(global.customRulesets, global.rulesetsContent) *)

Erase(w) ==
  /\ Goto(w, "erase", "fetch")
  /\ rulesetsContent' = <<>>
  /\ next' = [next EXCEPT ![w] = 1]
  /\ UNCHANGED <<file, holder, customRulesets, updateRulesetOnRequest,
                 after, prefdata, wanted, got>>

\* One ruleset of the list; the fetch may take up to its time-out.
Fetch(w) ==
  /\ pc[w] = "fetch" /\ next[w] <= Len(customRulesets)
  /\ rulesetsContent' = Append(rulesetsContent, customRulesets[next[w]])
  /\ next' = [next EXCEPT ![w] = @ + 1]
  /\ UNCHANGED <<file, holder, customRulesets, updateRulesetOnRequest, pc,
                 after, prefdata, wanted, got>>

Fetched(w) ==
  /\ next[w] > Len(customRulesets)
  /\ Goto(w, "fetch", after[w])
  /\ next' = [next EXCEPT ![w] = 1]
  /\ UNCHANGED <<file, holder, global, after, prefdata, wanted, got>>

Next ==
  \/ \E w \in Workers :
       \/ Sub(w) \/ ReadConf(w) \/ UpdateConf(w) \/ RefreshRules(w)
       \/ WriteConf(w) \/ Lock(w) \/ Read(w) \/ Load(w) \/ Decide(w)
       \/ Copy(w) \/ Compare(w) \/ Take(w) \/ Answer(w)
       \/ Erase(w) \/ Fetch(w) \/ Fetched(w)
  \/ Edit

Spec == Init /\ [][Next]_vars

-----------------------------------------------------------------------------
GlobalLists == {<<>>} \cup {f.rules : f \in Files}

TypeOK ==
  /\ file \in Files \cup {Unreadable}
  /\ holder \in Workers \cup {Nobody}
  /\ customRulesets \in GlobalLists
  /\ updateRulesetOnRequest \in BOOLEAN
  /\ pc \in [Workers -> PC]
  /\ after \in [Workers -> {"idle", "copy", "take"}]
  /\ prefdata \in [Workers -> Files \cup {Unreadable}]
  /\ wanted \in [Workers -> GlobalLists \cup External]

\* One reload of the preferences at a time, whatever the handlers that ask for
\* it: the worker between the lock and the end of readConf() is the holder.
OneReload ==
  \A w \in Workers : pc[w] \in {"read", "load"} <=> holder = w

\* A request that brings its own rulesets is answered from them, whatever
\* reloads and refreshes run beside it.
ExternalIsIsolated ==
  \A w \in Workers : pc[w] = "answer" /\ wanted[w] \in External => got[w] = wanted[w]

\* What a reload leaves comes from the file it read: nothing of the lists that
\* were there before survives it, even when the file cannot be loaded.
ReloadReplacesRules ==
  [][\A w \in Workers :
       pc[w] = "load" /\ pc'[w] # "load"
         => customRulesets' = IF prefdata[w] = Unreadable THEN <<>>
                                                          ELSE prefdata[w].rules]_vars
=============================================================================
