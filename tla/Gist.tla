-------------------------------- MODULE Gist --------------------------------
(***************************************************************************)
(* uploadGist() of src/src/lib/handler/upload.cpp: a request that asks for *)
(* it uploads its output to one gist of the user, whose id is kept in      *)
(* gistconf.ini beside the token and a section per uploaded file.          *)
(*                                                                         *)
(* The function reads the file, talks to the remote service, and writes    *)
(* the file from what it had read, without a lock.  gistconf.ini is what   *)
(* it holds: the token (or not), the id of the gist, the item `path` of    *)
(* [common], those of the sections of the user, and the sections written   *)
(* by uploads.  Torn is the file between fopen("wb") and its last byte.    *)
(* A version numbers what is uploaded.                                     *)
(***************************************************************************)
EXTENDS Naturals, Sequences

CONSTANTS
  Workers,      \* threads that serve requests
  Targets,      \* what is generated: surge4, clash, ...
  Paths,        \* upload_path of requests
  Common,       \* the section name "common", when used as a path
  Torn, None,
  Crashes,      \* may the process die and start again?
  MaxUploads    \* bound: uploads in a behaviour

ASSUME GistAssumption ==
  /\ MaxUploads \in Nat /\ Crashes \in BOOLEAN
  /\ None \notin Paths \cup Targets \cup {Common}

Files == Targets \cup Paths \cup {None}   \* names of files; None is the empty one

VARIABLES
  conf,         \* gistconf.ini
  gists,        \* remote: the gists created, each file -> version
  uploads,
  pc, ini, job, \* what a worker's call has read, and what it uploads
  links,        \* the Raw URLs that were logged: [gist, path]
  done          \* version of the last upload of a file that was reported

calls == <<pc, ini, job>>
vars  == <<conf, gists, uploads, calls, links, done>>

NoFiles == [f \in Files |-> 0]

\* The user wrote the token into the file, and perhaps where to upload to.
Init ==
  /\ conf \in [token : {TRUE}, id : {0}, path : BOOLEAN,
               paths : [Targets -> Paths \cup {None}], records : {NoFiles}]
  /\ gists = <<>>
  /\ uploads = 0
  /\ pc = [w \in Workers |-> "idle"]
  /\ ini = [w \in Workers |-> Torn]
  /\ job = [w \in Workers |-> [path |-> None, gist |-> 0, version |-> 0]]
  /\ links = {}
  /\ done = NoFiles

\* An upload without a path of its own: if [common] has an item `path`, it is
\* the one of the section named like the target that counts.
PathFor(c, target, path) ==
  IF path # None THEN path ELSE IF c.path THEN c.paths[target] ELSE target

\* Without a token, or with a file that does not parse, the upload is skipped.
Usable == conf # Torn /\ conf.token

Begin(w, target, path) ==
  /\ pc[w] = "idle" /\ uploads < MaxUploads /\ Usable
  /\ uploads' = uploads + 1
  /\ pc' = [pc EXCEPT ![w] = "request"]
  /\ ini' = [ini EXCEPT ![w] = conf]
  /\ job' = [job EXCEPT ![w] = [path    |-> PathFor(conf, target, path),
                                gist    |-> conf.id,
                                version |-> uploads + 1]]
  /\ UNCHANGED <<conf, gists, links, done>>

-----------------------------------------------------------------------------
(* The request: it may fail, and the answer may be lost on the way. *)

Answered(w) == pc' = [pc EXCEPT ![w] = "log"]
Lost(w)     == pc' = [pc EXCEPT ![w] = "idle"]

\* Mutant: the status of the answer is not looked at.
FailUnchecked(w) ==
  /\ pc[w] = "request"
  /\ Answered(w)
  /\ job' = [job EXCEPT ![w].gist = IF @ = 0 THEN 1 ELSE @]
  /\ UNCHANGED <<conf, gists, uploads, ini, links, done>>

Fail(w) ==
  /\ pc[w] = "request"
  /\ Lost(w)
  /\ UNCHANGED <<conf, gists, uploads, ini, job, links, done>>

\* A file needs a name.
Create(w) ==
  /\ pc[w] = "request" /\ job[w].gist = 0 /\ job[w].path # None
  /\ gists' = Append(gists, [NoFiles EXCEPT ![job[w].path] = job[w].version])
  /\ Answered(w) \/ Lost(w)
  /\ job' = [job EXCEPT ![w].gist = Len(gists')]
  /\ UNCHANGED <<conf, uploads, ini, links, done>>

Modify(w) ==
  /\ pc[w] = "request" /\ job[w].gist # 0 /\ job[w].path # None
  /\ gists' = [gists EXCEPT ![job[w].gist][job[w].path] = job[w].version]
  /\ Answered(w) \/ Lost(w)
  /\ UNCHANGED <<conf, uploads, ini, job, links, done>>

-----------------------------------------------------------------------------
(* "Writing to Gist success!", and the file is written. *)

Log(w) ==
  /\ pc[w] = "log"
  /\ pc' = [pc EXCEPT ![w] = "truncate"]
  /\ links' = links \cup {[gist |-> job[w].gist, path |-> job[w].path]}
  /\ done' = [done EXCEPT ![job[w].path] = job[w].version]
  /\ UNCHANGED <<conf, gists, uploads, ini, job>>

Truncate(w) ==
  /\ pc[w] = "truncate"
  /\ pc' = [pc EXCEPT ![w] = "fill"]
  /\ conf' = Torn
  /\ UNCHANGED <<gists, uploads, ini, job, links, done>>

\* Mutant: the id of a gist that is new is not saved.
SavedWithoutId(c, j) ==
  [c EXCEPT !.path = FALSE,
            !.paths = [t \in Targets |-> IF t = j.path THEN None ELSE @[t]],
            !.records[j.path] = j.gist]

\* [common] is erased but for the token, id and username; then the section
\* named like the file is erased and gets the type and the link.
Saved(c, j) ==
  [c EXCEPT !.token = (j.path # Common), !.id = IF j.path = Common THEN 0 ELSE j.gist,
            !.path = FALSE,
            !.paths = [t \in Targets |-> IF t = j.path THEN None ELSE @[t]],
            !.records[j.path] = j.gist]

Fill(w) ==
  /\ pc[w] = "fill"
  /\ pc' = [pc EXCEPT ![w] = "idle"]
  /\ conf' = Saved(ini[w], job[w])
  /\ UNCHANGED <<gists, uploads, ini, job, links, done>>

Crash ==
  /\ Crashes
  /\ pc' = [w \in Workers |-> "idle"]
  /\ UNCHANGED <<conf, gists, uploads, ini, job, links, done>>

Next ==
  \/ \E w \in Workers :
       \/ \E t \in Targets, p \in Paths \cup {None} : Begin(w, t, p)
       \/ Fail(w) \/ Create(w) \/ Modify(w)
       \/ Log(w) \/ Truncate(w) \/ Fill(w)
  \/ Crash

Spec == Init /\ [][Next]_vars

-----------------------------------------------------------------------------
\* Every link in gistconf.ini leads to a file of the one gist whose id the file
\* holds, whichever requests, answers and restarts came between.
RecordsAreUploaded ==
  conf # Torn => \A f \in Files : conf.records[f] # 0
                   => /\ conf.records[f] = conf.id
                      /\ conf.id \in DOMAIN gists /\ gists[conf.id][f] # 0

\* The token that the user wrote survives the uploads.
TokenIsKept == conf # Torn => conf.token

\* The file on the disk is sound whenever it can be read.
ConfIsSound == RecordsAreUploaded /\ TokenIsKept
=============================================================================
