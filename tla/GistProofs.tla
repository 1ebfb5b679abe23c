----------------------------- MODULE GistProofs -----------------------------
(***************************************************************************)
(* Proofs about Gist, for any workers, targets, paths and number of        *)
(* uploads, with or without crashes: gistconf.ini is sound whenever it can *)
(* be read, and links stay current while uploads are not disturbed.        *)
(*                                                                         *)
(* At the end, proofs about the INIReader that gistconf.ini is changed     *)
(* with, for any sections, texts, flags and sequence of calls: its cached  *)
(* iterator is coherent.                                                   *)
(***************************************************************************)
EXTENDS MCGist, INIReader, FiniteSetTheorems, TLAPS

Confs == [token : BOOLEAN, id : Nat, path : BOOLEAN,
          paths : [Targets -> Paths \cup {None}], records : [Files -> Nat]]

Jobs == [path : Files, gist : Nat, version : Nat]

\* What a file says is true of the gists g: its id is one of theirs, and its
\* records lead to files of that one.
Sound(c, g) ==
  /\ c \in Confs /\ c.token
  /\ c.id # 0 => c.id \in DOMAIN g
  /\ \A f \in Files : c.records[f] # 0
       => c.records[f] = c.id /\ c.id \in DOMAIN g /\ g[c.id][f] # 0

\* A call holds a sound file, and what it uploads to is the gist of that file
\* unless it has none; once it is answered, its own file is there.
CallIsSound(w) ==
  /\ job[w] \in Jobs /\ job[w].version # 0
  /\ Sound(ini[w], gists)
  /\ ini[w].id # 0 => job[w].gist = ini[w].id
  /\ pc[w] = "request" => job[w].gist = ini[w].id
  /\ pc[w] # "request" => job[w].gist \in DOMAIN gists /\ gists[job[w].gist][job[w].path] # 0

IInv ==
  /\ uploads \in Nat
  /\ gists \in Seq([Files -> Nat])
  /\ pc \in [Workers -> {"idle", "request", "log", "truncate", "fill"}]
  /\ DOMAIN ini = Workers /\ DOMAIN job = Workers
  /\ conf # Torn => Sound(conf, gists)
  /\ \A w \in Workers : pc[w] # "idle" => CallIsSound(w)

-----------------------------------------------------------------------------
\* Gists are added and files are written, nothing is taken away.
Grown(g, h) ==
  \A i \in DOMAIN g : i \in DOMAIN h /\ \A f \in Files : g[i][f] # 0 => h[i][f] # 0

LEMMA SoundStays ==
  ASSUME NEW c, NEW g, NEW h, Grown(g, h), Sound(c, g)
  PROVE  Sound(c, h)
BY DEF Grown, Sound

\* A step that leaves the call of a worker alone keeps it sound.
LEMMA CallStays ==
  ASSUME NEW w \in Workers, Grown(gists, gists'), CallIsSound(w), pc'[w] = pc[w],
         ini'[w] = ini[w], job'[w] = job[w], Sound(ini[w], gists')
  PROVE  CallIsSound(w)'
<1>1. job[w].path \in Files
  BY DEF CallIsSound, Jobs
<1> QED BY <1>1 DEF CallIsSound, Grown

LEMMA InitIInv == Init => IInv
<1> SUFFICES ASSUME Init PROVE IInv
  OBVIOUS
<1>1. conf \in Confs /\ conf.token /\ conf.id = 0 /\ conf.records = NoFiles
  <2>1. conf \in [token : {TRUE}, id : {0}, path : BOOLEAN,
                  paths : [Targets -> Paths \cup {None}], records : {NoFiles}]
    BY DEF Init
  <2>2. NoFiles \in [Files -> Nat]
    BY DEF NoFiles
  <2>3. conf = [token |-> TRUE, id |-> 0, path |-> conf.path, paths |-> conf.paths,
                records |-> NoFiles]
    BY <2>1
  <2>4. conf.path \in BOOLEAN /\ conf.paths \in [Targets -> Paths \cup {None}]
    BY <2>1
  <2>5. [token |-> TRUE, id |-> 0, path |-> conf.path, paths |-> conf.paths,
         records |-> NoFiles] \in Confs
    BY <2>2, <2>4, Zenon DEF Confs
  <2>6. conf.token = TRUE /\ conf.id = 0 /\ conf.records = NoFiles
    BY <2>1
  <2> QED BY <2>3, <2>5, <2>6, Zenon
<1>2. Sound(conf, gists)
  BY <1>1 DEF Sound, NoFiles
<1> QED BY <1>2 DEF Init, IInv

LEMMA BeginStep ==
  ASSUME IInv, NEW w \in Workers, NEW t \in Targets, NEW p \in Paths \cup {None}, Begin(w, t, p)
  PROVE  IInv'
<1>1. Sound(conf, gists) /\ conf \in Confs
  BY DEF Begin, Usable, IInv, Sound
<1>2. PathFor(conf, t, p) \in Files
  BY <1>1 DEF PathFor, Files, Confs
<1>3. uploads + 1 \in Nat /\ uploads + 1 # 0
  BY DEF IInv
<1>4. /\ ini'[w] = conf /\ pc'[w] = "request"
      /\ job'[w] = [path |-> PathFor(conf, t, p), gist |-> conf.id, version |-> uploads + 1]
  BY DEF Begin, IInv
<1>5. CallIsSound(w)'
  <2>1. conf.id \in Nat
    BY <1>1 DEF Confs
  <2>2. job'[w] \in Jobs /\ job'[w].gist = conf.id /\ job'[w].version # 0
    BY <1>2, <1>3, <1>4, <2>1 DEF Jobs
  <2> QED BY <1>1, <1>4, <2>2 DEF Begin, CallIsSound
<1>6. ASSUME NEW u \in Workers, u # w, pc'[u] # "idle"
      PROVE  CallIsSound(u)'
  BY <1>6 DEF IInv, Begin, CallIsSound
<1>7. conf' # Torn => Sound(conf', gists')
  BY <1>1 DEF Begin
<1> QED BY <1>3, <1>5, <1>6, <1>7 DEF IInv, Begin

\* A step of the calls that moves one worker and keeps its file and its job.
LEMMA MoveStep ==
  ASSUME IInv, NEW w \in Workers, Fail(w) \/ Log(w) \/ Truncate(w)
  PROVE  IInv'
<1>1. /\ UNCHANGED <<gists, uploads, ini, job>>
      /\ \A u \in Workers : u # w => pc'[u] = pc[u]
      /\ pc' \in [Workers -> {"idle", "request", "log", "truncate", "fill"}]
  BY DEF IInv, Fail, Log, Truncate, Lost
<1>2. pc'[w] # "idle" => pc[w] \in {"log", "truncate"} /\ pc'[w] # "request"
  BY DEF IInv, Fail, Log, Truncate, Lost
<1>3. conf' # Torn => Sound(conf', gists')
  BY <1>1 DEF IInv, Fail, Log, Truncate
<1>4. ASSUME NEW u \in Workers, pc'[u] # "idle"
      PROVE  CallIsSound(u)'
  <2>1. CASE u = w
    BY <1>1, <1>2, <1>4, <2>1 DEF IInv, CallIsSound
  <2>2. CASE u # w
    BY <1>1, <1>4, <2>2 DEF IInv, CallIsSound
  <2> QED BY <2>1, <2>2
<1> QED BY <1>1, <1>3, <1>4 DEF IInv

\* What a request does to the gists, when it is carried out.
LEMMA UploadGrows ==
  ASSUME IInv, NEW w \in Workers, Create(w) \/ Modify(w)
  PROVE  /\ Grown(gists, gists') /\ gists' \in Seq([Files -> Nat])
         /\ job'[w] \in Jobs /\ job'[w].path = job[w].path /\ job'[w].version = job[w].version
         /\ job'[w].gist \in DOMAIN gists' /\ gists'[job'[w].gist][job'[w].path] # 0
         /\ ini[w].id # 0 => job'[w].gist = ini[w].id
<1>1. CallIsSound(w) /\ pc[w] = "request" /\ job[w].gist = ini[w].id
  BY DEF IInv, Create, Modify, CallIsSound
<1>2. job[w].path \in Files /\ job[w].version \in Nat /\ job[w].version # 0 /\ job[w].gist \in Nat
  BY <1>1 DEF CallIsSound, Jobs
<1>3. CASE Create(w)
  <2> DEFINE new == [NoFiles EXCEPT ![job[w].path] = job[w].version]
  <2>1. new \in [Files -> Nat] /\ new[job[w].path] = job[w].version
    BY <1>2 DEF NoFiles
  <2>2. gists' = Append(gists, new) /\ gists \in Seq([Files -> Nat])
    BY <1>3 DEF Create, IInv
  <2> HIDE DEF new
  <2>3. /\ gists' \in Seq([Files -> Nat]) /\ Len(gists') \in DOMAIN gists'
        /\ gists'[Len(gists')] = new /\ \A i \in DOMAIN gists : i \in DOMAIN gists' /\ gists'[i] = gists[i]
    BY <2>1, <2>2
  <2>4. Grown(gists, gists')
    BY <2>3 DEF Grown
  <2>5. job'[w] = [job[w] EXCEPT !.gist = Len(gists')]
    BY <1>3 DEF Create, IInv
  <2>6. Len(gists') \in Nat
    BY <2>3
  <2>7. job'[w] \in Jobs /\ job'[w].path = job[w].path /\ job'[w].version = job[w].version
        /\ job'[w].gist = Len(gists')
    BY <1>1, <2>5, <2>6 DEF CallIsSound, Jobs
  <2>8. ini[w].id = 0
    BY <1>1, <1>3 DEF Create
  <2> QED BY <1>2, <2>1, <2>3, <2>4, <2>7, <2>8
<1>4. CASE Modify(w)
  <2> DEFINE id == job[w].gist
  <2>1. id \in DOMAIN gists /\ UNCHANGED job
    BY <1>1, <1>4 DEF Modify, CallIsSound, Sound
  <2>2. gists' = [gists EXCEPT ![id] = [gists[id] EXCEPT ![job[w].path] = job[w].version]]
    BY <1>4 DEF Modify
  <2>3. gists \in Seq([Files -> Nat]) /\ gists[id] \in [Files -> Nat]
    BY <2>1 DEF IInv
  <2> DEFINE new == [gists[id] EXCEPT ![job[w].path] = job[w].version]
  <2>4. /\ new \in [Files -> Nat] /\ new[job[w].path] # 0
        /\ \A f \in Files : gists[id][f] # 0 => new[f] # 0
    BY <1>2, <2>3
  <2> HIDE DEF new
  <2>5. /\ gists' \in Seq([Files -> Nat]) /\ DOMAIN gists' = DOMAIN gists /\ gists'[id] = new
        /\ \A i \in DOMAIN gists : i # id => gists'[i] = gists[i]
    BY <2>1, <2>2, <2>3, <2>4 DEF new
  <2>6. Grown(gists, gists')
    BY <2>4, <2>5 DEF Grown
  <2> QED BY <1>1, <2>1, <2>4, <2>5, <2>6 DEF CallIsSound
<1> QED BY <1>3, <1>4

LEMMA UploadStep ==
  ASSUME IInv, NEW w \in Workers, Create(w) \/ Modify(w)
  PROVE  IInv'
<1>1. /\ UNCHANGED <<conf, uploads, ini>> /\ DOMAIN job' = Workers
      /\ \A u \in Workers : u # w => pc'[u] = pc[u] /\ job'[u] = job[u]
      /\ pc' \in [Workers -> {"idle", "request", "log", "truncate", "fill"}]
      /\ pc'[w] # "request" /\ pc[w] = "request"
  BY DEF IInv, Create, Modify, Answered, Lost
<1>2. conf' # Torn => Sound(conf', gists')
  BY <1>1, UploadGrows, SoundStays DEF IInv
<1>3. ASSUME NEW u \in Workers, pc'[u] # "idle"
      PROVE  CallIsSound(u)'
  <2>1. CASE u = w
    <3>1. CallIsSound(w)
      BY <1>1 DEF IInv
    <3>2. Sound(ini[w], gists')
      BY <3>1, UploadGrows, SoundStays DEF CallIsSound
    <3>3. job'[w].version # 0
      BY <3>1, UploadGrows DEF CallIsSound
    <3> QED BY <1>1, <2>1, <3>2, <3>3, UploadGrows DEF CallIsSound
  <2>2. CASE u # w
    <3>1. CallIsSound(u) /\ pc'[u] = pc[u] /\ ini'[u] = ini[u] /\ job'[u] = job[u]
      BY <1>1, <1>3, <2>2 DEF IInv
    <3>2. Sound(ini[u], gists')
      BY <3>1, UploadGrows, SoundStays DEF CallIsSound
    <3> QED BY <3>1, <3>2, UploadGrows, CallStays
  <2> QED BY <2>1, <2>2
<1> QED BY <1>1, <1>2, <1>3, UploadGrows DEF IInv

\* What is written, for a path other than "common".
LEMMA SavedFields ==
  ASSUME NEW c \in Confs, NEW j \in Jobs, j.path # Common
  PROVE  /\ Saved(c, j) \in Confs /\ Saved(c, j).token /\ Saved(c, j).id = j.gist
         /\ Saved(c, j).records = [c.records EXCEPT ![j.path] = j.gist]
<1> DEFINE own == [t \in Targets |-> IF t = j.path THEN None ELSE c.paths[t]]
           rec == [c.records EXCEPT ![j.path] = j.gist]
<1>1. own \in [Targets -> Paths \cup {None}] /\ rec \in [Files -> Nat] /\ j.gist \in Nat
  BY DEF Confs, Jobs
<1>2. Saved(c, j) = [c EXCEPT !.token = TRUE, !.id = j.gist, !.path = FALSE,
                              !.paths = own, !.records = rec]
  BY Zenon DEF Saved
<1> HIDE DEF own, rec
<1> QED BY <1>1, <1>2 DEF Confs, rec

LEMMA FillStep ==
  ASSUME Common \notin Paths \cup Targets, IInv, NEW w \in Workers, Fill(w)
  PROVE  IInv'
<1> DEFINE c == ini[w]
           j == job[w]
<1>1. CallIsSound(w) /\ pc[w] = "fill"
  BY DEF IInv, Fill
<1>2. c \in Confs /\ j \in Jobs /\ j.path # Common
  BY <1>1, GistAssumption DEF CallIsSound, Sound, Jobs, Files
<1>3. /\ Saved(c, j) \in Confs /\ Saved(c, j).token /\ Saved(c, j).id = j.gist
      /\ Saved(c, j).records = [c.records EXCEPT ![j.path] = j.gist]
  BY <1>2, SavedFields
<1>4. Saved(c, j) \in Confs
  BY <1>3
<1>5. Sound(Saved(c, j), gists)
  <2>1. j.gist \in DOMAIN gists /\ gists[j.gist][j.path] # 0
    BY <1>1 DEF CallIsSound
  <2>2. ASSUME NEW f \in Files, Saved(c, j).records[f] # 0
        PROVE  Saved(c, j).records[f] = j.gist /\ gists[j.gist][f] # 0
    <3>1. CASE f = j.path
      BY <1>2, <1>3, <2>1, <3>1 DEF Confs
    <3>2. CASE f # j.path
      <4>1. Saved(c, j).records[f] = c.records[f]
        BY <1>2, <1>3, <3>2 DEF Confs
      <4>2. c.records[f] = c.id /\ c.id # 0 /\ gists[c.id][f] # 0
        BY <1>1, <2>2, <4>1 DEF CallIsSound, Sound
      <4>3. j.gist = c.id
        BY <1>1, <4>2 DEF CallIsSound
      <4> QED BY <4>1, <4>2, <4>3
    <3> QED BY <3>1, <3>2
  <2>3. Saved(c, j).id = j.gist /\ Saved(c, j).token
    BY <1>3
  <2> QED BY <1>4, <2>1, <2>2, <2>3 DEF Sound
<1>6. /\ UNCHANGED <<gists, uploads, ini, job>> /\ conf' = Saved(c, j) /\ pc'[w] = "idle"
      /\ pc' \in [Workers -> {"idle", "request", "log", "truncate", "fill"}]
      /\ \A u \in Workers : u # w => pc'[u] = pc[u]
  BY DEF IInv, Fill
<1>7. \A u \in Workers : pc'[u] # "idle" => CallIsSound(u)'
  BY <1>6 DEF IInv, CallIsSound
<1> QED BY <1>5, <1>6, <1>7 DEF IInv

LEMMA NextIInv ==
  ASSUME Common \notin Paths \cup Targets, IInv, [Next]_vars
  PROVE  IInv'
<1>1. CASE Crash
  BY <1>1 DEF Crash, IInv
<1>2. CASE UNCHANGED vars
  BY <1>2 DEF vars, calls, IInv, CallIsSound
<1> QED BY <1>1, <1>2, BeginStep, MoveStep, UploadStep, FillStep DEF Next

-----------------------------------------------------------------------------
\* gistconf.ini, whenever it can be read, names one gist, its links lead to
\* files of that gist, and the token of the user is there: for any number of
\* requests side by side, failures, lost answers and crashes, as long as no
\* upload has the path "common".
THEOREM ConfStaysSound ==
  ASSUME Common \notin Paths \cup Targets
  PROVE  Spec => []ConfIsSound
<1>1. IInv /\ [Next]_vars => IInv'
  BY NextIInv
<1>2. IInv => ConfIsSound
  BY DEF IInv, Sound, ConfIsSound, RecordsAreUploaded, TokenIsKept
<1> QED BY InitIInv, <1>1, <1>2, PTL DEF Spec
-----------------------------------------------------------------------------
(* Links, as long as no upload runs beside another or is cut off. *)

\* What holds of the one upload that may be under way: it was begun with the
\* file as it is and with the newest version, and once it is answered its file
\* is at least that new.
OneUpload == \A u, w \in Workers : pc[u] # "idle" /\ pc[w] # "idle" => u = w

UploadIsNewest ==
  \A w \in Workers :
    /\ pc[w] = "request" => ini[w] = conf /\ job[w].version = uploads
    /\ pc[w] = "log" => gists[job[w].gist][job[w].path] >= job[w].version

VersionsAreUploads == \A i \in DOMAIN gists, f \in Files : gists[i][f] <= uploads

\* Every link leads to the one gist there is: that of the file, or that of the
\* upload that is about to write the file.
Quiet == \A w \in Workers : pc[w] \in {"idle", "request"}

OneGist ==
  \A l \in links :
    /\ l.gist \in DOMAIN gists /\ l.path \in Files
    /\ Quiet => l.gist = conf.id
    /\ \A w \in Workers : pc[w] \in {"log", "truncate", "fill"} => l.gist = job[w].gist

LinksInv ==
  /\ OneUpload
  /\ UploadIsNewest
  /\ VersionsAreUploads
  /\ OneGist
  /\ \A l \in links : gists[l.gist][l.path] >= done[l.path]

Undisturbed == done \in [Files -> Nat] /\ (~disturbed => LinksInv)

\* A second upload disturbs: a step that leaves one at most leaves the same one.
LEMMA StaysAlone ==
  ASSUME IInv, OneUpload, Next, ~(Cardinality(Uploading') > 1)
  PROVE  OneUpload'
<1>1. CASE Crash
  BY <1>1 DEF Crash, OneUpload
<1>2. CASE \E x \in Workers : \A y \in Workers : y # x => pc'[y] = pc[y]
  <2>1. PICK x \in Workers : \A y \in Workers : y # x => pc'[y] = pc[y]
    BY <1>2
  <2> SUFFICES ASSUME NEW u \in Workers, NEW w \in Workers, pc'[u] # "idle", pc'[w] # "idle", u # w
               PROVE  FALSE
    BY DEF OneUpload
  <2>2. u = x \/ w = x
    BY <2>1 DEF OneUpload
  <2>3. \A y \in Workers : pc'[y] # "idle" => y \in {u, w}
    BY <2>1, <2>2 DEF OneUpload
  <2>4. Uploading' = {u} \cup {w}
    BY <2>3 DEF Uploading
  <2>5. IsFiniteSet({u}) /\ Cardinality({u}) = 1
    BY FS_Singleton
  <2>6. Cardinality({u} \cup {w}) = 2
    BY <2>5, FS_AddElement
  <2> QED BY <2>4, <2>6
<1>3. Crash \/ \E x \in Workers : \A y \in Workers : y # x => pc'[y] = pc[y]
  <2>1. ASSUME NEW x \in Workers, NEW t \in Targets, NEW p \in Paths \cup {None}, Begin(x, t, p)
        PROVE  \A y \in Workers : y # x => pc'[y] = pc[y]
    BY <2>1 DEF Begin, IInv
  <2>2. ASSUME NEW x \in Workers,
               Fail(x) \/ Create(x) \/ Modify(x) \/ Log(x) \/ Truncate(x) \/ Fill(x)
        PROVE  \A y \in Workers : y # x => pc'[y] = pc[y]
    BY <2>2 DEF Fail, Create, Modify, Log, Truncate, Fill, Answered, Lost, IInv
  <2> QED BY <2>1, <2>2 DEF Next
<1> QED BY <1>1, <1>2, <1>3

\* The others are idle, before the step of a call and after it.
LEMMA OthersIdle ==
  ASSUME OneUpload, OneUpload', NEW w \in Workers, pc[w] # "idle" \/ pc'[w] # "idle",
         \A u \in Workers : u # w => pc'[u] = pc[u]
  PROVE  \A u \in Workers : u # w => pc[u] = "idle" /\ pc'[u] = "idle"
BY DEF OneUpload

LEMMA BeginKeepsLinks ==
  ASSUME IInv, LinksInv, OneUpload', NEW w \in Workers, NEW t \in Targets,
         NEW p \in Paths \cup {None}, Begin(w, t, p)
  PROVE  LinksInv'
<1>1. /\ pc[w] = "idle" /\ pc'[w] = "request" /\ ini'[w] = conf /\ job'[w].version = uploads'
      /\ uploads' = uploads + 1 /\ UNCHANGED <<conf, gists, links, done>>
      /\ \A u \in Workers : u # w => pc'[u] = pc[u]
  BY DEF Begin, IInv
<1>2. \A u \in Workers : u # w => pc[u] = "idle" /\ pc'[u] = "idle"
  BY <1>1 DEF OneUpload
<1>3. Quiet
  BY <1>1, <1>2 DEF Quiet
<1>4. UploadIsNewest' /\ OneGist'
  BY <1>1, <1>2, <1>3 DEF UploadIsNewest, LinksInv, OneGist
<1>5. VersionsAreUploads'
  <2>1. ASSUME NEW i \in DOMAIN gists, NEW f \in Files
        PROVE  gists[i][f] <= uploads + 1
    BY DEF LinksInv, VersionsAreUploads, IInv
  <2> QED BY <1>1, <2>1 DEF VersionsAreUploads
<1> QED BY <1>1, <1>4, <1>5 DEF LinksInv

\* A request that fails is as if it had not been; what is written is left alone
\* until the call ends.
LEMMA MoveKeepsLinks ==
  ASSUME IInv, LinksInv, OneUpload', NEW w \in Workers, Fail(w) \/ Truncate(w)
  PROVE  LinksInv'
<1>1. /\ UNCHANGED <<gists, uploads, ini, job, links, done>>
      /\ \A u \in Workers : u # w => pc'[u] = pc[u]
      /\ \/ pc[w] = "request" /\ pc'[w] = "idle" /\ UNCHANGED conf
         \/ pc[w] = "truncate" /\ pc'[w] = "fill"
  BY DEF Fail, Truncate, Lost, IInv
<1>2. \A u \in Workers : u # w => pc[u] = "idle" /\ pc'[u] = "idle"
  BY <1>1, OthersIdle DEF LinksInv
<1>3. UploadIsNewest' /\ VersionsAreUploads'
  BY <1>1, <1>2 DEF UploadIsNewest, VersionsAreUploads, LinksInv
<1>4. OneGist'
  <2>1. CASE pc[w] = "request"
    <3>1. Quiet /\ Quiet'
      BY <1>1, <1>2, <2>1 DEF Quiet
    <3> QED BY <1>1, <1>2, <2>1, <3>1 DEF OneGist, LinksInv
  <2>2. CASE pc[w] = "truncate"
    <3>1. ~Quiet' /\ pc'[w] = "fill"
      BY <1>1, <2>2 DEF Quiet
    <3> QED BY <1>1, <1>2, <2>2, <3>1 DEF OneGist, LinksInv
  <2> QED BY <1>1, <2>1, <2>2
<1> QED BY <1>1, <1>3, <1>4 DEF LinksInv

\* There is no link yet when a gist is created.
LEMMA CreateKeepsLinks ==
  ASSUME IInv, LinksInv, OneUpload', NEW w \in Workers, Create(w)
  PROVE  LinksInv'
<1> DEFINE new == [NoFiles EXCEPT ![job[w].path] = job[w].version]
<1>1. CallIsSound(w) /\ pc[w] = "request" /\ job[w].gist = 0 /\ ini[w].id = 0
      /\ ini[w] = conf /\ job[w].version = uploads
  BY DEF IInv, Create, CallIsSound, LinksInv, UploadIsNewest
<1>2. /\ UNCHANGED <<conf, uploads, ini, links, done>> /\ pc'[w] \in {"log", "idle"}
      /\ job' = [job EXCEPT ![w].gist = Len(gists')] /\ gists' = Append(gists, new)
      /\ \A u \in Workers : u # w => pc'[u] = pc[u]
  BY DEF Create, Answered, Lost, IInv
<1>3. \A u \in Workers : u # w => pc[u] = "idle" /\ pc'[u] = "idle"
  BY <1>1, <1>2, OthersIdle DEF LinksInv
<1>4. links = {}
  <2>1. Quiet
    BY <1>1, <1>3 DEF Quiet
  <2>2. \A l \in links : l.gist = 0 /\ l.gist \in DOMAIN gists
    BY <1>1, <2>1 DEF LinksInv, OneGist
  <2>3. 0 \notin DOMAIN gists
    BY DEF IInv
  <2> QED BY <2>2, <2>3
<1>5. job[w].path \in Files /\ job[w].version \in Nat
  BY <1>1 DEF CallIsSound, Jobs
<1>6. new \in [Files -> Nat] /\ new[job[w].path] = uploads /\ \A f \in Files : new[f] <= uploads
  BY <1>1, <1>5 DEF NoFiles, IInv
<1>7. /\ DOMAIN gists' = 1..Len(gists) + 1 /\ Len(gists') = Len(gists) + 1 /\ Len(gists) \in Nat
      /\ gists'[Len(gists) + 1] = new /\ \A i \in 1..Len(gists) : gists'[i] = gists[i]
      /\ DOMAIN gists = 1..Len(gists)
  <2> HIDE DEF new
  <2> QED BY <1>2, <1>6 DEF IInv
<1>8. VersionsAreUploads'
  <2> HIDE DEF new
  <2> SUFFICES ASSUME NEW i \in 1..Len(gists) + 1, NEW f \in Files
               PROVE  gists'[i][f] <= uploads
    BY <1>2, <1>7 DEF VersionsAreUploads
  <2>1. CASE i = Len(gists) + 1
    BY <1>6, <1>7, <2>1
  <2>2. CASE i \in 1..Len(gists)
    BY <1>7, <2>2 DEF LinksInv, VersionsAreUploads
  <2> QED BY <1>7, <2>1, <2>2
<1>9. UploadIsNewest'
  <2>1. job'[w].gist = Len(gists') /\ job'[w].path = job[w].path /\ job'[w].version = uploads
    BY <1>1, <1>2 DEF IInv, CallIsSound, Jobs
  <2>2. gists'[job'[w].gist][job'[w].path] = job'[w].version /\ uploads \in Nat
    BY <1>6, <1>7, <2>1 DEF IInv
  <2> QED BY <1>2, <1>3, <2>1, <2>2 DEF UploadIsNewest
<1>10. OneGist'
  BY <1>2, <1>4 DEF OneGist
<1> QED BY <1>2, <1>4, <1>8, <1>9, <1>10 DEF LinksInv

\* A gist that is modified has newer files than before.
LEMMA ModifyKeepsLinks ==
  ASSUME IInv, LinksInv, done \in [Files -> Nat], OneUpload', NEW w \in Workers, Modify(w)
  PROVE  LinksInv'
<1> DEFINE id == job[w].gist
           new == [gists[id] EXCEPT ![job[w].path] = job[w].version]
<1>1. CallIsSound(w) /\ pc[w] = "request" /\ id = conf.id /\ ini[w] = conf /\ id # 0
      /\ job[w].version = uploads
  BY DEF IInv, Modify, CallIsSound, LinksInv, UploadIsNewest
<1>2. /\ UNCHANGED <<conf, uploads, ini, job, links, done>> /\ pc'[w] \in {"log", "idle"}
      /\ gists' = [gists EXCEPT ![id] = new]
      /\ \A u \in Workers : u # w => pc'[u] = pc[u]
  BY DEF Modify, Answered, Lost, IInv
<1>3. \A u \in Workers : u # w => pc[u] = "idle" /\ pc'[u] = "idle"
  BY <1>1, <1>2, OthersIdle DEF LinksInv
<1>4. job[w].path \in Files /\ uploads \in Nat /\ id \in DOMAIN gists /\ gists \in Seq([Files -> Nat])
  BY <1>1 DEF CallIsSound, Jobs, Sound, IInv
<1>5. \A f \in Files : gists[id][f] \in Nat /\ gists[id][f] <= uploads
  BY <1>4 DEF LinksInv, VersionsAreUploads
<1>6. /\ new \in [Files -> Nat] /\ new[job[w].path] = uploads
      /\ \A f \in Files : gists[id][f] <= new[f] /\ new[f] <= uploads
  BY <1>1, <1>4, <1>5
<1> HIDE DEF new
<1>7. /\ DOMAIN gists' = DOMAIN gists /\ gists'[id] = new
      /\ \A i \in DOMAIN gists : i # id => gists'[i] = gists[i]
  BY <1>2, <1>4
<1>8. VersionsAreUploads' /\ UploadIsNewest'
  <2>1. ASSUME NEW i \in DOMAIN gists, NEW f \in Files
        PROVE  gists'[i][f] <= uploads
    <3>1. CASE i = id
      BY <1>6, <1>7, <3>1
    <3>2. CASE i # id
      BY <1>7, <3>2 DEF LinksInv, VersionsAreUploads
    <3> QED BY <3>1, <3>2
  <2>2. gists'[job[w].gist][job[w].path] = uploads
    BY <1>6, <1>7
  <2>3. UploadIsNewest'
    BY <1>1, <1>2, <1>3, <1>4, <2>2 DEF UploadIsNewest
  <2> QED BY <1>2, <1>7, <2>1, <2>3 DEF VersionsAreUploads
<1>9. Quiet
  BY <1>1, <1>3 DEF Quiet
<1>10. OneGist'
  BY <1>1, <1>2, <1>3, <1>7, <1>9 DEF LinksInv, OneGist
<1>11. ASSUME NEW l \in links
       PROVE  gists'[l.gist][l.path] >= done[l.path]
  <2>1. l.gist = id /\ l.path \in Files /\ gists[id][l.path] >= done[l.path]
    BY <1>1, <1>9 DEF LinksInv, OneGist
  <2>2. gists[id][l.path] <= new[l.path] /\ gists[id][l.path] \in Nat /\ new[l.path] \in Nat
        /\ done[l.path] \in Nat
    BY <1>5, <1>6, <2>1
  <2> QED BY <1>7, <2>1, <2>2
<1> QED BY <1>2, <1>8, <1>9, <1>10, <1>11 DEF LinksInv

\* The link that is logged leads to what was just uploaded.
LEMMA LogKeepsLinks ==
  ASSUME IInv, LinksInv, done \in [Files -> Nat], OneUpload', NEW w \in Workers, Log(w)
  PROVE  LinksInv' /\ done' \in [Files -> Nat]
<1> DEFINE j == job[w]
<1>1. CallIsSound(w) /\ pc[w] = "log" /\ pc'[w] = "truncate" /\ gists[j.gist][j.path] >= j.version
  BY DEF IInv, Log, LinksInv, UploadIsNewest
<1>2. /\ UNCHANGED <<conf, gists, uploads, ini, job>>
      /\ links' = links \cup {[gist |-> j.gist, path |-> j.path]}
      /\ done' = [done EXCEPT ![j.path] = j.version]
      /\ \A u \in Workers : u # w => pc'[u] = pc[u]
  BY DEF Log, IInv
<1>3. \A u \in Workers : u # w => pc[u] = "idle" /\ pc'[u] = "idle"
  BY <1>1, <1>2, OthersIdle DEF LinksInv
<1>4. j.path \in Files /\ j.version \in Nat /\ j.gist \in DOMAIN gists
  BY <1>1 DEF CallIsSound, Jobs
<1>5. done' \in [Files -> Nat]
  BY <1>2, <1>4
<1>6. \A l \in links : l.gist = j.gist /\ l.path \in Files
  BY <1>1 DEF LinksInv, OneGist
<1>7. OneGist'
  <2>1. ~Quiet'
    BY <1>1 DEF Quiet
  <2>2. \A l \in links' : l.gist = j.gist /\ l.path \in Files
    BY <1>2, <1>4, <1>6
  <2> QED BY <1>1, <1>2, <1>3, <1>4, <2>1, <2>2 DEF OneGist
<1>8. ASSUME NEW l \in links'
      PROVE  gists[l.gist][l.path] >= done'[l.path]
  <2>1. CASE l.path = j.path
    <3>1. l.gist = j.gist
      BY <1>2, <1>6
    <3> QED BY <1>1, <1>2, <1>4, <2>1, <3>1
  <2>2. CASE l.path # j.path
    <3>1. l \in links
      BY <1>2, <2>2
    <3> QED BY <1>2, <1>6, <2>2, <3>1 DEF LinksInv
  <2> QED BY <2>1, <2>2
<1>9. UploadIsNewest' /\ VersionsAreUploads'
  BY <1>1, <1>2, <1>3 DEF UploadIsNewest, VersionsAreUploads, LinksInv
<1> QED BY <1>2, <1>5, <1>7, <1>8, <1>9 DEF LinksInv

\* The file gets the id of the gist all links lead to.
LEMMA FillKeepsLinks ==
  ASSUME Common \notin Paths \cup Targets, IInv, LinksInv, OneUpload', NEW w \in Workers, Fill(w)
  PROVE  LinksInv'
<1>1. CallIsSound(w) /\ pc[w] = "fill" /\ pc'[w] = "idle"
  BY DEF IInv, Fill
<1>2. /\ UNCHANGED <<gists, uploads, ini, job, links, done>> /\ conf' = Saved(ini[w], job[w])
      /\ \A u \in Workers : u # w => pc'[u] = pc[u]
  BY DEF Fill, IInv
<1>3. \A u \in Workers : u # w => pc[u] = "idle" /\ pc'[u] = "idle"
  BY <1>1, <1>2, OthersIdle DEF LinksInv
<1>4. ini[w] \in Confs /\ job[w] \in Jobs /\ job[w].path # Common
  BY <1>1, GistAssumption DEF CallIsSound, Sound, Jobs, Files
<1>5. conf' \in Confs /\ conf'.id = job[w].gist
  BY <1>2, <1>4, SavedFields
<1>7. OneGist'
  BY <1>1, <1>2, <1>3, <1>5 DEF LinksInv, OneGist
<1>8. UploadIsNewest' /\ VersionsAreUploads'
  BY <1>1, <1>2, <1>3 DEF UploadIsNewest, VersionsAreUploads, LinksInv
<1> QED BY <1>2, <1>7, <1>8 DEF LinksInv

LEMMA StepKeepsLinks ==
  ASSUME Common \notin Paths \cup Targets, IInv, Undisturbed, [MCNext]_<<vars, disturbed>>
  PROVE  Undisturbed'
<1>1. CASE UNCHANGED <<vars, disturbed>>
  BY <1>1 DEF vars, calls, Undisturbed, LinksInv, OneUpload, UploadIsNewest, VersionsAreUploads,
     OneGist, Quiet
<1>2. CASE MCNext
  <2>1. done' \in [Files -> Nat]
    <3>1. ASSUME NEW w \in Workers, Log(w) PROVE done' \in [Files -> Nat]
      <4>1. job[w].path \in Files /\ job[w].version \in Nat
        BY <3>1 DEF Log, IInv, CallIsSound, Jobs
      <4> QED BY <3>1, <4>1 DEF Log, Undisturbed
    <3>2. ASSUME NEW w \in Workers, NEW t \in Targets, NEW p \in Paths \cup {None}, Begin(w, t, p)
          PROVE  done' = done
      BY <3>2 DEF Begin
    <3> QED BY <1>2, <3>1, <3>2 DEF MCNext, Next, Fail, Create, Modify, Truncate, Fill, Crash, Undisturbed
  <2> SUFFICES ASSUME ~disturbed' PROVE LinksInv'
    BY <2>1 DEF Undisturbed
  <2>2. /\ Next /\ LinksInv /\ ~(Cardinality(Uploading') > 1) /\ ~(Uploading # {} /\ Crash)
        /\ done \in [Files -> Nat]
    BY <1>2 DEF MCNext, Undisturbed
  <2>3. OneUpload'
    BY <2>2, StaysAlone DEF LinksInv
  <2>4. ASSUME Crash PROVE LinksInv'
    <3>1. \A w \in Workers : pc[w] = "idle" /\ pc'[w] = "idle"
      BY <2>2, <2>4 DEF Crash, Uploading
    <3> QED BY <2>2, <2>4, <3>1 DEF Crash, LinksInv, OneUpload, UploadIsNewest, VersionsAreUploads,
               OneGist, Quiet
  <2> QED BY <2>2, <2>3, <2>4, BeginKeepsLinks, MoveKeepsLinks, CreateKeepsLinks, ModifyKeepsLinks,
             LogKeepsLinks, FillKeepsLinks DEF Next
<1> QED BY <1>1, <1>2

\* A link that the user was given stays the link of its file for good, whatever
\* is uploaded later, fails, or is carried out without an answer: as long as
\* no upload runs beside another, the process does not die in one, and none
\* has the path "common".
THEOREM LinksCurrent ==
  ASSUME Common \notin Paths \cup Targets
  PROVE  MCSpec => []LinksStayCurrent
<1>1. MCInit => IInv /\ Undisturbed
  <2> SUFFICES ASSUME MCInit PROVE IInv /\ Undisturbed
    OBVIOUS
  <2>1. IInv /\ gists = <<>> /\ links = {} /\ done = NoFiles /\ \A w \in Workers : pc[w] = "idle"
    BY InitIInv DEF MCInit, Init
  <2>2. done \in [Files -> Nat]
    BY <2>1 DEF NoFiles
  <2> QED BY <2>1, <2>2 DEF Undisturbed, LinksInv, OneUpload, UploadIsNewest, VersionsAreUploads, OneGist
<1>2. IInv /\ Undisturbed /\ [MCNext]_<<vars, disturbed>> => (IInv /\ Undisturbed)'
  <2>1. [MCNext]_<<vars, disturbed>> => [Next]_vars
    BY DEF MCNext
  <2> QED BY <2>1, NextIInv, StepKeepsLinks
<1>3. Undisturbed => LinksStayCurrent
  BY DEF Undisturbed, LinksInv, LinksStayCurrent
<1> QED BY <1>1, <1>2, <1>3, PTL DEF MCSpec

-----------------------------------------------------------------------------
(* The INIReader *)

\* Whatever Parse() and EraseAll() put into the map, they leave no section in
\* the cache.
LEMMA UncachedIsCoherent ==
  ASSUME Uncache
  PROVE  CacheIsCoherent'
BY DEF Uncache, CacheIsCoherent

\* A step that keeps the cache and destroys no section keeps it coherent.
LEMMA SameCacheIsCoherent ==
  ASSUME CacheIsCoherent,
         UNCHANGED <<cached, node>>,
         DOMAIN content \subseteq DOMAIN content'
  PROVE  CacheIsCoherent'
BY DEF CacheIsCoherent

\* Removing a section resets the cache if it held that section, and otherwise
\* leaves the cached section and its node alone.
LEMMA RemoveIsCoherent ==
  ASSUME CacheIsCoherent, NEW s \in Sections, RemoveSection(s)
  PROVE  CacheIsCoherent'
<1>1. CASE cached = s
  BY <1>1, UncachedIsCoherent DEF RemoveSection
<1>2. CASE cached # s
  <2>1. /\ cached' = cached
        /\ node' = IF node = s THEN Dangling ELSE node
        /\ DOMAIN content' = DOMAIN content \ {s}
    BY <1>2 DEF RemoveSection
  <2>2. QED BY <1>2, <2>1 DEF CacheIsCoherent
<1>3. QED BY <1>1, <1>2

\* Every call leaves the cache coherent.
LEMMA NextIsCoherent ==
  ASSUME CacheIsCoherent, [StoreNext]_storeVars
  PROVE  CacheIsCoherent'
<1>1. CASE Parse
  BY <1>1, UncachedIsCoherent DEF Parse
<1>2. CASE EraseAll
  BY <1>2, UncachedIsCoherent DEF EraseAll
<1>3. ASSUME NEW s \in Sections, EnterSection(s) PROVE CacheIsCoherent'
  BY <1>3 DEF EnterSection, SectionExist, CacheIsCoherent
<1>4. ASSUME NEW s \in Sections, SetCurrentSection(s) PROVE CacheIsCoherent'
  BY <1>4, SameCacheIsCoherent DEF SetCurrentSection
<1>5. ASSUME NEW s \in Sections, Lookup(s) PROVE CacheIsCoherent'
  BY <1>5, INIReaderAssumption DEF Lookup, Cache, SectionExist, CacheIsCoherent
<1>6. ASSUME NEW s \in Sections, EraseSection(s) PROVE CacheIsCoherent'
  <2>1. CASE cached = s
    BY <1>6, <2>1, UncachedIsCoherent DEF EraseSection
  <2>2. CASE cached # s
    <3>1. UNCHANGED <<cached, node>> /\ DOMAIN content' = DOMAIN content
      BY <1>6, <2>2 DEF EraseSection
    <3>2. QED BY <3>1, SameCacheIsCoherent
  <2>3. QED BY <2>1, <2>2
<1>7. ASSUME NEW s \in Sections, RemoveSection(s) PROVE CacheIsCoherent'
  BY <1>7, RemoveIsCoherent
<1>8. ASSUME NEW s \in Sections, NEW name \in Names, Erase(s, name)
      PROVE  CacheIsCoherent'
  <2>1. /\ cached' = cached
        /\ DOMAIN content' = DOMAIN content
        /\ node' \in {s, node} /\ (node' = s => cached = s \/ node = s)
    BY <1>8 DEF Erase
  <2>2. QED BY <2>1 DEF CacheIsCoherent
<1>9. ASSUME NEW s \in Sections, NEW name \in Names, EraseFirst(s, name)
      PROVE  CacheIsCoherent'
  <2>1. UNCHANGED <<cached, node>> /\ DOMAIN content' = DOMAIN content
    BY <1>9 DEF EraseFirst
  <2>2. QED BY <2>1, SameCacheIsCoherent
<1>10. ASSUME NEW s \in Sections, NEW name \in Names, NEW v \in Values, Set(s, name, v)
       PROVE  CacheIsCoherent'
  <2>1. UNCHANGED <<cached, node>> /\ DOMAIN content \subseteq DOMAIN content'
    BY <1>10 DEF Set, SectionExist
  <2>2. QED BY <2>1, SameCacheIsCoherent
<1>11. CASE UNCHANGED storeVars
  BY <1>11 DEF storeVars, CacheIsCoherent
<1>12. QED
  BY <1>1, <1>2, <1>3, <1>4, <1>5, <1>6, <1>7, <1>8, <1>9, <1>10, <1>11 DEF StoreNext

\* No call ever follows a stale or dangling iterator (cached_section_content):
\* what ItemExist(), Get() and the others read through the cache is the section
\* they were asked for.
THEOREM CacheCoherence == StoreSpec => []CacheIsCoherent
<1>1. StoreInit => CacheIsCoherent
  BY DEF StoreInit, CacheIsCoherent
<1>2. CacheIsCoherent /\ [StoreNext]_storeVars => CacheIsCoherent'
  BY NextIsCoherent
<1>3. QED BY <1>1, <1>2, PTL DEF StoreSpec
=============================================================================
