------------------------------ MODULE Parsers ------------------------------
(***************************************************************************)
(* explodeConfContent(): the text of a subscription or of a local file     *)
(* becomes nodes.  Words in it choose the parser; a text that holds none   *)
(* goes to explodeSub(), which tries SSD, Clash, Surge, and Surge and      *)
(* links in base64, until one takes it.                                    *)
(*                                                                         *)
(* A document is [format, marks, common, entries]: what it is, the words   *)
(* looked for that it holds, what it says once for all, and its entries.   *)
(* One step reads one entry, as module Entries says.                       *)
(***************************************************************************)
EXTENDS Entries, SequencesExt

CONSTANT Documents

VARIABLES
  doc,
  reader,    \* the parser at work or asked next; done, or thrown
  at,        \* the entry it comes to; 0 before it has started
  locals,    \* its variables declared outside the loop
  parsed,    \* nodes, each with the entry it was made From
  index

vars == <<doc, reader, at, locals, parsed, index>>

Init ==
  /\ doc \in Documents
  /\ reader = "choose" /\ at = 0
  /\ locals = Fresh
  /\ parsed = <<>> /\ index = 0

-----------------------------------------------------------------------------
(* Which parser *)

\* Mutant: the configuration of the libev client is not told from the others.
FileTypeForgetful(marks) ==
  CASE "version" \in marks -> "ssconf"
    [] "serverSubscribes" \in marks -> "ssrconf"
    [] "uiItem" \in marks \/ "vnext" \in marks -> "v2ray"
    [] "proxy_apps" \in marks -> "ssandroid"
    [] "idInUse" \in marks -> "sstap"
    [] "ModeFileNameType" \in marks -> "netchconf"
    [] OTHER -> "sub"

\* The first that holds decides.
FileType(marks) ==
  IF "version" \in marks THEN "ssconf"
  ELSE IF "serverSubscribes" \in marks THEN "ssrconf"
  ELSE IF "uiItem" \in marks \/ "vnext" \in marks THEN "v2ray"
  ELSE IF "proxy_apps" \in marks THEN "ssandroid"
  ELSE IF "idInUse" \in marks THEN "sstap"
  ELSE IF {"local_address", "local_port"} \subseteq marks THEN "ssrconf"
  ELSE IF "ModeFileNameType" \in marks THEN "netchconf"
  ELSE "sub"

\* What each parser can read.
Reads(r) ==
  CASE r = "ssrconf" -> {"ssrconf", "libev"}
    [] r = "v2ray" -> {"v2rayn", "outbound"}
    [] r = "decoded" -> {"surge64"}
    [] OTHER -> {r}

Ask(r) ==
  /\ reader' = r /\ at' = 0
  /\ UNCHANGED <<doc, locals, parsed, index>>

Choose == reader = "choose" /\ Ask(FileType(doc.marks))

\* A text with the words of Clash is loaded as YAML, and it may be none.
Sub ==
  /\ reader = "sub"
  /\ \/ "ssd://" \in doc.marks /\ Ask("ssd")
     \/ "ssd://" \notin doc.marks /\ "Proxy:" \in doc.marks
        /\ IF doc.format = "clash" THEN Ask("clash") ELSE Ask("surge") \/ Ask("thrown")
     \/ {"ssd://", "Proxy:"} \cap doc.marks = {} /\ Ask("surge")

-----------------------------------------------------------------------------
(* Reading *)

ReadEntry(l, e) ==
  CASE doc.format = "clash" -> ClashEntry(l, e)
    [] doc.format \in {"surge", "surge64"} -> SurgeEntry(l, e)
    [] doc.format = "ssd" -> SSDEntry(l, e, doc.common)
    [] doc.format = "ssconf" -> SSConfEntry(l, e, doc.common)
    [] doc.format = "ssandroid" -> SSAndroidEntry(l, e)
    [] doc.format = "ssrconf" -> SSREntry(l, e)
    [] doc.format = "libev" -> LibevEntry(l, e)
    [] doc.format = "outbound" -> OutboundEntry(l, e)
    [] doc.format = "v2rayn" -> V2RayNEntry(l, e)
    [] doc.format = "sstap" -> SSTapEntry(l, e)
    [] doc.format = "netchconf" -> NetchEntry(l, e)
    [] OTHER -> LinkEntry(l, e)

\* node.Id is set by the loops, not for a single node nor for links.
Numbered == doc.format \notin {"libev", "outbound", "links"}

Working == reader \notin {"choose", "sub", "done", "thrown"}

Start ==
  /\ Working /\ at = 0
  /\ at' = IF doc.format \in Reads(reader) THEN 1 ELSE Len(doc.entries) + 1
  /\ locals' = Fresh
  /\ UNCHANGED <<doc, reader, parsed, index>>

Read ==
  /\ Working /\ at \in DOMAIN doc.entries
  /\ LET result == ReadEntry(locals, doc.entries[at])
         node(made) == [From |-> at, Id |-> IF Numbered THEN index ELSE 0] @@ made
     IN  IF result.throws
         THEN reader' = "thrown" /\ UNCHANGED <<at, locals, parsed, index>>
         ELSE /\ at' = at + 1
              /\ locals' = result.locals
              /\ parsed' = parsed \o [i \in DOMAIN result.adds |-> node(result.adds[i])]
              /\ index' = index + Len(result.adds)
              /\ UNCHANGED reader
  /\ UNCHANGED doc

\* Surge has not taken the text when no node came of it.
Finish ==
  /\ Working /\ at > Len(doc.entries)
  /\ Ask(IF reader = "surge" /\ index = 0
         THEN IF "vmess=" \in doc.marks THEN "decoded" ELSE "links"
         ELSE IF reader = "decoded" /\ index = 0 THEN "links"
         ELSE "done")

Next == Choose \/ Sub \/ Start \/ Read \/ Finish

Spec == Init /\ [][Next]_vars

-----------------------------------------------------------------------------
(* Properties *)

\* What an entry gives in a document of its own.
Alone(e) == ReadEntry(Fresh, e)

\* The fields that an entry takes from those before it when it leaves them out:
\* the ends of a VMess node of Clash whose network has none, a plugin that is
\* not known or comes without options, the password of Snell, and the names of
\* SSD and of the client of Shadowsocks.
Inherited(e) ==
  CASE doc.format = "clash" /\ Says(e, "type") = "vmess" /\ Has(e, "net")
         /\ e.net \notin {"http", "h2", "ws", "grpc"} ->
         {"Host", "Path", "Edge", "QUICSecure", "QUICSecret"}
    [] doc.format = "clash" /\ Says(e, "type") = "vmess" /\ ~Has(e, "net") -> {"Host", "Path", "Edge"}
    [] doc.format = "clash" /\ Says(e, "type") = "ss" ->
         IF Has(e, "plugin") /\ e.plugin \notin {"obfs", "v2ray-plugin"}
         THEN {"Plugin", "PluginOption"}
         ELSE IF Has(e, "plugin-opts") \/ (Has(e, "obfs") /\ ~Has(e, "plugin")) THEN {}
         ELSE {"PluginOption"}
    [] doc.format = "clash" /\ Says(e, "type") = "snell" /\ Says(e, "password") = "" -> {"Password"}
    [] doc.format \in {"ssd", "ssconf"} /\ Says(e, "ps") = "" -> {"Remark"}
    [] OTHER -> {}

\* Every node says what its entry says, as if the entry were alone in the
\* document: of what came before it, it holds the fields listed and no other.
EntriesStandAlone ==
  \A i \in DOMAIN parsed :
    LET node  == parsed[i]
        e     == doc.entries[node.From]
        alone == Alone(e).adds
    IN  /\ alone # <<>>
        /\ \A f \in DOMAIN alone[1] \ Inherited(e) : f \in DOMAIN node /\ node[f] = alone[1][f]

\* The node reaches the server that its entry names, but for the ShadowsocksR
\* nodes of SSTap, and for the entries of Netch that nothing is known of.
ServersAreTheirs ==
  \A i \in DOMAIN parsed :
    LET node == parsed[i]
        e    == doc.entries[node.From]
    IN  \/ node.Hostname = Says(e, "server") /\ node.Port = Number(Or(Says(e, "port"), Says(doc.common, "port")))
        \/ doc.format = "sstap" /\ node.Type = "ShadowsocksR"
        \/ doc.format = "netchconf" /\ node = [From |-> node.From, Id |-> node.Id] @@ Unfilled

\* Whatever is tried before, the text comes to the parser that reads it, once:
\* each entry that gives a node alone gives one here, in the order of the text,
\* and the nodes are numbered without gap.
EveryEntryIsReadOnce ==
  reader = "done" =>
    /\ [i \in DOMAIN parsed |-> parsed[i].From]
         = SelectSeq([i \in DOMAIN doc.entries |-> i],
                     LAMBDA i : Alone(doc.entries[i]).adds # <<>>)
    /\ Numbered => \A i \in DOMAIN parsed : parsed[i].Id = i - 1
=============================================================================
