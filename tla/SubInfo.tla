------------------------------ MODULE SubInfo ------------------------------
(***************************************************************************)
(* The user info of a subscription: how much of its traffic is used, and   *)
(* when it ends.  It comes from a header, from an SSD document, or from    *)
(* the names of nodes, which rules turn into arguments.                    *)
(*                                                                         *)
(* An amount is [n, unit], a percentage [percent], a date [left] or [at];  *)
(* info that is not known is the empty sequence.                           *)
(***************************************************************************)
EXTENDS Integers, Sequences, SequencesExt

CONSTANTS
  Step,    \* what a unit is worth of the one before: 1024
  Word,    \* 2^64, the range of an unsigned long long
  Day, Now

units == <<"B", "KB", "MB", "GB", "TB", "PB", "EB">>

None == <<>>

Info(used, total, expire) == [download |-> used, total |-> total, expire |-> expire]

\* An amount without a unit is taken for one byte.
streamToInt(stream) ==
  IF stream = None THEN 0
  ELSE LET index == SelectInSeq(units, LAMBDA u : u = stream.unit)
       IN  IF index = 0 THEN 1 ELSE stream.n * Step ^ (index - 1)

\* What is left after hours, or anything but days, is left for no time at all.
dateStringToTimestamp(date) ==
  IF date = None THEN 0
  ELSE IF "at" \in DOMAIN date THEN date.at
  ELSE Now + (IF date.unit = "d" THEN date.left * Day ELSE 0)

-----------------------------------------------------------------------------
(* getSubInfoFromNodes().  A rule maps the names it matches to what they    *)
(* become; None stands for a name that stays as it is, which goes on to the *)
(* next rule.                                                               *)

ByRules(rules, remark) ==
  LET rule == SelectInSeq(rules, LAMBDA r : remark \in DOMAIN r /\ r[remark] # None)
  IN  IF rule = 0 THEN None ELSE rules[rule][remark]

\* The first node that a rule makes something of.
FirstOf(rules, nodes) ==
  LET node == SelectInSeq(nodes, LAMBDA remark : ByRules(rules, remark) # None)
  IN  IF node = 0 THEN None ELSE ByRules(rules, nodes[node])

Arg(stream, name) == IF name \in DOMAIN stream THEN stream[name] ELSE None

\* The double that a division yields is converted to an unsigned long long,
\* which is undefined when it divides by zero: 0 and 2^63 are what processors
\* give.
Divided(a, b) == IF b = 0 THEN {0, Word \div 2} ELSE {((a * 100) \div b) % Word}

\* total is a percentage: the part that is left.
TotalByPercent(used, percent, left) ==
  IF used # None THEN Divided(streamToInt(used), 100 - percent) ELSE Divided(streamToInt(left), percent)

Traffic(stream) ==
  LET total == Arg(stream, "total")
      used  == Arg(stream, "used")
      left  == Arg(stream, "left")
      Of(all) == IF used # None THEN streamToInt(used)
                 ELSE IF left # None THEN (all - streamToInt(left)) % Word
                 ELSE 0
  IN  IF total # None /\ "percent" \in DOMAIN total
      THEN IF used = None /\ left = None THEN {<<0, 0>>}
           ELSE {<<Of(all), all>> : all \in TotalByPercent(used, total.percent, left)}
      ELSE {<<Of(streamToInt(total)), streamToInt(total)>>}

getSubInfoFromNodes(nodes, stream_rules, time_rules) ==
  LET stream == FirstOf(stream_rules, nodes)
      time   == FirstOf(time_rules, nodes)
  IN  IF stream = None /\ time = None THEN {None}
      ELSE {Info(t[1], t[2], dateStringToTimestamp(time)) : t \in Traffic(stream)}

-----------------------------------------------------------------------------
(* The other two origins *)

\* A header without a value is as good as none.
getSubInfoFromHeader(header) == header

\* ssd is [used, total, expiry], with the traffic in GB.
getSubInfoFromSSD(ssd) ==
  IF ssd.used = None \/ ssd.total = None THEN None
  ELSE Info(streamToInt(ssd.used), streamToInt(ssd.total), dateStringToTimestamp(ssd.expiry))

(***************************************************************************)
(* The part of addNodes() that looks for user info, before the nodes are   *)
(* filtered.  link is [kind, ssd, header, nodes]; ssd is None for a        *)
(* document of another kind.  A file is never taken for an SSD document,   *)
(* since the text that is looked at is that of a download.                 *)
(***************************************************************************)
InfoOf(link, stream_rules, time_rules) ==
  CASE link.kind = "link" -> {None}
    [] link.kind = "download" /\ link.ssd # None -> {getSubInfoFromSSD(link.ssd)}
    [] link.kind = "download" /\ link.ssd = None /\ link.header # None ->
         {getSubInfoFromHeader(link.header)}
    [] OTHER -> getSubInfoFromNodes(link.nodes, stream_rules, time_rules)
=============================================================================
