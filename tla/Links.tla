------------------------------- MODULE Links -------------------------------
(***************************************************************************)
(* explode(): one link becomes one node, or leaves it as it was made.      *)
(*                                                                         *)
(* A link is a record: marks, the schemes whose text it contains; scheme,  *)
(* the one that it is; style, where a scheme has several; and the parts it *)
(* has, under the names of the locals they are read into.  It has a part   *)
(* "broken" when it does not have the form that the scheme requires.  Each *)
(* parser gives the sequence of the nodes it fills, <<>> or one.           *)
(***************************************************************************)
EXTENDS Proxies

Has(e, k) == k \in DOMAIN e

\* "if(port == "0") return;", and the returns for a link of another form.
Unreadable(e) == Has(e, "broken") \/ Says(e, "port") = "0"

Common == {"ps", "server", "port"}

-----------------------------------------------------------------------------
\* The group of a link with arguments is the one they name, be it none; the
\* options of a plugin without any are, by substr(npos + 1), its name.
explodeSS(e) ==
  LET l == Take(e, Common \cup {"password", "cipher", "plugin"})
           @@ [group |-> IF Has(e, "query") THEN Says(e, "group") ELSE "SSProvider",
               pluginopts |-> Opts(Or(Says(e, "popts"), Says(e, "plugin")))]
           @@ Fresh
  IN  IF Unreadable(e) THEN <<>> ELSE <<ssConstruct(Named(l))>>

explodeSSR(e) ==
  LET read == Take(e, Common \cup {"group", "cipher", "password", "protocol", "protoparam",
                                   "obfs", "obfsparam"}) @@ Fresh
      l == Named(Grouped(read, "SSRProvider"))
  IN  IF Unreadable(e) THEN <<>>
      ELSE <<IF IsSS(l) THEN ssConstruct(l) ELSE ssrConstruct(l)>>

-----------------------------------------------------------------------------
(* explodeVmess() and the styles of link it knows *)

VMessNode(l) == <<vmessConstruct(Grouped(l, "V2RayProvider"))>>

Net(e, networks) == IF Says(e, "net") \in networks THEN {"host", "path"} ELSE {}

\* The v2rayN link, JSON.  In version 1, host may be "host;path".
VmessJSON(e) ==
  LET read == Take(e, Common \cup {"type", "id", "aid", "net", "tls", "sni"})
      v    == Or(Says(e, "v"), "1")
      both == Has(e, "host;path")
      ends == [host |-> IF both /\ v # "1" THEN "host;path" ELSE Says(e, "host"),
               path |-> IF v = "2" \/ (v = "1" /\ both) THEN Says(e, "path") ELSE ""]
  IN  IF Unreadable(e) THEN <<>> ELSE VMessNode(ends @@ [cipher |-> "auto"] @@ read @@ Fresh)

\* net+tls:id-aid@add:port; the port may be 0.
explodeStdVMess(e) ==
  LET ends == CASE e.net \in {"tcp", "kcp"} -> Take(e, {"type"})
                [] e.net \in {"http", "ws"} -> Take(e, {"host", "path"})
                [] e.net = "quic" -> Take(e, {"type", "host", "path"})
                [] OTHER -> <<>>
      l == ends @@ Take(e, Common \cup {"net", "tls", "id", "aid"}) @@ [cipher |-> "auto"]
           @@ Fresh
  IN  IF Has(e, "broken") \/ ends = <<>> THEN <<>> ELSE VMessNode(Named(l))

explodeShadowrocket(e) ==
  LET obfs == Says(e, "obfs")
      ends == IF obfs = "" THEN Take(e, {"net", "host", "path"})
              ELSE IF obfs = "websocket" THEN [net |-> "ws"] @@ Take(e, {"host", "path"})
              ELSE [net |-> "tcp"]
      l == ends @@ Take(e, Common \cup {"cipher", "id"})
           @@ [tls |-> IF Says(e, "tls") = "1" THEN "tls" ELSE "", aid |-> Or(Says(e, "aid"), "0")]
           @@ Fresh
  IN  IF Unreadable(e) THEN <<>> ELSE VMessNode(Named(l))

explodeKitsunebi(e) ==
  LET l == Take(e, Common \cup {"id", "net", "host", "path"})
           @@ [tls |-> IF Says(e, "tls") = "true" THEN "tls" ELSE "", aid |-> "0",
               cipher |-> "auto"]
           @@ Fresh
  IN  IF Unreadable(e) THEN <<>> ELSE VMessNode(Named(l))

\* A line of Quantumult in base64.
explodeQuan(e) ==
  LET l == Take(e, Common \cup {"cipher", "id", "group", "host", "edge"})
           @@ [path |-> Or(Says(e, "path"), "/"), type |-> "none", aid |-> "0",
               net |-> IF Says(e, "obfs") = "ws" THEN "ws" ELSE "tcp",
               tls |-> IF Says(e, "tls") = "true" THEN "tls" ELSE ""]
           @@ Fresh
  IN  IF Unreadable(e) THEN <<>>
      ELSE VMessNode(l)

explodeVmess(e) ==
  CASE e.style = "rocket" -> explodeShadowrocket(e)
    [] e.style = "std" -> explodeStdVMess(e)
    [] e.style = "kitsunebi" -> explodeKitsunebi(e)
    [] e.style = "quan" -> explodeQuan(e)
    [] OTHER -> VmessJSON(e)

-----------------------------------------------------------------------------
\* v2rayN's link has an address and a name, Telegram's the rest as well.
explodeSocks(e) ==
  LET K == Common \cup IF e.style = "tg" THEN {"user", "password", "group"} ELSE {}
  IN  IF Unreadable(e) THEN <<>>
      ELSE <<socksConstruct(Named(Grouped(Take(e, K) @@ Fresh, "SocksProvider")))>>

\* Telegram's link to an HTTP proxy, and that of explodeHTTPSub().
explodeHTTP(e) ==
  LET read == Take(e, Common \cup {"user", "password", "group"}) @@ Fresh
  IN  IF Unreadable(e) THEN <<>>
      ELSE <<httpConstruct(Named(Grouped(read, "HTTPProvider")), Has(e, "https"))>>

explodeTrojan(e) ==
  LET ws   == Says(e, "ws") = "1"
      read == Take(e, Common \cup {"password", "tfo", "scv", "group"})
              @@ [host |-> Or(Says(e, "host"), Says(e, "peer")),
                  net |-> IF ws THEN "ws" ELSE "", path |-> IF ws THEN Says(e, "path") ELSE ""]
              @@ Fresh
  IN  IF Unreadable(e) THEN <<>>
      ELSE <<trojanConstruct(Named(Grouped(read, "TrojanProvider")), TRUE)>>

-----------------------------------------------------------------------------
\* explodeNetch(): a JSON object, alone as a link or in Netch's configuration.
NetchCommon == Common \cup {"group", "udp", "tfo", "scv", "cipher", "password"}

NetchSS(e, group) ==
  ssConstruct(Named(Grouped(Take(e, NetchCommon \cup {"plugin"})
                            @@ [pluginopts |-> Opts(Says(e, "popts"))] @@ Fresh, group)))

explodeNetch(e) ==
  LET l(K, group) == Named(Grouped(Take(e, NetchCommon \cup K) @@ Fresh, group))
      ssr == l({"protocol", "protoparam", "obfs", "obfsparam"}, "SSRProvider")
      type == Says(e, "type")
  IN  IF Unreadable(e) THEN <<>>
      ELSE CASE type = "SS" -> <<NetchSS(e, "SSProvider")>>
             [] type = "SSR" -> <<IF IsSS(ssr) THEN NetchSS(e, "SSProvider")
                                  ELSE ssrConstruct(ssr)>>
             [] type = "VMess" ->
                  <<vmessConstruct([l({"id", "aid", "net", "host", "path", "edge", "tls", "sni"},
                                      "V2RayProvider") EXCEPT !.type = Says(e, "faketype")])>>
             [] type = "Socks5" -> <<socksConstruct(l({"user"}, "SocksProvider"))>>
             [] type \in {"HTTP", "HTTPS"} ->
                  <<httpConstruct(l({}, "HTTPProvider"), type = "HTTPS")>>
             [] type = "Trojan" ->
                  <<trojanConstruct(l({"host", "path", "net"}, "TrojanProvider"),
                                    Says(e, "tls") = "true")>>
             [] type = "Snell" -> <<snellConstruct(l({"obfs", "host", "aid"}, "SnellProvider"))>>
             [] OTHER -> <<>>

-----------------------------------------------------------------------------
\* The tests of explode(), first to last: each asks whether the link contains
\* a text, and "ss://" is contained in "vmess://".
Schemes == <<"ssr", "vmess", "ss", "socks", "http", "netch", "trojan", "link">>

ReadAs(marks) ==
  LET found == {i \in DOMAIN Schemes : Schemes[i] \in marks}
  IN  IF found = {} THEN "none"
      ELSE Schemes[CHOOSE i \in found : \A j \in found : i <= j]

\* A text of one scheme has not the form that another one requires.
explode(e) ==
  LET as == ReadAs(e.marks)
  IN  IF as # e.scheme THEN <<>>
      ELSE CASE as = "ss" -> explodeSS(e)
             [] as = "ssr" -> explodeSSR(e)
             [] as = "vmess" -> explodeVmess(e)
             [] as = "socks" -> explodeSocks(e)
             [] as = "netch" -> explodeNetch(e)
             [] as = "trojan" -> explodeTrojan(e)
             [] as \in {"http", "link"} -> explodeHTTP(e)
             [] OTHER -> <<>>
=============================================================================
