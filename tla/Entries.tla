------------------------------ MODULE Entries ------------------------------
(***************************************************************************)
(* How the parsers of subparser.cpp that read whole documents read one     *)
(* entry.  Most declare their variables before the loop over the entries,  *)
(* so that what an entry does not say may still be there from the one      *)
(* before: such a parser is given its locals and gives them back.  A       *)
(* member of JSON that is missing where none may be raises an exception,   *)
(* which nothing below the web server catches.                             *)
(*                                                                         *)
(* An entry is a record under the names of Proxies; common is what the     *)
(* document says once for all of them.                                     *)
(***************************************************************************)
EXTENDS Links

-----------------------------------------------------------------------------
(* What a parser makes of an entry e, given its locals l: the locals after *)
(* it, the nodes it adds, and whether it throws.                           *)

Skips(l)      == [locals |-> l, adds |-> <<>>, throws |-> FALSE]
Adds(l, node) == [locals |-> l, adds |-> <<node>>, throws |-> FALSE]
Throws(l)     == [locals |-> l, adds |-> <<>>, throws |-> TRUE]

Misses(e, K) == ~(K \subseteq DOMAIN e)

\* x = GetMember(...), and x >>= of YAML: nothing when the entry has nothing.
Assign(l, e, K) == Take(e, K) @@ l

\* GetMember(..., x), and x >> of YAML: x as it was when the entry has nothing.
AssignIfSaid(l, e, K) == [k \in {x \in K : Says(e, x) # ""} |-> e[k]] @@ l

-----------------------------------------------------------------------------
(* explodeClash() *)

\* Mutant: a network without options does not clear those of Trojan.
ClashTrojanKeeps(l, e) ==
  LET r == Assign(l, e, {"password", "net", "host"})
      ends == IF r.net \in {"grpc", "ws"} THEN Take(e, {"path"}) ELSE [net |-> "tcp"]
      used == [ends @@ r EXCEPT !.group = "TrojanProvider"]
  IN  Adds(used, trojanConstruct(used, TRUE))

\* Any network but these four finds path, host and edge as they were.
ClashVMess(l, e) ==
  LET net  == IF Has(e, "net") THEN Says(e, "net") ELSE "tcp"
      ends == CASE net \in {"http", "h2"} -> [edge |-> ""] @@ Take(e, {"path", "host"})
                [] net = "ws" -> [path |-> Or(Says(e, "path"), "/")] @@ Take(e, {"host", "edge"})
                [] net = "grpc" -> [host |-> Says(e, "sni"), edge |-> ""] @@ Take(e, {"path"})
                [] OTHER -> <<>>
      used == [ends @@ Assign(l, e, {"id", "aid", "cipher", "sni"})
                 EXCEPT !.net = net, !.group = "V2RayProvider",
                        !.tls = IF Says(e, "tls") = "true" THEN "tls" ELSE ""]
  IN  Adds(used, vmessConstruct([used EXCEPT !.type = ""]))

\* plugin: a name that is not known leaves the one of an earlier entry.
ClashPlugin(l, e) ==
  LET opts(K) == IF Has(e, "plugin-opts") THEN Take(e, K) ELSE <<>>
      name == Says(e, "plugin")
  IN  CASE Has(e, "plugin") /\ name = "obfs" ->
             [plugin |-> "obfs-local"] @@ opts({"mode", "phost"}) @@ l
        [] Has(e, "plugin") /\ name = "v2ray-plugin" ->
             [plugin |-> "v2ray-plugin"]
             @@ (IF Has(e, "plugin-opts")
                 THEN [tls |-> IF Says(e, "tls") = "true" THEN "tls;" ELSE "",
                       mux |-> IF Says(e, "mux") = "true" THEN "mux=4;" ELSE ""]
                      @@ Take(e, {"mode", "phost", "path"})
                 ELSE <<>>)
             @@ l
        [] Has(e, "plugin") -> l
        [] ~Has(e, "plugin") /\ Has(e, "obfs") ->
             [plugin |-> "obfs-local", mode |-> e.obfs, phost |-> Says(e, "obfs-host")] @@ l
        [] OTHER -> [plugin |-> ""] @@ l

ClashOptions(l) ==
  CASE l.plugin = "obfs-local" -> <<"obfs", l.mode, l.phost>>
    [] l.plugin = "v2ray-plugin" -> <<"mode", l.mode, l.tls, l.mux, l.phost, l.path>>
    [] OTHER -> l.pluginopts

\* The names of go-shadowsocks2, AEAD_AES_128_GCM for aes-128-gcm.
Canonical(cipher) ==
  CASE cipher = "AEAD_CHACHA20_POLY1305" -> "chacha20-ietf-poly1305"
    [] cipher = "AEAD_AES_128_GCM" -> "aes-128-gcm"
    [] OTHER -> cipher

ClashSS(l, e) ==
  LET r    == ClashPlugin(Assign(l, e, {"cipher", "password"}), e)
      used == [r EXCEPT !.group = "SSProvider", !.pluginopts = ClashOptions(r),
                        !.cipher = Canonical(@)]
  IN  Adds(used, ssConstruct(used))

\* udp, tfo and scv are not handed over.
ClashSocks(l, e) ==
  LET used == [Assign(l, e, {"user", "password"}) EXCEPT !.group = "SocksProvider"]
  IN  Adds(used, socksConstruct([used EXCEPT !.udp = "", !.tfo = "", !.scv = ""]))

ClashSSR(l, e) ==
  LET r    == Assign(l, e, {"cipher", "password", "protocol", "obfs", "protoparam", "obfsparam"})
      used == [r EXCEPT !.group = "SSRProvider", !.cipher = IF @ = "dummy" THEN "none" ELSE @]
  IN  Adds(used, ssrConstruct(used))

ClashHTTP(l, e) ==
  LET used == [Assign(l, e, {"user", "password", "tls"}) EXCEPT !.group = "HTTPProvider"]
  IN  Adds(used, httpConstruct(used, used.tls = "true"))

ClashTrojan(l, e) ==
  LET r    == Assign(l, e, {"password", "net", "host"})
      ends == IF r.net \in {"grpc", "ws"} THEN Take(e, {"path"})
              ELSE [net |-> "tcp", path |-> ""]
      used == [ends @@ r EXCEPT !.group = "TrojanProvider"]
  IN  Adds(used, trojanConstruct(used, TRUE))

\* The password is read with >>, all the rest with >>=.
ClashSnell(l, e) ==
  LET r    == AssignIfSaid(Assign(l, e, {"obfs", "host", "aid"}), e, {"password"})
      used == [r EXCEPT !.group = "SnellProvider"]
  IN  Adds(used, snellConstruct(used))

ClashEntry(l, e) ==
  LET common == Assign(l, e, {"ps", "server", "port"})
      r      == Assign(common, e, {"udp", "scv"})
      type   == Says(e, "type")
  IN  IF common.port \in {"", "0"} THEN Skips(common)
      ELSE CASE type = "vmess" -> ClashVMess(r, e)
             [] type = "ss" -> ClashSS(r, e)
             [] type = "socks5" -> ClashSocks(r, e)
             [] type = "ssr" -> ClashSSR(r, e)
             [] type = "http" -> ClashHTTP(r, e)
             [] type = "trojan" -> ClashTrojan(r, e)
             [] type = "snell" -> ClashSnell(r, e)
             [] OTHER -> Skips(r)

-----------------------------------------------------------------------------
(* explodeSurge(): every variable is declared inside the loop.  An entry   *)
(* with too few items is "short".                                          *)

SurgeOptions(e) ==
  IF Has(e, "obfs") THEN <<"obfs", e.obfs, Says(e, "phost")>> ELSE <<>>

SurgeSS(e) ==
  ssConstruct(Take(e, Common \cup {"cipher", "password", "udp", "tfo"})
              @@ [group |-> "SSProvider", pluginopts |-> SurgeOptions(e),
                  plugin |-> IF Has(e, "obfs") THEN "simple-obfs" ELSE ""]
              @@ Fresh)

SurgeVMess(e) ==
  vmessConstruct(Take(e, Common \cup {"id", "path", "host", "edge", "udp", "tfo", "scv", "tls13"})
                 @@ [group |-> "V2RayProvider", cipher |-> "auto",
                     net |-> IF Says(e, "ws") = "true" THEN "ws" ELSE "tcp",
                     tls |-> IF Says(e, "tls") = "true" THEN "tls" ELSE "",
                     aid |-> IF Says(e, "aead") = "true" THEN "0" ELSE "1"]
                 @@ Fresh)

Surge4(e, group, K) ==
  Take(e, Common \cup {"password", "udp", "tfo", "scv"} \cup K) @@ [group |-> group] @@ Fresh

\* A line of Quantumult X begins with its type, and that is its name until a
\* tag gives another.
QuanX(e, group, K) ==
  Take(e, {"server", "port", "password", "udp", "tfo", "tls13"} \cup K)
  @@ [ps |-> Or(Says(e, "ps"), e.type), group |-> group] @@ Fresh

QuanXSS(e) ==
  LET obfs == Says(e, "obfs")
      l    == QuanX(e, "SSProvider", {"cipher", "protocol", "protoparam", "path"})
      web  == obfs \in {"ws", "wss"}
      host == IF web /\ Says(e, "phost") = "" /\ l.server \notin IPs THEN l.server
              ELSE Says(e, "phost")
      mode == IF web THEN "websocket" ELSE obfs
  IN  IF l.protocol # ""
      THEN ssrConstruct([l EXCEPT !.group = "SSRProvider", !.obfs = mode, !.obfsparam = host])
      ELSE IF web
      THEN ssConstruct([l EXCEPT !.plugin = "v2ray-plugin",
                          !.pluginopts = <<"mode", mode, host, l.path,
                                           IF obfs = "wss" THEN "tls" ELSE "">>])
      ELSE IF obfs \in {"http", "tls"}
      THEN ssConstruct([l EXCEPT !.plugin = "simple-obfs", !.pluginopts = <<"obfs", mode, host>>])
      ELSE ssConstruct(l)

QuanXVMess(e) ==
  LET l == QuanX(e, "V2RayProvider", {"cipher", "host", "path"})
  IN  vmessConstruct([l EXCEPT
        !.id = l.password,
        !.net = IF Says(e, "obfs") \in {"ws", "wss"} THEN "ws" ELSE "tcp",
        !.tls = IF Or(Says(e, "tls"), Says(e, "obfs")) \in {"true", "wss", "over-tls"}
                THEN "tls" ELSE "",
        !.aid = IF Says(e, "aead") = "true" THEN "0" ELSE "1"])

\* tls-verification=false is skip-cert-verify.
QuanXOther(e, group) ==
  [QuanX(e, group, {"host", "user"}) EXCEPT
     !.scv = IF Has(e, "verify") THEN (IF e.verify = "false" THEN "true" ELSE "false") ELSE ""]

NoneIsEmpty(l) == [l EXCEPT !.user = IF @ = "none" THEN "" ELSE @,
                            !.password = IF @ = "none" THEN "" ELSE @]

SurgeEntry(l, e) ==
  LET tls == Says(e, "tls") = "true"
  IN  IF Has(e, "short") \/ Says(e, "port") = "0" THEN Skips(l)
      ELSE CASE e.type \in {"custom", "ss"} -> Adds(l, SurgeSS(e))
             [] e.type = "socks5" -> Adds(l, socksConstruct(Surge4(e, "SocksProvider", {"user"})))
             [] e.type = "vmess" -> Adds(l, SurgeVMess(e))
             [] e.type = "http" ->
                  Adds(l, httpConstruct([Surge4(e, "HTTPProvider", {"user"}) EXCEPT !.tfo = ""],
                                        FALSE))
             [] e.type = "trojan" ->
                  Adds(l, trojanConstruct(Surge4(e, "TrojanProvider", {"host"}), TRUE))
             [] e.type = "snell" ->
                  Adds(l, snellConstruct(Surge4(e, "SnellProvider", {"obfs", "host", "aid"})))
             [] e.type = "x-shadowsocks" -> Adds(l, QuanXSS(e))
             [] e.type = "x-vmess" -> Adds(l, QuanXVMess(e))
             [] e.type = "x-trojan" ->
                  Adds(l, trojanConstruct(QuanXOther(e, "TrojanProvider"), tls))
             [] e.type = "x-http" ->
                  Adds(l, httpConstruct(NoneIsEmpty(QuanXOther(e, "HTTPProvider")), tls))
             [] OTHER -> Skips(l)

-----------------------------------------------------------------------------
(* The parsers of JSON *)

\* explodeSSD(): what a server does not say the document says, except its
\* name, which stays the one of the server before.
SSDEntry(l, e, common) ==
  LET K == {"port", "cipher", "password", "plugin"}
      r == [AssignIfSaid(Assign(Assign(l, common, K), e, {"server"}), e, K \cup {"ps"})
              EXCEPT !.group = Says(common, "group"),
                     !.pluginopts = Opts(Or(Says(e, "popts"), Says(common, "popts")))]
  IN  IF Misses(e, {"server"}) THEN Throws(l)
      ELSE IF r.port = "0" THEN Skips(r)
      ELSE Adds(r, ssConstruct(r))

ShadowsocksKeys == {"password", "cipher", "server", "plugin"}

WithOptions(l, e) == [l EXCEPT !.pluginopts = Opts(Says(e, "popts"))]

\* explodeSSConf(): the name by default is made before the server is read.
SSConfEntry(l, e, common) ==
  LET named == [Assign(l, e, {"ps", "port"}) EXCEPT !.group = Or(Says(common, "group"), "SSProvider")]
      r     == WithOptions(Assign(Named(named), e, ShadowsocksKeys), e)
  IN  IF named.port = "0" THEN Skips(named) ELSE Adds(r, ssConstruct(r))

SSAndroidEntry(l, e) ==
  LET r == [Assign(l, e, {"ps", "port"} \cup ShadowsocksKeys) EXCEPT !.group = "SSProvider"]
  IN  IF r.server = "" \/ r.port = "0" THEN Skips(r)
      ELSE Adds(r, ssConstruct(WithOptions(Named(r), e)))

SSRKeys == {"group", "ps", "server", "port", "password", "cipher", "protocol", "protoparam",
            "obfs", "obfsparam"}

SSREntry(l, e) ==
  LET r == Named(Grouped(Assign(l, e, SSRKeys), "SSRProvider"))
  IN  IF r.port = "0" THEN Skips(r) ELSE Adds(r, ssrConstruct(r))

\* A configuration of the libev client is one node; its password is not read.
LibevEntry(l, e) ==
  LET r == Named(Assign(l, e, SSRKeys \ {"group", "ps", "password"}))
  IN  Adds(l, IF IsSS(r)
              THEN ssConstruct(WithOptions([r EXCEPT !.group = "SSProvider",
                                                     !.plugin = Says(e, "plugin")], e))
              ELSE ssrConstruct([r EXCEPT !.group = "SSRProvider"]))

-----------------------------------------------------------------------------
(* explodeVmessConf() *)

\* The first outbound of a V2Ray configuration.  RemoveAllMembers() throws on
\* the settings that nothing has been assigned to.
OutboundEntry(l, e) ==
  LET ws   == Says(e, "net") = "ws"
      ends == IF (ws /\ Has(e, "wsSettings")) \/ Says(e, "type") = "http"
              THEN Take(e, {"path", "host", "edge"}) ELSE <<>>
      r    == Named(ends @@ Assign(l, e, {"server", "port", "id", "aid", "cipher", "net", "tls",
                                          "type"}))
  IN  IF Says(e, "port") = "0" THEN Skips(l)
      ELSE IF /\ Has(e, "net")
              /\ IF ws THEN ~Has(e, "wsSettings") ELSE ~Has(e, "tcpSettings")
      THEN Throws(l)
      ELSE Adds(l, vmessConstruct([r EXCEPT !.group = "V2RayProvider"]))

\* The list of v2rayN.
V2RayNEntry(l, e) ==
  LET K == {"ps", "server", "port", "scv"}
      r == Named(Assign(l, e, K))
      vmess == Assign(r, e, {"id", "aid", "net", "path", "host", "tls", "cipher", "sni"})
      ss    == [Assign(r, e, {"id", "cipher"}) EXCEPT !.group = "SSProvider"]
  IN  IF Misses(e, {"server", "port", "id"}) THEN Throws(l)
      ELSE IF "null" \in {e.server, e.port, e.id} THEN Skips(l)
      ELSE IF Misses(e, {"ps"}) THEN Throws(l)
      ELSE IF e.port = "0" THEN Skips(r)
      ELSE IF Misses(e, {"subid", "type"}) THEN Throws(l)
      ELSE CASE e.type = "1" ->
                  IF Misses(e, {"faketype", "aid", "net", "path", "host", "tls", "cipher", "sni"})
                  THEN Throws(l)
                  ELSE Adds(vmess, vmessConstruct([vmess EXCEPT !.type = Says(e, "faketype"),
                                                                !.group = "V2RayProvider"]))
             [] e.type = "3" ->
                  IF Misses(e, {"cipher"}) THEN Throws(l)
                  ELSE Adds(ss, ssConstruct([ss EXCEPT !.password = ss.id, !.plugin = "",
                                                       !.pluginopts = <<>>]))
             [] e.type = "4" ->
                  Adds(r, socksConstruct([r EXCEPT !.group = "SocksProvider", !.user = "",
                                                   !.password = ""]))
             [] OTHER -> Skips(r)

-----------------------------------------------------------------------------
\* explodeSSTap(): ssrConstruct() is given the name in base64 in the place of
\* the server, and every argument after it one place too far.
SSTapSSR(l) ==
  ssrConstruct([l EXCEPT !.server = "base64 " \o l.ps, !.port = l.server, !.protocol = l.port,
                         !.cipher = l.protocol, !.obfs = l.cipher, !.password = l.obfs,
                         !.obfsparam = l.password, !.protoparam = l.obfsparam,
                         !.udp = l.protoparam])

SSTapEntry(l, e) ==
  LET r     == Named(Assign(l, e, {"group", "ps", "server", "port"}))
      socks == Assign(r, e, {"password", "user"})
      ss    == Assign(r, e, {"password", "protocol", "obfs", "cipher"})
      ssr   == Assign(ss, e, {"obfsparam", "protoparam"})
  IN  IF Misses(e, {"group", "ps", "server"}) THEN Throws(l)
      ELSE IF Says(e, "port") = "0" THEN Skips(r)
      ELSE IF Misses(e, {"password", "type"}) THEN Throws(l)
      ELSE CASE e.type = "5" ->
                  IF Misses(e, {"user"}) THEN Throws(l) ELSE Adds(socks, socksConstruct(socks))
             [] e.type = "6" ->
                  IF Misses(e, {"protocol", "obfs", "cipher"}) THEN Throws(l)
                  ELSE IF ss.cipher \in ss_ciphers /\ ss.protocol = "origin" /\ ss.obfs = "plain"
                  THEN Adds(ss, ssConstruct([ss EXCEPT !.plugin = "", !.pluginopts = <<>>]))
                  ELSE IF Misses(e, {"obfsparam", "protoparam"}) THEN Throws(l)
                  ELSE Adds(ssr, SSTapSSR(ssr))
             [] OTHER -> Skips(r)

\* explodeNetchConf(): a server that explodeNetch() cannot read is a node too.
NetchEntry(l, e) ==
  LET made == explodeNetch(e)
  IN  Adds(l, IF made = <<>> THEN Unfilled ELSE made[1])

\* The loop over the lines of a subscription drops those.
LinkEntry(l, e) ==
  LET made == explode(e)
  IN  IF made = <<>> THEN Skips(l) ELSE Adds(l, made[1])
=============================================================================
