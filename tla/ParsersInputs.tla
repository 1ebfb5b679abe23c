--------------------------- MODULE ParsersInputs ---------------------------
(***************************************************************************)
(* Documents for Parsers.  An entry is written with "own" for what is its  *)
(* own; in a document every such text becomes one of its key and place, so *)
(* that a text from another entry, or from another key, is seen in a node. *)
(***************************************************************************)
EXTENDS FiniteSets, Sequences, Naturals, TLC

Own(K) == [k \in K |-> "own"]

Basic == Own({"ps", "server", "port"})

Marked(e, i) ==
  [k \in DOMAIN e |->
     IF k = "marks" \/ e[k] # "own" THEN e[k]
     ELSE IF k = "port" THEN ToString(i)
     ELSE IF k = "aid" THEN ToString(20 + i)
     ELSE k \o ToString(i)]

Doc(format, marks, entries) ==
  [format |-> format, marks |-> marks, common |-> <<>>,
   entries |-> [i \in DOMAIN entries |-> Marked(entries[i], i)]]

\* All documents of one to n entries out of a set.
Docs(format, marks, E, n) ==
  {Doc(format, marks, s) : s \in UNION {[1..k -> E] : k \in 1..n}}

With(format, common, docs) == {[d EXCEPT !.common = common] : d \in docs}

Unread == {[port |-> "0"] @@ Basic, [type |-> "relay"] @@ Basic}

-----------------------------------------------------------------------------
Typed(type, K) == [type |-> type] @@ Basic @@ Own(K)

VMessClash ==
  {[net |-> net, tls |-> "true"] @@ Typed("vmess", {"id", "aid", "cipher", "sni", "path", "host", "edge"})
     : net \in {"ws", "h2", "grpc", "http"}}
  \cup {[net |-> net] @@ Typed("vmess", {"id", "cipher"}) : net \in {"tcp", "quic", "ws"}}
  \cup {Typed("vmess", {"id", "aid", "cipher", "udp"})}

SSClash ==
  {Typed("ss", {"cipher", "password", "udp", "scv"}),
   [cipher |-> "AEAD_AES_128_GCM"] @@ Typed("ss", {"password"}),
   [obfs |-> "http"] @@ Typed("ss", {"cipher", "password", "obfs-host"}),
   [plugin |-> "obfs"] @@ Typed("ss", {"cipher", "password", "plugin-opts", "mode", "phost"}),
   [plugin |-> "obfs"] @@ Typed("ss", {"cipher", "password"}),
   [plugin |-> "v2ray-plugin", tls |-> "true", mux |-> "true"]
     @@ Typed("ss", {"cipher", "password", "plugin-opts", "mode", "phost", "path"}),
   [plugin |-> "v2ray-plugin"] @@ Typed("ss", {"cipher", "password"}),
   [plugin |-> "shadow-tls"] @@ Typed("ss", {"cipher", "password", "plugin-opts"})}

OtherClash ==
  {Typed("socks5", {"user", "password"}), Typed("socks5", {}),
   Typed("ssr", {"cipher", "password", "protocol", "obfs", "protoparam", "obfsparam"}),
   [cipher |-> "dummy", scv |-> "true"] @@ Typed("ssr", {"password"}),
   [tls |-> "true"] @@ Typed("http", {"user", "password"}), Typed("http", {}),
   [net |-> "ws"] @@ Typed("trojan", {"password", "host", "path"}), Typed("trojan", {"password"}),
   Typed("snell", {"password", "obfs", "host", "aid"}), Typed("snell", {}),
   [type |-> "ss"] @@ Own({"server", "port", "password"}), [type |-> "ss"] @@ Own({"ps", "server"})}

Clash == Docs("clash", {"Proxy:"}, VMessClash \cup SSClash \cup OtherClash \cup Unread, 2)

-----------------------------------------------------------------------------
SurgeEntries ==
  {Typed("ss", {"cipher", "password", "udp", "tfo"}), [obfs |-> "http"] @@ Typed("custom", {"cipher", "password", "phost"}),
   Typed("socks5", {"user", "password"}), Typed("snell", {"password", "obfs", "host", "aid"}),
   [ws |-> "true", tls |-> "true", aead |-> "true"] @@ Typed("vmess", {"id", "path", "host"}),
   Typed("http", {"user", "password"}), Typed("trojan", {"password", "host", "scv"}),
   [obfs |-> "wss"] @@ Typed("x-shadowsocks", {"cipher", "password", "path"}),
   [obfs |-> "tls", type |-> "x-shadowsocks"] @@ Own({"server", "port", "password", "phost", "protocol"}),
   [obfs |-> "http"] @@ Typed("x-shadowsocks", {"password", "tls13"}), Typed("x-shadowsocks", {"cipher"}),
   [obfs |-> "over-tls"] @@ Typed("x-vmess", {"cipher", "password", "host"}),
   [tls |-> "true", verify |-> "false"] @@ Typed("x-trojan", {"password", "host"}),
   [user |-> "none", password |-> "none"] @@ Typed("x-http", {}),
   Typed("direct", {}), Typed("ss", {"short"}), [port |-> "0"] @@ Typed("snell", {})}

Surge == Docs("surge", {}, SurgeEntries, 2) \cup Docs("surge64", {"vmess="}, SurgeEntries, 1)

-----------------------------------------------------------------------------
Shadowsocks == {"password", "cipher", "plugin", "popts"}

SSEntries == {Basic @@ Own(Shadowsocks), Own({"server", "port"}), [port |-> "0"] @@ Basic}

SSD ==
  With("ssd", [group |-> "airport", port |-> "9", cipher |-> "aes-128-gcm", password |-> "all"],
       Docs("ssd", {"ssd://"}, SSEntries \cup {Own({"server"}), Own({"ps"}), Basic}, 3))

SSRLike == {"password", "cipher", "protocol", "protoparam", "obfs", "obfsparam"}
Plain == [cipher |-> "aes-128-gcm", protocol |-> "origin", obfs |-> "plain"]

Vmess == Basic @@ Own({"id", "subid", "scv"})
VmessKeys == {"faketype", "aid", "net", "path", "host", "tls", "cipher", "sni"}

JSON ==
  Docs("ssconf", {"version"}, SSEntries, 3)
  \cup With("ssconf", [group |-> "remarks"], Docs("ssconf", {"version"}, SSEntries, 1))
  \cup Docs("ssandroid", {"proxy_apps"}, SSEntries \cup {Own({"ps", "port"})}, 2)
  \cup Docs("ssrconf", {"serverSubscribes"},
            {Basic @@ Own(SSRLike \cup {"group"}), Own({"server", "port"}), [port |-> "0"] @@ Basic}, 2)
  \cup Docs("libev", {"local_address", "local_port"},
            {Basic @@ Own(SSRLike), Plain @@ Basic @@ Own({"plugin", "popts"})}, 1)
  \cup Docs("outbound", {"vnext"},
            {Basic @@ Own({"id", "cipher"}), [net |-> "ws"] @@ Basic @@ Own({"id", "wsSettings", "path", "host"}),
             [net |-> "ws"] @@ Basic, [net |-> "tcp"] @@ Basic, [port |-> "0"] @@ Basic,
             [net |-> "tcp", type |-> "http"] @@ Basic @@ Own({"tcpSettings", "path", "edge"})}, 1)
  \cup Docs("v2rayn", {"uiItem"},
            {[type |-> "1"] @@ Vmess @@ Own(VmessKeys), [type |-> "3"] @@ Vmess @@ Own({"cipher"}),
             [type |-> "1", ps |-> "null", tls |-> "tls", path |-> "null"] @@ Vmess @@ Own(VmessKeys),
             [type |-> "4"] @@ Vmess, [type |-> "2"] @@ Vmess, [server |-> "null"] @@ Vmess,
             [port |-> "0"] @@ Vmess, [type |-> "1"] @@ Vmess, Own({"server", "port", "id"})}, 2)
  \cup Docs("sstap", {"idInUse"},
            {[type |-> "5"] @@ Basic @@ Own({"group", "password", "user"}),
             [type |-> "6"] @@ Plain @@ Basic @@ Own({"group", "password"}),
             [type |-> "6"] @@ Basic @@ Own({"group"} \cup SSRLike),
             [type |-> "6", ps |-> "null"] @@ Basic @@ Own({"group"} \cup SSRLike),
             [type |-> "5"] @@ Basic @@ Own({"group"}), [port |-> "0"] @@ Basic @@ Own({"group"}),
             [type |-> "7"] @@ Basic @@ Own({"group", "password"}), Basic}, 2)

Netch ==
  {Typed("SS", Shadowsocks), Typed("SSR", SSRLike \cup {"group"}), Plain @@ Typed("SSR", {"password"}),
   [tls |-> "tls"] @@ Typed("VMess", {"id", "aid", "net", "faketype"}), Typed("Socks5", {"user"}),
   Typed("HTTPS", {"password"}), [tls |-> "true"] @@ Typed("Trojan", {"password", "host"}),
   Typed("Snell", {"password", "aid"}), Typed("WireGuard", {}), [port |-> "0"] @@ Typed("SS", {})}

NetchConf == Docs("netchconf", {"ModeFileNameType"}, Netch, 2)

-----------------------------------------------------------------------------
Link(scheme, style, marks, K) == [scheme |-> scheme, style |-> style, marks |-> marks] @@ Own(K)

Address == {"server", "port"}

LinkEntries ==
  {Link("ss", "", {"ss"}, Address \cup {"ps", "password", "cipher"}),
   Link("ss", "", {"ss"}, Address \cup {"password", "cipher", "plugin", "query"}),
   Link("ssr", "", {"ssr"}, Address \cup SSRLike \cup {"ps", "group"}),
   Plain @@ Link("ssr", "", {"ssr"}, Address \cup {"password"}),
   Link("vmess", "json", {"vmess", "ss"}, Address \cup {"ps", "id", "aid", "net", "host;path", "host", "path"}),
   [v |-> "2"] @@ Link("vmess", "json", {"vmess", "ss"}, Address \cup {"ps", "id", "host", "path"}),
   [net |-> "ws"] @@ Link("vmess", "std", {"vmess", "ss"}, Address \cup {"id", "aid", "host", "path", "ps"}),
   [net |-> "quic", port |-> "0"] @@ Link("vmess", "std", {"vmess", "ss"}, Address \cup {"id", "host", "path"}),
   [net |-> "grpc"] @@ Link("vmess", "std", {"vmess", "ss"}, Address \cup {"id"}),
   [obfs |-> "websocket"] @@ Link("vmess", "rocket", {"vmess", "ss"}, Address \cup {"id", "cipher", "host"}),
   [tls |-> "1"] @@ Link("vmess", "rocket", {"vmess", "ss"}, Address \cup {"id", "net", "path"}),
   Link("vmess", "kitsunebi", {"vmess"}, Address \cup {"id", "net", "path", "ps"}),
   [obfs |-> "ws"] @@ Link("vmess", "quan", {"vmess", "ss"}, Address \cup {"id", "cipher", "ps", "host"}),
   Link("socks", "v2rayn", {"socks"}, Address), Link("socks", "tg", {"socks", "link"}, Address \cup {"user", "group"}),
   Link("http", "tg", {"http", "link"}, Address \cup {"https"}), Link("link", "", {"link"}, Address \cup {"user", "ps"}),
   [type |-> "Snell"] @@ Link("netch", "", {"netch"}, Address \cup {"password"}),
   [ws |-> "1"] @@ Link("trojan", "", {"trojan"}, Address \cup {"password", "peer", "path", "tfo"}),
   Link("trojan", "", {"trojan"}, {"broken"}), Link("vless", "", {"ss"}, Address),
   [port |-> "0"] @@ Link("ss", "", {"ss"}, Address)}

Links == Docs("links", {}, LinkEntries, 2)

\* A text that only looks like Clash, and nothing that any parser knows.
Strange ==
  Docs("surge", {"Proxy:"}, {Typed("trojan", {"password"}), Typed("direct", {})}, 2)
  \cup {Doc("none", marks, <<>>) : marks \in {{}, {"ssd://"}, {"Proxy:"}, {"version"}, {"vmess="}}}

Every == Clash \cup Surge \cup SSD \cup JSON \cup NetchConf \cup Links \cup Strange
=============================================================================
