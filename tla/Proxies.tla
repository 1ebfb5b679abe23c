------------------------------ MODULE Proxies ------------------------------
(***************************************************************************)
(* The nodes that the parsers build, and the Construct() functions of      *)
(* subparser.cpp that build them.                                          *)
(*                                                                         *)
(* What a parser hands over is a record of its local variables, with the   *)
(* same names in every parser: ps for ps, remark and remarks, server for   *)
(* add, address and server, cipher for method and cipher, user for every   *)
(* user name, mode, phost and mux for the parts of pluginopts.  A local    *)
(* that is not mentioned is the empty string, as it is when constructed.   *)
(* Texts are whatever tells the entries of a document apart; only texts    *)
(* that the code compares are spelled out.                                 *)
(***************************************************************************)
EXTENDS Naturals, Sequences, TLC

\* The locals of a parser before it has read anything.
Fresh ==
  [k \in {"group", "ps", "server", "port", "password", "cipher", "plugin", "mode",
          "phost", "mux", "protocol", "protoparam", "obfs", "obfsparam", "user", "id",
          "aid", "net", "path", "host", "edge", "tls", "sni", "type", "udp", "tfo",
          "scv", "tls13"} |-> ""]
  @@ [pluginopts |-> <<>>]

\* What an entry says of something: nothing, when it leaves it out or says null.
Says(e, k) == IF k \in DOMAIN e /\ e[k] # "null" THEN e[k] ELSE ""

\* The locals of keys K as an entry gives them.
Take(e, K) == [k \in K |-> Says(e, k)]

Or(text, default) == IF text = "" THEN default ELSE text

\* The options of a plugin, when they come as one text.
Opts(text) == IF text = "" THEN <<>> ELSE <<text>>

\* remarks = server + ":" + port, when there are none.
Named(l) == [l EXCEPT !.ps = Or(@, l.server \o ":" \o l.port)]

Grouped(l, group) == [l EXCEPT !.group = Or(@, group)]

IPs == {"10.0.0.1"}

\* to_int(): what is no number is 0.  Only whether it is one is told.
Numbers == {ToString(n) : n \in 1..40}
Number(text) == IF text \in Numbers THEN text ELSE "0"

-----------------------------------------------------------------------------
commonConstruct(Type, l) ==
  [Type |-> Type, Group |-> l.group, Remark |-> l.ps, Hostname |-> l.server,
   Port |-> Number(l.port), UDP |-> l.udp, TCPFastOpen |-> l.tfo, AllowInsecure |-> l.scv,
   TLS13 |-> l.tls13]

vmessConstruct(l) ==
  commonConstruct("VMess", l)
  @@ [UserId |-> Or(l.id, "0-0"), AlterId |-> Number(l.aid), EncryptMethod |-> l.cipher,
      TransferProtocol |-> Or(l.net, "tcp"), Edge |-> l.edge, ServerName |-> l.sni,
      FakeType |-> l.type, TLSSecure |-> l.tls = "tls"]
  @@ IF l.net = "quic" THEN [QUICSecure |-> l.host, QUICSecret |-> l.path]
     ELSE [Host |-> IF l.host = "" /\ l.server \notin IPs THEN l.server ELSE l.host,
           Path |-> Or(l.path, "/")]

ssrConstruct(l) ==
  commonConstruct("ShadowsocksR", [l EXCEPT !.tls13 = ""])
  @@ [Password |-> l.password, EncryptMethod |-> l.cipher, Protocol |-> l.protocol,
      ProtocolParam |-> l.protoparam, OBFS |-> l.obfs, OBFSParam |-> l.obfsparam]

ssConstruct(l) ==
  commonConstruct("Shadowsocks", l)
  @@ [Password |-> l.password, EncryptMethod |-> l.cipher, Plugin |-> l.plugin,
      PluginOption |-> l.pluginopts]

socksConstruct(l) ==
  commonConstruct("SOCKS5", [l EXCEPT !.tls13 = ""])
  @@ [Username |-> l.user, Password |-> l.password]

httpConstruct(l, tls) ==
  commonConstruct(IF tls THEN "HTTPS" ELSE "HTTP", [l EXCEPT !.udp = ""])
  @@ [Username |-> l.user, Password |-> l.password, TLSSecure |-> tls]

trojanConstruct(l, tlssecure) ==
  commonConstruct("Trojan", l)
  @@ [Password |-> l.password, Host |-> l.host, TLSSecure |-> tlssecure,
      TransferProtocol |-> Or(l.net, "tcp"), Path |-> l.path]

snellConstruct(l) ==
  commonConstruct("Snell", [l EXCEPT !.tls13 = ""])
  @@ [Password |-> l.password, OBFS |-> l.obfs, Host |-> l.host,
      SnellVersion |-> Number(l.aid)]

\* A Proxy that nothing has been read into.
Unfilled == [Type |-> "Unknow", Remark |-> "", Hostname |-> "", Port |-> "0"]

-----------------------------------------------------------------------------
ss_ciphers == {"aes-128-gcm", "chacha20-ietf-poly1305"}

\* A node of ShadowsocksR that plain Shadowsocks can reach.
IsSS(l) ==
  l.cipher \in ss_ciphers /\ l.obfs \in {"", "plain"} /\ l.protocol \in {"", "origin"}
=============================================================================
