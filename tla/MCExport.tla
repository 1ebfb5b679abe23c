------------------------------- MODULE MCExport -------------------------------
(***************************************************************************)
(* Export for TLC: lists of nodes whose names clash in several ways, with  *)
(* nodes every target has to leave out, and groups of every kind.          *)
(***************************************************************************)
EXTENDS Export, TLC

Node(type, host, remark, no) ==
  [Type |-> type, Hostname |-> host, Remark |-> remark, No |-> no, Group |-> "g", GroupId |-> 0,
   Port |-> 443, Plugin |-> "", Network |-> "tcp", known |-> {"ss", "ssr", "clash", "clashr"},
   AllowInsecure |-> "undef", TLS |-> TRUE]

\* Several share the name "hk", one is called "hk 2" and one "SS hk".
A == Node("SS", "a", <<"hk">>, <<>>)
B == [Node("VMess", "b", <<"hk">>, <<>>) EXCEPT !.AllowInsecure = "true"]
C == [Node("SSR", "c", <<"hk">>, <<2>>) EXCEPT !.known = {"old"}]
D == [Node("SS", "d", <<"SS", "hk">>, <<>>) EXCEPT !.Plugin = "v2ray-plugin", !.known = {"old"}]
E == [Node("VMess", "e", <<"us">>, <<2>>) EXCEPT !.Network = "kcp", !.AllowInsecure = "false"]
F == [Node("Trojan", "f", <<"us">>, <<>>) EXCEPT !.AllowInsecure = "true"]
H == [Node("HTTP", "h", <<"us">>, <<>>) EXCEPT !.TLS = FALSE]
S == [Node("SOCKS5", "s", <<"hk">>, <<2, 2>>) EXCEPT !.TLS = FALSE]
N == Node("Snell", "n", <<"direct">>, <<>>)
T == Node("HTTPS", "t", <<"tw">>, <<>>)
U == [Node("SOCKS5", "u", <<"hk">>, <<>>) EXCEPT !.AllowInsecure = "false"]

Lists(X, n) == {s \in BoundedSeq(X, n) : IsInjective(s)}

Refer(text) == [text |-> <<text>>, no |-> <<>>]
Builtin == Refer("direct")
Strings == STRING

Of(rule)  == [kind |-> "match", name |-> <<>>, match |-> rule, gives |-> <<>>]
To(text)  == [kind |-> "ref", name |-> Refer(text), match |-> <<>>, gives |-> <<>>]
By(names) == [kind |-> "script", name |-> <<>>, match |-> <<>>, gives |-> names]

G(name, type, rules) == [Name |-> name, Type |-> type, rules |-> rules, use |-> FALSE]

Hk     == Of(Named({"hk"}))
Us     == Of([Rule("TYPE", {"SS", "VMess"}) EXCEPT !.rest = {"us"}])
None   == Of(Named({"jp"}))
Auto   == G("auto", "url-test", <<Hk, Of(Rule("PORT", <<TermIs(443), TermNot(80)>>))>>)
Empty  == G("auto", "fallback", <<None>>)
Manual == G("manual", "select", <<Us, To("auto"), Hk>>)
Single == G("single", "select", <<To("direct")>>)
Wifi   == G("wifi", "ssid", <<To("auto"), To("home=direct")>>)
Chain  == G("chain", "relay", <<Hk, To("auto")>>)
Spread == G("spread", "load-balance", <<Hk>>)
Script == G("script", "select", <<Us, By(<<Refer("hk")>>), Hk>>)
Remote == [G("remote", "url-test", <<None>>) EXCEPT !.use = TRUE]

Base == [target |-> "clash", list |-> FALSE, append |-> FALSE, deprecated |-> FALSE, scv |-> "undef",
         ver |-> 4, ssrPath |-> TRUE, types |-> {}, authorized |-> TRUE, nodes |-> <<>>, groups |-> <<>>]

Targeted ==
  {[Base EXCEPT !.target = t] : t \in Configs \ {"surfboard"}}
  \cup {[Base EXCEPT !.target = "surfboard", !.ver = -3], [Base EXCEPT !.target = "surge", !.ver = 2]}

\* Up to three nodes in any order, for every target.
NameRequests ==
  {[r EXCEPT !.nodes = n, !.append = a, !.list = l, !.deprecated = a] :
     r \in Targeted, n \in Lists({A, B, C, D, E, F, S}, 3), a, l \in BOOLEAN}
  \cup {[r EXCEPT !.nodes = n] : r \in Targeted, n \in Lists({A, B, C, S, N}, 4)}

\* All nodes, and several groups.
GroupRequests ==
  {[r EXCEPT !.nodes = n, !.groups = g, !.authorized = a] :
     r \in Targeted, n \in {<<>>, <<N, F>>, <<A, C, B, S, E, D>>, <<S, B, A, F, H>>},
     g \in Lists({Auto, Empty, Manual, Single, Wifi, Chain, Spread, Script, Remote}, 2)
            \cup {<<Auto, Empty, Manual>>}, a \in BOOLEAN}

\* Certificate checks, also of nodes with TLS that are not of VMess.
CheckRequests ==
  {[r EXCEPT !.nodes = n, !.scv = s, !.list = l] :
     r \in Targeted, n \in Lists({B, D, E, F}, 3), s \in {"undef", "true", "false"}, l \in BOOLEAN}
  \cup {[r EXCEPT !.nodes = n, !.scv = s] :
          r \in Targeted, n \in Lists({B, E, H, T, U}, 4), s \in {"undef", "false"}}

\* Lists of SS or SSR links, with nodes that cannot be converted.
SsRequests ==
  {[Base EXCEPT !.target = "single", !.types = t, !.nodes = n] :
     t \in {{"SS"}, {"SSR"}}, n \in Lists({A, C, D, F}, 4)}

\* Lists of links: of every type, of one type, and those of JSON.
LinkRequests ==
  {[Base EXCEPT !.target = "single", !.types = t, !.nodes = n] :
     t \in {{"SS", "SSR", "VMess", "Trojan"}, {"VMess"}, {"Trojan"}}, n \in Lists({A, C, D, E, F, H}, 3)}
  \cup {[Base EXCEPT !.target = t, !.nodes = n] : t \in Jsons, n \in Lists({A, C, D, F}, 3)}

Mixed == NameRequests \cup GroupRequests \cup CheckRequests \cup SsRequests \cup LinkRequests
=============================================================================
