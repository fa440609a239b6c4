----------------------------- MODULE MCRuleset ------------------------------
(***************************************************************************)
(* Instances of ExprRuleset and of GeoMatcher for TLC, one of them in each *)
(* behaviour: rules with a geo function ask for its answer and share       *)
(* nothing else with it.                                                   *)
(***************************************************************************)
EXTENDS ExprRuleset, GeoMatcher, TLC

VARIABLE part  \* "rules" or "geo"

(***************************************************************************)
(* Rules: expressions of every kind, with every action, in lists of up to  *)
(* two, and of three without the rules that fail.                          *)
(***************************************************************************)
MCAnalyzers  == {"tls", "dns"}
MCModifiers  == {"dns"}

\* An expression that reads the analyzers in need, and is true when they have
\* all reported something and otherwise has the value without.
Expr(ids, need, without) ==
  [ok |-> TRUE, ids |-> ids, lets |-> {}, arg |-> "constant", reads |-> need,
   value |-> [env \in SUBSET need |-> IF env = need THEN "true" ELSE without]]

Always  == Expr({"proto"}, {}, "false")                        \* proto == "udp"
SNI     == Expr({"tls"}, {"tls"}, "error")                     \* tls.req.sni == "a"
Both    == Expr({"tls", "dns"}, {"tls", "dns"}, "false")       \* tls != nil && dns != nil
NoDNS   == [Expr({"dns"}, {"dns"}, "true") EXCEPT              \* dns == nil
              !.value = [env \in SUBSET {"dns"} |-> IF env = {} THEN "true" ELSE "false"]]
GeoSite == Expr({"geosite", "tls"}, {"tls"}, "error")          \* geosite(tls.req.sni, "cn")
GeoIP   == Expr({"geoip", "ip"}, {}, "true")                   \* geoip(ip.dst, "cn")
Let     == [Expr({"d", "dns"}, {"dns"}, "error") EXCEPT !.lets = {"d"}]
                                                               \* let d = dns.questions; len(d) > 1
Shadow  == [Expr({"tls"}, {"tls"}, "error") EXCEPT !.lets = {"tls"}]
                                                               \* let tls = tls.req; tls.sni == "a"
Version == [Expr({"tls"}, {"tls"}, "other") EXCEPT             \* tls.req.version
              !.value = [env \in SUBSET {"tls"} |-> "other"]]
Unknown == [Expr({"tsl"}, {}, "error") EXCEPT !.value = [env \in {{}} |-> "error"]]
                                                               \* tsl.req.sni == "a"
Cidr    == Expr({"cidr", "ip"}, {}, "true")                    \* cidr(ip.dst, "10.0.0.0/8")
NoCidr  == [Cidr EXCEPT !.arg = "invalid"]                     \* cidr(ip.dst, "10.0.0.0/33")
OneArg  == [Cidr EXCEPT !.arg = "missing"]                     \* cidr(ip.dst)
Garbled == [Always EXCEPT !.ok = FALSE]                        \* proto ==

Fine == {Always, SNI, Both, NoDNS, GeoSite, GeoIP, Let, Version, Unknown, Cidr}
Poor == {Shadow, NoCidr, OneArg, Garbled}

Rule(e, a, l, m) == [expr |-> e, action |-> a, log |-> l, mod |-> m, args |-> TRUE]

GoodRules == {Rule(e, "block", FALSE, "none") : e \in Fine \cup {Shadow}}
        \cup {Rule(e, "", TRUE, "none") : e \in {SNI, NoDNS, Version}}
        \cup {Rule(e, "modify", TRUE, "dns") : e \in {Both, Let}}

AllRules == GoodRules
       \cup {Rule(e, "block", FALSE, "none") : e \in Poor}
       \cup {Rule(SNI, "", FALSE, "none"), Rule(GeoSite, "reject", TRUE, "none"),
             Rule(GeoSite, "modify", FALSE, "nat"), [Rule(GeoSite, "modify", FALSE, "dns") EXCEPT !.args = FALSE]}

MCRuleLists == UNION {[1..n -> AllRules] : n \in 0..2} \cup [1..3 -> GoodRules]

\* The instance is one of those the theorems are about.
ASSUME RulesAssumed == RulesetAssumption

(***************************************************************************)
(* Networks: every list of networks that do not overlap, in IPv4 addresses *)
(* of three bits, and every one in IPv6 addresses of two bits, inverted or *)
(* not; and a list with an address of a wrong length.  Sites: every list   *)
(* of up to two of eleven entries.                                         *)
(***************************************************************************)
MCBits == (4 :> 3) @@ (6 :> 2)

\* The lists of networks that do not overlap among the addresses of w bits: one
\* network, or such lists for both halves.
Disjoint[w \in 0..3] ==
  IF w = 0 THEN {{}, {[ip |-> 0, bits |-> 0]}}
  ELSE {{[ip |-> 0, bits |-> w]}} \cup
       {low \cup {[n EXCEPT !.ip = @ + 2 ^ (w - 1)] : n \in high} :
          low \in Disjoint[w - 1], high \in Disjoint[w - 1]}

Nets(v) ==
  {{[len |-> v, ip |-> n.ip, prefix |-> MCBits[v] - n.bits] : n \in s} : s \in Disjoint[MCBits[v]]}

\* Addresses 4 to 7, written with one in the middle.
OneNet == {[len |-> 4, ip |-> 5, prefix |-> 1]}
Wrong  == {[len |-> 5, ip |-> 0, prefix |-> 0]}

Countries == [cidr : Nets(4), inverse : {FALSE}]
        \cup [cidr : {OneNet \cup n : n \in Nets(6)}, inverse : BOOLEAN]
        \cup [cidr : {OneNet \cup Wrong}, inverse : {FALSE}]

MCIPs == [v : {4}, a : 0..7] \cup [v : {6}, a : 0..3] \cup [v : {0}, a : {0}]

a == <<"a">>
b == <<"b">>
ab == <<"a", "b">>

\* "", a, b, ab, b.a, a.b, ab.b, a.ab and a.a.b.
MCSites == {<<<<>>>>, <<a>>, <<b>>, <<ab>>, <<b, a>>, <<a, b>>, <<ab, b>>, <<a, ab>>, <<a, a, b>>}

MCRegex == (<<a>> :> {<<a>>, <<a, ab>>})

Domains == [type : {"root"}, value : {<<b>>, <<a, b>>}, attrs : {{}, {"x"}, {"x", "y"}}]
      \cup [type : {"plain"}, value : {<<ab>>}, attrs : {{}, {"x"}}]
      \cup [type : {"full"}, value : {<<b>>}, attrs : {{"y"}}]
      \cup [type : {"regex"}, value : {<<a>>, <<b>>}, attrs : {{"x"}}]
      \cup [type : {"unknown"}, value : {<<a>>}, attrs : {{}}]

SiteLists == {{d, e} : d, e \in Domains}

\* A list that is there and one that is not; attributes; upper case.
MCConditions ==
  [name : {"cn"}, attrs : {<<>>, <<"x">>, <<"x", "y">>}, upper : BOOLEAN]
    \cup [name : {"us"}, attrs : {<<>>}, upper : {FALSE}]

None == [n \in {} |-> {}]

MCSiteMaps == {None} \cup [{"cn"} -> SiteLists]
MCIPMaps   == {None} \cup [{"cn"} -> Countries]

\* Here too.
ASSUME GeoAssumed == GeoAssumption

-----------------------------------------------------------------------------
NoRuleset == /\ rules = <<>> /\ pc = "none" /\ k = 0
             /\ depAns = {} /\ loaded = {} /\ last = <<>>

NoGeo == /\ geosites = None /\ geoips = None
         /\ geoSiteMatcher = None /\ geoIpMatcher = None /\ asked = [what |-> "nothing"]

MCInit ==
  \/ part = "rules" /\ Init /\ NoGeo
  \/ /\ part = "geo" /\ NoRuleset
     /\ \/ geosites \in [{"cn"} -> SiteLists] /\ geoips = None
        \/ geosites = None /\ geoips \in [{"cn"} -> Countries]
     /\ NewGeoMatcher

\* Calls of the functions whose database there is.
AskGeo ==
  \E c \in MCConditions :
    \/ geosites # None /\ \E site \in MCSites : MatchGeoSite(site, c)
    \/ /\ geoips # None
       /\ Len(c.attrs) < 2 /\ (c.attrs = <<>> \/ c.upper)
       /\ \E ip \in MCIPs : MatchGeoIp(ip, c)

MCNext ==
  /\ UNCHANGED part
  /\ \/ part = "rules" /\ Next /\ UNCHANGED geoVars
     \/ part = "geo" /\ AskGeo /\ UNCHANGED vars

MCSpec == MCInit /\ [][MCNext]_<<part, vars, geoVars>>
=============================================================================
