----------------------------- MODULE GeoMatcher -----------------------------
(***************************************************************************)
(* The functions geoip and geosite of a ruleset (geo_matcher.go and        *)
(* matchers_v2geo.go): a condition names a list of the database, from      *)
(* which a matcher is made once and kept; the matcher is asked for an      *)
(* address or a host name.                                                 *)
(*                                                                         *)
(* A name is a sequence of labels, which are sequences of characters, an   *)
(* address a number of as many bits as its family has, a network an        *)
(* address and the length of its prefix.                                   *)
(* A condition is the list's name and the attributes behind it, in lower   *)
(* case or not.  Both functions hold a lock, so a call is one step.  The   *)
(* database is the one GeoLoader has loaded for the ruleset; regular       *)
(* expressions are outside src/.                                           *)
(***************************************************************************)
EXTENDS Integers, Sequences, SequencesExt, FiniteSets

CONSTANTS
  Bits,        \* Bits[v]: the length of an address of family v, 4 or 6
  Conditions,  \* the conditions in the rules
  Regex,       \* Regex[e]: the names that match expression e, if it compiles
  Sites, IPs,  \* what the rules may ask for
  SiteMaps,    \* the databases of sites, and of networks
  IPMaps

VARIABLES
  geosites,        \* the lists of sites by name, and of networks by country
  geoips,
  geoSiteMatcher,  \* the matchers made so far, by condition
  geoIpMatcher,
  asked            \* the last call and what it returned

geoVars == <<geosites, geoips, geoSiteMatcher, geoIpMatcher, asked>>

ToLower(c) == [c EXCEPT !.upper = FALSE]

\* A matcher that could not be made.
NoMatcher == [err |-> TRUE]

-----------------------------------------------------------------------------
(* Networks. *)

\* net.IPNet.Contains: the bits under the mask are the same.
NetContains(n, v, ip) ==
  LET host == 2 ^ (Bits[v] - n.prefix)
  IN  n.ip \div host = ip \div host

\* Faulty: the search stops when one network is left.
SearchTwo(nets, v, ip) ==
  LET search[w \in (1..(Len(nets) + 1)) \X (0..Len(nets))] ==
        LET left  == w[1]
            right == w[2]
            mid   == (left + right) \div 2
        IN  /\ left < right
            /\ \/ NetContains(nets[mid], v, ip)
               \/ IF nets[mid].ip < ip THEN search[<<mid + 1, right>>] ELSE search[<<left, mid - 1>>]
  IN  search[<<1, Len(nets)>>]

\* geoipMatcher.matchIP, a binary search.
matchIP(nets, v, ip) ==
  LET search[w \in (1..(Len(nets) + 1)) \X (0..Len(nets))] ==
        LET left  == w[1]
            right == w[2]
            mid   == (left + right) \div 2
        IN  /\ left <= right
            /\ \/ NetContains(nets[mid], v, ip)
               \/ IF nets[mid].ip < ip THEN search[<<mid + 1, right>>] ELSE search[<<left, mid - 1>>]
  IN  search[<<1, Len(nets)>>]

\* The networks of one family, sorted by their addresses.
Sorted(list, v) ==
  LET nets == {n \in list.cidr : n.len = v}
  IN  [k \in 1..Cardinality(nets) |->
         CHOOSE n \in nets : Cardinality({m \in nets : m.ip < n.ip}) = k - 1]

newGeoIPMatcher(list) ==
  IF \E n \in list.cidr : n.len \notin {4, 6} THEN NoMatcher
  ELSE [err |-> FALSE, n |-> [v \in {4, 6} |-> Sorted(list, v)], inverse |-> list.inverse]

\* geoipMatcher.Match.  An IPv4 address in the IPv6 notation is an IPv4 address.
MatchNet(m, ip) == matchIP(m.n[ip.v], ip.v, ip.a) # m.inverse

-----------------------------------------------------------------------------
(* Sites. *)

\* The characters of a name, with a dot between any two labels.
Chars(name) ==
  LET from[i \in 1..Len(name)] ==
        IF i = Len(name) THEN name[i] ELSE name[i] \o <<".">> \o from[i + 1]
  IN  from[1]

HasPart(s, t) == \E i \in 0..(Len(s) - Len(t)) : SubSeq(s, i + 1, i + Len(t)) = t

\* A root domain stands for itself and for what is below it.
MatchRoot(value, host) == host = value \/ IsSuffix(<<".">> \o value, host)

\* geositeMatcher.matchDomain: all attributes asked for, and the name.
matchDomain(attrs, domain, name) ==
  LET host  == Chars(name)
      value == Chars(domain.value)
  IN  /\ attrs \subseteq domain.attrs
      /\ CASE domain.type = "plain" -> HasPart(host, value)
           [] domain.type = "regex" -> name \in Regex[domain.value]
           [] domain.type = "full"  -> host = value
           [] domain.type = "root"  -> MatchRoot(value, host)

\* One regular expression that does not compile, or one entry of a type that is
\* not known, and there is no matcher for the whole list.
newGeositeMatcher(list, attrs) ==
  IF \E d \in list : \/ d.type \notin {"plain", "regex", "full", "root"}
                     \/ d.type = "regex" /\ d.value \notin DOMAIN Regex
  THEN NoMatcher
  ELSE [err |-> FALSE, domains |-> list, attrs |-> attrs]

MatchHost(m, name) == \E d \in m.domains : matchDomain(m.attrs, d, name)

-----------------------------------------------------------------------------
\* Nothing is kept for a condition that has no list, or a list without matcher.
Keep(kept, c, made) ==
  IF made.err THEN kept ELSE [d \in DOMAIN kept \cup {c} |-> IF d = c THEN made ELSE kept[d]]

\* The matcher of condition c: one kept under it as it is written, or one made
\* from its list, whose name is in lower case.
SiteMatcher(c) ==
  LET lower == ToLower(c)
  IN  IF c \in DOMAIN geoSiteMatcher THEN geoSiteMatcher[c]
      ELSE IF lower.name \in DOMAIN geosites
           THEN newGeositeMatcher(geosites[lower.name], Range(lower.attrs))
           ELSE NoMatcher

\* geoip does not know attributes: a condition with some is a country of that
\* name, and there is none.
IPMatcher(c) ==
  LET lower == ToLower(c)
  IN  IF c \in DOMAIN geoIpMatcher THEN geoIpMatcher[c]
      ELSE IF lower.attrs = <<>> /\ lower.name \in DOMAIN geoips
           THEN newGeoIPMatcher(geoips[lower.name])
           ELSE NoMatcher

NewGeoMatcher ==
  /\ geosites \in SiteMaps
  /\ geoips \in IPMaps
  /\ geoSiteMatcher = <<>>
  /\ geoIpMatcher = <<>>
  /\ asked = [what |-> "nothing"]

\* Faulty: the matcher is kept under the name of the list.
MatchGeoSiteByName(site, c) ==
  LET name == [ToLower(c) EXCEPT !.attrs = <<>>]
      m    == IF name \in DOMAIN geoSiteMatcher THEN geoSiteMatcher[name] ELSE SiteMatcher(c)
  IN  /\ geoSiteMatcher' = Keep(geoSiteMatcher, name, m)
      /\ asked' = [what |-> "site", of |-> site, condition |-> c,
                   got |-> ~m.err /\ MatchHost(m, site)]
      /\ UNCHANGED <<geosites, geoips, geoIpMatcher>>

\* A matcher that was made is kept under the condition in lower case.
MatchGeoSite(site, c) ==
  LET m == SiteMatcher(c)
  IN  /\ geoSiteMatcher' = IF c \in DOMAIN geoSiteMatcher THEN geoSiteMatcher
                           ELSE Keep(geoSiteMatcher, ToLower(c), m)
      /\ asked' = [what |-> "site", of |-> site, condition |-> c,
                   got |-> ~m.err /\ MatchHost(m, site)]
      /\ UNCHANGED <<geosites, geoips, geoIpMatcher>>

\* What is no address is in no list, not even in one that is inverted.
MatchGeoIp(ip, c) ==
  LET m == IPMatcher(c)
  IN  /\ geoIpMatcher' = IF c \in DOMAIN geoIpMatcher THEN geoIpMatcher
                         ELSE Keep(geoIpMatcher, ToLower(c), m)
      /\ asked' = [what |-> "ip", of |-> ip, condition |-> c,
                   got |-> ~m.err /\ ip.v # 0 /\ MatchNet(m, ip)]
      /\ UNCHANGED <<geosites, geoips, geoSiteMatcher>>

Ask ==
  \E c \in Conditions :
    \/ \E site \in Sites : MatchGeoSite(site, c)
    \/ \E ip \in IPs : MatchGeoIp(ip, c)

GeoSpec == NewGeoMatcher /\ [][Ask]_geoVars
-----------------------------------------------------------------------------
(* The databases. *)

\* The addresses of a network, of which its own may be any.
Size(n)     == 2 ^ (Bits[n.len] - n.prefix)
Lowest(n)   == n.ip - (n.ip % Size(n))
InNet(n, a) == Lowest(n) <= a /\ a < Lowest(n) + Size(n)

Apart(m, n) == Lowest(m) + Size(m) <= Lowest(n) \/ Lowest(n) + Size(n) <= Lowest(m)

\* A name has labels, of characters that are no dots.
IsName(name) ==
  /\ name \in Seq(Seq(STRING)) /\ name # <<>>
  /\ \A i \in 1..Len(name) : \A j \in 1..Len(name[i]) : name[i][j] # "."

\* What theorems take for granted of the constants: a list has finitely many
\* networks, of which no two of one family overlap; what is asked for is an
\* address, a name, or neither.
GeoAssumption ==
  /\ \A v \in {4, 6} : Bits[v] \in Nat
  /\ \A map \in IPMaps : \A country \in DOMAIN map :
       LET list == map[country]
       IN  /\ list.inverse \in BOOLEAN
           /\ IsFiniteSet(list.cidr)
           /\ \A n \in list.cidr :
                n.len \in {4, 6} => /\ n.ip \in Nat /\ n.prefix \in 0..Bits[n.len]
                                   /\ \A m \in list.cidr : m.len = n.len => m = n \/ Apart(m, n)
  /\ \A ip \in IPs : ip.v \in {0, 4, 6} /\ ip.a \in Nat
  /\ \A map \in SiteMaps : \A name \in DOMAIN map : \A d \in map[name] : IsName(d.value)
  /\ \A name \in Sites : IsName(name)
  /\ \A c \in Conditions : c = [name |-> c.name, attrs |-> c.attrs, upper |-> c.upper]
-----------------------------------------------------------------------------
(* What the lists mean, whatever was asked before. *)

\* The entries that speak of a name.
Lists(list, name) ==
  {d \in list :
     CASE d.type = "plain" -> HasPart(Chars(name), Chars(d.value))
       [] d.type = "regex" -> name \in Regex[d.value]
       [] d.type = "full"  -> name = d.value
       [] d.type = "root"  -> IsSuffix(d.value, name)}

Known(list) == \A d \in list : /\ d.type \in {"plain", "regex", "full", "root"}
                               /\ d.type = "regex" => d.value \in DOMAIN Regex

\* geosite: the answer is what the list says of the name with all the attributes
\* of the condition, in upper or lower case, and does not depend on what was
\* asked before; a list that is not understood has no sites.
SitesByTheList ==
  asked.what = "site" =>
    LET c == asked.condition
    IN  asked.got =
          /\ c.name \in DOMAIN geosites
          /\ Known(geosites[c.name])
          /\ \E d \in Lists(geosites[c.name], asked.of) : Range(c.attrs) \subseteq d.attrs

\* geoip: the binary search finds the network an address is in, if there is one,
\* in every list whose networks do not overlap; only an address is ever in an
\* inverted list.
AddressesByTheList ==
  asked.what = "ip" =>
    LET c == asked.condition
        ip == asked.of
    IN  asked.got =
          /\ c.attrs = <<>> /\ c.name \in DOMAIN geoips
          /\ \A n \in geoips[c.name].cidr : n.len \in {4, 6}
          /\ ip.v # 0
          /\ geoips[c.name].inverse #
               \E n \in geoips[c.name].cidr : n.len = ip.v /\ InNet(n, ip.a)
=============================================================================
