------------------------------ MODULE MCSOCKS -------------------------------
(***************************************************************************)
(* An instance of SOCKS for TLC: requests and answers of all versions, in  *)
(* any combination, some of which the analyzer cannot follow.  Addresses   *)
(* have two and three bytes.                                               *)
(***************************************************************************)
EXTENDS SOCKS

V(v) == Part(<<v>>, Empty)

Places ==
  {Place5("cmd", 1, TypeIPv4, <<0, 5>>), Place5("cmd", 2, TypeDomain, <<>>),
   Place5("cmd", 3, TypeIPv6, <<4, 5, 6>>), Bad(Place5("cmd", 4, TypeDomain, <<7>>).bytes),
   Bad(<<5, 1, 0, 2, 9, 9, 9>>)}

\* The client logs in with the method the analyzer takes, or not.
Auths ==
  {<<Methods5(<<0>>), NoAuth5>>, <<Methods5(<<1, 2, 0>>), Login5(<<5, 1>>, <<5>>)>>,
   <<Methods5(<<2>>), Login5(<<>>, <<>>)>>, <<Methods5(<<1>>), Bad(<<>>)>>}

Requests ==
  {<<V(5)>> \o a \o <<p>> : a \in Auths, p \in Places}
    \cup {<<V(5), Methods5(<<0, 2>>), NoAuth5, Bad(Login5(<<5>>, <<>>).bytes)>>,
          <<V(5), Methods5(<<2, 0>>), Bad(<<5, 1>>)>>,
          <<V(4), Place4("cmd", 1, <<3, 0>>), User4(<<9>>)>>,
          <<V(4), Place4("cmd", 2, <<0, 1>>), User4(<<>>), Host4(<<8, 8>>)>>,
          <<V(4), Bad(<<3, 1, 2, 3, 4>>)>>,
          <<Bad(<<6>>)>>}

Answers ==
  {<<V(5), Part(<<0>>, Empty), NoAuth5, Place5("rep", 0, TypeIPv4, <<9, 9>>)>>,
   <<V(5), Part(<<2>>, Empty), Status5(1), Place5("rep", 7, TypeDomain, <<5>>)>>,
   <<V(5), Part(<<255>>, Empty), Bad(<<>>)>>,
   <<V(0), Place4("rep", 91, <<1, 1>>)>>,
   <<V(0), Bad(<<94, 1, 2, 3, 4>>)>>}

MCTalks ==
  {[req |-> Upto(q, Len(q)), resp |-> Upto(r, Len(r)), parts |-> [req |-> q, resp |-> r]] :
     q \in Requests, r \in Answers}
=============================================================================
