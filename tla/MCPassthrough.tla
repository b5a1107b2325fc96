--------------------------- MODULE MCPassthrough ---------------------------
(* Small instances of Passthrough and ProxyHeaders for TLC. *)
EXTENDS Passthrough, ProxyHeaders, SequencesExt

CONSTANTS out1, out2, lan     \* two addresses outside, one of a proxy
Lists(n) == SeqOf({out1, out2, lan, Blank}, n)
SomeHeaders ==
  {[n \in Names |-> CASE n = XFF -> xff [] n = XProto -> proto
                      [] n = "cf-connecting-ip" -> cf [] n = "x-real-ip" -> real
                      [] OTHER -> <<out2>>] :
     xff \in Lists(3), proto \in {<<>>, <<"https">>, <<out1>>},
     cf \in Lists(1), real \in {<<>>, <<Blank>>, <<out1>>}}

\* The two modules share no variable, so nothing is lost by taking them one at a
\* time: the pool moves for one plain request, requests hop while it is at rest.
Plain == [peer |-> out1, scheme |-> "http",
          headers |-> CHOOSE h \in SomeHeaders :
                        \A n \in {XFF, XProto, "cf-connecting-ip", "x-real-ip"} : h[n] = <<>>]
AtRest == \A x \in Requests \cup Calls : pc[x] = "idle"
BothInit == Init /\ Asking
BothNext ==
  \/ origin = Plain /\ hops = 0 /\ Next /\ UNCHANGED chain
  \/ AtRest /\ Hop /\ UNCHANGED vars
BothSpec == BothInit /\ [][BothNext]_<<vars, chain>> /\ Fairness
=============================================================================
