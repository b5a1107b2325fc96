---------------------------- MODULE ProxyHeaders ----------------------------
(***************************************************************************)
(* What Forge believes of the headers proxies add, and what it tells       *)
(* WeKnora of its caller: functions of the peer and the headers of a       *)
(* request, and a request on its way through any number of Forges.         *)
(*                                                                         *)
(* A header is the list of the elements between its commas, repeated       *)
(* fields joined; a header that is absent is the empty list, an element of *)
(* blanks alone is Blank.  Addresses, schemes and the rest are values.     *)
(***************************************************************************)
EXTENDS Integers, Sequences

CONSTANTS
  Values, Blank,    \* elements of headers, the blank one among them
  Trusted,          \* those that _TRUSTED_PROXIES covers
  Schemes,          \* _VALID_SCHEMES
  PlainNames,       \* headers Forge has no part in
  Peers, Asked,     \* who connects to Forge, and the headers requests come with
  MaxHops           \* bound: Forges in a row

XFF == "x-forwarded-for"
XProto == "x-forwarded-proto"
XHost == "x-forwarded-host"
\* Of the headers Forge strips, those it acts on and one of each other kind: its own,
\* the transport's, other bookkeeping of proxies.
ProxyNames == {XFF, XProto, XHost, "cf-connecting-ip", "x-real-ip", "forwarded"}
Stripped == ProxyNames \cup {"host", "x-api-key", "x-forge-signature", "connection"}
Names == Stripped \cup PlainNames
Headers == [Names -> Seq(Values)]

ASSUME ProxyAssumption ==
  /\ Blank \in Values /\ Trusted \subseteq Values \ {Blank}
  /\ Schemes \subseteq Values \ {Blank}
  /\ PlainNames \cap Stripped = {}
  /\ Peers \subseteq Values /\ Asked \subseteq Headers /\ MaxHops \in Nat

VARIABLES
  origin,     \* the caller's request: peer, scheme and headers
  request,    \* as the next Forge gets it
  hops        \* Forges it has passed

chain == <<origin, request, hops>>

Rightmost(S) == CHOOSE i \in S : \A j \in S : j <= i
Leftmost(S) == CHOOSE i \in S : \A j \in S : i <= j

Trusts(peer) == peer \in Trusted
FirstValue(s) == IF s = <<>> THEN Blank ELSE s[1]

Untrusted(s) == {i \in DOMAIN s : s[i] # Blank /\ ~Trusts(s[i])}
Named(s) == {i \in DOMAIN s : s[i] # Blank}
\* Mutated ResolveXff: the chain is read from its left.
ResolveXffLeft(s) ==
  IF Untrusted(s) # {} THEN s[Leftmost(Untrusted(s))]
  ELSE IF Named(s) # {} THEN s[Leftmost(Named(s))] ELSE Blank

ResolveXff(s) ==
  IF Untrusted(s) # {} THEN s[Rightmost(Untrusted(s))]
  ELSE IF Named(s) # {} THEN s[Leftmost(Named(s))] ELSE Blank

ResolveClientIp(h) ==
  LET cf == FirstValue(h["cf-connecting-ip"])
      real == FirstValue(h["x-real-ip"])
  IN IF cf # Blank THEN cf ELSE IF real # Blank THEN real ELSE ResolveXff(h[XFF])

\* ProxyHeadersMiddleware: the scheme and the client of the scope.
Apply(peer, scheme, h) ==
  LET proto == FirstValue(h[XProto])
      ip == ResolveClientIp(h)
  IN [scheme |-> IF Trusts(peer) /\ proto \in Schemes THEN proto ELSE scheme,
      client |-> IF Trusts(peer) /\ ip # Blank THEN ip ELSE peer]

\* Mutated IsStripped: a header that Forge acts on is relayed as well.
IsStrippedButReal(n) == n \in Stripped \ {"x-real-ip"}

IsStripped(n) == n \in Stripped

ForwardedHeaders(h, info) ==
  [n \in {XProto, XFF, XHost} |->
     CASE n = XProto -> <<info.scheme>>
       [] n = XFF -> IF info.client # Blank THEN <<info.client>> ELSE <<>>
       [] n = XHost -> h["host"]]

\* forward_headers, and the Host of the request to WeKnora, which is WeKnora's.
ForwardHeaders(h, info, key, host) ==
  [n \in Names |->
     CASE n = "x-api-key" -> <<key>>
       [] n = "host" -> <<host>>
       [] n \in {XProto, XFF, XHost} -> ForwardedHeaders(h, info)[n]
       [] OTHER -> IF IsStripped(n) THEN <<>> ELSE h[n]]

Told(q) == ForwardHeaders(q.headers, Apply(q.peer, q.scheme, q.headers), Blank, Blank)

-----------------------------------------------------------------------------
(* A request on its way through Forges, each the WeKnora of the one before *)
(* and a trusted proxy to the one after.  What a Forge sets without regard *)
(* to the request, its key and WeKnora's host, is Blank.                   *)

Asking ==
  /\ origin \in [peer: Peers, scheme: Schemes, headers: Asked]
  /\ request = origin /\ hops = 0
Hop ==
  /\ hops < MaxHops /\ hops' = hops + 1
  /\ \E first \in Trusted, scheme \in Schemes :
       request' = [peer |-> first, scheme |-> scheme, headers |-> Told(request)]
  /\ UNCHANGED origin
ChainSpec == Asking /\ [][Hop]_chain

-----------------------------------------------------------------------------
\* Forges in a row tell WeKnora what one does, whatever the request came with, but
\* for X-Forwarded-Host, in which each gives the host it was asked as; provided the
\* first knows who asks.
Agree(q, o) == \A n \in Names \ {XHost} : Told(q)[n] = Told(o)[n]
ChainsAgree == origin.peer # Blank => Agree(request, origin)

\* Requests that are one to WeKnora: without the headers proxies add, if the peer
\* is no proxy; without what is left of an entry that no proxy made.
With(q, h) == [peer |-> q.peer, scheme |-> q.scheme, headers |-> h]
Bare(h) == [n \in Names |-> IF n \in ProxyNames THEN <<>> ELSE h[n]]
Suffix(s, i) == [j \in 1 .. Len(s) - i + 1 |-> s[j + i - 1]]
Cut(h, i) == [n \in Names |-> IF n = XFF THEN Suffix(h[XFF], i) ELSE h[n]]
Alike(q) ==
  {With(q, Cut(q.headers, i)) : i \in Untrusted(q.headers[XFF])}
    \cup (IF Trusts(q.peer) THEN {} ELSE {With(q, Bare(q.headers))})

\* What a peer that is no proxy writes into proxy headers, and what stands left of
\* an entry no proxy made, changes nothing WeKnora is told, however many Forges are
\* on the way.  What a trusted proxy writes does, and so does a caller it lets write.
CallersUnheard ==
  origin.peer # Blank \/ hops = 0 => \A o \in Alike(origin) : Agree(request, o)
=============================================================================
