------------------------ MODULE ProxyHeaders_proofs ------------------------
(***************************************************************************)
(* Proofs about ProxyHeaders, for any headers, proxies and peers.          *)
(***************************************************************************)
EXTENDS ProxyHeaders, WellFoundedInduction, TLAPS

LEMMA NamesType ==
  /\ XFF \in Names /\ XProto \in Names /\ "cf-connecting-ip" \in Names /\ "x-real-ip" \in Names
  /\ ProxyNames \subseteq Names /\ "host" \in Names /\ "host" \notin ProxyNames
  BY DEF Names, Stripped, ProxyNames, XFF, XProto, XHost

\* A direct caller is told of by its address and the scheme it came with alone.
LEMMA DirectForThemselves ==
  ASSUME NEW q \in [peer: Values, scheme: Schemes, headers: Headers], ~Trusts(q.peer)
  PROVE  Told(q) = Told(With(q, Bare(q.headers)))
<1> DEFINE h == q.headers
           bare == Bare(h)
           o == With(q, bare)
<1>0. o.peer = q.peer /\ o.scheme = q.scheme /\ o.headers = bare
  BY DEF With
<1> HIDE DEF o
<1>1. Apply(q.peer, q.scheme, h) = [scheme |-> q.scheme, client |-> q.peer]
      /\ Apply(q.peer, q.scheme, bare) = [scheme |-> q.scheme, client |-> q.peer]
  BY DEF Apply
<1>2. \A n \in Names : ~IsStripped(n) => bare[n] = h[n]
  BY DEF Bare, IsStripped, Stripped
<1>3. bare["host"] = h["host"]
  BY NamesType DEF Bare
<1> HIDE DEF bare
<1>4. \A info : ForwardHeaders(h, info, Blank, Blank) = ForwardHeaders(bare, info, Blank, Blank)
  <2> TAKE info
  <2>1. ForwardedHeaders(h, info) = ForwardedHeaders(bare, info)
    BY <1>3 DEF ForwardedHeaders
  <2> QED BY <1>2, <2>1 DEF ForwardHeaders
<1> QED BY <1>0, <1>1, <1>4 DEF Told, o, bare

-----------------------------------------------------------------------------
(* X-Forwarded-For.                                                        *)

\* A set of numbers has a first one, a set of places in a list a last one.
LEMMA HasLeftmost ==
  ASSUME NEW S \in SUBSET Nat, S # {}
  PROVE  Leftmost(S) \in S /\ \A j \in S : Leftmost(S) <= j
<1> DEFINE R == {ss \in Nat \X Nat : ss[1] < ss[2]}
<1>0. IsWellFoundedOn(R, Nat)
  BY NatLessThanWellFounded, Zenon DEF OpToRel
<1>1. \E i \in S : \A j \in S : ~ (<<j, i>> \in R)
  <2> HIDE DEF R
  <2> QED BY <1>0, WFMin
<1>2. \A i, j \in Nat : <<j, i>> \in R <=> j < i
  OBVIOUS
<1>3. \E i \in S : \A j \in S : i <= j
  <2> HIDE DEF R
  <2>1. PICK i \in S : \A j \in S : ~ (<<j, i>> \in R)
    BY <1>1
  <2>2. \A j \in S : i <= j
    <3> TAKE j \in S
    <3>1. i \in Nat /\ j \in Nat /\ ~ (j < i)
      BY <1>2, <2>1
    <3> QED BY <3>1
  <2> QED BY <2>2
<1> QED BY <1>3 DEF Leftmost

LEMMA HasRightmost ==
  ASSUME NEW n \in Nat, NEW S \in SUBSET (1 .. n), S # {}
  PROVE  Rightmost(S) \in S /\ \A j \in S : j <= Rightmost(S)
<1> DEFINE D == {n - i : i \in S}
<1>1. D \in SUBSET Nat
  OBVIOUS
<1>2. D # {}
  OBVIOUS
<1>3. PICK d \in D : \A e \in D : d <= e
  <2> HIDE DEF D
  <2> QED BY <1>1, <1>2, HasLeftmost
<1>4. PICK i \in S : d = n - i
  OBVIOUS
<1>5. \A j \in S : j <= i
  <2> TAKE j \in S
  <2>1. n - i <= n - j
    BY <1>3, <1>4
  <2> QED BY <2>1
<1> QED BY <1>5 DEF Rightmost

\* What stands left of an untrusted entry decides nothing.
LEMMA LeftUnheard ==
  ASSUME NEW h \in Headers, NEW i \in Untrusted(h[XFF])
  PROVE  ResolveXff(h[XFF]) = ResolveXff(Suffix(h[XFF], i))
<1> DEFINE s == h[XFF]
           t == Suffix(s, i)
           k == Rightmost(Untrusted(s))
<1>1. s \in Seq(Values)
  BY NamesType DEF Headers
<1> HIDE DEF s
<1>2. /\ Len(s) \in Nat /\ DOMAIN s = 1 .. Len(s)
      /\ Untrusted(s) \in SUBSET (1 .. Len(s)) /\ i \in Untrusted(s)
  BY <1>1 DEF Untrusted, s
<1>3. k \in Untrusted(s) /\ \A j \in Untrusted(s) : j <= k
  BY <1>2, HasRightmost
<1> HIDE DEF k
<1>4. i \in 1 .. Len(s) /\ k \in 1 .. Len(s) /\ i <= k
  BY <1>2, <1>3
<1> DEFINE m == Len(s) - i + 1
<1>5. m \in Nat /\ DOMAIN t = 1 .. m /\ \A j \in 1 .. m : t[j] = s[j + i - 1]
  BY <1>2, <1>4 DEF Suffix
<1>6. \A j \in 1 .. m : j + i - 1 \in 1 .. Len(s)
  BY <1>2, <1>4
<1> HIDE DEF t, m
<1>7. \A j \in 1 .. m : j \in Untrusted(t) <=> j + i - 1 \in Untrusted(s)
  BY <1>2, <1>5, <1>6 DEF Untrusted
<1>8. Untrusted(t) \in SUBSET (1 .. m)
  BY <1>5 DEF Untrusted
<1>9. k - i + 1 \in 1 .. m /\ (k - i + 1) + i - 1 = k
  BY <1>2, <1>4 DEF m
<1>10. k - i + 1 \in Untrusted(t)
  BY <1>3, <1>7, <1>9
<1>11. Rightmost(Untrusted(t)) \in Untrusted(t)
       /\ \A j \in Untrusted(t) : j <= Rightmost(Untrusted(t))
  BY <1>5, <1>8, <1>10, HasRightmost
<1>12. Rightmost(Untrusted(t)) = k - i + 1
  <2> DEFINE r == Rightmost(Untrusted(t))
  <2>1. r \in 1 .. m /\ k - i + 1 <= r
    BY <1>8, <1>10, <1>11
  <2>2. r + i - 1 \in Untrusted(s)
    BY <1>7, <1>11, <2>1
  <2>3. r + i - 1 <= k
    BY <1>3, <2>2
  <2> HIDE DEF r
  <2>4. r = k - i + 1
    BY <1>4, <1>5, <2>1, <2>3
  <2> QED BY <2>4 DEF r
<1>13. t[k - i + 1] = s[k]
  BY <1>5, <1>9
<1>14. ResolveXff(s) = s[k] /\ ResolveXff(t) = t[k - i + 1]
  BY <1>2, <1>10, <1>12 DEF ResolveXff, k
<1> QED BY <1>13, <1>14 DEF s, t

\* Nor does it for the request as a whole.
LEMMA CutUnheard ==
  ASSUME NEW q \in [peer: Values, scheme: Schemes, headers: Headers],
         NEW i \in Untrusted(q.headers[XFF])
  PROVE  Told(q) = Told(With(q, Cut(q.headers, i)))
<1> DEFINE h == q.headers
           cut == Cut(h, i)
           o == With(q, cut)
<1>0. o.peer = q.peer /\ o.scheme = q.scheme /\ o.headers = cut
  BY DEF With
<1> HIDE DEF o
<1>1. cut[XFF] = Suffix(h[XFF], i) /\ \A n \in Names \ {XFF} : cut[n] = h[n]
  BY NamesType DEF Cut
<1>2. ResolveXff(h[XFF]) = ResolveXff(cut[XFF])
  BY <1>1, LeftUnheard
<1> HIDE DEF cut
<1>3. ResolveClientIp(h) = ResolveClientIp(cut)
  BY <1>1, <1>2, NamesType DEF ResolveClientIp, XFF
<1>4. Apply(q.peer, q.scheme, h) = Apply(q.peer, q.scheme, cut)
  BY <1>1, <1>3, NamesType DEF Apply, XFF, XProto
<1>5. \A info : ForwardHeaders(h, info, Blank, Blank) = ForwardHeaders(cut, info, Blank, Blank)
  <2> TAKE info
  <2>1. ForwardedHeaders(h, info) = ForwardedHeaders(cut, info)
    BY <1>1, NamesType DEF ForwardedHeaders, XFF
  <2>2. \A n \in Names : n \in {XProto, XFF, XHost} \/ cut[n] = h[n]
    BY <1>1
  <2> QED BY <2>1, <2>2 DEF ForwardHeaders
<1> QED BY <1>0, <1>4, <1>5 DEF Told, o, cut

-----------------------------------------------------------------------------
(* Forges in a row.                                                        *)

LEMMA OneEntry ==
  ASSUME NEW c \in Values \ {Blank}
  PROVE  ResolveXff(<<c>>) = c
<1>1. Named(<<c>>) = {1} /\ Untrusted(<<c>>) \in {{}, {1}}
  BY DEF Named, Untrusted
<1>2. Leftmost({1}) = 1 /\ Rightmost({1}) = 1
  BY DEF Leftmost, Rightmost
<1> QED BY <1>1, <1>2 DEF ResolveXff

\* The headers a client is found in hold values of headers.
LEMMA ResolvedValue ==
  ASSUME NEW h \in Headers
  PROVE  ResolveClientIp(h) \in Values
<1>1. \A s \in Seq(Values) : FirstValue(s) \in Values
  BY ProxyAssumption DEF FirstValue
<1>2. \A s \in Seq(Values) : ResolveXff(s) \in Values
  <2> TAKE s \in Seq(Values)
  <2>0. Len(s) \in Nat /\ DOMAIN s = 1 .. Len(s) /\ DOMAIN s \subseteq Nat
    OBVIOUS
  <2>1. \A S \in SUBSET DOMAIN s : S # {} => Rightmost(S) \in DOMAIN s
    BY <2>0, HasRightmost
  <2>2. \A S \in SUBSET DOMAIN s : S # {} => Leftmost(S) \in DOMAIN s
    BY <2>0, HasLeftmost
  <2> QED BY <2>1, <2>2, ProxyAssumption DEF ResolveXff, Untrusted, Named
<1> QED BY <1>1, <1>2, NamesType DEF ResolveClientIp, Headers

\* What Forge sends is headers.
LEMMA ToldType ==
  ASSUME NEW q \in [peer: Values, scheme: Schemes, headers: Headers]
  PROVE  /\ Told(q) \in Headers
         /\ Apply(q.peer, q.scheme, q.headers) \in [scheme: Schemes, client: Values]
<1> DEFINE h == q.headers
           info == Apply(q.peer, q.scheme, h)
<1>1. info \in [scheme: Schemes, client: Values]
  BY ResolvedValue DEF Apply
<1> HIDE DEF info
<1>2. \A n \in Names : h[n] \in Seq(Values)
  BY DEF Headers
<1>3. \A v \in Values : <<v>> \in Seq(Values)
  OBVIOUS
<1>4. <<>> \in Seq(Values)
  OBVIOUS
<1>5. info.scheme \in Values /\ info.client \in Values /\ Blank \in Values
  BY <1>1, ProxyAssumption
<1>6. ForwardedHeaders(h, info) \in [{XProto, XFF, XHost} -> Seq(Values)]
  <2>1. h["host"] \in Seq(Values)
    BY <1>2, NamesType
  <2> QED BY <1>3, <1>4, <1>5, <2>1 DEF ForwardedHeaders
<1>7. \A n \in Names : ForwardHeaders(h, info, Blank, Blank)[n] \in Seq(Values)
  BY <1>2, <1>3, <1>4, <1>5, <1>6 DEF ForwardHeaders
<1>8. ForwardHeaders(h, info, Blank, Blank) \in Headers
  BY <1>7 DEF ForwardHeaders, Headers
<1> QED BY <1>1, <1>8 DEF Told, info

\* A second Forge tells WeKnora what the first would have.
LEMMA SecondAgrees ==
  ASSUME NEW q \in [peer: Values \ {Blank}, scheme: Schemes, headers: Headers],
         NEW first \in Trusted, NEW other \in Schemes
  PROVE  Agree([peer |-> first, scheme |-> other, headers |-> Told(q)], q)
<1> DEFINE h == q.headers
           info == Apply(q.peer, q.scheme, h)
           once == Told(q)
           again == Apply(first, other, once)
           twice == ForwardHeaders(once, again, Blank, Blank)
<1> SUFFICES ASSUME NEW n \in Names \ {XHost} PROVE twice[n] = once[n]
  BY DEF Agree, Told
<1>2. info.scheme \in Schemes /\ info.client \in Values \ {Blank}
  BY ResolvedValue DEF Apply
<1>0. once = ForwardHeaders(h, info, Blank, Blank)
  BY DEF Told
<1> HIDE DEF info
<1>3. /\ once["cf-connecting-ip"] = <<>> /\ once["x-real-ip"] = <<>>
      /\ once[XFF] = <<info.client>> /\ once[XProto] = <<info.scheme>>
  BY <1>0, <1>2, NamesType DEF ForwardHeaders, ForwardedHeaders, IsStripped, Stripped, ProxyNames,
                               XFF, XProto, XHost
<1>4. \A k \in Names \ {XFF, XProto, XHost} :
        once[k] = IF k \in {"x-api-key", "host"} THEN <<Blank>>
                  ELSE IF IsStripped(k) THEN <<>> ELSE h[k]
  BY <1>0 DEF ForwardHeaders
<1> HIDE DEF once
<1>5. ResolveClientIp(once) = info.client
  BY <1>2, <1>3, OneEntry DEF ResolveClientIp, FirstValue
<1>6. FirstValue(once[XProto]) = info.scheme
  BY <1>3 DEF FirstValue
<1>7. again.scheme = info.scheme /\ again.client = info.client
  BY <1>2, <1>5, <1>6 DEF Apply, Trusts
<1> HIDE DEF again
<1>8. ASSUME n \in {XFF, XProto} PROVE twice[n] = once[n]
  <2>1. n # "x-api-key" /\ n # "host" /\ n \in {XProto, XFF, XHost}
    BY <1>8 DEF XFF, XProto
  <2>2. twice[n] = ForwardedHeaders(once, again)[n]
    BY <2>1 DEF ForwardHeaders
  <2>3. ForwardedHeaders(once, again)[n] = once[n]
    BY <1>2, <1>3, <1>7, <1>8 DEF ForwardedHeaders, XFF, XProto, XHost
  <2> QED BY <2>2, <2>3
<1>9. ASSUME n \notin {XFF, XProto} PROVE twice[n] = once[n]
  <2>0. n \notin {XProto, XFF, XHost}
    BY <1>9
  <2>1. twice[n] = IF n \in {"x-api-key", "host"} THEN <<Blank>>
                   ELSE IF IsStripped(n) THEN <<>> ELSE once[n]
    BY <2>0 DEF ForwardHeaders
  <2> QED BY <1>4, <2>0, <2>1
<1> QED BY <1>8, <1>9

\* However far a request has come, the next Forge hears what the first did.
Heard ==
  /\ origin \in [peer: Values, scheme: Schemes, headers: Headers]
  /\ hops \in Nat /\ (hops = 0 => request = origin)
  /\ origin.peer # Blank =>
       /\ request \in [peer: Values \ {Blank}, scheme: Schemes, headers: Headers]
       /\ Agree(request, origin)

LEMMA AlwaysHeard == ChainSpec => []Heard
<1>1. Asking => Heard
  <2> SUFFICES ASSUME Asking PROVE Heard
    OBVIOUS
  <2>1. origin \in [peer: Values, scheme: Schemes, headers: Headers]
    BY ProxyAssumption DEF Asking
  <2> QED BY <2>1 DEF Asking, Heard, Agree
<1>2. Heard /\ [Hop]_chain => Heard'
  <2> SUFFICES ASSUME Heard, [Hop]_chain PROVE Heard'
    OBVIOUS
  <2>1. CASE UNCHANGED chain
    BY <2>1 DEF chain, Heard, Agree
  <2>2. CASE Hop
    <3>1. PICK first \in Trusted, scheme \in Schemes :
            request' = [peer |-> first, scheme |-> scheme, headers |-> Told(request)]
      BY <2>2 DEF Hop
    <3>2. origin' = origin /\ hops' \in Nat \ {0}
      BY <2>2 DEF Hop, Heard
    <3>3. ASSUME origin.peer # Blank
          PROVE  /\ request' \in [peer: Values \ {Blank}, scheme: Schemes, headers: Headers]
                 /\ Agree(request', origin)
      <4>1. request \in [peer: Values \ {Blank}, scheme: Schemes, headers: Headers]
              /\ Agree(request, origin)
        BY <3>3 DEF Heard
      <4>2. Told(request) \in Headers
        BY <4>1, ToldType
      <4>3. request' \in [peer: Values \ {Blank}, scheme: Schemes, headers: Headers]
        BY <3>1, <4>2, ProxyAssumption
      <4>4. Agree(request', request)
        BY <3>1, <4>1, SecondAgrees
      <4> QED BY <4>1, <4>3, <4>4 DEF Agree
    <3> QED BY <3>2, <3>3 DEF Heard, Agree
  <2> QED BY <2>1, <2>2
<1> QED BY <1>1, <1>2, PTL DEF ChainSpec

\* Forges in a row tell WeKnora what the first would have, however many they are.
THEOREM ChainsAlwaysAgree == ChainSpec => []ChainsAgree
<1>1. Heard => ChainsAgree
  BY DEF Heard, ChainsAgree
<1> QED BY <1>1, AlwaysHeard, PTL

\* Whatever a caller writes, be it direct or left in a chain, changes nothing of
\* whom WeKnora takes it for, at the first Forge or at any behind it.
THEOREM CallersAreUnheard == ChainSpec => []CallersUnheard
<1>1. Heard => CallersUnheard
  <2> SUFFICES ASSUME Heard, origin.peer # Blank \/ hops = 0, NEW o \in Alike(origin)
               PROVE  Agree(request, o)
    BY DEF CallersUnheard
  <2>1. Told(origin) = Told(o)
    <3>1. CASE \E i \in Untrusted(origin.headers[XFF]) : o = With(origin, Cut(origin.headers, i))
      BY <3>1, CutUnheard DEF Heard
    <3>2. CASE ~Trusts(origin.peer) /\ o = With(origin, Bare(origin.headers))
      BY <3>2, DirectForThemselves DEF Heard
    <3> QED BY <3>1, <3>2 DEF Alike
  <2>2. Agree(request, origin)
    BY DEF Heard, Agree
  <2> QED BY <2>1, <2>2 DEF Agree
<1> QED BY <1>1, AlwaysHeard, PTL
=============================================================================
