------------------------ MODULE RequestPipeline_proofs ------------------------
(***************************************************************************)
(* Proofs about RequestPipeline for every number of worker threads, every  *)
(* sequence of requests and every configuration of the proxies, the rate   *)
(* limit and the audit pages.                                              *)
(***************************************************************************)
EXTENDS RequestPipeline, FiniteSetTheorems, NaturalsInduction, TLAPS

-----------------------------------------------------------------------------
(* Induction over the natural numbers, about a set instead of a predicate. *)

LEMMA SetInduction ==
    ASSUME NEW S, 0 \in S, \A n \in Nat : n \in S => n + 1 \in S
    PROVE  Nat \subseteq S
<1> SUFFICES ASSUME Nat \ S # {} PROVE FALSE
    OBVIOUS
<1> DEFINE R == OpToRel(<, Nat)
<1>1. IsWellFoundedOn(R, Nat)
    BY NatLessThanWellFounded
<1>2. PICK x \in Nat \ S : \A y \in Nat \ S : ~(<<y, x>> \in R)
    <2> HIDE DEF R
    <2> QED BY <1>1, WFMin
<1>3. x # 0 /\ x - 1 \in Nat /\ x - 1 < x
    OBVIOUS
<1>4. <<x - 1, x>> \in R
    BY <1>3 DEF OpToRel
<1>5. x - 1 \in S
    BY <1>2, <1>3, <1>4
<1>6. (x - 1) + 1 \in S
    BY <1>3, <1>5
<1> QED BY <1>6

(* The same downwards from an upper bound.                                 *)
LEMMA DownInduction ==
    ASSUME NEW n \in Nat, NEW S, n \in S,
           \A i \in 0 .. n - 1 : i + 1 \in S => i \in S
    PROVE  0 .. n \subseteq S
<1> DEFINE T == {k \in Nat : k <= n => n - k \in S}
<1>1. 0 \in T
    OBVIOUS
<1>2. \A k \in Nat : k \in T => k + 1 \in T
    <2> SUFFICES ASSUME NEW k \in Nat, k \in T, k + 1 <= n
                 PROVE  n - (k + 1) \in S
        OBVIOUS
    <2>1. n - k \in S /\ n - (k + 1) \in 0 .. n - 1
        OBVIOUS
    <2>2. (n - (k + 1)) + 1 = n - k
        OBVIOUS
    <2> QED BY <2>1, <2>2
<1>3. Nat \subseteq T
    <2> HIDE DEF T
    <2> QED BY <1>1, <1>2, SetInduction
<1> SUFFICES ASSUME NEW i \in 0 .. n PROVE i \in S
    OBVIOUS
<1>4. n - i \in Nat /\ n - i <= n /\ n - (n - i) = i
    OBVIOUS
<1> QED BY <1>3, <1>4

LEMMA LeastElement ==
    ASSUME NEW T \in SUBSET Nat, T # {}
    PROVE  \E x \in T : \A y \in T : x <= y
<1> DEFINE R == OpToRel(<, Nat)
<1>1. IsWellFoundedOn(R, Nat)
    BY NatLessThanWellFounded
<1>2. PICK x \in T : \A y \in T : ~(<<y, x>> \in R)
    <2> HIDE DEF R
    <2> QED BY <1>1, WFMin
<1>3. \A y \in T : y \in Nat /\ x \in Nat /\ ~(y < x)
    BY <1>2 DEF OpToRel
<1>4. ASSUME NEW y \in T PROVE x <= y
    BY <1>3
<1> HIDE DEF R
<1> QED BY <1>4

LEMMA GreatestElement ==
    ASSUME NEW n \in Nat, NEW T \in SUBSET (0 .. n), T # {}
    PROVE  /\ Max(T) \in T
           /\ \A y \in T : y <= Max(T)
<1> DEFINE D == {d \in Nat : n - d \in T}
<1>1. D # {}
    <2>1. PICK x \in T : TRUE
        OBVIOUS
    <2>2. n - x \in Nat /\ n - (n - x) = x
        BY <2>1
    <2> QED BY <2>1, <2>2
<1>2. PICK d \in D : \A e \in D : d <= e
    <2>1. D \in SUBSET Nat
        OBVIOUS
    <2> HIDE DEF D
    <2> QED BY <1>1, <2>1, LeastElement
<1>3. \A y \in T : n - y \in D
    <2> SUFFICES ASSUME NEW y \in T PROVE n - y \in D
        OBVIOUS
    <2>1. n - y \in Nat /\ n - (n - y) = y
        OBVIOUS
    <2> QED BY <2>1
<1>4. n - d \in T /\ \A y \in T : n - d >= y
    <2>1. n - d \in T /\ d \in Nat
        BY <1>2
    <2>2. ASSUME NEW y \in T PROVE n - d >= y
        <3>1. d <= n - y
            BY <1>2, <1>3
        <3> QED BY <2>1, <3>1
    <2> QED BY <2>1, <2>2
<1>5. \E x \in T : \A y \in T : x >= y
    BY <1>4
<1>6. Max(T) \in T /\ \A y \in T : Max(T) >= y
    BY <1>5 DEF Max
<1> QED BY <1>6

-----------------------------------------------------------------------------
(* Who the client is.                                                      *)

(* The positions right of h whose address is not a proxy's, and the        *)
(* address that the walk from the right end has reached at h.              *)
Strangers(hops, h) == {i \in h + 1 .. Len(hops) : ~is_trusted(hops[i])}
ReachedAt(hops, h) ==
    IF Strangers(hops, h) = {} THEN hops[h + 1] ELSE hops[Max(Strangers(hops, h))]

LEMMA LastStranger ==
    ASSUME NEW hops, Len(hops) \in Nat, NEW h \in Nat, Strangers(hops, h) # {}
    PROVE  /\ Max(Strangers(hops, h)) \in Strangers(hops, h)
           /\ \A i \in Strangers(hops, h) : i <= Max(Strangers(hops, h))
<1>1. Strangers(hops, h) \in SUBSET (0 .. Len(hops))
    BY DEF Strangers
<1> QED BY <1>1, GreatestElement

(* One hop to the left: the loop of resolve.                               *)
LEMMA OneHop ==
    ASSUME NEW hops, Len(hops) \in Nat, NEW h \in Nat, h + 1 < Len(hops)
    PROVE  ReachedAt(hops, h) =
             IF is_trusted(ReachedAt(hops, h + 1)) THEN hops[h + 1]
             ELSE ReachedAt(hops, h + 1)
<1> DEFINE U == Strangers(hops, h)
           V == Strangers(hops, h + 1)
<1>1. /\ V \subseteq U
      /\ \A i \in U : i \in V \/ i = h + 1
      /\ \A i \in V : i \in Nat /\ ~is_trusted(hops[i]) /\ h + 1 < i
      /\ V = {} => is_trusted(hops[h + 2])
    BY DEF Strangers
<1>2. CASE V = {}
    <2>1. ReachedAt(hops, h + 1) = hops[h + 2] /\ is_trusted(hops[h + 2])
        <3>1. ReachedAt(hops, h + 1) = hops[(h + 1) + 1] /\ (h + 1) + 1 = h + 2
            BY <1>2 DEF ReachedAt
        <3> QED BY <1>1, <1>2, <3>1
    <2>2. ReachedAt(hops, h) = hops[h + 1]
        <3>1. CASE U = {}
            BY <3>1 DEF ReachedAt
        <3>2. CASE U # {}
            <4>1. Max(U) \in U
                BY <3>2, LastStranger
            <4>2. Max(U) = h + 1
                BY <1>1, <1>2, <4>1
            <4> QED BY <3>2, <4>2 DEF ReachedAt
        <3> QED BY <3>1, <3>2
    <2> QED BY <2>1, <2>2
<1>3. CASE V # {}
    <2>1. Max(V) \in V /\ \A i \in V : i <= Max(V)
        BY <1>3, LastStranger
    <2>2. U # {}
        BY <1>1, <1>3
    <2>3. Max(U) \in U /\ \A i \in U : i <= Max(U)
        BY <2>2, LastStranger
    <2>4. Max(U) = Max(V)
        <3>1. Max(V) \in U /\ Max(V) \in Nat /\ h + 1 < Max(V)
            BY <1>1, <2>1
        <3>2. Max(V) <= Max(U)
            BY <2>3, <3>1
        <3>3. Max(U) \in V
            BY <1>1, <2>3, <3>1, <3>2
        <3>4. Max(U) <= Max(V) /\ Max(U) \in Nat
            BY <1>1, <2>1, <3>3
        <3> HIDE DEF U, V
        <3> QED BY <3>1, <3>2, <3>4
    <2>5. ~is_trusted(hops[Max(V)])
        BY <1>1, <2>1
    <2>6. ReachedAt(hops, h) = hops[Max(V)] /\ ReachedAt(hops, h + 1) = hops[Max(V)]
        BY <1>3, <2>2, <2>4 DEF ReachedAt
    <2> QED BY <2>5, <2>6
<1> QED BY <1>2, <1>3

(* WalkChain ends at the last address that is not a proxy's, or at the     *)
(* left end.                                                               *)
LEMMA WalkEnds ==
    ASSUME NEW peer, NEW S, NEW chain \in Seq(S)
    PROVE  WalkChain(peer, chain) = ReachedAt(chain \o <<peer>>, 0)
<1> DEFINE n == Len(chain)
           hops == chain \o <<peer>>
           Step1(f, hop) ==
               IF hop = n THEN peer
               ELSE IF is_trusted(f[hop + 1]) THEN chain[hop + 1] ELSE f[hop + 1]
           Walk(f) == f = [hop \in 0 .. n |-> Step1(f, hop)]
           w == [hop \in 0 .. n |-> ReachedAt(hops, hop)]
           g == CHOOSE f : Walk(f)
<1>1. /\ n \in Nat /\ Len(hops) = n + 1
      /\ hops[n + 1] = peer
      /\ \A i \in 1 .. n : hops[i] = chain[i]
    OBVIOUS
<1>2. ReachedAt(hops, n) = peer
    <2>1. \A i \in Strangers(hops, n) : i = n + 1
        BY <1>1 DEF Strangers
    <2>2. CASE Strangers(hops, n) = {}
        BY <1>1, <2>2 DEF ReachedAt
    <2>3. CASE Strangers(hops, n) # {}
        <3>1. Max(Strangers(hops, n)) \in Strangers(hops, n)
            <4> HIDE DEF hops, n
            <4> QED BY <1>1, <2>3, LastStranger
        <3> QED BY <1>1, <2>1, <2>3, <3>1 DEF ReachedAt
    <2> QED BY <2>2, <2>3
<1>3. \A hop \in 0 .. n : ReachedAt(hops, hop) = Step1(w, hop)
    <2> SUFFICES ASSUME NEW hop \in 0 .. n PROVE ReachedAt(hops, hop) = Step1(w, hop)
        OBVIOUS
    <2>1. CASE hop = n
        BY <1>2, <2>1
    <2>2. CASE hop # n
        <3>1. /\ hop \in Nat /\ hop + 1 < Len(hops) /\ Len(hops) \in Nat
              /\ hop + 1 \in 0 .. n /\ hop + 1 \in 1 .. n
            BY <1>1, <2>2
        <3>2. w[hop + 1] = ReachedAt(hops, hop + 1) /\ hops[hop + 1] = chain[hop + 1]
            BY <1>1, <3>1
        <3>3. ReachedAt(hops, hop) =
                 IF is_trusted(ReachedAt(hops, hop + 1)) THEN hops[hop + 1]
                 ELSE ReachedAt(hops, hop + 1)
            <4> HIDE DEF hops, n
            <4> QED BY <3>1, OneHop
        <3> HIDE DEF hops, n, w
        <3> QED BY <2>2, <3>2, <3>3
    <2> QED BY <2>1, <2>2
<1>4. Walk(w)
    <2> HIDE DEF Step1, hops, n
    <2>1. [hop \in 0 .. n |-> Step1(w, hop)] = [hop \in 0 .. n |-> ReachedAt(hops, hop)]
        BY <1>3
    <2> QED BY <2>1
<1>5. Walk(g)
    <2> HIDE DEF Walk, w
    <2> QED BY <1>4
<1>6. 0 .. n \subseteq {hop \in 0 .. n : g[hop] = ReachedAt(hops, hop)}
    <2> DEFINE T == {hop \in 0 .. n : g[hop] = ReachedAt(hops, hop)}
    <2>0. \A hop \in 0 .. n : g[hop] = Step1(g, hop)
        <3> HIDE DEF g, Step1, n
        <3> QED BY <1>5
    <2>1. n \in T
        <3>1. n \in 0 .. n /\ g[n] = Step1(g, n) /\ Step1(g, n) = peer
            <4> HIDE DEF g, n
            <4> QED BY <1>1, <2>0
        <3> HIDE DEF g, n, hops, Step1
        <3> QED BY <1>2, <3>1
    <2>2. \A i \in 0 .. n - 1 : i + 1 \in T => i \in T
        <3> SUFFICES ASSUME NEW i \in 0 .. n - 1, i + 1 \in T PROVE i \in T
            OBVIOUS
        <3>1. /\ i \in 0 .. n /\ i # n /\ i + 1 \in 0 .. n
              /\ g[i + 1] = ReachedAt(hops, i + 1)
            <4> HIDE DEF g, n, hops
            <4> QED BY <1>1
        <3>2. g[i] = Step1(g, i) /\ ReachedAt(hops, i) = Step1(w, i)
            <4> HIDE DEF g, w, n, hops, Step1
            <4> QED BY <1>3, <2>0, <3>1
        <3>3. Step1(g, i) = Step1(w, i)
            <4>1. w[i + 1] = ReachedAt(hops, i + 1)
                <5> HIDE DEF n, hops
                <5> QED BY <3>1
            <4> HIDE DEF g, w, n, hops
            <4> QED BY <3>1, <4>1
        <3> HIDE DEF g, w, n, hops, Step1
        <3> QED BY <3>1, <3>2, <3>3
    <2> HIDE DEF T, n
    <2>3. 0 .. n \subseteq T
        BY <1>1, <2>1, <2>2, DownInduction
    <2> QED BY <2>3 DEF T
<1>7. WalkChain(peer, chain) = g[0]
    BY DEF WalkChain
<1>8. 0 \in 0 .. n
    BY <1>1
<1> HIDE DEF g, hops, n
<1>9. g[0] = ReachedAt(hops, 0)
    BY <1>6, <1>8
<1> QED BY <1>7, <1>9 DEF hops

(* A chain that the headers give is a sequence of addresses.               *)
LEMMA PartsOfHeader ==
    ASSUME NEW headers, HeadersOfRequest(headers), NEW name \in ForwardingHeaders
    PROVE  IsSequence(header_value(headers[name]).parts)
<1>1. CASE headers[name] = << >>
    <2>1. header_value(headers[name]).parts = << >>
        BY <1>1 DEF header_value, Empty
    <2> QED BY <2>1 DEF IsSequence
<1>2. CASE headers[name] # << >>
    <2>1. IsSequence(headers[name])
        BY DEF HeadersOfRequest
    <2>2. 1 \in DOMAIN headers[name]
        BY <1>2, <2>1 DEF IsSequence
    <2>3. header_value(headers[name]) = headers[name][1]
        BY <1>2 DEF header_value
    <2> QED BY <2>2, <2>3 DEF HeadersOfRequest
<1> QED BY <1>1, <1>2

LEMMA MappedSequence ==
    ASSUME NEW parts, IsSequence(parts), NEW f, DOMAIN f = DOMAIN parts,
           f = [i \in DOMAIN parts |-> f[i]]
    PROVE  f \in Seq(ToSet(f))
<1>1. Len(parts) \in Nat /\ DOMAIN parts = 1 .. Len(parts)
    BY DEF IsSequence
<1>2. f \in [1 .. Len(parts) -> ToSet(f)]
    BY <1>1 DEF ToSet
<1> QED BY <1>1, <1>2

LEMMA ChainIsSequence ==
    ASSUME NEW headers, HeadersOfRequest(headers), ForwardedBy(headers).ok
    PROVE  ForwardedBy(headers).chain \in Seq(ToSet(ForwardedBy(headers).chain))
<1> DEFINE value(name) == header_value(headers[name])
           sent(name) == value(name).size > 0
           from == IF sent("Forwarded") THEN parse_forwarded_header(value("Forwarded"))
                   ELSE IF sent("X-Forwarded-For")
                   THEN parse_x_forwarded_for(value("X-Forwarded-For"))
                   ELSE IF sent("X-Real-IP") THEN ParseRealIp(value("X-Real-IP"))
                   ELSE [ok |-> TRUE, chain |-> << >>, scheme |-> ""]
<1>1. from.ok /\ ForwardedBy(headers).chain = from.chain
    <2>1. Malformed.ok = FALSE
        BY DEF Malformed
    <2> HIDE DEF from, value, sent
    <2> QED BY <2>1 DEF ForwardedBy, from, value, sent
<1>2. \A name \in ForwardingHeaders : IsSequence(value(name).parts)
    BY PartsOfHeader
<1>3. CASE sent("Forwarded")
    <2>1. from = parse_forwarded_header(value("Forwarded"))
        BY <1>3
    <2>2. \E e : from.chain = [i \in DOMAIN value("Forwarded").parts |-> e[i]]
        <3> DEFINE v == value("Forwarded")
                   e == [i \in DOMAIN v.parts |-> Named(v.parts[i], "for")[1].token.address]
        <3>1. parse_forwarded_header(v).ok => parse_forwarded_header(v).chain = e
            <4> HIDE DEF v
            <4> QED BY DEF parse_forwarded_header, Malformed
        <3>2. e = [i \in DOMAIN v.parts |-> e[i]]
            <4> HIDE DEF v
            <4> QED OBVIOUS
        <3>3. from.chain = e
            BY <1>1, <2>1, <3>1
        <3> HIDE DEF e, v, from
        <3> QED BY <3>2, <3>3 DEF v
    <2>3. IsSequence(value("Forwarded").parts)
        BY <1>2 DEF ForwardingHeaders
    <2> HIDE DEF from, value
    <2>4. from.chain \in Seq(ToSet(from.chain))
        BY <2>2, <2>3, MappedSequence
    <2> QED BY <1>1, <2>4
<1>4. CASE ~sent("Forwarded") /\ sent("X-Forwarded-For")
    <2>1. from = parse_x_forwarded_for(value("X-Forwarded-For"))
        BY <1>4
    <2>2. \E e : from.chain = [i \in DOMAIN value("X-Forwarded-For").parts |-> e[i]]
        <3> DEFINE v == value("X-Forwarded-For")
                   e == [i \in DOMAIN v.parts |-> v.parts[i].address]
        <3>1. parse_x_forwarded_for(v).ok => parse_x_forwarded_for(v).chain = e
            <4> HIDE DEF v
            <4> QED BY DEF parse_x_forwarded_for, Malformed
        <3>2. e = [i \in DOMAIN v.parts |-> e[i]]
            <4> HIDE DEF v
            <4> QED OBVIOUS
        <3>3. from.chain = e
            BY <1>1, <2>1, <3>1
        <3> HIDE DEF e, v, from
        <3> QED BY <3>2, <3>3 DEF v
    <2>3. IsSequence(value("X-Forwarded-For").parts)
        BY <1>2 DEF ForwardingHeaders
    <2> HIDE DEF from, value
    <2>4. from.chain \in Seq(ToSet(from.chain))
        BY <2>2, <2>3, MappedSequence
    <2> QED BY <1>1, <2>4
<1>5. CASE ~sent("Forwarded") /\ ~sent("X-Forwarded-For") /\ sent("X-Real-IP")
    <2>1. from = ParseRealIp(value("X-Real-IP"))
        BY <1>5
    <2>2. from.chain = <<value("X-Real-IP").parts[1].address>>
        <3> HIDE DEF value, from
        <3> QED BY <1>1, <2>1 DEF ParseRealIp, Malformed
    <2> HIDE DEF from, value
    <2> QED BY <1>1, <2>2 DEF ToSet
<1>6. CASE ~sent("Forwarded") /\ ~sent("X-Forwarded-For") /\ ~sent("X-Real-IP")
    <2>1. from.chain = << >>
        BY <1>6
    <2> HIDE DEF from
    <2> QED BY <1>1, <2>1
<1> QED BY <1>3, <1>4, <1>5, <1>6

(* The client that resolve finds, for every peer and all headers.          *)
FoundClient(peer, headers) ==
    LET forwarded == ForwardedBy(headers)
        hops == IF is_trusted(peer) /\ forwarded.ok
                THEN forwarded.chain \o <<peer>> ELSE <<peer>>
        untrusted == {i \in DOMAIN hops : ~is_trusted(hops[i])}
    IN  IF untrusted = {} THEN hops[1] ELSE hops[Max(untrusted)]

LEMMA ClientFound ==
    ASSUME NEW peer, NEW headers, HeadersOfRequest(headers), NEW tls
    PROVE  resolve(peer, headers, tls).client = FoundClient(peer, headers)
<1> DEFINE forwarded == ForwardedBy(headers)
           hops == IF is_trusted(peer) /\ forwarded.ok
                   THEN forwarded.chain \o <<peer>> ELSE <<peer>>
           untrusted == {i \in DOMAIN hops : ~is_trusted(hops[i])}
           Found == IF untrusted = {} THEN hops[1] ELSE hops[Max(untrusted)]
<1> SUFFICES resolve(peer, headers, tls).client = Found
    BY DEF FoundClient
<1>1. CASE ~(is_trusted(peer) /\ forwarded.ok)
    <2>1. hops = <<peer>> /\ hops[1] = peer /\ DOMAIN hops = {1}
        BY <1>1
    <2>2. resolve(peer, headers, tls).client = peer
        <3> HIDE DEF forwarded
        <3> QED BY <1>1 DEF resolve, forwarded
    <2>3. untrusted = {} \/ untrusted = {1}
        BY <2>1
    <2>4. Max({1}) = 1
        BY DEF Max
    <2> HIDE DEF hops, untrusted
    <2> QED BY <2>1, <2>2, <2>3, <2>4
<1>2. CASE is_trusted(peer) /\ forwarded.ok
    <2>1. peer # NoAddress
        <3>1. PICK network \in TrustedNetworks : contains(network, peer)
            BY <1>2 DEF is_trusted
        <3>2. network.family = peer.family /\ network.family # "none"
            BY <3>1, ProxyAssumption DEF contains
        <3> QED BY <3>2 DEF NoAddress, Address
    <2>2. resolve(peer, headers, tls).client = WalkChain(peer, forwarded.chain)
        <3> HIDE DEF forwarded
        <3> QED BY <1>2, <2>1 DEF resolve, forwarded
    <2>3. forwarded.chain \in Seq(ToSet(forwarded.chain))
        BY <1>2, ChainIsSequence
    <2>4. WalkChain(peer, forwarded.chain) = ReachedAt(hops, 0)
        BY <1>2, <2>3, WalkEnds
    <2>5. Len(hops) \in Nat /\ DOMAIN hops = 1 .. Len(hops)
        <3> HIDE DEF forwarded
        <3> QED BY <1>2, <2>3
    <2>6. Strangers(hops, 0) = untrusted
        <3> HIDE DEF hops
        <3> QED BY <2>5 DEF Strangers
    <2>7. 0 + 1 = 1
        OBVIOUS
    <2> HIDE DEF hops, untrusted, forwarded
    <2> QED BY <2>2, <2>4, <2>6, <2>7 DEF ReachedAt
<1> QED BY <1>1, <1>2

-----------------------------------------------------------------------------
(* The table of the routes.                                                *)

(* One step of the fold that builds it.                                    *)
Build(g, s) ==
    IF s = {} THEN EmptyTable ELSE add_route(g[s \ {Max(s)}], Routes[Max(s)])

LEMMA TableSteps ==
    ASSUME NEW n \in Nat
    PROVE  \E g : g = [s \in SUBSET (1 .. n) |-> Build(g, s)]
<1> DEFINE Steps(k) == \E g : g = [s \in SUBSET (1 .. k) |-> Build(g, s)]
           T == {k \in Nat : Steps(k)}
<1>1. 0 \in T
    <2> DEFINE g == [s \in SUBSET (1 .. 0) |-> EmptyTable]
    <2>1. \A s \in SUBSET (1 .. 0) : Build(g, s) = EmptyTable
        BY DEF Build
    <2>2. g = [s \in SUBSET (1 .. 0) |-> Build(g, s)]
        BY <2>1
    <2> HIDE DEF g
    <2> QED BY <2>2
<1>2. \A k \in Nat : k \in T => k + 1 \in T
    <2> SUFFICES ASSUME NEW k \in Nat, Steps(k) PROVE Steps(k + 1)
        <3> HIDE DEF Steps
        <3> QED OBVIOUS
    <2>0. PICK g : g = [s \in SUBSET (1 .. k) |-> Build(g, s)]
        OBVIOUS
    <2> DEFINE h == [s \in SUBSET (1 .. k + 1) |->
                        IF k + 1 \in s THEN add_route(g[s \ {k + 1}], Routes[k + 1])
                        ELSE g[s]]
    <2>1. \A s \in SUBSET (1 .. k) : g[s] = Build(g, s)
        BY <2>0
    <2>2. \A s \in SUBSET (1 .. k) : s \in SUBSET (1 .. k + 1) /\ k + 1 \notin s /\ h[s] = g[s]
        OBVIOUS
    <2>3. \A s \in SUBSET (1 .. k + 1) : k + 1 \notin s => s \in SUBSET (1 .. k)
        OBVIOUS
    <2>4. ASSUME NEW s \in SUBSET (1 .. k + 1) PROVE h[s] = Build(h, s)
        <3>0. s # {} => Max(s) \in s /\ \A y \in s : y <= Max(s)
            <4>1. s \in SUBSET (0 .. k + 1) /\ k + 1 \in Nat
                OBVIOUS
            <4> QED BY <4>1, GreatestElement
        <3>1. CASE s = {}
            <4>1. h[s] = g[s] /\ g[s] = Build(g, s)
                BY <2>1, <2>2, <3>1
            <4> HIDE DEF h
            <4> QED BY <3>1, <4>1 DEF Build
        <3>2. CASE k + 1 \in s
            <4>1. Max(s) = k + 1
                <5>1. Max(s) \in 1 .. k + 1 /\ k + 1 <= Max(s)
                    BY <3>0, <3>2
                <5> QED BY <5>1
            <4>2. s \ {k + 1} \in SUBSET (1 .. k)
                OBVIOUS
            <4>3. h[s \ {k + 1}] = g[s \ {k + 1}]
                BY <2>2, <4>2
            <4>4. h[s] = add_route(g[s \ {k + 1}], Routes[k + 1])
                BY <3>2
            <4> HIDE DEF h
            <4> QED BY <3>2, <4>1, <4>3, <4>4 DEF Build
        <3>3. CASE s # {} /\ k + 1 \notin s
            <4>1. s \in SUBSET (1 .. k) /\ s \ {Max(s)} \in SUBSET (1 .. k)
                BY <2>3, <3>3
            <4>2. h[s] = g[s] /\ g[s] = Build(g, s) /\ h[s \ {Max(s)}] = g[s \ {Max(s)}]
                BY <2>1, <2>2, <4>1
            <4> HIDE DEF h
            <4> QED BY <3>3, <4>2 DEF Build
        <3> QED BY <3>1, <3>2, <3>3
    <2>5. h = [s \in SUBSET (1 .. k + 1) |-> h[s]]
        OBVIOUS
    <2> HIDE DEF h
    <2>6. h = [s \in SUBSET (1 .. k + 1) |-> Build(h, s)]
        BY <2>4, <2>5
    <2> QED BY <2>6
<1>3. Nat \subseteq T
    <2> HIDE DEF T
    <2> QED BY <1>1, <1>2, SetInduction
<1> QED BY <1>3

(* The table is built by add_route, one registration after the other.      *)
LEMMA TableBuilt ==
    ASSUME NEW n \in Nat, DOMAIN Routes = 1 .. n
    PROVE  \E f : /\ f[0] = EmptyTable /\ f[n] = RouteTable
                  /\ \A i \in 1 .. n : f[i] = add_route(f[i - 1], Routes[i])
<1> DEFINE g == CHOOSE g : g = [s \in SUBSET (1 .. n) |-> Build(g, s)]
           f == [i \in 0 .. n |-> g[1 .. i]]
<1>1. g = [s \in SUBSET (1 .. n) |-> Build(g, s)]
    BY TableSteps
<1>2. RouteTable = g[1 .. n]
    BY DEF RouteTable, FoldLeft, MapThenFoldSet, Build
<1> HIDE DEF g
<1>3. \A s \in SUBSET (1 .. n) : g[s] = Build(g, s)
    BY <1>1
<1>4. f[0] = EmptyTable
    <2>1. 1 .. 0 = {} /\ {} \in SUBSET (1 .. n)
        OBVIOUS
    <2>2. g[{}] = EmptyTable
        BY <1>3, <2>1 DEF Build
    <2> QED BY <2>1, <2>2
<1>5. ASSUME NEW i \in 1 .. n PROVE f[i] = add_route(f[i - 1], Routes[i])
    <2> DEFINE s == 1 .. i
    <2>1. i \in s /\ \A y \in s : y \in 1 .. n /\ y \in 0 .. n
        OBVIOUS
    <2>2. Max(s) = i
        <3>1. Max(s) \in s /\ \A y \in s : y <= Max(s)
            <4>1. s \in SUBSET (0 .. n) /\ s # {}
                BY <2>1
            <4> HIDE DEF s
            <4> QED BY <4>1, GreatestElement
        <3>2. Max(s) \in 1 .. i /\ i <= Max(s)
            BY <2>1, <3>1
        <3> QED BY <3>2
    <2>3. s \ {i} = 1 .. i - 1
        OBVIOUS
    <2>4. g[s] = add_route(g[s \ {i}], Routes[i])
        <3>1. s \in SUBSET (1 .. n) /\ s # {}
            BY <2>1
        <3> HIDE DEF s
        <3> QED BY <1>3, <3>1, <2>2 DEF Build
    <2>5. i \in 0 .. n /\ i - 1 \in 0 .. n
        OBVIOUS
    <2>6. f[i] = g[s] /\ f[i - 1] = g[1 .. i - 1]
        BY <2>5
    <2> HIDE DEF f, s
    <2> QED BY <2>3, <2>4, <2>6
<1>6. f[n] = RouteTable
    BY <1>2
<1> HIDE DEF f
<1> QED BY <1>4, <1>5, <1>6

(* What k registrations make of a path.                                    *)
Knows(k, path) == \E j \in 1 .. k : Routes[j].path = path

MethodsOf(k, path, methods) ==
    \A m :
        /\ m \in DOMAIN methods <=>
              \E j \in 1 .. k : Routes[j].path = path /\ Routes[j].method = m
        /\ m \in DOMAIN methods =>
              \E j \in 1 .. k : /\ Routes[j].path = path /\ Routes[j].method = m
                                /\ Routes[j].handler = methods[m]

ExactOf(exact, k) ==
    /\ \A path : path \in DOMAIN exact <=> ~is_pattern_path(path) /\ Knows(k, path)
    /\ \A path \in DOMAIN exact : MethodsOf(k, path, exact[path])

PatternOf(pattern, k) ==
    /\ pattern = [path |-> pattern.path, methods |-> pattern.methods]
    /\ is_pattern_path(pattern.path) /\ Knows(k, pattern.path)
    /\ MethodsOf(k, pattern.path, pattern.methods)

PatternsOf(patterns, k) ==
    /\ IsSequence(patterns)
    /\ \A i \in DOMAIN patterns : PatternOf(patterns[i], k)
    /\ \A j \in 1 .. k : is_pattern_path(Routes[j].path) =>
          \E i \in DOMAIN patterns : patterns[i].path = Routes[j].path

TableOf(table, k) ==
    /\ table = [exact |-> table.exact, patterns |-> table.patterns]
    /\ ExactOf(table.exact, k)
    /\ PatternsOf(table.patterns, k)

(* One more registration, for a path and for the others.                   *)
LEMMA MethodAdded ==
    ASSUME NEW k \in Nat, NEW methods, MethodsOf(k, Routes[k + 1].path, methods)
    PROVE  MethodsOf(k + 1, Routes[k + 1].path,
                     WithMethod(methods, Routes[k + 1].method, Routes[k + 1].handler))
<1> DEFINE r == Routes[k + 1]
           w == WithMethod(methods, r.method, r.handler)
<1>1. /\ DOMAIN w = DOMAIN methods \cup {r.method}
      /\ w[r.method] = r.handler
      /\ \A m \in DOMAIN methods : m # r.method => w[m] = methods[m]
    BY DEF WithMethod
<1>2. 1 .. k + 1 = 1 .. k \cup {k + 1}
    OBVIOUS
<1> HIDE DEF w
<1>3. ASSUME NEW m PROVE
        /\ m \in DOMAIN w <=>
              \E j \in 1 .. k + 1 : Routes[j].path = r.path /\ Routes[j].method = m
        /\ m \in DOMAIN w =>
              \E j \in 1 .. k + 1 : /\ Routes[j].path = r.path /\ Routes[j].method = m
                                    /\ Routes[j].handler = w[m]
    <2>1. CASE m = r.method
        BY <1>1, <1>2, <2>1
    <2>2. CASE m # r.method
        BY <1>1, <1>2, <2>2 DEF MethodsOf
    <2> QED BY <2>1, <2>2
<1>4. MethodsOf(k + 1, r.path, w)
    BY <1>3 DEF MethodsOf
<1> QED BY <1>4 DEF w

LEMMA NoMethods ==
    ASSUME NEW k \in Nat, NEW path, ~Knows(k, path)
    PROVE  MethodsOf(k, path, << >>)
    BY DEF Knows, MethodsOf

LEMMA MethodsKept ==
    ASSUME NEW k \in Nat, NEW path, path # Routes[k + 1].path, NEW methods,
           MethodsOf(k, path, methods)
    PROVE  MethodsOf(k + 1, path, methods)
<1>1. 1 .. k + 1 = 1 .. k \cup {k + 1}
    OBVIOUS
<1> QED BY <1>1 DEF MethodsOf

LEMMA KnowsMore ==
    ASSUME NEW k \in Nat, NEW path
    PROVE  Knows(k + 1, path) <=> path = Routes[k + 1].path \/ Knows(k, path)
<1>1. 1 .. k + 1 = 1 .. k \cup {k + 1}
    OBVIOUS
<1> QED BY <1>1 DEF Knows

LEMMA ExactAdded ==
    ASSUME NEW k \in Nat, NEW exact, ExactOf(exact, k),
           ~is_pattern_path(Routes[k + 1].path)
    PROVE  LET r == Routes[k + 1] IN
           ExactOf([path \in DOMAIN exact \cup {r.path} |->
                      IF path \in DOMAIN exact
                      THEN IF path = r.path THEN WithMethod(exact[path], r.method, r.handler)
                           ELSE exact[path]
                      ELSE WithMethod(<< >>, r.method, r.handler)], k + 1)
<1> DEFINE r == Routes[k + 1]
           e == [path \in DOMAIN exact \cup {r.path} |->
                      IF path \in DOMAIN exact
                      THEN IF path = r.path THEN WithMethod(exact[path], r.method, r.handler)
                           ELSE exact[path]
                      ELSE WithMethod(<< >>, r.method, r.handler)]
<1> SUFFICES ExactOf(e, k + 1)
    OBVIOUS
<1>1. DOMAIN e = DOMAIN exact \cup {r.path}
    OBVIOUS
<1>2. \A path : path \in DOMAIN e <=> ~is_pattern_path(path) /\ Knows(k + 1, path)
    <2> HIDE DEF e
    <2> QED BY <1>1, KnowsMore DEF ExactOf
<1>3. ASSUME NEW path \in DOMAIN e PROVE MethodsOf(k + 1, path, e[path])
    <2>1. CASE path # r.path
        <3>1. path \in DOMAIN exact /\ e[path] = exact[path]
            BY <2>1
        <3> HIDE DEF e
        <3> QED BY <2>1, <3>1, MethodsKept DEF ExactOf
    <2>2. CASE path = r.path /\ path \in DOMAIN exact
        <3>1. e[path] = WithMethod(exact[path], r.method, r.handler)
            BY <2>2
        <3>2. MethodsOf(k, r.path, exact[path])
            BY <2>2 DEF ExactOf
        <3> HIDE DEF e
        <3> QED BY <2>2, <3>1, <3>2, MethodAdded
    <2>3. CASE path = r.path /\ path \notin DOMAIN exact
        <3>1. e[path] = WithMethod(<< >>, r.method, r.handler)
            BY <2>3
        <3>2. MethodsOf(k, r.path, << >>)
            BY <2>3, NoMethods DEF ExactOf
        <3> HIDE DEF e
        <3> QED BY <2>3, <3>1, <3>2, MethodAdded
    <2> QED BY <2>1, <2>2, <2>3
<1> QED BY <1>2, <1>3 DEF ExactOf

(* InsertAt keeps the elements and adds one.                               *)
LEMMA Inserted ==
    ASSUME NEW s, IsSequence(s), NEW p \in 1 .. Len(s) + 1, NEW e
    PROVE  LET n == InsertAt(s, p, e)
           IN  /\ IsSequence(n)
               /\ \A i \in DOMAIN n : n[i] = e \/ \E j \in DOMAIN s : n[i] = s[j]
               /\ \E i \in DOMAIN n : n[i] = e
               /\ \A j \in DOMAIN s : \E i \in DOMAIN n : n[i] = s[j]
<1> DEFINE S == ToSet(s) \cup {e}
           a == SubSeq(s, 1, p - 1)
           b == SubSeq(s, p, Len(s))
           n == InsertAt(s, p, e)
<1>1. s \in Seq(S) /\ Len(s) \in Nat /\ DOMAIN s = 1 .. Len(s)
    BY DEF IsSequence
<1>2. a \in Seq(S) /\ Len(a) = p - 1 /\ \A i \in 1 .. p - 1 : a[i] = s[i]
    <2> HIDE DEF S
    <2> QED BY <1>1
<1>3. b \in Seq(S) /\ Len(b) = Len(s) - p + 1 /\ \A i \in 1 .. Len(s) - p + 1 : b[i] = s[p + i - 1]
    <2> HIDE DEF S
    <2> QED BY <1>1
<1>4. n = a \o <<e>> \o b
    BY DEF InsertAt
<1>5. e \in S
    OBVIOUS
<1> HIDE DEF a, b, n, S
<1>6. /\ n \in Seq(S) /\ Len(n) = Len(s) + 1
      /\ \A i \in 1 .. p - 1 : n[i] = s[i]
      /\ n[p] = e
      /\ \A i \in p + 1 .. Len(s) + 1 : n[i] = s[i - 1]
    <2> DEFINE c == a \o <<e>>
    <2>1. c \in Seq(S) /\ Len(c) = p /\ c[p] = e /\ \A i \in 1 .. p - 1 : c[i] = s[i]
        BY <1>1, <1>2, <1>5
    <2>2. n = c \o b
        BY <1>4
    <2> HIDE DEF c
    <2>3. n \in Seq(S) /\ Len(n) = Len(s) + 1 /\ \A i \in 1 .. p : n[i] = c[i]
        <3>0. c \in Seq(S) /\ b \in Seq(S)
            BY <1>3, <2>1
        <3>1. n \in Seq(S) /\ Len(n) = Len(c) + Len(b)
            BY <2>2, <3>0
        <3>2. \A i \in 1 .. Len(c) : n[i] = c[i]
            BY <2>2, <3>0
        <3>3. Len(n) = Len(s) + 1
            BY <1>1, <1>3, <2>1, <3>1
        <3> QED BY <2>1, <3>1, <3>2, <3>3
    <2>4. ASSUME NEW i \in p + 1 .. Len(s) + 1 PROVE n[i] = s[i - 1]
        <3>1. i - p \in 1 .. Len(s) - p + 1 /\ p + (i - p) - 1 = i - 1 /\ p + (i - p) = i
            BY <1>1
        <3>2. n[i] = b[i - p]
            BY <1>1, <1>3, <2>1, <2>2, <3>1
        <3> QED BY <1>3, <3>1, <3>2
    <2> QED BY <1>1, <2>1, <2>3, <2>4
<1>7. IsSequence(n)
    <2>1. n \in Seq(ToSet(n))
        BY <1>1, <1>6 DEF ToSet
    <2> QED BY <2>1 DEF IsSequence
<1>8. DOMAIN n = 1 .. Len(s) + 1
    BY <1>1, <1>6
<1>9. ASSUME NEW i \in DOMAIN n PROVE n[i] = e \/ \E j \in DOMAIN s : n[i] = s[j]
    <2>1. CASE i < p
        BY <1>1, <1>6, <1>8, <2>1
    <2>2. CASE i = p
        BY <1>6, <2>2
    <2>3. CASE i > p
        <3>1. i - 1 \in DOMAIN s /\ i \in p + 1 .. Len(s) + 1
            BY <1>1, <1>8, <2>3
        <3> QED BY <1>6, <3>1
    <2> QED BY <1>8, <2>1, <2>2, <2>3
<1>10. ASSUME NEW j \in DOMAIN s PROVE \E i \in DOMAIN n : n[i] = s[j]
    <2>1. CASE j < p
        BY <1>1, <1>6, <1>8, <2>1
    <2>2. CASE j >= p
        <3>1. j + 1 \in p + 1 .. Len(s) + 1 /\ j + 1 \in DOMAIN n /\ (j + 1) - 1 = j
            BY <1>1, <1>8, <2>2
        <3>2. n[j + 1] = s[j]
            BY <1>6, <3>1
        <3> QED BY <3>1, <3>2
    <2> QED BY <1>1, <2>1, <2>2
<1>11. p \in DOMAIN n
    BY <1>1, <1>8
<1> QED BY <1>6, <1>7, <1>9, <1>10, <1>11 DEF n

LEMMA PatternUpdated ==
    ASSUME NEW k \in Nat, NEW pattern, PatternOf(pattern, k), NEW r, r = Routes[k + 1],
           pattern.path = r.path
    PROVE  PatternOf([pattern EXCEPT !.methods = WithMethod(@, r.method, r.handler)], k + 1)
<1> DEFINE w == WithMethod(pattern.methods, r.method, r.handler)
           x == [pattern EXCEPT !.methods = w]
<1>1. MethodsOf(k + 1, r.path, w)
    BY MethodAdded DEF PatternOf
<1> HIDE DEF w
<1>2. x = [path |-> x.path, methods |-> x.methods] /\ x.path = r.path /\ x.methods = w
    BY DEF PatternOf
<1> HIDE DEF x
<1>3. PatternOf(x, k + 1)
    BY <1>1, <1>2, KnowsMore DEF PatternOf
<1> QED BY <1>3 DEF x, w

LEMMA PatternKept ==
    ASSUME NEW k \in Nat, NEW pattern, PatternOf(pattern, k), pattern.path # Routes[k + 1].path
    PROVE  PatternOf(pattern, k + 1)
    BY MethodsKept, KnowsMore DEF PatternOf

LEMMA PatternsAdded ==
    ASSUME NEW k \in Nat, NEW table, TableOf(table, k), is_pattern_path(Routes[k + 1].path)
    PROVE  TableOf(AddPattern(table, Routes[k + 1]), k + 1)
<1> DEFINE r == Routes[k + 1]
           s == table.patterns
           known == {i \in DOMAIN s : s[i].path = r.path}
           before == {i \in DOMAIN s : StaticSegments(s[i].path) >= StaticSegments(r.path)}
           place == Cardinality(before) + 1
           entry == [path |-> r.path, methods |-> WithMethod(<< >>, r.method, r.handler)]
           updated == [i \in DOMAIN s |->
                         [s[i] EXCEPT !.methods =
                            IF i \in known THEN WithMethod(@, r.method, r.handler) ELSE @]]
           n == IF known # {} THEN updated ELSE InsertAt(s, place, entry)
<1>1. AddPattern(table, r) = [table EXCEPT !.patterns = n]
    BY Zenon DEF AddPattern
<1>2. 1 .. k + 1 = 1 .. k \cup {k + 1}
    OBVIOUS
<1>3. PatternsOf(s, k) /\ IsSequence(s)
    BY DEF TableOf, PatternsOf
<1>4. PatternsOf(n, k + 1)
    <2>1. CASE known # {}
        <3>1. n = updated
            BY <2>1
        <3>2. DOMAIN updated = DOMAIN s /\ updated = [i \in DOMAIN s |-> updated[i]]
            OBVIOUS
        <3>3. ASSUME NEW i \in DOMAIN s
              PROVE  PatternOf(updated[i], k + 1) /\ updated[i].path = s[i].path
            <4>1. PatternOf(s[i], k)
                BY <1>3 DEF PatternsOf
            <4>2. CASE i \in known
                <5>1. updated[i] = [s[i] EXCEPT !.methods = WithMethod(@, r.method, r.handler)]
                    BY <4>2
                <5>2. s[i].path = r.path
                    BY <4>2
                <5>3. PatternOf(updated[i], k + 1)
                    <6> HIDE DEF updated, s, r
                    <6> QED BY <4>1, <5>1, <5>2, PatternUpdated DEF r
                <5>4. updated[i].path = s[i].path
                    <6> HIDE DEF updated, s, r
                    <6> QED BY <4>1, <5>1 DEF PatternOf
                <5> QED BY <5>3, <5>4
            <4>3. CASE i \notin known
                <5>1. updated[i] = s[i] /\ s[i].path # r.path
                    <6>1. updated[i] = [s[i] EXCEPT !.methods = s[i].methods]
                        BY <4>3
                    <6>2. [s[i] EXCEPT !.methods = s[i].methods] = s[i]
                        <7> HIDE DEF s
                        <7> QED BY <4>1 DEF PatternOf
                    <6> QED BY <4>3, <6>1, <6>2
                <5> HIDE DEF updated, s
                <5> QED BY <4>1, <5>1, PatternKept
            <4> QED BY <4>2, <4>3
        <3> HIDE DEF updated
        <3>4. IsSequence(updated)
            BY <1>3, <3>2, MappedSequence DEF IsSequence
        <3>5. \E i \in DOMAIN s : s[i].path = r.path
            BY <2>1
        <3> HIDE DEF s, known, n
        <3>6. ASSUME NEW j \in 1 .. k + 1, is_pattern_path(Routes[j].path)
              PROVE  \E i \in DOMAIN updated : updated[i].path = Routes[j].path
            <4>1. \E i \in DOMAIN s : s[i].path = Routes[j].path
                BY <1>2, <1>3, <3>5, <3>6 DEF PatternsOf
            <4> QED BY <3>2, <3>3, <4>1
        <3> QED BY <3>1, <3>2, <3>3, <3>4, <3>6 DEF PatternsOf
    <2>2. CASE known = {}
        <3>1. n = InsertAt(s, place, entry)
            BY <2>2
        <3>2. \A i \in DOMAIN s : s[i].path # r.path
            BY <2>2
        <3>3. place \in 1 .. Len(s) + 1
            <4>1. Len(s) \in Nat /\ DOMAIN s = 1 .. Len(s)
                BY <1>3 DEF IsSequence
            <4>2. IsFiniteSet(DOMAIN s) /\ Cardinality(DOMAIN s) = Len(s)
                <5> HIDE DEF s
                <5>1. IsFiniteSet(1 .. Len(s)) /\ Cardinality(1 .. Len(s)) = Len(s)
                    <6>1. 1 \in Int /\ Len(s) \in Int
                        BY <4>1
                    <6>2. /\ IsFiniteSet(1 .. Len(s))
                          /\ Cardinality(1 .. Len(s)) = IF 1 > Len(s) THEN 0 ELSE Len(s) - 1 + 1
                        BY <6>1, FS_Interval
                    <6> QED BY <4>1, <6>2
                <5> QED BY <4>1, <5>1
            <4>3. before \subseteq DOMAIN s
                OBVIOUS
            <4> HIDE DEF before, s
            <4>4. IsFiniteSet(before) /\ Cardinality(before) <= Len(s)
                BY <4>2, <4>3, FS_Subset
            <4>5. Cardinality(before) \in Nat
                BY <4>4, FS_CardinalityType
            <4> QED BY <4>1, <4>4, <4>5
        <3>4. PatternOf(entry, k + 1)
            <4>1. ~Knows(k, r.path)
                BY <1>3, <3>2 DEF PatternsOf, Knows
            <4>2. MethodsOf(k + 1, r.path, WithMethod(<< >>, r.method, r.handler))
                BY <4>1, NoMethods, MethodAdded
            <4>3. entry = [path |-> entry.path, methods |-> entry.methods]
                  /\ entry.path = r.path
                  /\ entry.methods = WithMethod(<< >>, r.method, r.handler)
                OBVIOUS
            <4>4. Knows(k + 1, r.path)
                BY KnowsMore
            <4> HIDE DEF entry
            <4> QED BY <4>2, <4>3, <4>4 DEF PatternOf
        <3>5. entry.path = r.path
            OBVIOUS
        <3> HIDE DEF place, entry, s, n, known
        <3>6. /\ IsSequence(n)
              /\ \A i \in DOMAIN n : n[i] = entry \/ \E j \in DOMAIN s : n[i] = s[j]
              /\ \E i \in DOMAIN n : n[i] = entry
              /\ \A j \in DOMAIN s : \E i \in DOMAIN n : n[i] = s[j]
            BY <1>3, <3>1, <3>3, Inserted
        <3>7. \A j \in DOMAIN s : PatternOf(s[j], k + 1)
            BY <1>3, <3>2, PatternKept DEF PatternsOf
        <3>8. \A i \in DOMAIN n : PatternOf(n[i], k + 1)
            BY <3>4, <3>6, <3>7
        <3>9. ASSUME NEW j \in 1 .. k + 1, is_pattern_path(Routes[j].path)
              PROVE  \E i \in DOMAIN n : n[i].path = Routes[j].path
            <4>1. CASE j = k + 1
                BY <3>5, <3>6, <4>1
            <4>2. CASE j \in 1 .. k
                <5>1. PICK l \in DOMAIN s : s[l].path = Routes[j].path
                    BY <1>3, <3>9, <4>2 DEF PatternsOf
                <5> QED BY <3>6, <5>1
            <4> QED BY <1>2, <4>1, <4>2
        <3> QED BY <3>6, <3>8, <3>9 DEF PatternsOf
    <2> QED BY <2>1, <2>2
<1>5. ExactOf(table.exact, k + 1)
    BY MethodsKept, KnowsMore DEF TableOf, ExactOf
<1>6. LET x == [table EXCEPT !.patterns = n]
      IN  /\ x = [exact |-> x.exact, patterns |-> x.patterns]
          /\ x.exact = table.exact /\ x.patterns = n
    <2> HIDE DEF n
    <2> QED BY DEF TableOf
<1> HIDE DEF n
<1>7. TableOf([table EXCEPT !.patterns = n], k + 1)
    BY <1>4, <1>5, <1>6 DEF TableOf
<1> QED BY <1>1, <1>7

LEMMA RouteAdded ==
    ASSUME NEW k \in Nat, NEW table, TableOf(table, k)
    PROVE  TableOf(add_route(table, Routes[k + 1]), k + 1)
<1> DEFINE r == Routes[k + 1]
<1>1. CASE is_pattern_path(r.path)
    BY <1>1, PatternsAdded DEF add_route
<1>2. CASE ~is_pattern_path(r.path)
    <2> DEFINE e == [path \in DOMAIN table.exact \cup {r.path} |->
                      IF path \in DOMAIN table.exact
                      THEN IF path = r.path
                           THEN WithMethod(table.exact[path], r.method, r.handler)
                           ELSE table.exact[path]
                      ELSE WithMethod(<< >>, r.method, r.handler)]
               x == [table EXCEPT !.exact = e]
    <2>1. add_route(table, r) = x
        BY <1>2 DEF add_route
    <2>2. ExactOf(e, k + 1)
        BY <1>2, ExactAdded DEF TableOf
    <2> HIDE DEF e
    <2>3. /\ x = [exact |-> x.exact, patterns |-> x.patterns]
          /\ x.exact = e /\ x.patterns = table.patterns
        BY DEF TableOf
    <2>4. PatternsOf(table.patterns, k + 1)
        <3>1. PatternsOf(table.patterns, k)
            BY DEF TableOf
        <3>2. \A i \in DOMAIN table.patterns : table.patterns[i].path # r.path
            BY <1>2, <3>1 DEF PatternsOf, PatternOf
        <3>3. 1 .. k + 1 = 1 .. k \cup {k + 1}
            OBVIOUS
        <3>4. \A i \in DOMAIN table.patterns : PatternOf(table.patterns[i], k + 1)
            BY <3>1, <3>2, PatternKept DEF PatternsOf
        <3> QED BY <1>2, <3>1, <3>3, <3>4 DEF PatternsOf
    <2> HIDE DEF x
    <2> QED BY <2>1, <2>2, <2>3, <2>4 DEF TableOf
<1> QED BY <1>1, <1>2

LEMMA EmptyTableFacts == TableOf(EmptyTable, 0)
<1>1. EmptyTable.exact = << >> /\ EmptyTable.patterns = << >>
      /\ EmptyTable = [exact |-> << >>, patterns |-> << >>]
    BY DEF EmptyTable
<1>2. IsSequence(<< >>)
    BY DEF IsSequence
<1> QED BY <1>1, <1>2 DEF TableOf, ExactOf, PatternsOf, Knows

(* All registrations and no other are in the table that dispatch uses.     *)
LEMMA AllRegistered ==
    ASSUME NEW n \in Nat, DOMAIN Routes = 1 .. n
    PROVE  TableOf(RouteTable, n)
<1>1. PICK f : /\ f[0] = EmptyTable /\ f[n] = RouteTable
               /\ \A i \in 1 .. n : f[i] = add_route(f[i - 1], Routes[i])
    BY TableBuilt
<1> DEFINE T == {k \in Nat : k <= n => TableOf(f[k], k)}
<1>2. 0 \in T
    BY <1>1, EmptyTableFacts
<1>3. \A k \in Nat : k \in T => k + 1 \in T
    <2> SUFFICES ASSUME NEW k \in Nat, k \in T, k + 1 <= n PROVE TableOf(f[k + 1], k + 1)
        OBVIOUS
    <2>1. k + 1 \in 1 .. n /\ (k + 1) - 1 = k /\ k <= n
        OBVIOUS
    <2>2. f[k + 1] = add_route(f[k], Routes[k + 1]) /\ TableOf(f[k], k)
        BY <1>1, <2>1
    <2> QED BY <2>2, RouteAdded
<1>4. Nat \subseteq T
    <2> HIDE DEF T
    <2> QED BY <1>2, <1>3, SetInduction
<1> QED BY <1>1, <1>4

-----------------------------------------------------------------------------
(* The routes of the API: no path of a request matches two of them that    *)
(* are not the same.                                                       *)

(* Tuples, in a form that the segments of a path can be put into.          *)
LEMMA Tuple1 ==
    ASSUME NEW S, NEW a \in S
    PROVE  LET p == <<a>>
           IN  /\ p \in Seq(S) /\ Len(p) = 1
               /\ p[1] = a
    OBVIOUS

LEMMA Tuple2 ==
    ASSUME NEW S, NEW a \in S, NEW b \in S
    PROVE  LET p == <<a, b>>
           IN  /\ p \in Seq(S) /\ Len(p) = 2
               /\ p[1] = a /\ p[2] = b
    OBVIOUS

LEMMA Tuple3 ==
    ASSUME NEW S, NEW a \in S, NEW b \in S, NEW c \in S
    PROVE  LET p == <<a, b, c>>
           IN  /\ p \in Seq(S) /\ Len(p) = 3
               /\ p[1] = a /\ p[2] = b /\ p[3] = c
    OBVIOUS

LEMMA Tuple4 ==
    ASSUME NEW S, NEW a \in S, NEW b \in S, NEW c \in S, NEW d \in S
    PROVE  LET p == <<a, b, c, d>>
           IN  /\ p \in Seq(S) /\ Len(p) = 4
               /\ p[1] = a /\ p[2] = b /\ p[3] = c /\ p[4] = d
    OBVIOUS

LEMMA Tuple5 ==
    ASSUME NEW S, NEW a \in S, NEW b \in S, NEW c \in S, NEW d \in S, NEW e \in S
    PROVE  LET p == <<a, b, c, d, e>>
           IN  /\ p \in Seq(S) /\ Len(p) = 5
               /\ p[1] = a /\ p[2] = b /\ p[3] = c /\ p[4] = d /\ p[5] = e
    OBVIOUS

LEMMA Tuple6 ==
    ASSUME NEW S, NEW a \in S, NEW b \in S, NEW c \in S, NEW d \in S, NEW e \in S, NEW f \in S
    PROVE  LET p == <<a, b, c, d, e, f>>
           IN  /\ p \in Seq(S) /\ Len(p) = 6
               /\ p[1] = a /\ p[2] = b /\ p[3] = c /\ p[4] = d /\ p[5] = e /\ p[6] = f
    OBVIOUS

Words ==
    {"health", "ready", "metrics", "v1", "auth", "register", "login",
     "refresh", "logout", "logout-all", "users", "me", "echo", "sessions",
     "password", "admin", "roles", "permissions", "audit-events", "status"}

ShortPaths == {<<a>> : a \in Words}
PairPaths == {<<a, b>> : a \in Words, b \in Words}
TriplePaths == {<<a, b, c>> : a \in Words, b \in Words, c \in Words}
SessionPath == <<"v1", "auth", "sessions", "{id}">>
PasswordPath == <<"v1", "users", "me", "password">>
UserPath == <<"v1", "admin", "users", "{id}">>
UserPaths == {<<"v1", "admin", "users", "{id}", a>> : a \in Words}
UserRolePath == <<"v1", "admin", "users", "{id}", "roles", "{role}">>

ApiPaths == ShortPaths \cup PairPaths \cup TriplePaths
            \cup {SessionPath, PasswordPath, UserPath} \cup UserPaths \cup {UserRolePath}

Verbs == {"GET", "POST", "PATCH", "DELETE"}
ApiRouteSet == [method : Verbs, path : ApiPaths, handler : DOMAIN Handlers]

LEMMA RouteTyped ==
    ASSUME NEW method \in Verbs, NEW path \in ApiPaths, NEW handler \in DOMAIN Handlers
    PROVE  Route(method, path, handler) \in ApiRouteSet
    BY DEF Route, ApiRouteSet

LEMMA HandlerNames ==
    DOMAIN Handlers =
        {"health", "ready", "register", "login", "refresh", "logout", "logout_all", "me",
         "echo", "list_sessions", "revoke_session", "change_password", "list_users",
         "get_user", "set_user_status", "list_roles", "list_permissions",
         "list_user_roles", "assign_role", "revoke_role", "list_audit_events", "metrics"}
    BY DEF Handlers

LEMMA PathsOfWords ==
    /\ \A a \in Words : <<a>> \in ApiPaths
    /\ \A a, b \in Words : <<a, b>> \in ApiPaths
    /\ \A a, b, c \in Words : <<a, b, c>> \in ApiPaths
    /\ \A a \in Words : <<"v1", "admin", "users", "{id}", a>> \in ApiPaths
    /\ SessionPath \in ApiPaths /\ PasswordPath \in ApiPaths
    /\ UserPath \in ApiPaths /\ UserRolePath \in ApiPaths
<1>1. /\ \A a \in Words : <<a>> \in ShortPaths
      /\ \A a, b \in Words : <<a, b>> \in PairPaths
      /\ \A a, b, c \in Words : <<a, b, c>> \in TriplePaths
    BY DEF ShortPaths, PairPaths, TriplePaths
<1>2. \A a \in Words : <<"v1", "admin", "users", "{id}", a>> \in UserPaths
    BY Zenon DEF UserPaths
<1> QED BY <1>1, <1>2, Zenon DEF ApiPaths

LEMMA SomeWords ==
    /\ "health" \in Words /\ "ready" \in Words /\ "metrics" \in Words /\
       "v1" \in Words /\ "auth" \in Words /\ "register" \in Words /\
       "login" \in Words /\ "refresh" \in Words /\ "logout" \in Words /\
       "logout-all" \in Words /\ "users" \in Words /\ "me" \in Words /\
       "echo" \in Words /\ "sessions" \in Words /\ "password" \in Words /\
       "admin" \in Words /\ "roles" \in Words /\ "permissions" \in Words /\
       "audit-events" \in Words /\ "status" \in Words
    BY DEF Words

LEMMA RoutesTyped == Routes \in Seq(ApiRouteSet)
<1>1. "GET" \in Verbs /\ "POST" \in Verbs /\ "PATCH" \in Verbs /\ "DELETE" \in Verbs
    BY DEF Verbs
<1>2. register_routes \in Seq(ApiRouteSet)
    <2>1. Route("GET", <<"health">>, "health") \in ApiRouteSet
        <3>1. <<"health">> \in ApiPaths
            BY PathsOfWords, SomeWords, Zenon
        <3>2. "health" \in DOMAIN Handlers
            BY HandlerNames
        <3> QED BY <1>1, <3>1, <3>2, RouteTyped, Zenon
    <2>2. Route("GET", <<"ready">>, "ready") \in ApiRouteSet
        <3>1. <<"ready">> \in ApiPaths
            BY PathsOfWords, SomeWords, Zenon
        <3>2. "ready" \in DOMAIN Handlers
            BY HandlerNames
        <3> QED BY <1>1, <3>1, <3>2, RouteTyped, Zenon
    <2>3. Route("POST", <<"v1", "auth", "register">>, "register") \in ApiRouteSet
        <3>1. <<"v1", "auth", "register">> \in ApiPaths
            BY PathsOfWords, SomeWords, Zenon
        <3>2. "register" \in DOMAIN Handlers
            BY HandlerNames
        <3> QED BY <1>1, <3>1, <3>2, RouteTyped, Zenon
    <2>4. Route("POST", <<"v1", "auth", "login">>, "login") \in ApiRouteSet
        <3>1. <<"v1", "auth", "login">> \in ApiPaths
            BY PathsOfWords, SomeWords, Zenon
        <3>2. "login" \in DOMAIN Handlers
            BY HandlerNames
        <3> QED BY <1>1, <3>1, <3>2, RouteTyped, Zenon
    <2>5. Route("POST", <<"v1", "auth", "refresh">>, "refresh") \in ApiRouteSet
        <3>1. <<"v1", "auth", "refresh">> \in ApiPaths
            BY PathsOfWords, SomeWords, Zenon
        <3>2. "refresh" \in DOMAIN Handlers
            BY HandlerNames
        <3> QED BY <1>1, <3>1, <3>2, RouteTyped, Zenon
    <2>6. Route("POST", <<"v1", "auth", "logout">>, "logout") \in ApiRouteSet
        <3>1. <<"v1", "auth", "logout">> \in ApiPaths
            BY PathsOfWords, SomeWords, Zenon
        <3>2. "logout" \in DOMAIN Handlers
            BY HandlerNames
        <3> QED BY <1>1, <3>1, <3>2, RouteTyped, Zenon
    <2>7. Route("POST", <<"v1", "auth", "logout-all">>, "logout_all") \in ApiRouteSet
        <3>1. <<"v1", "auth", "logout-all">> \in ApiPaths
            BY PathsOfWords, SomeWords, Zenon
        <3>2. "logout_all" \in DOMAIN Handlers
            BY HandlerNames
        <3> QED BY <1>1, <3>1, <3>2, RouteTyped, Zenon
    <2>8. Route("GET", <<"v1", "users", "me">>, "me") \in ApiRouteSet
        <3>1. <<"v1", "users", "me">> \in ApiPaths
            BY PathsOfWords, SomeWords, Zenon
        <3>2. "me" \in DOMAIN Handlers
            BY HandlerNames
        <3> QED BY <1>1, <3>1, <3>2, RouteTyped, Zenon
    <2>9. Route("POST", <<"v1", "echo">>, "echo") \in ApiRouteSet
        <3>1. <<"v1", "echo">> \in ApiPaths
            BY PathsOfWords, SomeWords, Zenon
        <3>2. "echo" \in DOMAIN Handlers
            BY HandlerNames
        <3> QED BY <1>1, <3>1, <3>2, RouteTyped, Zenon
    <2> QED BY <2>1, <2>2, <2>3, <2>4, <2>5, <2>6, <2>7, <2>8, <2>9 DEF register_routes
<1>3. register_admin_routes \in Seq(ApiRouteSet)
    <2> DEFINE r1 == Route("GET", <<"v1", "admin", "users">>, "list_users")
               r2 == Route("GET", <<"v1", "admin", "users", "{id}">>, "get_user")
               r3 == Route("PATCH", <<"v1", "admin", "users", "{id}", "status">>, "set_user_status")
    <2>1. r1 \in ApiRouteSet
        <3>1. <<"v1", "admin", "users">> \in ApiPaths
            BY PathsOfWords, SomeWords, Zenon
        <3>2. "list_users" \in DOMAIN Handlers
            BY HandlerNames
        <3> QED BY <1>1, <3>1, <3>2, RouteTyped, Zenon
    <2>2. r2 \in ApiRouteSet
        <3>1. <<"v1", "admin", "users", "{id}">> \in ApiPaths
            BY PathsOfWords, SomeWords, Zenon DEF UserPath
        <3>2. "get_user" \in DOMAIN Handlers
            BY HandlerNames
        <3> QED BY <1>1, <3>1, <3>2, RouteTyped, Zenon
    <2>3. r3 \in ApiRouteSet
        <3>1. <<"v1", "admin", "users", "{id}", "status">> \in ApiPaths
            BY PathsOfWords, SomeWords, Zenon
        <3>2. "set_user_status" \in DOMAIN Handlers
            BY HandlerNames
        <3> QED BY <1>1, <3>1, <3>2, RouteTyped, Zenon
    <2>4. register_admin_routes = <<r1, r2, r3>>
        BY DEF register_admin_routes
    <2> HIDE DEF r1, r2, r3
    <2> QED BY <2>1, <2>2, <2>3, <2>4
<1>4. register_account_routes \in Seq(ApiRouteSet)
    <2> DEFINE r1 == Route("GET", <<"v1", "auth", "sessions">>, "list_sessions")
               r2 == Route("DELETE", <<"v1", "auth", "sessions", "{id}">>, "revoke_session")
               r3 == Route("POST", <<"v1", "users", "me", "password">>, "change_password")
    <2>1. r1 \in ApiRouteSet
        <3>1. <<"v1", "auth", "sessions">> \in ApiPaths
            BY PathsOfWords, SomeWords, Zenon
        <3>2. "list_sessions" \in DOMAIN Handlers
            BY HandlerNames
        <3> QED BY <1>1, <3>1, <3>2, RouteTyped, Zenon
    <2>2. r2 \in ApiRouteSet
        <3>1. <<"v1", "auth", "sessions", "{id}">> \in ApiPaths
            BY PathsOfWords, SomeWords, Zenon DEF SessionPath
        <3>2. "revoke_session" \in DOMAIN Handlers
            BY HandlerNames
        <3> QED BY <1>1, <3>1, <3>2, RouteTyped, Zenon
    <2>3. r3 \in ApiRouteSet
        <3>1. <<"v1", "users", "me", "password">> \in ApiPaths
            BY PathsOfWords, SomeWords, Zenon DEF PasswordPath
        <3>2. "change_password" \in DOMAIN Handlers
            BY HandlerNames
        <3> QED BY <1>1, <3>1, <3>2, RouteTyped, Zenon
    <2>4. register_account_routes = <<r1, r2, r3>>
        BY DEF register_account_routes
    <2> HIDE DEF r1, r2, r3
    <2> QED BY <2>1, <2>2, <2>3, <2>4
<1>5. register_rbac_routes \in Seq(ApiRouteSet)
    <2> DEFINE r1 == Route("GET", <<"v1", "admin", "roles">>, "list_roles")
               r2 == Route("GET", <<"v1", "admin", "permissions">>, "list_permissions")
               r3 == Route("GET", <<"v1", "admin", "users", "{id}", "roles">>, "list_user_roles")
               r4 == Route("POST", <<"v1", "admin", "users", "{id}", "roles">>, "assign_role")
               r5 == Route("DELETE", <<"v1", "admin", "users", "{id}", "roles", "{role}">>, "revoke_role")
    <2>1. r1 \in ApiRouteSet
        <3>1. <<"v1", "admin", "roles">> \in ApiPaths
            BY PathsOfWords, SomeWords, Zenon
        <3>2. "list_roles" \in DOMAIN Handlers
            BY HandlerNames
        <3> QED BY <1>1, <3>1, <3>2, RouteTyped, Zenon
    <2>2. r2 \in ApiRouteSet
        <3>1. <<"v1", "admin", "permissions">> \in ApiPaths
            BY PathsOfWords, SomeWords, Zenon
        <3>2. "list_permissions" \in DOMAIN Handlers
            BY HandlerNames
        <3> QED BY <1>1, <3>1, <3>2, RouteTyped, Zenon
    <2>3. r3 \in ApiRouteSet
        <3>1. <<"v1", "admin", "users", "{id}", "roles">> \in ApiPaths
            BY PathsOfWords, SomeWords, Zenon
        <3>2. "list_user_roles" \in DOMAIN Handlers
            BY HandlerNames
        <3> QED BY <1>1, <3>1, <3>2, RouteTyped, Zenon
    <2>4. r4 \in ApiRouteSet
        <3>1. <<"v1", "admin", "users", "{id}", "roles">> \in ApiPaths
            BY PathsOfWords, SomeWords, Zenon
        <3>2. "assign_role" \in DOMAIN Handlers
            BY HandlerNames
        <3> QED BY <1>1, <3>1, <3>2, RouteTyped, Zenon
    <2>5. r5 \in ApiRouteSet
        <3>1. <<"v1", "admin", "users", "{id}", "roles", "{role}">> \in ApiPaths
            BY PathsOfWords, SomeWords, Zenon DEF UserRolePath
        <3>2. "revoke_role" \in DOMAIN Handlers
            BY HandlerNames
        <3> QED BY <1>1, <3>1, <3>2, RouteTyped, Zenon
    <2>6. register_rbac_routes = <<r1, r2, r3, r4, r5>>
        BY DEF register_rbac_routes
    <2> HIDE DEF r1, r2, r3, r4, r5
    <2> QED BY <2>1, <2>2, <2>3, <2>4, <2>5, <2>6
<1>6. register_audit_routes \in Seq(ApiRouteSet)
    <2>1. Route("GET", <<"v1", "admin", "audit-events">>, "list_audit_events")
             \in ApiRouteSet
        <3>1. <<"v1", "admin", "audit-events">> \in ApiPaths
            BY PathsOfWords, SomeWords, Zenon
        <3>2. "list_audit_events" \in DOMAIN Handlers
            BY HandlerNames
        <3> QED BY <1>1, <3>1, <3>2, RouteTyped, Zenon
    <2> QED BY <2>1 DEF register_audit_routes
<1>7. register_metrics_routes \in Seq(ApiRouteSet)
    <2>1. Route("GET", <<"metrics">>, "metrics") \in ApiRouteSet
        <3>1. <<"metrics">> \in ApiPaths
            BY PathsOfWords, SomeWords, Zenon
        <3>2. "metrics" \in DOMAIN Handlers
            BY HandlerNames
        <3> QED BY <1>1, <3>1, <3>2, RouteTyped, Zenon
    <2> QED BY <2>1 DEF register_metrics_routes
<1> QED BY <1>2, <1>3, <1>4, <1>5, <1>6, <1>7 DEF Routes


(* A path of the API in terms of its length.                               *)
Segments == Words \cup Parameters

LEMMA SomeSegments ==
    /\ \A w \in Words : w \in Segments /\ w \notin Parameters
    /\ "{id}" \in Segments /\ "{role}" \in Segments
    BY DEF Segments, Parameters, Words

LEMMA StaticWords == \A w \in Words : w \notin Parameters
    BY SomeSegments

LEMMA LongPaths ==
    /\ SessionPath \in Seq(Segments) /\ Len(SessionPath) = 4 /\ SessionPath[2] = "auth"
    /\ PasswordPath \in Seq(Segments) /\ Len(PasswordPath) = 4 /\ PasswordPath[2] = "users"
    /\ UserPath \in Seq(Segments) /\ Len(UserPath) = 4 /\ UserPath[2] = "admin"
    /\ UserRolePath \in Seq(Segments) /\ Len(UserRolePath) = 6
<1>1. SessionPath \in Seq(Segments) /\ Len(SessionPath) = 4 /\ SessionPath[2] = "auth"
    BY SomeSegments, SomeWords, Tuple4, Zenon DEF SessionPath
<1>2. PasswordPath \in Seq(Segments) /\ Len(PasswordPath) = 4 /\ PasswordPath[2] = "users"
    BY SomeSegments, SomeWords, Tuple4, Zenon DEF PasswordPath
<1>3. UserPath \in Seq(Segments) /\ Len(UserPath) = 4 /\ UserPath[2] = "admin"
    BY SomeSegments, SomeWords, Tuple4, Zenon DEF UserPath
<1>4. UserRolePath \in Seq(Segments) /\ Len(UserRolePath) = 6
    BY SomeSegments, SomeWords, Tuple6, Zenon DEF UserRolePath
<1> QED BY <1>1, <1>2, <1>3, <1>4

LEMMA PathCases ==
    ASSUME NEW p \in ApiPaths
    PROVE  /\ p \in Seq(Segments)
           /\ \/ Len(p) = 1 /\ p \in ShortPaths
              \/ Len(p) = 2 /\ p \in PairPaths
              \/ Len(p) = 3 /\ p \in TriplePaths
              \/ Len(p) = 4 /\ p \in {SessionPath, PasswordPath, UserPath}
              \/ Len(p) = 5 /\ p \in UserPaths
              \/ Len(p) = 6 /\ p = UserRolePath
<1>1. ASSUME p \in ShortPaths PROVE p \in Seq(Segments) /\ Len(p) = 1
    BY <1>1, SomeSegments, Tuple1, Zenon DEF ShortPaths
<1>2. ASSUME p \in PairPaths PROVE p \in Seq(Segments) /\ Len(p) = 2
    <2>1. PICK a, b \in Words : p = <<a, b>>
        BY <1>2 DEF PairPaths
    <2> QED BY <2>1, SomeSegments, Tuple2, Zenon
<1>3. ASSUME p \in TriplePaths PROVE p \in Seq(Segments) /\ Len(p) = 3
    <2>1. PICK a, b, c \in Words : p = <<a, b, c>>
        BY <1>3 DEF TriplePaths
    <2> QED BY <2>1, SomeSegments, Tuple3, Zenon
<1>4. ASSUME p \in UserPaths PROVE p \in Seq(Segments) /\ Len(p) = 5
    <2>1. PICK a \in Words : p = <<"v1", "admin", "users", "{id}", a>>
        BY <1>4, Zenon DEF UserPaths
    <2>2. /\ a \in Segments /\ "v1" \in Segments /\ "admin" \in Segments
          /\ "users" \in Segments /\ "{id}" \in Segments
        BY SomeSegments, SomeWords, Zenon
    <2> QED BY <2>1, <2>2, Tuple5, Zenon
<1>5. \/ p \in ShortPaths \/ p \in PairPaths \/ p \in TriplePaths
      \/ p \in {SessionPath, PasswordPath, UserPath} \/ p \in UserPaths \/ p = UserRolePath
    BY DEF ApiPaths
<1> QED BY <1>1, <1>2, <1>3, <1>4, <1>5, LongPaths

LEMMA PathsByLength ==
    ASSUME NEW p \in ApiPaths
    PROVE  /\ Len(p) = 1 => p \in ShortPaths
           /\ Len(p) = 2 => p \in PairPaths
           /\ Len(p) = 3 => p \in TriplePaths
           /\ Len(p) = 4 => p \in {SessionPath, PasswordPath, UserPath}
           /\ Len(p) = 5 => p \in UserPaths
           /\ Len(p) = 6 => p = UserRolePath
           /\ \/ Len(p) = 1 \/ Len(p) = 2 \/ Len(p) = 3
              \/ Len(p) = 4 \/ Len(p) = 5 \/ Len(p) = 6
<1>1. \/ Len(p) = 1 /\ p \in ShortPaths
      \/ Len(p) = 2 /\ p \in PairPaths
      \/ Len(p) = 3 /\ p \in TriplePaths
      \/ Len(p) = 4 /\ p \in {SessionPath, PasswordPath, UserPath}
      \/ Len(p) = 5 /\ p \in UserPaths
      \/ Len(p) = 6 /\ p = UserRolePath
    BY PathCases
<1>2. Len(p) = 1 => p \in ShortPaths
    BY <1>1
<1>3. Len(p) = 2 => p \in PairPaths
    BY <1>1
<1>4. Len(p) = 3 => p \in TriplePaths
    BY <1>1
<1>5. Len(p) = 4 => p \in {SessionPath, PasswordPath, UserPath}
    BY <1>1
<1>6. Len(p) = 5 => p \in UserPaths
    BY <1>1
<1>7. Len(p) = 6 => p = UserRolePath
    BY <1>1
<1>8. \/ Len(p) = 1 \/ Len(p) = 2 \/ Len(p) = 3
              \/ Len(p) = 4 \/ Len(p) = 5 \/ Len(p) = 6
    BY <1>1
<1> QED BY <1>2, <1>3, <1>4, <1>5, <1>6, <1>7, <1>8

(* Where two patterns match one path they have the same static segments.   *)
LEMMA SamePath ==
    ASSUME NEW p \in ApiPaths, NEW q \in ApiPaths, NEW path,
           match_pattern(p, path), match_pattern(q, path)
    PROVE  p = q
<1>1. Len(p) = Len(q) /\ p \in Seq(Segments) /\ q \in Seq(Segments)
    BY PathCases DEF match_pattern
<1>2. \A i \in 1 .. Len(p) :
         p[i] \notin Parameters /\ q[i] \notin Parameters => p[i] = q[i]
    <2>1. DOMAIN p = 1 .. Len(p) /\ DOMAIN q = 1 .. Len(p)
        BY <1>1
    <2> QED BY <2>1 DEF match_pattern
<1>3. CASE p \in ShortPaths /\ q \in ShortPaths
    <2>1. PICK a \in Words : p = <<a>>
        BY <1>3 DEF ShortPaths
    <2>2. PICK b \in Words : q = <<b>>
        BY <1>3 DEF ShortPaths
    <2>3. Len(p) = 1 /\ p[1] = a /\ q[1] = b
        BY <2>1, <2>2, Tuple1, Zenon
    <2>4. a = b
        BY <1>2, <2>3, StaticWords
    <2> QED BY <2>1, <2>2, <2>4, Zenon
<1>4. CASE p \in PairPaths /\ q \in PairPaths
    <2>1. PICK a, b \in Words : p = <<a, b>>
        BY <1>4 DEF PairPaths
    <2>2. PICK x, y \in Words : q = <<x, y>>
        BY <1>4 DEF PairPaths
    <2>3. Len(p) = 2 /\ p[1] = a /\ p[2] = b /\ q[1] = x /\ q[2] = y
        BY <2>1, <2>2, Tuple2, Zenon
    <2>4. a = x /\ b = y
        BY <1>2, <2>3, StaticWords
    <2> QED BY <2>1, <2>2, <2>4, Zenon
<1>5. CASE p \in TriplePaths /\ q \in TriplePaths
    <2>1. PICK a, b, c \in Words : p = <<a, b, c>>
        BY <1>5 DEF TriplePaths
    <2>2. PICK x, y, z \in Words : q = <<x, y, z>>
        BY <1>5 DEF TriplePaths
    <2>3. /\ Len(p) = 3 /\ p[1] = a /\ p[2] = b /\ p[3] = c
          /\ q[1] = x /\ q[2] = y /\ q[3] = z
        BY <2>1, <2>2, Tuple3, Zenon
    <2>4. a = x /\ b = y /\ c = z
        BY <1>2, <2>3, StaticWords
    <2> QED BY <2>1, <2>2, <2>4, Zenon
<1>6. CASE /\ p \in {SessionPath, PasswordPath, UserPath}
           /\ q \in {SessionPath, PasswordPath, UserPath}
    <2>1. Len(p) = 4 /\ p[2] \in {"auth", "users", "admin"} /\ q[2] \in {"auth", "users", "admin"}
        BY <1>6, LongPaths
    <2>2. p[2] \notin Parameters /\ q[2] \notin Parameters
        BY <2>1 DEF Parameters
    <2>3. p[2] = q[2]
        BY <1>2, <2>1, <2>2
    <2> QED BY <1>6, <2>3, LongPaths
<1>7. CASE p \in UserPaths /\ q \in UserPaths
    <2>1. PICK a \in Words : p = <<"v1", "admin", "users", "{id}", a>>
        BY <1>7, Zenon DEF UserPaths
    <2>2. PICK b \in Words : q = <<"v1", "admin", "users", "{id}", b>>
        BY <1>7, Zenon DEF UserPaths
    <2>3. Len(p) = 5 /\ p[5] = a /\ q[5] = b
        BY <2>1, <2>2, SomeSegments, SomeWords, Tuple5, Zenon
    <2>4. a = b
        BY <1>2, <2>3, StaticWords
    <2> QED BY <2>1, <2>2, <2>4, Zenon
<1>8. CASE p = UserRolePath /\ q = UserRolePath
    BY <1>8
<1>9. Len(p) = Len(q)
    BY <1>1
<1> QED BY <1>3, <1>4, <1>5, <1>6, <1>7, <1>8, <1>9, PathsByLength, Zenon

LEMMA RoutesFacts ==
    /\ Len(Routes) \in Nat /\ DOMAIN Routes = 1 .. Len(Routes)
    /\ \A j \in 1 .. Len(Routes) :
          /\ Routes[j] \in ToSet(Routes)
          /\ Routes[j].path \in ApiPaths /\ Routes[j].path \in Seq(Segments)
          /\ Routes[j].handler \in DOMAIN Handlers
    /\ \A r \in ToSet(Routes) : \E j \in 1 .. Len(Routes) : r = Routes[j]
    /\ TableOf(RouteTable, Len(Routes))
<1>1. Len(Routes) \in Nat /\ DOMAIN Routes = 1 .. Len(Routes)
    BY RoutesTyped
<1>2. \A j \in 1 .. Len(Routes) : Routes[j] \in ApiRouteSet
    BY RoutesTyped
<1>3. \A r \in ApiRouteSet : r.path \in ApiPaths /\ r.handler \in DOMAIN Handlers
    BY DEF ApiRouteSet
<1>4. \A j \in 1 .. Len(Routes) : Routes[j] \in ToSet(Routes)
    BY <1>1 DEF ToSet
<1>5. \A r \in ToSet(Routes) : \E j \in 1 .. Len(Routes) : r = Routes[j]
    BY <1>1 DEF ToSet
<1>6. TableOf(RouteTable, Len(Routes))
    BY <1>1, AllRegistered
<1>7. \A p \in ApiPaths : p \in Seq(Segments)
    BY PathCases
<1> QED BY <1>1, <1>2, <1>3, <1>4, <1>5, <1>6, <1>7

(* A path without parameters matches itself and nothing else.              *)
LEMMA ExactMatches ==
    ASSUME NEW p \in Seq(Segments), ~is_pattern_path(p), NEW path, IsSequence(path)
    PROVE  match_pattern(p, path) <=> path = p
<1>1. Len(p) \in Nat /\ DOMAIN p = 1 .. Len(p)
    OBVIOUS
<1>2. \A i \in DOMAIN p : p[i] \notin Parameters
    BY DEF is_pattern_path, ToSet
<1>3. ASSUME match_pattern(p, path) PROVE path = p
    <2>1. path \in Seq(ToSet(path)) /\ Len(path) = Len(p)
        BY <1>3 DEF match_pattern, IsSequence
    <2>2. \A i \in 1 .. Len(p) : path[i] = p[i]
        BY <1>1, <1>2, <1>3 DEF match_pattern
    <2> QED BY <1>1, <2>1, <2>2
<1>4. ASSUME path = p PROVE match_pattern(p, path)
    BY <1>2, <1>4 DEF match_pattern
<1> QED BY <1>3, <1>4

(* The entry that dispatch finds is the one for all routes of the path.    *)
LEMMA FoundEntry ==
    ASSUME NEW path, IsSequence(path), NEW found, NEW n, n = Len(Routes),
           match_pattern(found.path, path), Knows(n, found.path),
           MethodsOf(n, found.path, found.methods), NEW method
    PROVE  LET matching == {r \in ToSet(Routes) : match_pattern(r.path, path)}
               wanted == {r \in matching : r.method = method}
           IN  /\ matching # {}
               /\ method \notin DOMAIN found.methods => wanted = {}
               /\ method \in DOMAIN found.methods => \E r \in wanted :
                     /\ r.handler = found.methods[method]
                     /\ \A other \in wanted :
                           StaticSegments(r.path) >= StaticSegments(other.path)
<1> DEFINE matching == {r \in ToSet(Routes) : match_pattern(r.path, path)}
           wanted == {r \in matching : r.method = method}
<1>1. PICK k \in 1 .. n : Routes[k].path = found.path
    BY DEF Knows
<1>2. found.path \in ApiPaths /\ Routes[k] \in matching
    BY <1>1, RoutesFacts
<1>3. \A r \in matching : r.path = found.path /\ \E j \in 1 .. n : r = Routes[j]
    <2> SUFFICES ASSUME NEW r \in ToSet(Routes), match_pattern(r.path, path)
                 PROVE  r.path = found.path /\ \E j \in 1 .. n : r = Routes[j]
        OBVIOUS
    <2>1. PICK j \in 1 .. n : r = Routes[j]
        BY RoutesFacts
    <2>2. r.path \in ApiPaths
        BY <2>1, RoutesFacts
    <2> QED BY <1>2, <2>1, <2>2, SamePath
<1>4. method \notin DOMAIN found.methods => wanted = {}
    BY <1>3 DEF MethodsOf
<1>5. ASSUME method \in DOMAIN found.methods
      PROVE  \E r \in wanted :
                /\ r.handler = found.methods[method]
                /\ \A other \in wanted : StaticSegments(r.path) >= StaticSegments(other.path)
    <2>1. PICK j \in 1 .. n : /\ Routes[j].path = found.path /\ Routes[j].method = method
                              /\ Routes[j].handler = found.methods[method]
        BY <1>5 DEF MethodsOf
    <2>2. Routes[j] \in wanted
        BY <2>1, RoutesFacts
    <2>3. StaticSegments(found.path) \in Nat
        <3>1. found.path \in Seq(Segments)
            BY <1>1, RoutesFacts
        <3>2. DOMAIN found.path = 1 .. Len(found.path) /\ Len(found.path) \in Nat
            BY <3>1
        <3>3. IsFiniteSet(DOMAIN found.path)
            <4>1. 1 \in Int /\ Len(found.path) \in Int
                BY <3>2
            <4>2. IsFiniteSet(1 .. Len(found.path))
                BY <4>1, FS_Interval
            <4> QED BY <3>2, <4>2
        <3> DEFINE S == {i \in DOMAIN found.path : found.path[i] \notin Parameters}
        <3>4. IsFiniteSet(S)
            BY <3>3, FS_Subset
        <3>5. Cardinality(S) \in Nat
            <4> HIDE DEF S
            <4> QED BY <3>4, FS_CardinalityType
        <3> QED BY <3>5 DEF StaticSegments
    <2>4. \A other \in wanted : StaticSegments(found.path) >= StaticSegments(other.path)
        <3>1. \A other \in wanted : other.path = found.path
            BY <1>3
        <3> HIDE DEF wanted
        <3> QED BY <2>3, <3>1
    <2> HIDE DEF wanted
    <2> QED BY <2>1, <2>2, <2>4
<1> QED BY <1>2, <1>4, <1>5

(* What dispatch answers a request, for the routes that are registered.    *)
RightRoute(request, route) ==
    LET matching == {r \in ToSet(Routes) : match_pattern(r.path, request.path)}
        wanted   == {r \in matching : r.method = request.method}
    IN  CASE route.status = 0 -> \E r \in wanted :
                /\ r.handler = route.handler
                /\ \A other \in wanted : StaticSegments(r.path) >= StaticSegments(other.path)
          [] route.status = 405 -> matching # {} /\ wanted = {}
          [] route.status = 404 -> matching = {}
          [] OTHER -> ~request.absolute

LEMMA UnroutedStatus == \A status : Unrouted(status).status = status
    BY DEF Unrouted

LEMMA DispatchRight ==
    ASSUME NEW request, IsSequence(request.path)
    PROVE  /\ RightRoute(request, dispatch(RouteTable, request))
           /\ dispatch(RouteTable, request).status = 0 =>
                 dispatch(RouteTable, request).handler \in DOMAIN Handlers
<1> DEFINE path == request.path
           patterns == RouteTable.patterns
           exact == path \in DOMAIN RouteTable.exact
           entries == {i \in DOMAIN patterns : match_pattern(patterns[i].path, path)}
           found == IF exact THEN [path |-> path, methods |-> RouteTable.exact[path]]
                    ELSE patterns[Min(entries)]
           n == Len(Routes)
           matching == {r \in ToSet(Routes) : match_pattern(r.path, path)}
           wanted == {r \in matching : r.method = request.method}
           route == dispatch(RouteTable, request)
<1>1. route = IF ~request.absolute THEN Unrouted(400)
              ELSE IF ~exact /\ entries = {} THEN Unrouted(404)
              ELSE IF request.method \notin DOMAIN found.methods THEN Unrouted(405)
              ELSE Routed(found.methods[request.method], RouteParameters(found.path, path))
    BY DEF dispatch
<1>2. n \in Nat /\ ExactOf(RouteTable.exact, n) /\ PatternsOf(patterns, n)
    BY RoutesFacts DEF TableOf
<1>3. RightRoute(request, route) <=>
         CASE route.status = 0 -> \E r \in wanted :
                 /\ r.handler = route.handler
                 /\ \A other \in wanted : StaticSegments(r.path) >= StaticSegments(other.path)
           [] route.status = 405 -> matching # {} /\ wanted = {}
           [] route.status = 404 -> matching = {}
           [] OTHER -> ~request.absolute
    BY DEF RightRoute
<1>4. CASE ~request.absolute
    <2>1. route = Unrouted(400)
        BY <1>1, <1>4
    <2>6. route.status = 400
        BY <2>1, UnroutedStatus, Zenon
    <2> HIDE DEF route, wanted, matching
    <2>2. RightRoute(request, route) /\ route.status # 0
        BY <1>3, <1>4, <2>6
    <2> QED BY <2>2 DEF route
<1>5. CASE request.absolute /\ ~exact /\ entries = {}
    <2>1. route = Unrouted(404)
        BY <1>1, <1>5
    <2>6. route.status = 404
        BY <2>1, UnroutedStatus, Zenon
    <2>2. ASSUME NEW r \in ToSet(Routes), match_pattern(r.path, path) PROVE FALSE
        <3>1. PICK j \in 1 .. n : r = Routes[j]
            BY RoutesFacts
        <3>2. CASE is_pattern_path(r.path)
            <4>1. PICK i \in DOMAIN patterns : patterns[i].path = r.path
                BY <1>2, <3>1, <3>2 DEF PatternsOf
            <4> QED BY <1>5, <2>2, <4>1
        <3>3. CASE ~is_pattern_path(r.path)
            <4>1. path = r.path
                BY <2>2, <3>1, <3>3, RoutesFacts, ExactMatches
            <4>2. Knows(n, path)
                BY <3>1, <4>1 DEF Knows
            <4> QED BY <1>2, <1>5, <3>3, <4>1, <4>2 DEF ExactOf
        <3> QED BY <3>2, <3>3
    <2>3. matching = {}
        BY <2>2
    <2> HIDE DEF route, wanted, matching
    <2>4. RightRoute(request, route) /\ route.status # 0
        BY <1>3, <1>5, <2>6, <2>3
    <2> QED BY <2>4 DEF route
<1>6. CASE request.absolute /\ (exact \/ entries # {})
    <2>1. /\ match_pattern(found.path, path) /\ Knows(n, found.path)
          /\ MethodsOf(n, found.path, found.methods)
        <3>1. CASE exact
            <4>1. found.path = path /\ found.methods = RouteTable.exact[path]
                BY <3>1
            <4>2. /\ ~is_pattern_path(path) /\ Knows(n, path)
                  /\ MethodsOf(n, path, RouteTable.exact[path])
                BY <1>2, <3>1 DEF ExactOf
            <4>3. path \in Seq(Segments)
                BY <4>2, RoutesFacts DEF Knows
            <4>4. match_pattern(path, path)
                BY <4>2, <4>3, ExactMatches
            <4> HIDE DEF found
            <4> QED BY <4>1, <4>2, <4>4
        <3>2. CASE ~exact
            <4>1. found = patterns[Min(entries)] /\ entries # {}
                BY <1>6, <3>2
            <4>2. Min(entries) \in entries
                <5>1. entries \in SUBSET Nat
                    BY <1>2 DEF PatternsOf, IsSequence
                <5> HIDE DEF entries
                <5>2. \E x \in entries : \A y \in entries : x <= y
                    BY <4>1, <5>1, LeastElement
                <5> QED BY <5>2 DEF Min
            <4>3. PICK i \in DOMAIN patterns : found = patterns[i] /\ match_pattern(patterns[i].path, path)
                BY <4>1, <4>2
            <4> HIDE DEF found
            <4> QED BY <1>2, <4>3 DEF PatternsOf, PatternOf
        <3> QED BY <3>1, <3>2
    <2> HIDE DEF found, exact
    <2>2. /\ matching # {}
          /\ request.method \notin DOMAIN found.methods => wanted = {}
          /\ request.method \in DOMAIN found.methods => \E r \in wanted :
                /\ r.handler = found.methods[request.method]
                /\ \A other \in wanted : StaticSegments(r.path) >= StaticSegments(other.path)
        BY <2>1, FoundEntry
    <2>3. CASE request.method \notin DOMAIN found.methods
        <3>1. route = Unrouted(405)
            BY <1>1, <1>6, <2>3
        <3>2. route.status = 405
            BY <3>1, UnroutedStatus, Zenon
        <3> HIDE DEF route, wanted, matching
        <3>3. RightRoute(request, route) /\ route.status # 0
            BY <1>3, <2>2, <2>3, <3>2
        <3> QED BY <3>3 DEF route
    <2>4. CASE request.method \in DOMAIN found.methods
        <3>1. route = Routed(found.methods[request.method], RouteParameters(found.path, path))
            BY <1>1, <1>6, <2>4
        <3>2. route.status = 0 /\ route.handler = found.methods[request.method]
            <4> HIDE DEF route
            <4> QED BY <3>1 DEF Routed
        <3>3. \E j \in 1 .. n : Routes[j].handler = found.methods[request.method]
            BY <2>1, <2>4 DEF MethodsOf
        <3>4. route.handler \in DOMAIN Handlers
            BY <3>2, <3>3, RoutesFacts
        <3> HIDE DEF route, wanted, matching
        <3>5. \E r \in wanted :
                /\ r.handler = route.handler
                /\ \A other \in wanted : StaticSegments(r.path) >= StaticSegments(other.path)
            BY <2>2, <2>4, <3>2
        <3>6. RightRoute(request, route)
            BY <1>3, <3>2, <3>5
        <3> QED BY <3>4, <3>6 DEF route
    <2> QED BY <2>3, <2>4
<1> QED BY <1>4, <1>5, <1>6

-----------------------------------------------------------------------------
(* What a thread holds.                                                    *)

TaskPhases == {"checking", "serving", "counting", "recording", "answering"}

(* A record with the fields that Begin gives it.                           *)
IsTask(r) ==
    r = [phase |-> r.phase, number |-> r.number, id |-> r.id, who |-> r.who,
         at |-> r.at, previous |-> r.previous, limited |-> r.limited,
         route |-> r.route, outcome |-> r.outcome, status |-> r.status,
         thrown |-> r.thrown]

(* The later stages of a task are about the same request.                  *)
Continues(r, x) ==
    /\ IsTask(x) /\ x.phase \in TaskPhases
    /\ x.number = r.number /\ x.id = r.id /\ x.who = r.who
    /\ x.at = r.at /\ x.previous = r.previous

InTask(t) ==
    LET request == work[thread[t].number]
    IN  /\ IsTask(thread[t])
        /\ thread[t].phase \in TaskPhases
        /\ thread[t].number \in 1 .. next - 1
        /\ thread[t].id = resolve_request_id(thread[t].number)
        /\ thread[t].who = resolve(request.peer, request.headers, request.tls)
        /\ thread[t].at \in 0 .. now
        /\ thread[t].previous = None
        /\ context[t] = [id |-> thread[t].id, client |-> thread[t].who.client]

AtRest(t) == thread[t] = Idle /\ context[t] = None

WorkInv ==
    /\ work \in Workloads
    /\ next \in 1 .. Len(work) + 1
    /\ now \in Nat

TaskInv ==
    /\ thread = [t \in Threads |-> thread[t]]
    /\ context = [t \in Threads |-> context[t]]
    /\ \A t \in Threads : AtRest(t) \/ InTask(t)

(* A request is run by one thread.                                         *)
OneThread ==
    \A t, u \in Threads :
        /\ Phase(t) # "idle" /\ Phase(u) # "idle"
        /\ thread[t].number = thread[u].number
        => t = u

Structure == WorkInv /\ TaskInv /\ OneThread

LEMMA WorkFacts ==
    ASSUME WorkInv
    PROVE  /\ Len(work) \in Nat /\ DOMAIN work = 1 .. Len(work) /\ next \in Nat
           /\ \A i \in DOMAIN work :
                 /\ HeadersOfRequest(work[i].headers) /\ IsSequence(work[i].path)
                 /\ work[i].limit \in Int /\ work[i].offset \in Int
<1>1. IsSequence(work)
    BY WorkAssumption DEF WorkInv
<1>2. Len(work) \in Nat /\ DOMAIN work = 1 .. Len(work)
    BY <1>1 DEF IsSequence
<1> QED BY <1>2, WorkAssumption DEF WorkInv

LEMMA PhaseFacts ==
    ASSUME TaskInv, NEW t \in Threads
    PROVE  /\ Phase(t) = "idle" <=> thread[t] = Idle
           /\ Phase(t) = "idle" => AtRest(t)
           /\ Phase(t) # "idle" => InTask(t)
<1>1. Idle.phase = "idle"
    BY DEF Idle
<1>2. "idle" \notin TaskPhases
    BY DEF TaskPhases
<1> QED BY <1>1, <1>2 DEF TaskInv, Phase, AtRest, InTask

(* The updates of a task, one field at a time.                             *)
SameBut(r, x, field) ==
    /\ x.number = r.number /\ x.id = r.id /\ x.who = r.who
    /\ x.at = r.at /\ x.previous = r.previous
    /\ field # "phase" => x.phase = r.phase
    /\ field # "route" => x.route = r.route
    /\ field # "outcome" => x.outcome = r.outcome
    /\ field # "status" => x.status = r.status

LEMMA SetPhase ==
    ASSUME NEW r, IsTask(r), NEW v
    PROVE  LET x == [r EXCEPT !.phase = v]
           IN  /\ IsTask(x) /\ x.phase = v /\ SameBut(r, x, "phase")
    BY DEF IsTask, SameBut

LEMMA SetStatus ==
    ASSUME NEW r, IsTask(r), NEW v
    PROVE  LET x == [r EXCEPT !.status = v]
           IN  /\ IsTask(x) /\ x.status = v /\ SameBut(r, x, "status")
    BY DEF IsTask, SameBut

LEMMA SetThrown ==
    ASSUME NEW r, IsTask(r), NEW v
    PROVE  LET x == [r EXCEPT !.thrown = v]
           IN  /\ IsTask(x) /\ x.thrown = v /\ SameBut(r, x, "thrown")
    BY DEF IsTask, SameBut

LEMMA SetOutcome ==
    ASSUME NEW r, IsTask(r), NEW v
    PROVE  LET x == [r EXCEPT !.outcome = v]
           IN  /\ IsTask(x) /\ x.outcome = v /\ SameBut(r, x, "outcome")
    BY DEF IsTask, SameBut

LEMMA SetRoute ==
    ASSUME NEW r, IsTask(r), NEW v
    PROVE  LET x == [r EXCEPT !.route = v]
           IN  /\ IsTask(x) /\ x.route = v /\ SameBut(r, x, "route")
    BY DEF IsTask, SameBut

LEMMA SetLimited ==
    ASSUME NEW r, IsTask(r), NEW v
    PROVE  LET x == [r EXCEPT !.limited = v]
           IN  /\ IsTask(x) /\ x.limited = v /\ SameBut(r, x, "limited")
    BY DEF IsTask, SameBut

LEMMA ContinuesTwice ==
    ASSUME NEW r, NEW x, NEW y, Continues(r, x), Continues(x, y)
    PROVE  Continues(r, y)
    BY DEF Continues

(* x answers the request of r with the status.                             *)
Answers(r, x, status) ==
    /\ Continues(r, x) /\ x.phase = "answering" /\ x.status = status
    /\ x.route = r.route /\ x.outcome = r.outcome

LEMMA AnswersBadRequest ==
    ASSUME NEW t \in Threads, IsTask(thread[t])
    PROVE  Answers(thread[t], Answering(t, 400, TRUE), 400)
<1> DEFINE r == thread[t]
           a == [r EXCEPT !.phase = "answering"]
           b == [a EXCEPT !.status = 400]
           c == [b EXCEPT !.thrown = TRUE]
<1>1. Answering(t, 400, TRUE) = c
    BY DEF Answering
<1>2. IsTask(a) /\ a.phase = "answering" /\ SameBut(r, a, "phase")
    BY SetPhase
<1> HIDE DEF a
<1>3. IsTask(b) /\ b.status = 400 /\ SameBut(a, b, "status")
    BY <1>2, SetStatus
<1> HIDE DEF b
<1>4. IsTask(c) /\ SameBut(b, c, "thrown")
    BY <1>3, SetThrown
<1> HIDE DEF c
<1>5. Answers(r, c, 400)
    BY <1>2, <1>3, <1>4 DEF SameBut, Continues, TaskPhases, Answers
<1> QED BY <1>1, <1>5, Zenon

LEMMA AnswersTooMany ==
    ASSUME NEW t \in Threads, IsTask(thread[t])
    PROVE  Answers(thread[t], Answering(t, 429, FALSE), 429)
<1> DEFINE r == thread[t]
           a == [r EXCEPT !.phase = "answering"]
           b == [a EXCEPT !.status = 429]
           c == [b EXCEPT !.thrown = FALSE]
<1>1. Answering(t, 429, FALSE) = c
    BY DEF Answering
<1>2. IsTask(a) /\ a.phase = "answering" /\ SameBut(r, a, "phase")
    BY SetPhase
<1> HIDE DEF a
<1>3. IsTask(b) /\ b.status = 429 /\ SameBut(a, b, "status")
    BY <1>2, SetStatus
<1> HIDE DEF b
<1>4. IsTask(c) /\ SameBut(b, c, "thrown")
    BY <1>3, SetThrown
<1> HIDE DEF c
<1>5. Answers(r, c, 429)
    BY <1>2, <1>3, <1>4 DEF SameBut, Continues, TaskPhases, Answers
<1> QED BY <1>1, <1>5, Zenon

LEMMA AnswersInternalError ==
    ASSUME NEW t \in Threads, IsTask(thread[t])
    PROVE  Answers(thread[t], Answering(t, 500, TRUE), 500)
<1> DEFINE r == thread[t]
           a == [r EXCEPT !.phase = "answering"]
           b == [a EXCEPT !.status = 500]
           c == [b EXCEPT !.thrown = TRUE]
<1>1. Answering(t, 500, TRUE) = c
    BY DEF Answering
<1>2. IsTask(a) /\ a.phase = "answering" /\ SameBut(r, a, "phase")
    BY SetPhase
<1> HIDE DEF a
<1>3. IsTask(b) /\ b.status = 500 /\ SameBut(a, b, "status")
    BY <1>2, SetStatus
<1> HIDE DEF b
<1>4. IsTask(c) /\ SameBut(b, c, "thrown")
    BY <1>3, SetThrown
<1> HIDE DEF c
<1>5. Answers(r, c, 500)
    BY <1>2, <1>3, <1>4 DEF SameBut, Continues, TaskPhases, Answers
<1> QED BY <1>1, <1>5, Zenon

LEMMA ConcludedFacts ==
    ASSUME NEW t \in Threads, IsTask(thread[t]), NEW outcome, NEW status
    PROVE  LET x == Concluded(t, outcome, status)
           IN  /\ Continues(thread[t], x) /\ x.outcome = outcome /\ x.status = status
               /\ x.phase = IF outcome \in Handler(t).audits THEN "recording" ELSE "answering"
               /\ x.route = thread[t].route
<1> DEFINE r == thread[t]
           p == IF outcome \in Handler(t).audits THEN "recording" ELSE "answering"
           a == [r EXCEPT !.phase = p]
           b == [a EXCEPT !.outcome = outcome]
           c == [b EXCEPT !.status = status]
<1>1. Concluded(t, outcome, status) = c
    BY DEF Concluded
<1>0. p \in {"recording", "answering"}
    OBVIOUS
<1> HIDE DEF p
<1>2. IsTask(a) /\ a.phase = p /\ SameBut(r, a, "phase")
    BY SetPhase
<1> HIDE DEF a
<1>3. IsTask(b) /\ b.outcome = outcome /\ SameBut(a, b, "outcome")
    BY <1>2, SetOutcome
<1> HIDE DEF b
<1>4. IsTask(c) /\ c.status = status /\ SameBut(b, c, "status")
    BY <1>3, SetStatus
<1> HIDE DEF c
<1>5. /\ Continues(r, c) /\ c.outcome = outcome /\ c.status = status
      /\ c.phase = p /\ c.route = r.route
    BY <1>0, <1>2, <1>3, <1>4 DEF SameBut, Continues, TaskPhases
<1> QED BY <1>1, <1>5 DEF p

(* What the terminal handler leaves: an answer, or a request that its      *)
(* handler serves because it passed every check.                           *)
LEMMA DispatchedFacts ==
    ASSUME NEW t \in Threads, IsTask(thread[t]), thread[t].phase \in TaskPhases
    PROVE  LET x     == [Dispatched(t) EXCEPT !.limited = TRUE]
               route == dispatch(RouteTable, Request(t))
           IN  /\ Continues(thread[t], x)
               /\ x.phase \in {"answering", "serving"}
               /\ x.outcome = thread[t].outcome
               /\ x.route \in {thread[t].route, route}
               /\ x.phase = "serving" =>
                     /\ x.route = route /\ route.status = 0
                     /\ InputStatus(Request(t), Handlers[route.handler], route.parameters) = 0
<1> DEFINE r == thread[t]
           request == Request(t)
           route == dispatch(RouteTable, request)
           handler == Handlers[route.handler]
           invalid == InputStatus(request, handler, route.parameters)
           routed == [r EXCEPT !.phase = "answering", !.route = route]
           x == Dispatched(t)
           Good(y) == /\ IsTask(y) /\ Continues(r, y)
                      /\ y.phase \in {"answering", "serving"}
                      /\ y.outcome = r.outcome
                      /\ y.route \in {r.route, route}
                      /\ y.phase = "serving" =>
                            y.route = route /\ route.status = 0 /\ invalid = 0
<1>1. x = IF ~r.who.ok THEN Answering(t, 400, TRUE)
          ELSE IF route.status # 0 THEN [routed EXCEPT !.status = route.status]
          ELSE IF handler.token /\ ~request.token THEN [routed EXCEPT !.status = 401]
          ELSE IF invalid # 0 THEN [routed EXCEPT !.status = invalid, !.thrown = TRUE]
          ELSE [routed EXCEPT !.phase = "serving"]
    BY DEF Dispatched
<1>2. "answering" \in TaskPhases /\ "serving" \in TaskPhases
    BY DEF TaskPhases
<1> HIDE DEF x, invalid, handler, route, request
<1>3. /\ Continues(r, routed) /\ routed.phase = "answering" /\ routed.route = route
      /\ routed.outcome = r.outcome
    <2> DEFINE a == [r EXCEPT !.phase = "answering"]
               b == [a EXCEPT !.route = route]
    <2>1. routed = b
        OBVIOUS
    <2>2. IsTask(a) /\ a.phase = "answering" /\ SameBut(r, a, "phase")
        BY SetPhase
    <2> HIDE DEF a
    <2>3. IsTask(b) /\ b.route = route /\ SameBut(a, b, "route")
        BY <2>2, SetRoute
    <2> HIDE DEF b, routed
    <2> QED BY <1>2, <2>1, <2>2, <2>3 DEF SameBut, Continues
<1>4. IsTask(routed) /\ routed.phase \in TaskPhases
    BY <1>3 DEF Continues
<1> HIDE DEF routed
<1>5. Good(Answering(t, 400, TRUE))
    <2> DEFINE y == Answering(t, 400, TRUE)
    <2>1. Answers(r, y, 400)
        BY AnswersBadRequest, Zenon
    <2> HIDE DEF y
    <2>2. /\ Continues(r, y) /\ y.phase = "answering"
          /\ y.route = r.route /\ y.outcome = r.outcome
        BY <2>1 DEF Answers
    <2>3. Good(y)
        BY <2>2 DEF Continues
    <2> QED BY <2>3 DEF y
<1>6. ASSUME NEW v PROVE Good([routed EXCEPT !.status = v])
    <2> DEFINE y == [routed EXCEPT !.status = v]
    <2>1. IsTask(y) /\ SameBut(routed, y, "status")
        BY <1>4, SetStatus
    <2> HIDE DEF y
    <2>2. Continues(routed, y)
        BY <1>4, <2>1 DEF SameBut, Continues
    <2>3. Good(y)
        BY <1>3, <2>1, <2>2 DEF Continues, SameBut
    <2> QED BY <2>3 DEF y
<1>7. ASSUME NEW v, NEW w PROVE Good([routed EXCEPT !.status = v, !.thrown = w])
    <2> DEFINE y == [routed EXCEPT !.status = v, !.thrown = w]
    <2>1. /\ Continues(routed, y) /\ y.phase = routed.phase
          /\ y.route = routed.route /\ y.outcome = routed.outcome
        <3> DEFINE a == [routed EXCEPT !.status = v]
                   b == [a EXCEPT !.thrown = w]
        <3>1. y = b
            OBVIOUS
        <3>2. IsTask(a) /\ SameBut(routed, a, "status")
            BY <1>4, SetStatus
        <3> HIDE DEF a
        <3>3. IsTask(b) /\ SameBut(a, b, "thrown")
            BY <3>2, SetThrown
        <3> HIDE DEF b, y
        <3> QED BY <1>4, <3>1, <3>2, <3>3 DEF SameBut, Continues
    <2> HIDE DEF y
    <2>2. Good(y)
        BY <1>3, <2>1 DEF Continues
    <2> QED BY <2>2 DEF y
<1>8. ASSUME route.status = 0, invalid = 0 PROVE Good([routed EXCEPT !.phase = "serving"])
    <2> DEFINE y == [routed EXCEPT !.phase = "serving"]
    <2>1. IsTask(y) /\ y.phase = "serving" /\ SameBut(routed, y, "phase")
        BY <1>4, SetPhase
    <2> HIDE DEF y
    <2>2. Good(y)
        BY <1>2, <1>3, <1>8, <2>1 DEF Continues, SameBut
    <2> QED BY <2>2 DEF y
<1>9. Good(x)
    <2> HIDE DEF Good
    <2> QED BY <1>1, <1>5, <1>6, <1>7, <1>8
<1>10. LET z == [x EXCEPT !.limited = TRUE]
       IN  IsTask(z) /\ SameBut(x, z, "limited")
    BY <1>9, SetLimited
<1>11. Good([x EXCEPT !.limited = TRUE])
    <2> DEFINE z == [x EXCEPT !.limited = TRUE]
    <2>1. IsTask(z) /\ SameBut(x, z, "limited")
        BY <1>10
    <2> HIDE DEF z
    <2>2. Good(z)
        BY <1>9, <2>1 DEF Continues, SameBut
    <2> QED BY <2>2 DEF z
<1> QED BY <1>11 DEF x, invalid, handler, route, request

-----------------------------------------------------------------------------
(* The steps of a task between its first and its last.                     *)

Moves(t, x) ==
    /\ Phase(t) # "idle"
    /\ Continues(thread[t], x)
    /\ thread' = [thread EXCEPT ![t] = x]
    /\ UNCHANGED <<work, next, now, context>>

LEMMA TaskFacts ==
    ASSUME TaskInv, NEW t \in Threads, Phase(t) # "idle"
    PROVE  /\ IsTask(thread[t]) /\ thread[t].phase \in TaskPhases
           /\ Phase(t) = thread[t].phase
    BY PhaseFacts DEF InTask, Phase

LEMMA CheckMoves ==
    ASSUME TaskInv, NEW t \in Threads, Check(t)
    PROVE  \E x :
              /\ Moves(t, x) /\ Phase(t) = "checking"
              /\ x.phase \in {"answering", "serving"}
              /\ x.outcome = thread[t].outcome
              /\ x.route \in {thread[t].route, dispatch(RouteTable, Request(t))}
              /\ x.phase = "serving" =>
                    /\ x.route = dispatch(RouteTable, Request(t)) /\ x.route.status = 0
                    /\ InputStatus(Request(t), Handlers[x.route.handler],
                                   x.route.parameters) = 0
<1> DEFINE d == [Dispatched(t) EXCEPT !.limited = TRUE]
           a == Answering(t, 429, FALSE)
<1>1. Phase(t) = "checking" /\ UNCHANGED <<work, next, now, context>>
    BY DEF Check
<1>2. thread' = [thread EXCEPT ![t] = d] \/ thread' = [thread EXCEPT ![t] = a]
    BY Zenon DEF Check
<1>3. IsTask(thread[t]) /\ thread[t].phase \in TaskPhases
    BY <1>1, TaskFacts
<1>4. Answers(thread[t], a, 429)
    BY <1>3, AnswersTooMany, Zenon
<1>5. CASE thread' = [thread EXCEPT ![t] = a]
    <2> HIDE DEF a
    <2> QED BY <1>1, <1>4, <1>5 DEF Answers, Moves
<1>6. CASE thread' = [thread EXCEPT ![t] = d]
    <2>1. /\ Continues(thread[t], d)
          /\ d.phase \in {"answering", "serving"}
          /\ d.outcome = thread[t].outcome
          /\ d.route \in {thread[t].route, dispatch(RouteTable, Request(t))}
          /\ d.phase = "serving" =>
                /\ d.route = dispatch(RouteTable, Request(t)) /\ d.route.status = 0
                /\ InputStatus(Request(t), Handlers[d.route.handler],
                               d.route.parameters) = 0
        <3> HIDE DEF d
        <3> QED BY <1>3, DispatchedFacts DEF d
    <2> HIDE DEF d
    <2>2. Moves(t, d)
        BY <1>1, <1>6, <2>1 DEF Moves
    <2> QED BY <1>1, <2>1, <2>2
<1> QED BY <1>2, <1>5, <1>6

(* An outcome of the service leads to the audit record or to the answer.   *)
Concludes(t, x, outcome) ==
    /\ x.outcome = outcome
    /\ x.phase = IF outcome \in Handler(t).audits THEN "recording" ELSE "answering"
    /\ x.route = thread[t].route

LEMMA SucceedsMoves ==
    ASSUME TaskInv, NEW t \in Threads, ServeSucceeds(t)
    PROVE  \E x : Moves(t, x) /\ Phase(t) = "serving" /\ Concludes(t, x, "success")
<1> DEFINE x == Concluded(t, "success", Handler(t).ok)
<1>1. /\ Phase(t) = "serving" /\ UNCHANGED <<work, next, now, context>>
      /\ thread' = [thread EXCEPT ![t] = x]
    BY DEF ServeSucceeds, Shared
<1>2. IsTask(thread[t])
    BY <1>1, TaskFacts
<1>3. /\ Continues(thread[t], x) /\ x.outcome = "success"
      /\ x.phase = IF "success" \in Handler(t).audits THEN "recording" ELSE "answering"
      /\ x.route = thread[t].route
    BY <1>2, ConcludedFacts
<1> HIDE DEF x
<1> QED BY <1>1, <1>3 DEF Moves, Concludes

LEMMA FailsMoves ==
    ASSUME TaskInv, NEW t \in Threads, ServeFails(t)
    PROVE  \E x : /\ Moves(t, x) /\ Phase(t) = "serving"
                  /\ Answers(thread[t], x, 500) \/ Concludes(t, x, "failure")
<1>1. Phase(t) = "serving" /\ UNCHANGED <<work, next, now, context>>
    BY DEF ServeFails, Shared
<1>2. IsTask(thread[t])
    BY <1>1, TaskFacts
<1>3. PICK status \in Handler(t).errors :
         \/ thread' = [thread EXCEPT ![t] = Answering(t, 500, TRUE)]
         \/ thread' = [thread EXCEPT ![t] = Concluded(t, "failure", status)]
    BY Zenon DEF ServeFails
<1> DEFINE a == Answering(t, 500, TRUE)
           x == Concluded(t, "failure", status)
<1>4. Answers(thread[t], a, 500)
    BY <1>2, AnswersInternalError, Zenon
<1>5. /\ Continues(thread[t], x) /\ x.outcome = "failure"
      /\ x.phase = IF "failure" \in Handler(t).audits THEN "recording" ELSE "answering"
      /\ x.route = thread[t].route
    BY <1>2, ConcludedFacts
<1>6. thread' = [thread EXCEPT ![t] = a] \/ thread' = [thread EXCEPT ![t] = x]
    BY <1>3, Zenon
<1> HIDE DEF x, a
<1> QED BY <1>1, <1>4, <1>5, <1>6 DEF Moves, Concludes, Answers

LEMMA ThrowsMoves ==
    ASSUME TaskInv, NEW t \in Threads, ServeThrows(t)
    PROVE  \E x : /\ Moves(t, x) /\ Phase(t) = "serving"
                  /\ Answers(thread[t], x, 500)
<1> DEFINE a == Answering(t, 500, TRUE)
<1>1. Phase(t) = "serving" /\ UNCHANGED <<work, next, now, context>>
    BY DEF ServeThrows, Shared
<1>2. thread' = [thread EXCEPT ![t] = a]
    BY Zenon DEF ServeThrows
<1>3. IsTask(thread[t])
    BY <1>1, TaskFacts
<1>4. Answers(thread[t], a, 500)
    BY <1>3, AnswersInternalError, Zenon
<1> HIDE DEF a
<1> QED BY <1>1, <1>2, <1>4 DEF Moves, Answers

LEMMA ReadMoves ==
    ASSUME TaskInv, NEW t \in Threads, ReadPage(t)
    PROVE  \E x : /\ Moves(t, x) /\ Phase(t) = "serving" /\ Handler(t).reads
                  /\ x.phase = "counting" /\ x.route = thread[t].route
<1> DEFINE x == [thread[t] EXCEPT !.phase = "counting"]
<1>1. /\ Phase(t) = "serving" /\ Handler(t).reads /\ UNCHANGED <<work, next, now, context>>
      /\ thread' = [thread EXCEPT ![t].phase = "counting"]
    BY DEF ReadPage, Shared
<1>2. thread' = [thread EXCEPT ![t] = x]
    BY <1>1
<1>3. IsTask(thread[t])
    BY <1>1, TaskFacts
<1>4. IsTask(x) /\ x.phase = "counting" /\ SameBut(thread[t], x, "phase")
    BY <1>3, SetPhase
<1> HIDE DEF x
<1> QED BY <1>1, <1>2, <1>4 DEF Moves, SameBut, Continues, TaskPhases

LEMMA CountMoves ==
    ASSUME TaskInv, NEW t \in Threads, CountEvents(t)
    PROVE  \E x : Moves(t, x) /\ Phase(t) = "counting" /\ Concludes(t, x, "success")
<1> DEFINE x == Concluded(t, "success", 200)
<1>1. /\ Phase(t) = "counting" /\ UNCHANGED <<work, next, now, context>>
      /\ thread' = [thread EXCEPT ![t] = x]
    BY DEF CountEvents, Shared
<1>2. IsTask(thread[t])
    BY <1>1, TaskFacts
<1>3. /\ Continues(thread[t], x) /\ x.outcome = "success"
      /\ x.phase = IF "success" \in Handler(t).audits THEN "recording" ELSE "answering"
      /\ x.route = thread[t].route
    BY <1>2, ConcludedFacts
<1> HIDE DEF x
<1> QED BY <1>1, <1>3 DEF Moves, Concludes

LEMMA CountThrowsMoves ==
    ASSUME TaskInv, NEW t \in Threads, CountThrows(t)
    PROVE  \E x : /\ Moves(t, x) /\ Phase(t) = "counting"
                  /\ Answers(thread[t], x, 500)
<1> DEFINE a == Answering(t, 500, TRUE)
<1>1. Phase(t) = "counting" /\ UNCHANGED <<work, next, now, context>>
    BY DEF CountThrows, Shared
<1>2. thread' = [thread EXCEPT ![t] = a]
    BY Zenon DEF CountThrows
<1>3. IsTask(thread[t])
    BY <1>1, TaskFacts
<1>4. Answers(thread[t], a, 500)
    BY <1>3, AnswersInternalError, Zenon
<1> HIDE DEF a
<1> QED BY <1>1, <1>2, <1>4 DEF Moves, Answers

LEMMA RecordMoves ==
    ASSUME TaskInv, NEW t \in Threads, Record(t)
    PROVE  \E x : /\ Moves(t, x) /\ Phase(t) = "recording"
                  /\ Answers(thread[t], x, 500) \/ Answers(thread[t], x, thread[t].status)
<1> DEFINE a == Answering(t, 500, TRUE)
           x == [thread[t] EXCEPT !.phase = "answering"]
<1>1. Phase(t) = "recording" /\ UNCHANGED <<work, next, now, context>>
    BY DEF Record, Shared
<1>2. thread' = [thread EXCEPT ![t] = a] \/ thread' = [thread EXCEPT ![t] = x]
    BY Zenon DEF Record
<1>3. IsTask(thread[t])
    BY <1>1, TaskFacts
<1>4. Answers(thread[t], a, 500)
    BY <1>3, AnswersInternalError, Zenon
<1>5. IsTask(x) /\ x.phase = "answering" /\ SameBut(thread[t], x, "phase")
    BY <1>3, SetPhase
<1> HIDE DEF x, a
<1>6. Answers(thread[t], x, thread[t].status)
    BY <1>5 DEF SameBut, Continues, TaskPhases, Answers
<1> QED BY <1>1, <1>2, <1>4, <1>6 DEF Moves, Answers

(* The steps that are neither the first nor the last.                      *)
Middle(t) ==
    \/ Check(t) \/ ServeSucceeds(t) \/ ServeFails(t) \/ ServeThrows(t)
    \/ ReadPage(t) \/ CountEvents(t) \/ CountThrows(t) \/ Record(t)

LEMMA MiddleMoves ==
    ASSUME TaskInv, NEW t \in Threads, Middle(t)
    PROVE  \E x : Moves(t, x)
<1>1. CASE Check(t) \/ ServeSucceeds(t) \/ ServeFails(t) \/ ServeThrows(t)
    BY <1>1, CheckMoves, SucceedsMoves, FailsMoves, ThrowsMoves, Zenon
<1>2. CASE ReadPage(t) \/ CountEvents(t) \/ CountThrows(t) \/ Record(t)
    BY <1>2, ReadMoves, CountMoves, CountThrowsMoves, RecordMoves, Zenon
<1> QED BY <1>1, <1>2 DEF Middle

-----------------------------------------------------------------------------
(* The structure is kept.                                                  *)

(* A thread that the step does not touch keeps its part of the invariant.  *)
LEMMA OthersKeep ==
    ASSUME NEW u \in Threads, AtRest(u) \/ InTask(u),
           thread'[u] = thread[u], context'[u] = context[u],
           work' = work, next \in Nat, next' \in Nat, next <= next',
           now \in Nat, now' \in Nat, now <= now'
    PROVE  (AtRest(u) \/ InTask(u))'
<1>1. CASE AtRest(u)
    BY <1>1 DEF AtRest, Idle
<1>2. CASE InTask(u)
    <2>1. thread[u].number \in 1 .. next' - 1 /\ thread[u].at \in 0 .. now'
        BY <1>2 DEF InTask
    <2> QED BY <1>2, <2>1 DEF InTask, resolve_request_id, IsTask
<1> QED BY <1>1, <1>2

LEMMA StructureMoves ==
    ASSUME Structure, NEW t \in Threads, NEW x, Moves(t, x)
    PROVE  /\ Structure'
           /\ thread'[t] = x /\ \A u \in Threads : u # t => thread'[u] = thread[u]
<1>1. /\ thread = [u \in Threads |-> thread[u]]
      /\ thread' = [thread EXCEPT ![t] = x]
      /\ Continues(thread[t], x)
      /\ UNCHANGED <<work, next, now, context>>
      /\ InTask(t)
    BY PhaseFacts DEF Structure, TaskInv, Moves
<1>2. /\ thread'[t] = x /\ \A u \in Threads : u # t => thread'[u] = thread[u]
      /\ thread' = [u \in Threads |-> thread'[u]]
    BY <1>1
<1>3. WorkInv'
    BY <1>1 DEF Structure, WorkInv
<1>4. InTask(t)'
    BY <1>1, <1>2 DEF InTask, Continues, resolve_request_id
<1>5. TaskInv'
    <2>1. next \in Nat /\ next' \in Nat /\ now \in Nat /\ now' \in Nat
          /\ next <= next' /\ now <= now'
        BY <1>1, WorkFacts DEF Structure, WorkInv
    <2>2. ASSUME NEW u \in Threads, u # t PROVE (AtRest(u) \/ InTask(u))'
        <3>1. AtRest(u) \/ InTask(u)
            BY DEF Structure, TaskInv
        <3>2. thread'[u] = thread[u] /\ context'[u] = context[u]
            BY <1>1, <1>2, <2>2
        <3> QED BY <1>1, <2>1, <3>1, <3>2, OthersKeep
    <2>3. context' = [u \in Threads |-> context'[u]]
        BY <1>1 DEF Structure, TaskInv
    <2> QED BY <1>2, <1>4, <2>2, <2>3 DEF TaskInv
<1>6. OneThread'
    <2>1. \A u \in Threads : thread'[u].number = thread[u].number
                             /\ (Phase(u)' # "idle" => Phase(u) # "idle")
        BY <1>1, <1>2 DEF Continues, Phase, Moves
    <2> QED BY <2>1 DEF OneThread, Structure
<1> QED BY <1>2, <1>3, <1>5, <1>6 DEF Structure

(* The task that Begin makes of the next request.                          *)
LEMMA StructureBegins ==
    ASSUME Structure, NEW t \in Threads, Begin(t)
    PROVE  /\ Structure'
           /\ next \in DOMAIN work /\ next' = next + 1 /\ UNCHANGED <<work, now>>
           /\ Phase(t) = "idle" /\ thread'[t].number = next
           /\ thread'[t].phase \in {"checking", "answering"}
           /\ thread'[t].at = now /\ thread'[t].route = None
           /\ \A u \in Threads : u # t => thread'[u] = thread[u]
<1> DEFINE request == work[next]
           who == resolve(request.peer, request.headers, request.tls)
           id == resolve_request_id(next)
           cors == CorsStatus(request)
           x == [phase |-> IF cors = 0 THEN "checking" ELSE "answering",
                 number |-> next, id |-> id, who |-> who, at |-> now,
                 previous |-> context[t], limited |-> FALSE, route |-> None,
                 outcome |-> "", status |-> cors, thrown |-> FALSE]
           c == [id |-> id, client |-> who.client]
<1>1. /\ Phase(t) = "idle" /\ next <= Len(work)
      /\ thread' = [thread EXCEPT ![t] = x]
      /\ context' = [context EXCEPT ![t] = c]
      /\ next' = next + 1 /\ UNCHANGED <<work, now>>
    BY DEF Begin, EnterContext
<1>2. /\ thread = [u \in Threads |-> thread[u]]
      /\ context = [u \in Threads |-> context[u]]
      /\ context[t] = None
    BY <1>1, PhaseFacts DEF Structure, TaskInv, AtRest
<1>3. Len(work) \in Nat /\ DOMAIN work = 1 .. Len(work) /\ next \in Nat /\ now \in Nat
      /\ next \in 1 .. Len(work) + 1
    BY WorkFacts DEF Structure, WorkInv
<1>4. /\ IsTask(x) /\ x.phase \in {"checking", "answering"} /\ x.number = next
      /\ x.id = id /\ x.who = who /\ x.at = now /\ x.previous = None /\ x.route = None
    <2> HIDE DEF id, who, cors
    <2> QED BY <1>2 DEF IsTask
<1>5. c = [id |-> x.id, client |-> x.who.client]
    <2> HIDE DEF x
    <2> QED BY <1>4
<1> HIDE DEF x, c
<1>6. /\ thread'[t] = x /\ context'[t] = c
      /\ thread' = [u \in Threads |-> thread'[u]]
      /\ context' = [u \in Threads |-> context'[u]]
      /\ \A u \in Threads : u # t => thread'[u] = thread[u] /\ context'[u] = context[u]
    BY <1>1, <1>2
<1>7. WorkInv'
    BY <1>1, <1>3 DEF Structure, WorkInv
<1>8. InTask(t)'
    <2>1. x.number \in 1 .. next' - 1 /\ x.at \in 0 .. now' /\ x.phase \in TaskPhases
        BY <1>1, <1>3, <1>4 DEF TaskPhases
    <2> QED BY <1>1, <1>4, <1>5, <1>6, <2>1 DEF InTask, resolve_request_id
<1>9. TaskInv'
    <2>1. next' \in Nat /\ now' \in Nat /\ next <= next' /\ now <= now'
        BY <1>1, <1>3
    <2>2. ASSUME NEW u \in Threads, u # t PROVE (AtRest(u) \/ InTask(u))'
        <3>1. AtRest(u) \/ InTask(u)
            BY DEF Structure, TaskInv
        <3> QED BY <1>1, <1>3, <1>6, <2>1, <2>2, <3>1, OthersKeep
    <2> QED BY <1>6, <1>8, <2>2 DEF TaskInv
<1>10. OneThread'
    <2>1. \A u \in Threads : u # t /\ Phase(u)' # "idle" => thread'[u].number \in 1 .. next - 1
        BY <1>6, PhaseFacts DEF InTask, Phase, Structure
    <2>2. \A u \in Threads : u # t /\ Phase(u)' # "idle" => thread'[u].number # thread'[t].number
        BY <1>3, <1>4, <1>6, <2>1
    <2>3. \A u, v \in Threads : u # t /\ v # t =>
             /\ Phase(u)' = Phase(u) /\ Phase(v)' = Phase(v)
             /\ thread'[u] = thread[u] /\ thread'[v] = thread[v]
        BY <1>6 DEF Phase
    <2> QED BY <2>2, <2>3 DEF OneThread, Structure
<1>11. next \in DOMAIN work
    BY <1>1, <1>3
<1> QED BY <1>1, <1>4, <1>6, <1>7, <1>9, <1>10, <1>11 DEF Structure

LEMMA StructureFinishes ==
    ASSUME Structure, NEW t \in Threads, Finish(t)
    PROVE  /\ Structure'
           /\ Phase(t) = "answering" /\ thread'[t] = Idle /\ Phase(t)' = "idle"
           /\ UNCHANGED <<work, next, now>>
           /\ \A u \in Threads : u # t => thread'[u] = thread[u]
<1>1. /\ Phase(t) = "answering" /\ thread' = [thread EXCEPT ![t] = Idle]
      /\ context' = [context EXCEPT ![t] = thread[t].previous]
      /\ UNCHANGED <<work, next, now>>
    BY DEF Finish
<1>2. InTask(t)
    BY <1>1, PhaseFacts DEF Structure
<1>3. /\ thread'[t] = Idle /\ context'[t] = None
      /\ thread' = [u \in Threads |-> thread'[u]]
      /\ context' = [u \in Threads |-> context'[u]]
      /\ \A u \in Threads : u # t => thread'[u] = thread[u] /\ context'[u] = context[u]
    BY <1>1, <1>2 DEF Structure, TaskInv, InTask
<1>4. AtRest(t)' /\ Phase(t)' = "idle"
    BY <1>3 DEF AtRest, Idle, Phase
<1>5. WorkInv'
    BY <1>1 DEF Structure, WorkInv
<1>6. TaskInv'
    <2>1. /\ next \in Nat /\ next' \in Nat /\ now \in Nat /\ now' \in Nat
          /\ next <= next' /\ now <= now'
        BY <1>1, WorkFacts DEF Structure, WorkInv
    <2>2. ASSUME NEW u \in Threads, u # t PROVE (AtRest(u) \/ InTask(u))'
        <3>1. AtRest(u) \/ InTask(u)
            BY DEF Structure, TaskInv
        <3> QED BY <1>1, <1>3, <2>1, <2>2, <3>1, OthersKeep
    <2> QED BY <1>3, <1>4, <2>2 DEF TaskInv
<1>7. OneThread'
    <2>1. \A u \in Threads : Phase(u)' # "idle" =>
             u # t /\ Phase(u) # "idle" /\ thread'[u] = thread[u]
        BY <1>3, <1>4 DEF Phase
    <2> QED BY <2>1 DEF OneThread, Structure
<1> QED BY <1>1, <1>3, <1>4, <1>5, <1>6, <1>7 DEF Structure

LEMMA StructureTicks ==
    ASSUME Structure, Tick
    PROVE  Structure' /\ UNCHANGED <<work, next, thread, context>> /\ now' = now + 1
<1>1. UNCHANGED <<work, next, thread, context>> /\ now' = now + 1
    BY DEF Tick
<1>2. WorkInv'
    BY <1>1 DEF Structure, WorkInv
<1>3. TaskInv'
    <2>1. /\ next \in Nat /\ next' \in Nat /\ now \in Nat /\ now' \in Nat
          /\ next <= next' /\ now <= now'
        BY <1>1, WorkFacts DEF Structure, WorkInv
    <2>2. ASSUME NEW u \in Threads PROVE (AtRest(u) \/ InTask(u))'
        <3>1. AtRest(u) \/ InTask(u)
            BY DEF Structure, TaskInv
        <3> QED BY <1>1, <2>1, <3>1, OthersKeep
    <2> QED BY <1>1, <2>2 DEF TaskInv, Structure
<1>4. OneThread'
    BY <1>1 DEF OneThread, Structure, Phase
<1> QED BY <1>1, <1>2, <1>3, <1>4 DEF Structure

LEMMA StructureStutters ==
    ASSUME Structure, UNCHANGED vars
    PROVE  Structure'
    BY DEF Structure, WorkInv, TaskInv, OneThread, AtRest, InTask, Phase,
           resolve_request_id, vars

LEMMA InitStructure == Init => Structure
<1> SUFFICES ASSUME Init PROVE Structure
    OBVIOUS
<1>1. work \in Workloads /\ IsSequence(work)
    BY WorkAssumption DEF Init
<1>2. Len(work) \in Nat
    BY <1>1 DEF IsSequence
<1>3. WorkInv
    BY <1>1, <1>2 DEF Init, WorkInv
<1>4. TaskInv
    BY DEF Init, TaskInv, AtRest
<1>5. OneThread
    BY DEF Init, OneThread, Phase, Idle
<1> QED BY <1>3, <1>4, <1>5 DEF Structure

LEMMA NextCases ==
    ASSUME [Next]_vars
    PROVE  \/ Tick \/ UNCHANGED vars
           \/ \E t \in Threads : Begin(t) \/ Middle(t) \/ Finish(t)
    BY DEF Next, Step, Middle

LEMMA StructureStep == Structure /\ [Next]_vars => Structure'
<1> SUFFICES ASSUME Structure, [Next]_vars PROVE Structure'
    OBVIOUS
<1>1. ASSUME NEW t \in Threads, Middle(t) PROVE Structure'
    <2>1. PICK x : Moves(t, x)
        BY <1>1, MiddleMoves DEF Structure
    <2> QED BY <2>1, StructureMoves
<1> QED BY <1>1, NextCases, StructureTicks, StructureStutters, StructureBegins,
           StructureFinishes

(* Every thread is idle without a context, or runs one request that no     *)
(* other thread runs, in the context of that request.                      *)
THEOREM Invariance == Spec => []Structure
<1>1. Init => Structure
    BY InitStructure
<1>2. Structure /\ [Next]_vars => Structure'
    BY StructureStep
<1> QED BY <1>1, <1>2, PTL DEF Spec

(* The client that the rate limiter counts and the audit trail names is    *)
(* the last address of the chain that no trusted proxy has, whatever the   *)
(* headers of the request say (TrustedProxyResolver::resolve).             *)
THEOREM ClientResolved == Spec => []ClientIsLastUntrusted
<1>1. Structure => ClientIsLastUntrusted
    <2> SUFFICES ASSUME Structure, NEW t \in Threads, Phase(t) # "idle"
                 PROVE  LET request == Request(t)
                            headers == ForwardedBy(request.headers)
                            hops == IF is_trusted(request.peer) /\ headers.ok
                                    THEN headers.chain \o <<request.peer>>
                                    ELSE <<request.peer>>
                            untrusted == {i \in DOMAIN hops : ~is_trusted(hops[i])}
                        IN  thread[t].who.client =
                                IF untrusted = {} THEN hops[1] ELSE hops[Max(untrusted)]
        BY DEF ClientIsLastUntrusted
    <2>1. InTask(t)
        BY PhaseFacts DEF Structure
    <2>2. thread[t].number \in DOMAIN work
        BY <2>1, WorkFacts DEF InTask, Structure, WorkInv
    <2>3. HeadersOfRequest(Request(t).headers)
        BY <2>2, WorkFacts DEF Request, Structure
    <2>4. thread[t].who = resolve(Request(t).peer, Request(t).headers, Request(t).tls)
        BY <2>1 DEF InTask, Request
    <2>5. PICK peer, headers, tls :
             peer = Request(t).peer /\ headers = Request(t).headers /\ tls = Request(t).tls
        OBVIOUS
    <2>6. FoundClient(peer, headers) = thread[t].who.client
        BY <2>3, <2>4, <2>5, ClientFound
    <2> QED BY <2>5, <2>6 DEF FoundClient
<1> QED BY <1>1, Invariance, PTL

-----------------------------------------------------------------------------
(* The route of a task.                                                    *)

ServicePhases == {"serving", "counting", "recording"}

RouteOk(r) ==
    LET request == work[r.number]
        route   == dispatch(RouteTable, request)
    IN  /\ r.route \in {None, route}
        /\ r.phase \in ServicePhases =>
              /\ r.route = route /\ route.status = 0
              /\ InputStatus(request, Handlers[route.handler], route.parameters) = 0

RouteInv == \A t \in Threads : Phase(t) # "idle" => RouteOk(thread[t])

(* A step that moves a task moves its route in one of two ways.            *)
LEMMA RouteMoves ==
    ASSUME Structure, RouteInv, NEW t \in Threads, Middle(t)
    PROVE  RouteInv'
<1>1. Phase(t) # "idle" => RouteOk(thread[t])
    BY DEF RouteInv
<1>2. TaskInv
    BY DEF Structure
<1>3. \E x : Moves(t, x) /\ RouteOk(x)
    <2>1. CASE Check(t)
        <3>1. PICK x :
                /\ Moves(t, x) /\ Phase(t) = "checking"
                /\ x.phase \in {"answering", "serving"}
                /\ x.outcome = thread[t].outcome
                /\ x.route \in {thread[t].route, dispatch(RouteTable, Request(t))}
                /\ x.phase = "serving" =>
                      /\ x.route = dispatch(RouteTable, Request(t)) /\ x.route.status = 0
                      /\ InputStatus(Request(t), Handlers[x.route.handler],
                                     x.route.parameters) = 0
            BY <1>2, <2>1, CheckMoves
        <3>2. x.number = thread[t].number
            BY <3>1 DEF Moves, Continues
        <3>3. work[x.number] = Request(t) /\ thread[t].route \in {None, dispatch(RouteTable, Request(t))}
            BY <1>1, <3>1, <3>2 DEF RouteOk, Request
        <3> QED BY <3>1, <3>3 DEF RouteOk, ServicePhases
    <2>2. ASSUME NEW x, Moves(t, x), x.route = thread[t].route,
                 x.phase \in ServicePhases => Phase(t) \in ServicePhases
          PROVE  RouteOk(x)
        <3>1. x.number = thread[t].number /\ Phase(t) # "idle"
            BY <2>2 DEF Moves, Continues
        <3> QED BY <1>1, <2>2, <3>1 DEF RouteOk, Phase
    <2>3. CASE ServeSucceeds(t)
        <3>1. PICK x : Moves(t, x) /\ Phase(t) = "serving" /\ Concludes(t, x, "success")
            BY <1>2, <2>3, SucceedsMoves
        <3> QED BY <2>2, <3>1 DEF Concludes, ServicePhases
    <2>4. CASE ServeFails(t)
        <3>1. PICK x : /\ Moves(t, x) /\ Phase(t) = "serving"
                       /\ Answers(thread[t], x, 500) \/ Concludes(t, x, "failure")
            BY <1>2, <2>4, FailsMoves
        <3> QED BY <2>2, <3>1 DEF Concludes, Answers, ServicePhases
    <2>5. CASE ServeThrows(t)
        <3>1. PICK x : /\ Moves(t, x) /\ Phase(t) = "serving"
                       /\ Answers(thread[t], x, 500)
            BY <1>2, <2>5, ThrowsMoves
        <3> QED BY <2>2, <3>1 DEF Answers, ServicePhases
    <2>6. CASE ReadPage(t)
        <3>1. PICK x : /\ Moves(t, x) /\ Phase(t) = "serving" /\ Handler(t).reads
                       /\ x.phase = "counting" /\ x.route = thread[t].route
            BY <1>2, <2>6, ReadMoves
        <3> QED BY <2>2, <3>1 DEF ServicePhases
    <2>7. CASE CountEvents(t)
        <3>1. PICK x : Moves(t, x) /\ Phase(t) = "counting" /\ Concludes(t, x, "success")
            BY <1>2, <2>7, CountMoves
        <3> QED BY <2>2, <3>1 DEF Concludes, ServicePhases
    <2>8. CASE Record(t)
        <3>1. PICK x : /\ Moves(t, x) /\ Phase(t) = "recording"
                       /\ Answers(thread[t], x, 500) \/ Answers(thread[t], x, thread[t].status)
            BY <1>2, <2>8, RecordMoves
        <3> QED BY <2>2, <3>1 DEF Answers, ServicePhases
    <2>9. CASE CountThrows(t)
        <3>1. PICK x : /\ Moves(t, x) /\ Phase(t) = "counting"
                       /\ Answers(thread[t], x, 500)
            BY <1>2, <2>9, CountThrowsMoves
        <3> QED BY <2>2, <3>1 DEF Answers, ServicePhases
    <2> QED BY <2>1, <2>3, <2>4, <2>5, <2>6, <2>7, <2>8, <2>9 DEF Middle
<1>4. PICK x : Moves(t, x) /\ RouteOk(x)
    BY <1>3
<1>5. thread'[t] = x /\ \A u \in Threads : u # t => thread'[u] = thread[u]
    BY <1>4, StructureMoves
<1>6. work' = work
    BY <1>4 DEF Moves
<1>7. ASSUME NEW u \in Threads, Phase(u)' # "idle" PROVE RouteOk(thread[u])'
    <2>1. CASE u = t
        BY <1>4, <1>5, <1>6, <2>1 DEF RouteOk
    <2>2. CASE u # t
        BY <1>5, <1>6, <1>7, <2>2 DEF RouteOk, RouteInv, Phase
    <2> QED BY <2>1, <2>2
<1> QED BY <1>7 DEF RouteInv

LEMMA RouteStep == Structure /\ RouteInv /\ [Next]_vars => RouteInv'
<1> SUFFICES ASSUME Structure, RouteInv, [Next]_vars PROVE RouteInv'
    OBVIOUS
<1>1. CASE Tick
    BY <1>1, StructureTicks DEF RouteInv, RouteOk, Phase
<1>2. CASE UNCHANGED vars
    BY <1>2 DEF RouteInv, RouteOk, Phase, vars
<1>3. ASSUME NEW t \in Threads, Begin(t) PROVE RouteInv'
    <2>1. /\ UNCHANGED work /\ thread'[t].phase \in {"checking", "answering"}
          /\ thread'[t].route = None
          /\ \A u \in Threads : u # t => thread'[u] = thread[u]
        BY <1>3, StructureBegins
    <2>2. RouteOk(thread[t])'
        BY <2>1 DEF RouteOk, ServicePhases
    <2>3. ASSUME NEW u \in Threads, u # t, Phase(u)' # "idle" PROVE RouteOk(thread[u])'
        BY <2>1, <2>3 DEF RouteOk, RouteInv, Phase
    <2> QED BY <2>2, <2>3 DEF RouteInv
<1>4. ASSUME NEW t \in Threads, Finish(t) PROVE RouteInv'
    <2>1. /\ UNCHANGED work /\ Phase(t)' = "idle"
          /\ \A u \in Threads : u # t => thread'[u] = thread[u]
        BY <1>4, StructureFinishes
    <2>3. ASSUME NEW u \in Threads, u # t, Phase(u)' # "idle" PROVE RouteOk(thread[u])'
        BY <2>1, <2>3 DEF RouteOk, RouteInv, Phase
    <2> QED BY <2>1, <2>3 DEF RouteInv
<1> QED BY <1>1, <1>2, <1>3, <1>4, NextCases, RouteMoves

LEMMA InitRoute == Init => RouteInv
    BY DEF Init, RouteInv, Phase, Idle

LEMMA RouteInvariance == Spec => []RouteInv
<1>1. Spec => []Structure
    BY Invariance
<1> QED BY <1>1, InitRoute, RouteStep, PTL DEF Spec

(* A request reaches the handler that was registered for its method and    *)
(* path, and 404 and 405 are answered where no route has the path or none  *)
(* of the path has the method (Router::add_route, Router::dispatch), for   *)
(* every path a request may have.                                          *)
THEOREM Routing == Spec => []RoutedAsRegistered
<1>1. Structure /\ RouteInv => RoutedAsRegistered
    <2> SUFFICES ASSUME Structure, RouteInv, NEW t \in Threads, Phase(t) # "idle",
                        thread[t].route # None
                 PROVE  RightRoute(Request(t), thread[t].route)
        BY DEF RoutedAsRegistered, RightRoute
    <2>0. InTask(t)
        BY PhaseFacts DEF Structure
    <2>1. thread[t].number \in DOMAIN work
        BY <2>0, WorkFacts DEF InTask, Structure, WorkInv
    <2>2. IsSequence(Request(t).path)
        BY <2>1, WorkFacts DEF Request, Structure
    <2>3. thread[t].route = dispatch(RouteTable, Request(t))
        BY DEF RouteInv, RouteOk, Request
    <2>4. PICK request : request = Request(t)
        OBVIOUS
    <2>5. RightRoute(request, dispatch(RouteTable, request))
        BY <2>2, <2>4, DispatchRight
    <2> QED BY <2>3, <2>4, <2>5
<1> QED BY <1>1, Invariance, RouteInvariance, PTL

-----------------------------------------------------------------------------
(* The audit events name their requests.                                   *)

LEMMA Appended ==
    ASSUME NEW s, IsSequence(s), NEW e
    PROVE  /\ IsSequence(Append(s, e))
           /\ Len(s) \in Nat /\ DOMAIN s = 1 .. Len(s)
           /\ DOMAIN Append(s, e) = DOMAIN s \cup {Len(s) + 1} /\ Len(s) + 1 \notin DOMAIN s
           /\ Len(Append(s, e)) = Len(s) + 1
           /\ \A i \in DOMAIN s : Append(s, e)[i] = s[i]
           /\ Append(s, e)[Len(s) + 1] = e
<1> DEFINE S == ToSet(s) \cup {e}
           a == Append(s, e)
<1>1. s \in Seq(S) /\ e \in S /\ Len(s) \in Nat /\ DOMAIN s = 1 .. Len(s)
    BY DEF IsSequence
<1> HIDE DEF S
<1>2. a \in Seq(S) /\ Len(a) = Len(s) + 1 /\ a[Len(s) + 1] = e
    BY <1>1
<1>3. \A i \in 1 .. Len(s) : a[i] = s[i]
    BY <1>1
<1>4. DOMAIN a = 1 .. Len(s) + 1
    BY <1>1, <1>2
<1> HIDE DEF a
<1>5. a \in Seq(ToSet(a))
    BY <1>1, <1>2, <1>4 DEF ToSet
<1>6. 1 .. Len(s) + 1 = 1 .. Len(s) \cup {Len(s) + 1} /\ Len(s) + 1 \notin 1 .. Len(s)
    BY <1>1
<1> QED BY <1>1, <1>2, <1>3, <1>4, <1>5, <1>6 DEF IsSequence, a

(* Which steps write what.                                                 *)
LEMMA Frames ==
    ASSUME [Next]_vars
    PROVE  /\ work' = work
           /\ UNCHANGED events \/ \E t \in Threads : Record(t)
           /\ UNCHANGED counters \/ \E t \in Threads : Record(t)
           /\ UNCHANGED answers \/ \E t \in Threads : Finish(t)
           /\ UNCHANGED pages \/ \E t \in Threads : ReadPage(t) \/ CountEvents(t)
           /\ UNCHANGED commits \/ \E t \in Threads : ServeSucceeds(t) \/ ServeFails(t) \/ ServeThrows(t)
           /\ UNCHANGED <<limiter, admitted, evicted>> \/ \E t \in Threads : Check(t)
<1>1. CASE UNCHANGED vars
    BY <1>1 DEF vars
<1>2. CASE Tick
    BY <1>2 DEF Tick, Untouched
<1>3. ASSUME NEW t \in Threads, Step(t)
      PROVE  /\ work' = work
             /\ UNCHANGED events \/ Record(t)
             /\ UNCHANGED counters \/ Record(t)
             /\ UNCHANGED answers \/ Finish(t)
             /\ UNCHANGED pages \/ ReadPage(t) \/ CountEvents(t)
             /\ UNCHANGED commits \/ ServeSucceeds(t) \/ ServeFails(t) \/ ServeThrows(t)
             /\ UNCHANGED <<limiter, admitted, evicted>> \/ Check(t)
    <2>1. CASE Begin(t)
        BY <2>1 DEF Begin, Untouched
    <2>2. CASE Check(t)
        BY <2>2 DEF Check, Untouched
    <2>3. CASE ServeSucceeds(t)
        BY <2>3 DEF ServeSucceeds, Shared
    <2>4. CASE ServeFails(t)
        BY <2>4 DEF ServeFails, Shared
    <2>5. CASE ServeThrows(t)
        BY <2>5 DEF ServeThrows, Shared
    <2>6. CASE ReadPage(t)
        BY <2>6 DEF ReadPage, Shared
    <2>7. CASE CountEvents(t)
        BY <2>7 DEF CountEvents, Shared
    <2>8. CASE Record(t)
        BY <2>8 DEF Record, Shared
    <2>9. CASE Finish(t)
        BY <2>9 DEF Finish
    <2>10. CASE CountThrows(t)
        BY <2>10 DEF CountThrows, Shared
    <2> QED BY <1>3, <2>1, <2>2, <2>3, <2>4, <2>5, <2>6, <2>7, <2>8, <2>9, <2>10 DEF Step
<1> QED BY <1>1, <1>2, <1>3, Zenon DEF Next

LEMMA NextGrows ==
    ASSUME Structure, [Next]_vars
    PROVE  next \in Nat /\ next' \in Nat /\ next <= next'
<1>1. next \in Nat
    BY WorkFacts DEF Structure
<1>2. ASSUME NEW t \in Threads, Middle(t) PROVE next' = next
    <2>1. PICK x : Moves(t, x)
        BY <1>2, MiddleMoves DEF Structure
    <2> QED BY <2>1 DEF Moves
<1>3. \/ next' = next \/ next' = next + 1
    BY <1>2, NextCases, StructureTicks, StructureBegins, StructureFinishes DEF vars
<1> QED BY <1>1, <1>3

IsNamed(e) ==
    LET request == work[e.number]
    IN  /\ e.number \in 1 .. next - 1
        /\ e.id = resolve_request_id(e.number)
        /\ e.client = resolve(request.peer, request.headers, request.tls).client

NamesInv ==
    /\ IsSequence(events)
    /\ \A i \in DOMAIN events : IsNamed(events[i])

(* The event that Record writes.                                           *)
EventOf(t) ==
    [number |-> thread[t].number, outcome |-> thread[t].outcome,
     id |-> context[t].id, client |-> context[t].client, agent |-> Request(t).agent]

LEMMA RecordWrites ==
    ASSUME NEW t \in Threads, Record(t)
    PROVE  /\ \/ events' = Append(events, EventOf(t))
              \/ events' = events /\ counters' = [counters EXCEPT !.failed = @ + 1]
           /\ \/ counters' = [counters EXCEPT !.recorded = @ + 1]
              \/ counters' = [counters EXCEPT !.failed = @ + 1]
<1>1. PICK stored, confirmed \in BOOLEAN :
         /\ confirmed => stored
         /\ events' = IF stored THEN Append(events, EventOf(t)) ELSE events
         /\ counters' = Counted(stored, confirmed)
    BY Zenon DEF Record, EventOf
<1>2. counters' = IF confirmed THEN [counters EXCEPT !.recorded = @ + 1]
                  ELSE [counters EXCEPT !.failed = @ + 1]
    BY <1>1, Zenon DEF Counted
<1> QED BY <1>1, <1>2

LEMMA NamesStep == Structure /\ NamesInv /\ [Next]_vars => NamesInv'
<1> SUFFICES ASSUME Structure, NamesInv, [Next]_vars PROVE NamesInv'
    OBVIOUS
<1>1. work' = work /\ next \in Nat /\ next' \in Nat /\ next <= next'
    BY Frames, NextGrows
<1>2. ASSUME NEW e, IsNamed(e) PROVE IsNamed(e)'
    <2>1. e.number \in 1 .. next' - 1
        BY <1>1, <1>2 DEF IsNamed
    <2> QED BY <1>1, <1>2, <2>1 DEF IsNamed, resolve_request_id
<1>3. CASE UNCHANGED events
    BY <1>2, <1>3 DEF NamesInv
<1>4. ASSUME NEW t \in Threads, Record(t) PROVE NamesInv'
    <2>1. Phase(t) = "recording"
        BY <1>4 DEF Record
    <2>2. InTask(t)
        BY <2>1, PhaseFacts DEF Structure
    <2>3. PICK e : e = EventOf(t)
        OBVIOUS
    <2>4. IsNamed(e)
        BY <2>2, <2>3 DEF InTask, IsNamed, EventOf
    <2>5. CASE events' = Append(events, e)
        <3>1. /\ IsSequence(events') /\ DOMAIN events' = DOMAIN events \cup {Len(events) + 1}
              /\ \A i \in DOMAIN events : events'[i] = events[i]
              /\ events'[Len(events) + 1] = e
            BY <2>5, Appended DEF NamesInv
        <3>2. \A i \in DOMAIN events' : IsNamed(events'[i])
            BY <2>4, <3>1 DEF NamesInv
        <3> QED BY <1>2, <3>1, <3>2 DEF NamesInv
    <2> QED BY <1>3, <1>4, <2>3, <2>5, RecordWrites
<1> QED BY <1>3, <1>4, Frames

LEMMA InitNames == Init => NamesInv
<1>1. IsSequence(<< >>)
    BY DEF IsSequence
<1> QED BY <1>1 DEF Init, NamesInv

LEMMA NamesInvariance == Spec => []NamesInv
<1>1. Spec => []Structure
    BY Invariance
<1> QED BY <1>1, InitNames, NamesStep, PTL DEF Spec

(* The audit context is the request's own: an event carries the request id *)
(* and the client of the request it is about, whatever ran on the thread   *)
(* before (ScopedRequestAuditContext, AuditService::record).               *)
THEOREM EventsNamed == Spec => []EventsNameTheirRequest
<1>1. Structure /\ NamesInv => EventsNameTheirRequest
    BY PhaseFacts DEF Structure, NamesInv, IsNamed, EventsNameTheirRequest, AtRest
<1> QED BY <1>1, Invariance, NamesInvariance, PTL

-----------------------------------------------------------------------------
(* What all handlers have in common.                                       *)

HandlerOk(x) ==
    /\ x.commits \subseteq x.audits /\ x.audits \subseteq {"success", "failure"}
    /\ x.reads \/ ("success" \in x.audits => "success" \in x.commits)
    /\ x.reads => x.commits = {} /\ x.input = "query"

LEMMA HandlersOk == \A name \in DOMAIN Handlers : HandlerOk(Handlers[name])
<1>1. HandlerOk(health_handler) /\ Handlers["health"] = health_handler
    <2>1. HandlerOk(health_handler)
        BY DEF HandlerOk, health_handler, Authenticated, Stages, Both
    <2>2. Handlers["health"] = health_handler
        BY DEF Handlers
    <2> QED BY <2>1, <2>2
<1>2. HandlerOk(ready_handler) /\ Handlers["ready"] = ready_handler
    <2>1. HandlerOk(ready_handler)
        BY DEF HandlerOk, ready_handler, Authenticated, Stages, Both
    <2>2. Handlers["ready"] = ready_handler
        BY DEF Handlers
    <2> QED BY <2>1, <2>2
<1>3. HandlerOk(register_handler) /\ Handlers["register"] = register_handler
    <2>1. HandlerOk(register_handler)
        BY DEF HandlerOk, register_handler, Authenticated, Stages, Both
    <2>2. Handlers["register"] = register_handler
        BY DEF Handlers
    <2> QED BY <2>1, <2>2
<1>4. HandlerOk(login_handler) /\ Handlers["login"] = login_handler
    <2>1. HandlerOk(login_handler)
        BY DEF HandlerOk, login_handler, Authenticated, Stages, Both
    <2>2. Handlers["login"] = login_handler
        BY DEF Handlers
    <2> QED BY <2>1, <2>2
<1>5. HandlerOk(refresh_handler) /\ Handlers["refresh"] = refresh_handler
    <2>1. HandlerOk(refresh_handler)
        BY DEF HandlerOk, refresh_handler, Authenticated, Stages, Both
    <2>2. Handlers["refresh"] = refresh_handler
        BY DEF Handlers
    <2> QED BY <2>1, <2>2
<1>6. HandlerOk(logout_handler) /\ Handlers["logout"] = logout_handler
    <2>1. HandlerOk(logout_handler)
        BY DEF HandlerOk, logout_handler, Authenticated, Stages, Both
    <2>2. Handlers["logout"] = logout_handler
        BY DEF Handlers
    <2> QED BY <2>1, <2>2
<1>7. HandlerOk(logout_all_handler) /\ Handlers["logout_all"] = logout_all_handler
    <2>1. HandlerOk(logout_all_handler)
        BY DEF HandlerOk, logout_all_handler, Authenticated, Stages, Both
    <2>2. Handlers["logout_all"] = logout_all_handler
        BY DEF Handlers
    <2> QED BY <2>1, <2>2
<1>8. HandlerOk(me_handler) /\ Handlers["me"] = me_handler
    <2>1. HandlerOk(me_handler)
        BY DEF HandlerOk, me_handler, Authenticated, Stages, Both
    <2>2. Handlers["me"] = me_handler
        BY DEF Handlers
    <2> QED BY <2>1, <2>2
<1>9. HandlerOk(echo_handler) /\ Handlers["echo"] = echo_handler
    <2>1. HandlerOk(echo_handler)
        BY DEF HandlerOk, echo_handler, Authenticated, Stages, Both
    <2>2. Handlers["echo"] = echo_handler
        BY DEF Handlers
    <2> QED BY <2>1, <2>2
<1>10. HandlerOk(list_sessions_handler) /\ Handlers["list_sessions"] = list_sessions_handler
    <2>1. HandlerOk(list_sessions_handler)
        BY DEF HandlerOk, list_sessions_handler, Authenticated, Stages, Both
    <2>2. Handlers["list_sessions"] = list_sessions_handler
        BY DEF Handlers
    <2> QED BY <2>1, <2>2
<1>11. HandlerOk(revoke_session_handler) /\ Handlers["revoke_session"] = revoke_session_handler
    <2>1. HandlerOk(revoke_session_handler)
        BY DEF HandlerOk, revoke_session_handler, Authenticated, Stages, Both
    <2>2. Handlers["revoke_session"] = revoke_session_handler
        BY DEF Handlers
    <2> QED BY <2>1, <2>2
<1>12. HandlerOk(change_password_handler) /\ Handlers["change_password"] = change_password_handler
    <2>1. HandlerOk(change_password_handler)
        BY DEF HandlerOk, change_password_handler, Authenticated, Stages, Both
    <2>2. Handlers["change_password"] = change_password_handler
        BY DEF Handlers
    <2> QED BY <2>1, <2>2
<1>13. HandlerOk(list_users_handler) /\ Handlers["list_users"] = list_users_handler
    <2>1. HandlerOk(list_users_handler)
        BY DEF HandlerOk, list_users_handler, Authenticated, Stages, Both
    <2>2. Handlers["list_users"] = list_users_handler
        BY DEF Handlers
    <2> QED BY <2>1, <2>2
<1>14. HandlerOk(get_user_handler) /\ Handlers["get_user"] = get_user_handler
    <2>1. HandlerOk(get_user_handler)
        BY DEF HandlerOk, get_user_handler, Authenticated, Stages, Both
    <2>2. Handlers["get_user"] = get_user_handler
        BY DEF Handlers
    <2> QED BY <2>1, <2>2
<1>15. HandlerOk(set_user_status_handler) /\ Handlers["set_user_status"] = set_user_status_handler
    <2>1. HandlerOk(set_user_status_handler)
        BY DEF HandlerOk, set_user_status_handler, Authenticated, Stages, Both
    <2>2. Handlers["set_user_status"] = set_user_status_handler
        BY DEF Handlers
    <2> QED BY <2>1, <2>2
<1>16. HandlerOk(list_roles_handler) /\ Handlers["list_roles"] = list_roles_handler
    <2>1. HandlerOk(list_roles_handler)
        BY DEF HandlerOk, list_roles_handler, Authenticated, Stages, Both
    <2>2. Handlers["list_roles"] = list_roles_handler
        BY DEF Handlers
    <2> QED BY <2>1, <2>2
<1>17. HandlerOk(list_permissions_handler) /\ Handlers["list_permissions"] = list_permissions_handler
    <2>1. HandlerOk(list_permissions_handler)
        BY DEF HandlerOk, list_permissions_handler, Authenticated, Stages, Both
    <2>2. Handlers["list_permissions"] = list_permissions_handler
        BY DEF Handlers
    <2> QED BY <2>1, <2>2
<1>18. HandlerOk(list_user_roles_handler) /\ Handlers["list_user_roles"] = list_user_roles_handler
    <2>1. HandlerOk(list_user_roles_handler)
        BY DEF HandlerOk, list_user_roles_handler, Authenticated, Stages, Both
    <2>2. Handlers["list_user_roles"] = list_user_roles_handler
        BY DEF Handlers
    <2> QED BY <2>1, <2>2
<1>19. HandlerOk(assign_role_handler) /\ Handlers["assign_role"] = assign_role_handler
    <2>1. HandlerOk(assign_role_handler)
        BY DEF HandlerOk, assign_role_handler, Authenticated, Stages, Both
    <2>2. Handlers["assign_role"] = assign_role_handler
        BY DEF Handlers
    <2> QED BY <2>1, <2>2
<1>20. HandlerOk(revoke_role_handler) /\ Handlers["revoke_role"] = revoke_role_handler
    <2>1. HandlerOk(revoke_role_handler)
        BY DEF HandlerOk, revoke_role_handler, Authenticated, Stages, Both
    <2>2. Handlers["revoke_role"] = revoke_role_handler
        BY DEF Handlers
    <2> QED BY <2>1, <2>2
<1>21. HandlerOk(list_audit_events_handler) /\ Handlers["list_audit_events"] = list_audit_events_handler
    <2>1. HandlerOk(list_audit_events_handler)
        BY DEF HandlerOk, list_audit_events_handler, Authenticated, Stages, Both
    <2>2. Handlers["list_audit_events"] = list_audit_events_handler
        BY DEF Handlers
    <2> QED BY <2>1, <2>2
<1>22. HandlerOk(metrics_handler) /\ Handlers["metrics"] = metrics_handler
    <2>1. HandlerOk(metrics_handler)
        BY DEF HandlerOk, metrics_handler, Authenticated, Stages, Both
    <2>2. Handlers["metrics"] = metrics_handler
        BY DEF Handlers
    <2> QED BY <2>1, <2>2
<1> QED BY <1>1, <1>2, <1>3, <1>4, <1>5, <1>6, <1>7, <1>8, <1>9, <1>10, <1>11, <1>12, <1>13, <1>14, <1>15, <1>16, <1>17, <1>18, <1>19, <1>20, <1>21, <1>22, HandlerNames

(* A thread is left alone or takes a step of its own.                      *)
LEMMA ThreadSteps ==
    ASSUME Structure, [Next]_vars, NEW u \in Threads
    PROVE  thread'[u] = thread[u] \/ Begin(u) \/ Middle(u) \/ Finish(u)
<1>1. ASSUME NEW t \in Threads, t # u, Middle(t) PROVE thread'[u] = thread[u]
    <2>1. PICK x : Moves(t, x)
        BY <1>1, MiddleMoves DEF Structure
    <2> QED BY <1>1, <2>1, StructureMoves
<1>2. ASSUME NEW t \in Threads, t # u, Begin(t) \/ Finish(t) PROVE thread'[u] = thread[u]
    BY <1>2, StructureBegins, StructureFinishes
<1>3. ASSUME Tick \/ UNCHANGED vars PROVE thread'[u] = thread[u]
    BY <1>3, StructureTicks DEF vars
<1> QED BY <1>1, <1>2, <1>3, NextCases, Zenon

LEMMA OwnStep ==
    ASSUME Structure, NEW t \in Threads, NEW x, Moves(t, x)
    PROVE  thread'[t] = x
    BY StructureMoves

(* The phases that a step of the thread leads to.                          *)
LEMMA PhaseReached ==
    ASSUME Structure, [Next]_vars, NEW u \in Threads
    PROVE  /\ Phase(u)' = "checking" => thread'[u] = thread[u] \/ Begin(u)
           /\ Phase(u)' = "serving" => thread'[u] = thread[u] \/ Check(u)
           /\ Phase(u)' = "counting" => thread'[u] = thread[u] \/ ReadPage(u)
           /\ Phase(u)' = "recording" =>
                 \/ thread'[u] = thread[u] \/ ServeSucceeds(u) \/ ServeFails(u) \/ CountEvents(u)
<1>0. TaskInv
    BY DEF Structure
<1>1. CASE Begin(u)
    BY <1>1, StructureBegins DEF Phase
<1>2. CASE Finish(u)
    BY <1>2, StructureFinishes DEF Phase
<1>3. CASE Check(u)
    <2>1. PICK x : Moves(u, x) /\ x.phase \in {"answering", "serving"}
        BY <1>0, <1>3, CheckMoves
    <2> QED BY <1>3, <2>1, OwnStep DEF Phase
<1>4. CASE ServeSucceeds(u)
    <2>1. PICK x : Moves(u, x) /\ Concludes(u, x, "success")
        BY <1>0, <1>4, SucceedsMoves
    <2> QED BY <1>4, <2>1, OwnStep DEF Phase, Concludes
<1>5. CASE ServeFails(u)
    <2>1. PICK x : Moves(u, x) /\ (Answers(thread[u], x, 500) \/ Concludes(u, x, "failure"))
        BY <1>0, <1>5, FailsMoves
    <2> QED BY <1>5, <2>1, OwnStep DEF Phase, Concludes, Answers
<1>6. CASE ServeThrows(u)
    <2>1. PICK x : Moves(u, x) /\ Answers(thread[u], x, 500)
        BY <1>0, <1>6, ThrowsMoves
    <2> QED BY <2>1, OwnStep DEF Phase, Answers
<1>7. CASE ReadPage(u)
    <2>1. PICK x : Moves(u, x) /\ x.phase = "counting"
        BY <1>0, <1>7, ReadMoves
    <2> QED BY <1>7, <2>1, OwnStep DEF Phase
<1>8. CASE CountEvents(u)
    <2>1. PICK x : Moves(u, x) /\ Concludes(u, x, "success")
        BY <1>0, <1>8, CountMoves
    <2> QED BY <1>8, <2>1, OwnStep DEF Phase, Concludes
<1>9. CASE Record(u)
    <2>1. PICK x : Moves(u, x) /\ x.phase = "answering"
        BY <1>0, <1>9, RecordMoves DEF Answers
    <2> QED BY <2>1, OwnStep DEF Phase
<1>10. CASE CountThrows(u)
    <2>1. PICK x : Moves(u, x) /\ Answers(thread[u], x, 500)
        BY <1>0, <1>10, CountThrowsMoves
    <2> QED BY <2>1, OwnStep DEF Phase, Answers
<1> QED BY <1>1, <1>2, <1>3, <1>4, <1>5, <1>6, <1>7, <1>8, <1>9, <1>10, ThreadSteps DEF Middle

-----------------------------------------------------------------------------
(* The pages of the audit trail.                                           *)

Rank(S, id) == Cardinality({newer \in S : newer > id})

LEMMA FiniteBelow ==
    ASSUME NEW n \in Nat, NEW S \in SUBSET (1 .. n)
    PROVE  IsFiniteSet(S) /\ Cardinality(S) \in Nat
<1>1. 1 \in Int /\ n \in Int
    OBVIOUS
<1>2. IsFiniteSet(1 .. n)
    BY <1>1, FS_Interval
<1>3. IsFiniteSet(S)
    BY <1>2, FS_Subset
<1> QED BY <1>3, FS_CardinalityType

LEMMA RankGrows ==
    ASSUME NEW n \in Nat, NEW T \in SUBSET (1 .. n), NEW S \in SUBSET T, NEW id
    PROVE  Rank(S, id) \in Nat /\ Rank(T, id) \in Nat /\ Rank(S, id) <= Rank(T, id)
<1> DEFINE A == {newer \in S : newer > id}
           B == {newer \in T : newer > id}
<1>1. A \in SUBSET (1 .. n) /\ B \in SUBSET (1 .. n) /\ A \subseteq B
    OBVIOUS
<1> HIDE DEF A, B
<1>2. IsFiniteSet(B) /\ Cardinality(A) \in Nat /\ Cardinality(B) \in Nat
    BY <1>1, FiniteBelow
<1>3. Cardinality(A) <= Cardinality(B)
    BY <1>1, <1>2, FS_Subset
<1> QED BY <1>2, <1>3 DEF Rank, A, B

(* An element with a rank has one of every smaller rank above it.          *)
LEMMA RankReached ==
    ASSUME NEW n \in Nat, NEW S \in SUBSET (1 .. n), NEW id \in S, NEW r \in Nat,
           Rank(S, id) >= r
    PROVE  \E x \in S : x >= id /\ Rank(S, x) = r
<1> DEFINE D == {x \in S : Rank(S, x) >= r}
<1>0. \A y \in S : y \in 1 .. n /\ y \in 0 .. n /\ y \in Nat
    OBVIOUS
<1>1. D \in SUBSET (0 .. n) /\ D # {} /\ id \in D
    <2>1. id \in D
        OBVIOUS
    <2>2. \A y \in D : y \in 0 .. n
        BY <1>0
    <2> HIDE DEF D
    <2> QED BY <2>1, <2>2
<1>2. Max(D) \in D /\ \A y \in D : y <= Max(D)
    <2> HIDE DEF D
    <2> QED BY <1>1, GreatestElement
<1>3. PICK x : x = Max(D)
    OBVIOUS
<1>4. x \in S /\ Rank(S, x) >= r /\ id <= x
    BY <1>1, <1>2, <1>3
<1>5. Rank(S, x) \in Nat
    BY RankGrows
<1>6. ASSUME Rank(S, x) # r PROVE FALSE
    <2> DEFINE N == {newer \in S : newer > x}
    <2>1. Cardinality(N) = Rank(S, x)
        BY DEF Rank
    <2>2. N \in SUBSET (1 .. n) /\ N \in SUBSET Nat
        <3>1. \A y \in N : y \in 1 .. n /\ y \in Nat
            BY <1>0
        <3> HIDE DEF N
        <3> QED BY <3>1
    <2>3. IsFiniteSet(N)
        <3> HIDE DEF N
        <3> QED BY <2>2, FiniteBelow
    <2>4. Rank(S, x) > r
        BY <1>4, <1>5, <1>6
    <2>5. N # {}
        <3> HIDE DEF N
        <3> QED BY <2>1, <2>4, FS_EmptySet
    <2>6. PICK y \in N : \A z \in N : y <= z
        <3> HIDE DEF N
        <3> QED BY <2>2, <2>5, LeastElement
    <2>7. {newer \in S : newer > y} = N \ {y}
        <3>1. y \in S /\ y > x /\ x \in Nat /\ y \in Nat
            BY <1>0, <1>4, <2>6
        <3>2. ASSUME NEW z \in S, z > y PROVE z \in N \ {y}
            BY <1>0, <3>1, <3>2
        <3>3. ASSUME NEW z \in N \ {y} PROVE z \in S /\ z > y
            <4>1. z \in S /\ y <= z /\ z # y /\ z \in Nat
                BY <1>0, <2>6, <3>3
            <4> QED BY <3>1, <4>1
        <3> HIDE DEF N
        <3> QED BY <3>2, <3>3
    <2>8. Cardinality(N \ {y}) = Cardinality(N) - 1
        <3> HIDE DEF N
        <3> QED BY <2>3, <2>6, FS_RemoveElement
    <2>9. Rank(S, y) = Rank(S, x) - 1
        BY <2>1, <2>7, <2>8 DEF Rank
    <2>10. y \in D
        BY <1>5, <2>4, <2>6, <2>9
    <2>11. y <= x /\ y > x /\ y \in Nat /\ x \in Nat
        BY <1>0, <1>2, <1>3, <1>4, <2>6, <2>10
    <2> QED BY <2>11
<1>7. x \in Nat /\ id \in Nat
    BY <1>0, <1>4
<1> QED BY <1>4, <1>6, <1>7

(* The audit table only grows.                                             *)
LEMMA EventsGrow ==
    ASSUME NamesInv, [Next]_vars
    PROVE  /\ DOMAIN events \subseteq DOMAIN events'
           /\ \A i \in DOMAIN events : events'[i] = events[i]
           /\ Len(events) \in Nat /\ DOMAIN events = 1 .. Len(events)
<1>1. ASSUME NEW t \in Threads, Record(t), UNCHANGED events \/ events' = Append(events, EventOf(t))
      PROVE  DOMAIN events \subseteq DOMAIN events' /\ \A i \in DOMAIN events : events'[i] = events[i]
    <2>1. PICK e : e = EventOf(t)
        OBVIOUS
    <2>2. CASE events' = Append(events, e)
        BY <2>2, Appended DEF NamesInv
    <2> QED BY <1>1, <2>1, <2>2
<1>2. Len(events) \in Nat /\ DOMAIN events = 1 .. Len(events)
    BY Appended DEF NamesInv
<1> QED BY <1>1, <1>2, Frames, RecordWrites

LEMMA MatchingGrows ==
    ASSUME NamesInv, [Next]_vars, NEW outcome
    PROVE  /\ Matching(outcome) \subseteq Matching(outcome)'
           /\ Len(events) \in Nat /\ Matching(outcome) \in SUBSET (1 .. Len(events))
<1>1. ASSUME NEW id \in Matching(outcome) PROVE id \in Matching(outcome)'
    BY <1>1, EventsGrow DEF Matching
<1>2. \A id \in Matching(outcome) : id \in DOMAIN events
    BY DEF Matching
<1> QED BY <1>1, <1>2, EventsGrow

IsPage(p) ==
    p = [number |-> p.number, outcome |-> p.outcome, limit |-> p.limit, offset |-> p.offset,
         shown |-> p.shown, there |-> p.there, total |-> p.total]

Shown(there, limit, offset) == {id \in there : Rank(there, id) \in offset .. offset + limit - 1}

PageOk(p) ==
    /\ IsPage(p)
    /\ p.number \in 1 .. next - 1 /\ p.outcome = work[p.number].outcome
    /\ p.limit \in Nat \ {0} /\ p.offset \in Nat
    /\ p.there \subseteq Matching(p.outcome)
    /\ p.shown = Shown(p.there, p.limit, p.offset)
    /\ p.total # None => p.total \in Nat /\ p.total >= Cardinality(p.there)

(* A later page of the same kind was cut from no fewer events, and a thread*)
(* that is about to count has read a page.                                 *)
PageInv ==
    /\ IsSequence(pages)
    /\ \A i \in DOMAIN pages : PageOk(pages[i])
    /\ \A i, j \in DOMAIN pages :
          i < j /\ pages[i].outcome = pages[j].outcome => pages[i].there \subseteq pages[j].there
    /\ \A t \in Threads : Phase(t) = "counting" =>
          \E i \in DOMAIN pages : pages[i].number = thread[t].number

LEMMA SetTotal ==
    ASSUME NEW p, IsPage(p), NEW v
    PROVE  LET q == [p EXCEPT !.total = v]
           IN  /\ IsPage(q) /\ q.total = v
               /\ q.number = p.number /\ q.outcome = p.outcome /\ q.limit = p.limit
               /\ q.offset = p.offset /\ q.shown = p.shown /\ q.there = p.there
    BY DEF IsPage

(* A request that reads a page has a limit and an offset.                  *)
LEMMA ReaderInput ==
    ASSUME Structure, RouteInv, NEW t \in Threads, Phase(t) \in ServicePhases
    PROVE  /\ thread[t].number \in 1 .. next - 1
           /\ thread[t].route.handler \in DOMAIN Handlers /\ HandlerOk(Handler(t))
           /\ Handler(t).reads => Request(t).limit \in Nat \ {0} /\ Request(t).offset \in Nat
<1>1. Phase(t) # "idle"
    BY DEF ServicePhases
<1>2. InTask(t) /\ RouteOk(thread[t])
    BY <1>1, PhaseFacts DEF RouteInv, Structure
<1>3. thread[t].number \in 1 .. next - 1 /\ thread[t].number \in DOMAIN work
    BY <1>2, WorkFacts DEF InTask, Structure, WorkInv
<1>4. IsSequence(Request(t).path) /\ Request(t).limit \in Int /\ Request(t).offset \in Int
    BY <1>3, WorkFacts DEF Request, Structure
<1>5. /\ thread[t].route = dispatch(RouteTable, Request(t)) /\ thread[t].route.status = 0
      /\ InputStatus(Request(t), Handler(t), thread[t].route.parameters) = 0
    BY <1>2 DEF RouteOk, Request, Handler, Phase
<1>6. thread[t].route.handler \in DOMAIN Handlers
    <2>1. PICK request : request = Request(t)
        OBVIOUS
    <2>2. dispatch(RouteTable, request).status = 0 =>
             dispatch(RouteTable, request).handler \in DOMAIN Handlers
        BY <1>4, <2>1, DispatchRight
    <2> QED BY <1>5, <2>1, <2>2
<1>7. HandlerOk(Handler(t))
    BY <1>6, HandlersOk DEF Handler
<1>8. ASSUME Handler(t).reads PROVE Request(t).limit \in Nat \ {0} /\ Request(t).offset \in Nat
    <2>1. PICK request, handler, parameters :
             request = Request(t) /\ handler = Handler(t) /\ parameters = thread[t].route.parameters
        OBVIOUS
    <2>2. handler.input = "query"
        BY <1>7, <1>8, <2>1 DEF HandlerOk
    <2>3. QueryStatus(request) = 0
        BY <1>5, <2>1, <2>2 DEF InputStatus
    <2>4. request.limit \in 1 .. MaxPage /\ request.offset >= 0
        <3>1. \A c \in BOOLEAN : (IF c THEN 0 ELSE 422) = 0 => c
            OBVIOUS
        <3>2. /\ query_integer_or_default(request.limit, 1, MaxPage) /\ request.offset >= 0
            BY <2>3, <3>1 DEF QueryStatus
        <3> QED BY <3>2 DEF query_integer_or_default
    <2> QED BY <1>4, <2>1, <2>4
<1> QED BY <1>3, <1>6, <1>7, <1>8

LEMMA PageKept ==
    ASSUME Structure, NamesInv, [Next]_vars, NEW p, PageOk(p)
    PROVE  PageOk(p)'
<1>1. work' = work /\ next \in Nat /\ next' \in Nat /\ next <= next'
    BY Frames, NextGrows
<1>2. p.number \in 1 .. next' - 1
    BY <1>1 DEF PageOk
<1>3. p.there \subseteq Matching(p.outcome)'
    BY MatchingGrows DEF PageOk
<1> QED BY <1>1, <1>2, <1>3 DEF PageOk

LEMMA Excepted ==
    ASSUME NEW s, IsSequence(s), NEW k \in DOMAIN s, NEW e
    PROVE  LET a == [s EXCEPT ![k] = e]
           IN  /\ IsSequence(a) /\ DOMAIN a = DOMAIN s /\ a[k] = e
               /\ \A i \in DOMAIN s : i # k => a[i] = s[i]
<1> DEFINE S == ToSet(s) \cup {e}
           a == [s EXCEPT ![k] = e]
<1>1. s \in Seq(S) /\ e \in S /\ Len(s) \in Nat /\ DOMAIN s = 1 .. Len(s)
    BY DEF IsSequence
<1> HIDE DEF S
<1>2. a \in Seq(S) /\ DOMAIN a = DOMAIN s /\ a[k] = e /\ \A i \in DOMAIN s : i # k => a[i] = s[i]
    BY <1>1
<1> HIDE DEF a
<1>3. a \in Seq(ToSet(a))
    BY <1>1, <1>2 DEF ToSet
<1> QED BY <1>2, <1>3 DEF IsSequence, a

LEMMA PageRead ==
    ASSUME Structure, RouteInv, NamesInv, PageInv, [Next]_vars, NEW t \in Threads, ReadPage(t)
    PROVE  PageInv'
<1> DEFINE o == Request(t).outcome
           S == Matching(o)
           e == [number |-> thread[t].number, outcome |-> o,
                 limit |-> Request(t).limit, offset |-> Request(t).offset,
                 shown |-> ListEvents(o, Request(t).limit, Request(t).offset),
                 there |-> S, total |-> None]
<1>1. Phase(t) = "serving" /\ Handler(t).reads /\ pages' = Append(pages, e) /\ events' = events
    BY DEF ReadPage
<1>2. /\ thread[t].number \in 1 .. next - 1
      /\ Request(t).limit \in Nat \ {0} /\ Request(t).offset \in Nat
    BY <1>1, ReaderInput DEF ServicePhases
<1>3. PageOk(e)
    <2>1. IsPage(e)
        BY DEF IsPage
    <2>2. ListEvents(o, Request(t).limit, Request(t).offset)
             = Shown(S, Request(t).limit, Request(t).offset)
        BY DEF ListEvents, Shown, Rank
    <2>3. o = work[thread[t].number].outcome
        BY DEF Request
    <2> HIDE DEF o, S
    <2>4. /\ e.number = thread[t].number /\ e.outcome = o /\ e.limit = Request(t).limit
          /\ e.offset = Request(t).offset /\ e.there = S /\ e.total = None
          /\ e.shown = ListEvents(o, Request(t).limit, Request(t).offset)
        OBVIOUS
    <2> HIDE DEF e
    <2> QED BY <1>2, <2>1, <2>2, <2>3, <2>4 DEF PageOk, S
<1>4. e.number = thread[t].number /\ e.outcome = o /\ e.there = S
    OBVIOUS
<1> HIDE DEF e
<1>5. /\ IsSequence(pages') /\ DOMAIN pages' = DOMAIN pages \cup {Len(pages) + 1}
      /\ \A i \in DOMAIN pages : pages'[i] = pages[i]
      /\ pages'[Len(pages) + 1] = e
      /\ Len(pages) \in Nat /\ DOMAIN pages = 1 .. Len(pages)
    BY <1>1, Appended DEF PageInv
<1>6. \A i \in DOMAIN pages' : PageOk(pages'[i])
    BY <1>3, <1>5 DEF PageInv
<1>7. \A i \in DOMAIN pages' : PageOk(pages[i])'
    <2>1. ASSUME NEW p, PageOk(p) PROVE PageOk(p)'
        BY <2>1, PageKept
    <2> QED BY <1>6, <2>1
<1>8. ASSUME NEW i \in DOMAIN pages', NEW j \in DOMAIN pages', i < j,
             pages'[i].outcome = pages'[j].outcome
      PROVE  pages'[i].there \subseteq pages'[j].there
    <2>1. CASE j \in DOMAIN pages
        <3>1. i \in DOMAIN pages
            BY <1>5, <1>8, <2>1
        <3> QED BY <1>5, <1>8, <2>1, <3>1 DEF PageInv
    <2>2. CASE j = Len(pages) + 1
        <3>1. i \in DOMAIN pages
            BY <1>5, <1>8, <2>2
        <3>2. pages'[i] = pages[i] /\ pages'[j] = e /\ PageOk(pages[i])
            BY <1>5, <2>2, <3>1 DEF PageInv
        <3> QED BY <1>4, <1>8, <3>2 DEF PageOk
    <2> QED BY <1>5, <2>1, <2>2
<1>9. ASSUME NEW u \in Threads, Phase(u)' = "counting"
      PROVE  \E i \in DOMAIN pages' : pages'[i].number = thread'[u].number
    <2>1. PICK x : Moves(t, x)
        BY ReadMoves DEF Structure
    <2>2. CASE u = t
        <3>1. thread'[t].number = thread[t].number
            BY <2>1, OwnStep DEF Moves, Continues
        <3> QED BY <1>4, <1>5, <2>2, <3>1
    <2>3. CASE u # t
        <3>1. thread'[u] = thread[u]
            BY <2>1, <2>3, StructureMoves
        <3>2. PICK i \in DOMAIN pages : pages[i].number = thread[u].number
            BY <1>9, <3>1 DEF PageInv, Phase
        <3> QED BY <1>5, <3>1, <3>2
    <2> QED BY <2>2, <2>3
<1> QED BY <1>5, <1>7, <1>8, <1>9 DEF PageInv

LEMMA PageCounted ==
    ASSUME Structure, RouteInv, NamesInv, PageInv, [Next]_vars, NEW t \in Threads, CountEvents(t)
    PROVE  PageInv'
<1> DEFINE k == PageOf(thread[t].number)
           v == Cardinality(Matching(Request(t).outcome))
           q == [pages[k] EXCEPT !.total = v]
<1>1. Phase(t) = "counting" /\ pages' = [pages EXCEPT ![k] = q] /\ events' = events
    BY DEF CountEvents
<1>2. k \in DOMAIN pages /\ pages[k].number = thread[t].number
    BY <1>1 DEF PageInv, PageOf
<1>3. PageOk(pages[k])
    BY <1>2 DEF PageInv
<1>4. /\ IsPage(q) /\ q.total = v
      /\ q.number = pages[k].number /\ q.outcome = pages[k].outcome /\ q.limit = pages[k].limit
      /\ q.offset = pages[k].offset /\ q.shown = pages[k].shown /\ q.there = pages[k].there
    <2>1. PICK p : p = pages[k]
        OBVIOUS
    <2>2. IsPage(p)
        BY <1>3, <2>1 DEF PageOk
    <2> HIDE DEF v, k
    <2> QED BY <2>1, <2>2, SetTotal
<1>5. v \in Nat /\ v >= Cardinality(q.there)
    <2>1. q.outcome = Request(t).outcome /\ q.there \subseteq Matching(Request(t).outcome)
        BY <1>2, <1>3, <1>4 DEF PageOk, Request
    <2>2. PICK M, T : M = Matching(Request(t).outcome) /\ T = q.there
        OBVIOUS
    <2>3. Len(events) \in Nat /\ M \in SUBSET (1 .. Len(events)) /\ T \subseteq M
        BY <2>1, <2>2, MatchingGrows
    <2>4. IsFiniteSet(M) /\ Cardinality(M) \in Nat /\ T \in SUBSET (1 .. Len(events))
        BY <2>3, FiniteBelow
    <2>5. Cardinality(T) \in Nat
        BY <2>3, <2>4, FiniteBelow
    <2>6. Cardinality(T) <= Cardinality(M)
        BY <2>3, <2>4, FS_Subset
    <2> QED BY <2>2, <2>4, <2>5, <2>6
<1> HIDE DEF q, v
<1>6. PageOk(q)
    BY <1>3, <1>4, <1>5 DEF PageOk
<1>7. /\ DOMAIN pages' = DOMAIN pages /\ pages'[k] = q
      /\ \A i \in DOMAIN pages : i # k => pages'[i] = pages[i]
    <2> HIDE DEF k
    <2> QED BY <1>1, <1>2, Excepted DEF PageInv
<1>8. IsSequence(pages')
    <2> HIDE DEF k
    <2> QED BY <1>1, <1>2, Excepted DEF PageInv
<1> HIDE DEF k
<1>9. \A i \in DOMAIN pages' : PageOk(pages[i])'
    <2>1. ASSUME NEW p, PageOk(p) PROVE PageOk(p)'
        BY <2>1, PageKept
    <2>2. \A i \in DOMAIN pages' : PageOk(pages'[i])
        BY <1>6, <1>7 DEF PageInv
    <2> QED BY <2>1, <2>2
<1>10. \A i \in DOMAIN pages :
          /\ pages'[i].outcome = pages[i].outcome /\ pages'[i].there = pages[i].there
          /\ pages'[i].number = pages[i].number
    BY <1>4, <1>7
<1>11. \A i, j \in DOMAIN pages' :
          i < j /\ pages'[i].outcome = pages'[j].outcome => pages'[i].there \subseteq pages'[j].there
    BY <1>7, <1>10 DEF PageInv
<1>12. ASSUME NEW u \in Threads, Phase(u)' = "counting"
       PROVE  \E i \in DOMAIN pages' : pages'[i].number = thread'[u].number
    <2>0. PICK x : Moves(t, x) /\ Concludes(t, x, "success")
        BY CountMoves DEF Structure
    <2>1. thread'[u] = thread[u]
        <3>1. CASE u = t
            BY <1>12, <2>0, <3>1, OwnStep DEF Concludes, Phase
        <3>2. CASE u # t
            BY <2>0, <3>2, StructureMoves
        <3> QED BY <3>1, <3>2
    <2>2. PICK i \in DOMAIN pages : pages[i].number = thread[u].number
        BY <1>12, <2>1 DEF PageInv, Phase
    <2> QED BY <1>7, <1>10, <2>1, <2>2
<1> QED BY <1>8, <1>9, <1>11, <1>12 DEF PageInv

LEMMA PageStep ==
    Structure /\ RouteInv /\ NamesInv /\ PageInv /\ [Next]_vars => PageInv'
<1> SUFFICES ASSUME Structure, RouteInv, NamesInv, PageInv, [Next]_vars PROVE PageInv'
    OBVIOUS
<1>1. ASSUME UNCHANGED pages, \A u \in Threads : ~ReadPage(u) PROVE PageInv'
    <2>1. ASSUME NEW p, PageOk(p) PROVE PageOk(p)'
        BY <2>1, PageKept
    <2>2. ASSUME NEW u \in Threads, Phase(u)' = "counting" PROVE thread'[u] = thread[u]
        BY <1>1, <2>2, PhaseReached
    <2>3. \A i \in DOMAIN pages' : PageOk(pages[i])'
        BY <1>1, <2>1 DEF PageInv
    <2>4. \A u \in Threads : Phase(u)' = "counting" =>
             \E i \in DOMAIN pages' : pages'[i].number = thread'[u].number
        BY <1>1, <2>2 DEF PageInv, Phase
    <2> QED BY <1>1, <2>3, <2>4 DEF PageInv
<1> QED BY <1>1, Frames, PageRead, PageCounted

LEMMA InitPages == Init => PageInv
<1>1. IsSequence(<< >>)
    BY DEF IsSequence
<1>2. Idle.phase = "idle"
    BY DEF Idle
<1> QED BY <1>1, <1>2 DEF Init, PageInv, Phase

LEMMA PageInvariance == Spec => []PageInv
<1>1. Spec => [](Structure /\ RouteInv /\ NamesInv)
    BY Invariance, RouteInvariance, NamesInvariance, PTL
<1> QED BY <1>1, InitPages, PageStep, PTL DEF Spec

(* A reader of the audit trail that asks for page after page is shown every*)
(* event, or one as new, however many are recorded between the pages, and  *)
(* the total of a page, counted by a second statement, is never too small  *)
(* (AuditService::list_events), for every page size and offset.            *)
THEOREM NothingMissed == Spec => []PagesMissNothing
<1>1. ASSUME NamesInv, PageInv PROVE PagesMissNothing
    <2>1. ASSUME NEW i \in DOMAIN pages, pages[i].total # None
          PROVE  pages[i].total >= Cardinality(pages[i].there)
        BY <1>1, <2>1 DEF PageInv, PageOk
    <2>2. ASSUME NEW i \in DOMAIN pages, NEW j \in i + 1 .. Len(pages),
                 pages[j].outcome = pages[i].outcome,
                 pages[j].offset = pages[i].offset + pages[i].limit,
                 NEW id \in pages[i].there,
                 Cardinality({newer \in pages[i].there : newer > id}) >= pages[j].offset
          PROVE  \E shown \in pages[j].shown : shown >= id
        <3>1. Len(pages) \in Nat /\ DOMAIN pages = 1 .. Len(pages)
            BY <1>1, Appended DEF PageInv
        <3>2. j \in DOMAIN pages /\ i < j
            BY <2>2, <3>1
        <3>3. PICK S, T, n, r : /\ S = pages[i].there /\ T = pages[j].there
                                /\ n = Len(events) /\ r = pages[j].offset
            OBVIOUS
        <3>4. S \subseteq T
            BY <1>1, <2>2, <3>2, <3>3 DEF PageInv
        <3>5. n \in Nat /\ DOMAIN events = 1 .. n
            BY <1>1, <3>3, Appended DEF NamesInv
        <3>6. PageOk(pages[j])
            BY <1>1, <3>2 DEF PageInv
        <3>7. r \in Nat /\ T \in SUBSET (1 .. n)
            BY <3>3, <3>5, <3>6 DEF PageOk, Matching
        <3>8. Rank(S, id) >= r
            BY <2>2, <3>3 DEF Rank
        <3>9. id \in T /\ Rank(S, id) \in Nat /\ Rank(T, id) \in Nat /\ Rank(S, id) <= Rank(T, id)
            BY <2>2, <3>3, <3>4, <3>5, <3>7, RankGrows
        <3>10. Rank(T, id) >= r
            BY <3>7, <3>8, <3>9
        <3>11. PICK x \in T : x >= id /\ Rank(T, x) = r
            BY <3>5, <3>7, <3>9, <3>10, RankReached
        <3>12. pages[j].shown = Shown(T, pages[j].limit, r) /\ pages[j].limit \in Nat \ {0}
            BY <3>3, <3>6 DEF PageOk
        <3>13. r \in r .. r + pages[j].limit - 1
            BY <3>7, <3>12
        <3> QED BY <3>11, <3>12, <3>13 DEF Shown
    <2> QED BY <2>1, <2>2 DEF PagesMissNothing
<1> QED BY <1>1, NamesInvariance, PageInvariance, PTL

-----------------------------------------------------------------------------
(* The changes that are recorded.                                          *)

HasEvent(n) == \E i \in DOMAIN events : events[i].number = n
HasPage(n) == \E i \in DOMAIN pages : pages[i].number = n

(* What has become of the request of a thread that is still at it.         *)
HistoryOk(t) ==
    LET n == thread[t].number
    IN  /\ answers[n] = << >>
        /\ Phase(t) \in {"checking", "serving", "counting"} => n \notin commits
        /\ Phase(t) # "answering" => ~HasEvent(n)
        /\ Phase(t) = "recording" =>
              \/ thread[t].outcome = "failure"
              \/ thread[t].outcome = "success" /\ (n \in commits \/ HasPage(n))

(* An event of success follows the change, or a page that was read.        *)
IsTold(e) == e.outcome = "failure" \/ e.number \in commits \/ HasPage(e.number)

HistoryInv ==
    /\ commits \subseteq 1 .. next - 1
    /\ DOMAIN answers = DOMAIN work
    /\ \A n \in DOMAIN work : n >= next => answers[n] = << >>
    /\ \A t \in Threads : Phase(t) # "idle" => HistoryOk(t)
    /\ \A i, j \in DOMAIN events : events[i].number = events[j].number => i = j
    /\ \A i \in DOMAIN events : IsTold(events[i])

(* Requests whose change is committed, that are answered or about to be,   *)
(* and not with an internal error, and that have no event.                 *)
Spoken(n) ==
    \/ n \in DOMAIN work /\ answers[n] # << >> /\ answers[n][1].status # 500
    \/ \E t \in Threads :
          Phase(t) = "answering" /\ thread[t].number = n /\ thread[t].status # 500

Silenced == {n \in commits : Spoken(n) /\ ~HasEvent(n)}

SilenceInv ==
    /\ counters \in [recorded : Nat, failed : Nat]
    /\ Cardinality(Silenced) <= counters.failed

(* A thread that takes a step is in another phase afterwards.              *)
LEMMA PhaseLeft ==
    ASSUME Structure, NEW t \in Threads, Begin(t) \/ Middle(t) \/ Finish(t)
    PROVE  thread'[t] # thread[t]
<1>0. TaskInv
    BY DEF Structure
<1>1. CASE Begin(t)
    BY <1>1, StructureBegins DEF Phase
<1>2. CASE Finish(t)
    BY <1>2, StructureFinishes DEF Phase
<1>3. CASE Check(t)
    <2>1. PICK x : Moves(t, x) /\ Phase(t) = "checking" /\ x.phase \in {"answering", "serving"}
        BY <1>0, <1>3, CheckMoves
    <2> QED BY <2>1, OwnStep DEF Phase
<1>4. CASE ServeSucceeds(t)
    <2>1. PICK x : Moves(t, x) /\ Phase(t) = "serving" /\ Concludes(t, x, "success")
        BY <1>0, <1>4, SucceedsMoves
    <2> QED BY <2>1, OwnStep DEF Phase, Concludes
<1>5. CASE ServeFails(t)
    <2>1. PICK x : /\ Moves(t, x) /\ Phase(t) = "serving"
                   /\ Answers(thread[t], x, 500) \/ Concludes(t, x, "failure")
        BY <1>0, <1>5, FailsMoves
    <2> QED BY <2>1, OwnStep DEF Phase, Concludes, Answers
<1>6. CASE ServeThrows(t)
    <2>1. PICK x : Moves(t, x) /\ Phase(t) = "serving" /\ Answers(thread[t], x, 500)
        BY <1>0, <1>6, ThrowsMoves
    <2> QED BY <2>1, OwnStep DEF Phase, Answers
<1>7. CASE ReadPage(t)
    <2>1. PICK x : Moves(t, x) /\ Phase(t) = "serving" /\ x.phase = "counting"
        BY <1>0, <1>7, ReadMoves
    <2> QED BY <2>1, OwnStep DEF Phase
<1>8. CASE CountEvents(t)
    <2>1. PICK x : Moves(t, x) /\ Phase(t) = "counting" /\ Concludes(t, x, "success")
        BY <1>0, <1>8, CountMoves
    <2> QED BY <2>1, OwnStep DEF Phase, Concludes
<1>9. CASE Record(t)
    <2>1. PICK x : Moves(t, x) /\ Phase(t) = "recording" /\ x.phase = "answering"
        BY <1>0, <1>9, RecordMoves DEF Answers
    <2> QED BY <2>1, OwnStep DEF Phase
<1>10. CASE CountThrows(t)
    <2>1. PICK x : Moves(t, x) /\ Phase(t) = "counting" /\ Answers(thread[t], x, 500)
        BY <1>0, <1>10, CountThrowsMoves
    <2> QED BY <2>1, OwnStep DEF Phase, Answers
<1> QED BY <1>1, <1>2, <1>3, <1>4, <1>5, <1>6, <1>7, <1>8, <1>9, <1>10 DEF Middle

(* What a service may have committed.                                      *)
LEMMA ServiceCommits ==
    ASSUME NEW t \in Threads
    PROVE  /\ ServeSucceeds(t) =>
                 /\ "success" \in Handler(t).commits => commits' = commits \cup {thread[t].number}
                 /\ "success" \notin Handler(t).commits => commits' = commits
           /\ ServeFails(t) =>
                 \/ commits' = commits
                 \/ /\ "failure" \in Handler(t).commits
                    /\ commits' = commits \cup {thread[t].number}
           /\ ServeThrows(t) =>
                 commits' = commits \/ commits' = commits \cup {thread[t].number}
<1>1. ASSUME ServeSucceeds(t)
      PROVE  /\ "success" \in Handler(t).commits => commits' = commits \cup {thread[t].number}
             /\ "success" \notin Handler(t).commits => commits' = commits
    <2>1. CommitsIf(t, "success" \in Handler(t).commits)
        BY <1>1 DEF ServeSucceeds
    <2> QED BY <2>1, Zenon DEF CommitsIf
<1>2. ASSUME ServeFails(t)
      PROVE  \/ commits' = commits
             \/ "failure" \in Handler(t).commits /\ commits' = commits \cup {thread[t].number}
    <2>1. CommitsIf(t, FALSE) \/ CommitsIf(t, "failure" \in Handler(t).commits)
        BY <1>2, Zenon DEF ServeFails
    <2> QED BY <2>1, Zenon DEF CommitsIf
<1>3. ASSUME ServeThrows(t)
      PROVE  commits' = commits \/ commits' = commits \cup {thread[t].number}
    <2>1. CommitsIf(t, FALSE) \/ CommitsIf(t, Handler(t).partial)
        BY <1>3, Zenon DEF ServeThrows
    <2> QED BY <2>1, Zenon DEF CommitsIf
<1> QED BY <1>1, <1>2, <1>3

(* A step leaves alone what belongs to the requests of other threads.      *)
LEMMA Undisturbed ==
    ASSUME Structure, NamesInv, HistoryInv, [Next]_vars, NEW u \in Threads,
           Phase(u) # "idle", thread'[u] = thread[u]
    PROVE  LET n == thread[u].number
           IN  /\ n \in commits' <=> n \in commits
               /\ HasEvent(n)' <=> HasEvent(n)
               /\ answers'[n] = answers[n]
<1> DEFINE n == thread[u].number
<1>1. ASSUME NEW t \in Threads, Begin(t) \/ Middle(t) \/ Finish(t), Phase(t) # "idle"
      PROVE  thread[t].number # n
    BY <1>1, PhaseLeft DEF Structure, OneThread
<1>2. n \in commits' <=> n \in commits
    <2>1. ASSUME NEW t \in Threads, ServeSucceeds(t) \/ ServeFails(t) \/ ServeThrows(t)
          PROVE  n \in commits' <=> n \in commits
        <3>1. thread[t].number # n
            BY <1>1, <2>1 DEF ServeSucceeds, ServeFails, ServeThrows, Middle
        <3>2. commits' = commits \/ commits' = commits \cup {thread[t].number}
            BY <2>1, ServiceCommits
        <3> QED BY <3>1, <3>2
    <2> QED BY <2>1, Frames
<1>3. HasEvent(n)' <=> HasEvent(n)
    <2>1. ASSUME NEW t \in Threads, Record(t) PROVE HasEvent(n)' <=> HasEvent(n)
        <3>1. thread[t].number # n
            BY <1>1, <2>1 DEF Record, Middle
        <3>2. PICK e : e = EventOf(t)
            OBVIOUS
        <3>3. e.number # n
            BY <3>1, <3>2 DEF EventOf
        <3>4. CASE events' = Append(events, e)
            BY <3>3, <3>4, Appended DEF NamesInv, HasEvent
        <3>5. CASE events' = events
            BY <3>5 DEF HasEvent
        <3> QED BY <2>1, <3>2, <3>4, <3>5, RecordWrites
    <2>2. CASE UNCHANGED events
        BY <2>2 DEF HasEvent
    <2> QED BY <2>1, <2>2, Frames
<1>4. answers'[n] = answers[n]
    <2>1. ASSUME NEW t \in Threads, Finish(t) PROVE answers'[n] = answers[n]
        <3>1. thread[t].number # n
            BY <1>1, <2>1 DEF Finish
        <3>2. n \in DOMAIN answers
            <4>1. InTask(u)
                BY PhaseFacts DEF Structure
            <4>2. n \in DOMAIN work
                BY <4>1, WorkFacts DEF InTask, Structure, WorkInv
            <4> QED BY <4>2 DEF HistoryInv
        <3>3. PICK r : answers' = [answers EXCEPT ![thread[t].number] = r]
            BY <2>1 DEF Finish
        <3> QED BY <3>1, <3>2, <3>3
    <2> QED BY <2>1, Frames
<1> QED BY <1>2, <1>3, <1>4

LEMMA PagesKept ==
    ASSUME Structure, PageInv, [Next]_vars, NEW n, HasPage(n)
    PROVE  HasPage(n)'
<1>1. PICK i \in DOMAIN pages : pages[i].number = n
    BY DEF HasPage
<1>2. ASSUME NEW t \in Threads, ReadPage(t) PROVE HasPage(n)'
    <2>1. PICK e : pages' = Append(pages, e)
        BY <1>2 DEF ReadPage
    <2> QED BY <1>1, <2>1, Appended DEF PageInv, HasPage
<1>3. ASSUME NEW t \in Threads, CountEvents(t) PROVE HasPage(n)'
    <2> DEFINE k == PageOf(thread[t].number)
    <2>1. PICK v : pages' = [pages EXCEPT ![k] = [pages[k] EXCEPT !.total = v]]
        BY <1>3 DEF CountEvents
    <2>2. k \in DOMAIN pages
        BY <1>3 DEF PageInv, PageOf, CountEvents
    <2>3. PICK p, q : p = pages[k] /\ q = [p EXCEPT !.total = v]
        OBVIOUS
    <2>4. IsPage(p)
        BY <2>2, <2>3 DEF PageInv, PageOk
    <2>5. q.number = p.number
        BY <2>3, <2>4, SetTotal
    <2>6. pages' = [pages EXCEPT ![k] = q]
        BY <2>1, <2>3
    <2> HIDE DEF k
    <2>7. DOMAIN pages' = DOMAIN pages /\ pages'[i].number = n
        BY <1>1, <2>2, <2>3, <2>5, <2>6
    <2> QED BY <2>7 DEF HasPage
<1>4. CASE UNCHANGED pages
    BY <1>1, <1>4 DEF HasPage
<1> QED BY <1>2, <1>3, <1>4, Frames

(* What a request was when its thread began, checked, served or counted.   *)
LEMMA HistoryMoves ==
    ASSUME Structure, RouteInv, NamesInv, PageInv, HistoryInv, [Next]_vars,
           NEW u \in Threads, Phase(u)' # "idle"
    PROVE  HistoryOk(u)'
<1>0. TaskInv
    BY DEF Structure
<1>1. CASE thread'[u] = thread[u]
    <2>1. Phase(u)' = Phase(u) /\ Phase(u) # "idle" /\ HistoryOk(u)
        BY <1>1 DEF Phase, HistoryInv
    <2>2. PICK n : n = thread[u].number
        OBVIOUS
    <2>3. /\ n \in commits' <=> n \in commits
          /\ HasEvent(n)' <=> HasEvent(n)
          /\ answers'[n] = answers[n]
        BY <1>1, <2>1, <2>2, Undisturbed
    <2>4. HasPage(n) => HasPage(n)'
        BY PagesKept
    <2> QED BY <1>1, <2>1, <2>2, <2>3, <2>4 DEF HistoryOk
<1>2. CASE Begin(u)
    <2>1. /\ UNCHANGED <<events, answers, commits>> /\ next \in DOMAIN work
          /\ thread'[u].number = next /\ Phase(u)' \in {"checking", "answering"}
        BY <1>2, StructureBegins DEF Begin, Untouched, Phase
    <2>2. next \in Nat
        BY WorkFacts DEF Structure
    <2>3. answers[next] = << >> /\ next \notin commits
        BY <2>1, <2>2 DEF HistoryInv
    <2>4. ~HasEvent(next)
        BY <2>2 DEF NamesInv, IsNamed, HasEvent
    <2> QED BY <2>1, <2>3, <2>4 DEF HistoryOk, HasEvent
<1>3. ASSUME Phase(u) # "idle", NEW x, Moves(u, x) PROVE
             /\ thread'[u] = x /\ x.number = thread[u].number /\ Phase(u)' = x.phase /\ HistoryOk(u)
    BY <1>3, OwnStep DEF HistoryInv, Moves, Continues, Phase
<1>4. CASE Check(u)
    <2>1. PICK x : Moves(u, x) /\ Phase(u) = "checking" /\ x.phase \in {"answering", "serving"}
        BY <1>0, <1>4, CheckMoves
    <2>2. UNCHANGED <<events, answers, commits>>
        BY <1>4 DEF Check, Untouched
    <2> QED BY <1>3, <2>1, <2>2 DEF HistoryOk, HasEvent
<1>5. CASE ServeSucceeds(u)
    <2>1. PICK x : Moves(u, x) /\ Phase(u) = "serving" /\ Concludes(u, x, "success")
        BY <1>0, <1>5, SucceedsMoves
    <2>2. UNCHANGED <<events, answers>> /\ ~Handler(u).reads
        BY <1>5 DEF ServeSucceeds
    <2>3. HandlerOk(Handler(u))
        BY <2>1, ReaderInput DEF ServicePhases
    <2>4. x.phase = "recording" => thread[u].number \in commits'
        BY <1>5, <2>1, <2>2, <2>3, ServiceCommits DEF Concludes, HandlerOk
    <2>5. x.phase \in {"recording", "answering"} /\ x.outcome = "success"
        BY <2>1 DEF Concludes
    <2> QED BY <1>3, <2>1, <2>2, <2>4, <2>5 DEF HistoryOk, HasEvent
<1>6. CASE ServeFails(u)
    <2>1. PICK x : /\ Moves(u, x) /\ Phase(u) = "serving"
                   /\ Answers(thread[u], x, 500) \/ Concludes(u, x, "failure")
        BY <1>0, <1>6, FailsMoves
    <2>2. UNCHANGED <<events, answers>>
        BY <1>6 DEF ServeFails
    <2>3. x.phase = "answering" \/ (x.phase = "recording" /\ x.outcome = "failure")
        BY <2>1 DEF Concludes, Answers
    <2> QED BY <1>3, <2>1, <2>2, <2>3 DEF HistoryOk, HasEvent
<1>7. CASE ServeThrows(u)
    <2>1. PICK x : Moves(u, x) /\ Phase(u) = "serving" /\ x.phase = "answering"
        BY <1>0, <1>7, ThrowsMoves DEF Answers
    <2>2. UNCHANGED <<events, answers>>
        BY <1>7 DEF ServeThrows
    <2> QED BY <1>3, <2>1, <2>2 DEF HistoryOk, HasEvent
<1>8. CASE ReadPage(u)
    <2>1. PICK x : Moves(u, x) /\ Phase(u) = "serving" /\ x.phase = "counting"
        BY <1>0, <1>8, ReadMoves
    <2>2. UNCHANGED <<events, answers, commits>>
        BY <1>8 DEF ReadPage
    <2> QED BY <1>3, <2>1, <2>2 DEF HistoryOk, HasEvent
<1>9. CASE CountEvents(u)
    <2>1. PICK x : Moves(u, x) /\ Phase(u) = "counting" /\ Concludes(u, x, "success")
        BY <1>0, <1>9, CountMoves
    <2>2. UNCHANGED <<events, answers, commits>>
        BY <1>9 DEF CountEvents
    <2>3. HasPage(thread[u].number)
        BY <2>1 DEF PageInv, HasPage
    <2>4. HasPage(x.number)'
        BY <1>3, <2>1, <2>3, PagesKept
    <2>5. x.phase \in {"recording", "answering"} /\ x.outcome = "success"
        BY <2>1 DEF Concludes
    <2> QED BY <1>3, <2>1, <2>2, <2>4, <2>5 DEF HistoryOk, HasEvent
<1>10. CASE Record(u)
    <2>1. PICK x : Moves(u, x) /\ Phase(u) = "recording" /\ x.phase = "answering"
        BY <1>0, <1>10, RecordMoves DEF Answers
    <2>2. UNCHANGED answers
        BY <1>10 DEF Record
    <2> QED BY <1>3, <2>1, <2>2 DEF HistoryOk
<1>11. ~Finish(u)
    BY StructureFinishes
<1>12. CASE CountThrows(u)
    <2>1. PICK x : Moves(u, x) /\ Phase(u) = "counting" /\ x.phase = "answering"
        BY <1>0, <1>12, CountThrowsMoves DEF Answers
    <2>2. UNCHANGED <<events, answers>>
        BY <1>12 DEF CountThrows
    <2> QED BY <1>3, <2>1, <2>2 DEF HistoryOk, HasEvent
<1> QED BY <1>1, <1>2, <1>4, <1>5, <1>6, <1>7, <1>8, <1>9, <1>10, <1>11, <1>12, ThreadSteps DEF Middle

LEMMA CommitsGrow ==
    ASSUME Structure, RouteInv, [Next]_vars
    PROVE  /\ commits \subseteq commits'
           /\ \A n \in commits' : n \in commits \/ n \in 1 .. next - 1
<1>1. ASSUME NEW t \in Threads, ServeSucceeds(t) \/ ServeFails(t) \/ ServeThrows(t)
      PROVE  /\ commits' = commits \/ commits' = commits \cup {thread[t].number}
             /\ thread[t].number \in 1 .. next - 1
    <2>1. Phase(t) \in ServicePhases
        BY <1>1 DEF ServeSucceeds, ServeFails, ServeThrows, ServicePhases
    <2> QED BY <1>1, <2>1, ServiceCommits, ReaderInput
<1> QED BY <1>1, Frames

(* A step that writes an event writes the first one of its request.        *)
LEMMA EventsDistinct ==
    ASSUME Structure, NamesInv, PageInv, HistoryInv, [Next]_vars, commits \subseteq commits'
    PROVE  /\ \A i, j \in DOMAIN events' : events'[i].number = events'[j].number => i = j
           /\ \A i \in DOMAIN events' : IsTold(events[i])'
<1>1. ASSUME NEW e, IsTold(e) PROVE IsTold(e)'
    BY <1>1, PagesKept DEF IsTold
<1>2. /\ \A i \in DOMAIN events : IsTold(events[i])
      /\ \A i, j \in DOMAIN events : events[i].number = events[j].number => i = j
    BY DEF HistoryInv
<1>3. CASE UNCHANGED events
    BY <1>1, <1>2, <1>3
<1>4. ASSUME NEW t \in Threads, Record(t), events' = Append(events, EventOf(t))
      PROVE  /\ \A i, j \in DOMAIN events' : events'[i].number = events'[j].number => i = j
             /\ \A i \in DOMAIN events' : IsTold(events[i])'
    <2>1. Phase(t) = "recording" /\ HistoryOk(t)
        BY <1>4 DEF Record, HistoryInv
    <2>2. PICK e : e = EventOf(t)
        OBVIOUS
    <2>3. e.number = thread[t].number /\ e.outcome = thread[t].outcome
        BY <2>2 DEF EventOf
    <2>4. ~HasEvent(e.number) /\ IsTold(e)
        BY <2>1, <2>3 DEF HistoryOk, IsTold
    <2>5. events' = Append(events, e)
        BY <1>4, <2>2
    <2>6. /\ DOMAIN events' = DOMAIN events \cup {Len(events) + 1}
          /\ \A i \in DOMAIN events : events'[i] = events[i]
          /\ events'[Len(events) + 1] = e
        BY <2>5, Appended DEF NamesInv
    <2>7. \A i \in DOMAIN events : events[i].number # e.number
        BY <2>4 DEF HasEvent
    <2>8. \A i \in DOMAIN events' : IsTold(events'[i])
        BY <1>2, <2>4, <2>6
    <2>9. \A i, j \in DOMAIN events' : events'[i].number = events'[j].number => i = j
        BY <1>2, <2>6, <2>7
    <2> QED BY <1>1, <2>8, <2>9
<1> QED BY <1>3, <1>4, Frames, RecordWrites

LEMMA AnswersStep ==
    ASSUME Structure, HistoryInv, [Next]_vars
    PROVE  /\ DOMAIN answers' = DOMAIN work'
           /\ \A n \in DOMAIN work' : n >= next' => answers'[n] = << >>
<1>1. work' = work /\ next \in Nat /\ next' \in Nat /\ next <= next'
    BY Frames, NextGrows
<1>2. DOMAIN answers = DOMAIN work /\ \A n \in DOMAIN work : n >= next => answers[n] = << >>
    BY DEF HistoryInv
<1>3. Len(work) \in Nat /\ DOMAIN work = 1 .. Len(work)
    BY WorkFacts DEF Structure
<1>4. \A n \in DOMAIN work : n >= next' => n >= next
    BY <1>1, <1>3
<1>5. ASSUME NEW t \in Threads, Finish(t)
      PROVE  /\ DOMAIN answers' = DOMAIN answers
             /\ \A n \in DOMAIN answers : n >= next => answers'[n] = answers[n]
    <2>1. PICK r : answers' = [answers EXCEPT ![thread[t].number] = r]
        BY <1>5 DEF Finish
    <2>2. thread[t].number \in 1 .. next - 1
        BY <1>5, StructureFinishes, PhaseFacts DEF Structure, InTask
    <2>3. \A n \in DOMAIN answers : n >= next => n # thread[t].number
        BY <1>1, <1>2, <1>3, <2>2
    <2> QED BY <2>1, <2>3
<1>6. CASE UNCHANGED answers
    BY <1>1, <1>2, <1>4, <1>6
<1>7. ASSUME NEW t \in Threads, Finish(t)
      PROVE  /\ DOMAIN answers' = DOMAIN work'
             /\ \A n \in DOMAIN work' : n >= next' => answers'[n] = << >>
    BY <1>1, <1>2, <1>4, <1>5, <1>7
<1> QED BY <1>6, <1>7, Frames

LEMMA HistoryStep ==
    Structure /\ RouteInv /\ NamesInv /\ PageInv /\ HistoryInv /\ [Next]_vars => HistoryInv'
<1> SUFFICES ASSUME Structure, RouteInv, NamesInv, PageInv, HistoryInv, [Next]_vars
             PROVE  HistoryInv'
    OBVIOUS
<1>1. commits \subseteq commits' /\ \A n \in commits' : n \in commits \/ n \in 1 .. next - 1
    BY CommitsGrow
<1>2. next \in Nat /\ next' \in Nat /\ next <= next'
    BY NextGrows
<1>3. ASSUME NEW n \in commits' PROVE n \in 1 .. next' - 1
    <2>1. n \in 1 .. next - 1
        BY <1>1, <1>3 DEF HistoryInv
    <2>2. \A a, b \in Nat : a <= b => \A m \in 1 .. a - 1 : m \in 1 .. b - 1
        OBVIOUS
    <2> QED BY <1>2, <2>1, <2>2
<1>4. commits' \subseteq 1 .. next' - 1
    BY <1>3
<1>5. \A t \in Threads : Phase(t)' # "idle" => HistoryOk(t)'
    BY HistoryMoves
<1> QED BY <1>1, <1>4, <1>5, AnswersStep, EventsDistinct DEF HistoryInv

LEMMA InitHistory == Init => HistoryInv /\ SilenceInv
<1> SUFFICES ASSUME Init PROVE HistoryInv /\ SilenceInv
    OBVIOUS
<1>1. Idle.phase = "idle"
    BY DEF Idle
<1>2. HistoryInv
    BY <1>1 DEF Init, HistoryInv, Phase
<1>3. Silenced = {}
    BY DEF Init, Silenced
<1>4. Cardinality(Silenced) = 0
    BY <1>3, FS_EmptySet
<1>5. counters = [recorded |-> 0, failed |-> 0]
    BY DEF Init
<1>6. counters \in [recorded : Nat, failed : Nat] /\ counters.failed = 0
    BY <1>5
<1> QED BY <1>2, <1>4, <1>6 DEF SilenceInv

LEMMA HistoryInvariance == Spec => []HistoryInv
<1>1. Spec => [](Structure /\ RouteInv /\ NamesInv /\ PageInv)
    BY Invariance, RouteInvariance, NamesInvariance, PageInvariance, PTL
<1> QED BY <1>1, InitHistory, HistoryStep, PTL DEF Spec

(* Only a record that fails silences a request.                            *)
LEMMA SilencedBy ==
    ASSUME Structure, RouteInv, NamesInv, PageInv, HistoryInv, [Next]_vars, NEW n \in Silenced'
    PROVE  \/ n \in Silenced
           \/ \E t \in Threads : Record(t) /\ n = thread[t].number /\ UNCHANGED events
<1>0. TaskInv
    BY DEF Structure
<1>1. n \in commits' /\ Spoken(n)' /\ ~HasEvent(n)'
    BY DEF Silenced
<1>2. ~HasEvent(n)
    BY <1>1, EventsGrow DEF HasEvent
<1>3. CASE n \in DOMAIN work' /\ answers'[n] # << >> /\ answers'[n][1].status # 500
    <2>1. work' = work
        BY Frames
    <2>2. ASSUME NEW t \in Threads, Finish(t), answers'[n] # answers[n] PROVE n \in Silenced
        <3>1. Phase(t) = "answering" /\ commits' = commits /\ HistoryOk(t)
            BY <2>2 DEF Finish, HistoryInv
        <3>2. PICK r : r.status = thread[t].status
                       /\ answers' = [answers EXCEPT ![thread[t].number] = Append(@, r)]
            BY <2>2 DEF Finish
        <3>3. n = thread[t].number
            BY <1>3, <2>1, <2>2, <3>2 DEF HistoryInv
        <3>4. answers[n] = << >>
            BY <3>1, <3>3 DEF HistoryOk
        <3>5. answers'[n] = <<r>>
            BY <1>3, <2>1, <3>2, <3>3, <3>4 DEF HistoryInv
        <3>6. thread[t].status # 500
            BY <1>3, <3>2, <3>5
        <3> QED BY <1>1, <1>2, <3>1, <3>3, <3>6 DEF Silenced, Spoken
    <2>3. CASE answers'[n] = answers[n]
        <3>1. Spoken(n)
            BY <1>3, <2>1, <2>3 DEF Spoken
        <3>2. ASSUME NEW t \in Threads, ServeSucceeds(t) \/ ServeFails(t) \/ ServeThrows(t)
              PROVE  n \in commits
            <4>1. Phase(t) # "idle"
                BY <3>2 DEF ServeSucceeds, ServeFails, ServeThrows
            <4>2. answers[thread[t].number] = << >>
                BY <4>1 DEF HistoryInv, HistoryOk
            <4>3. commits' = commits \/ commits' = commits \cup {thread[t].number}
                BY <3>2, ServiceCommits
            <4> QED BY <1>1, <1>3, <2>3, <4>2, <4>3
        <3>3. n \in commits
            BY <1>1, <3>2, Frames
        <3> QED BY <1>2, <3>1, <3>3 DEF Silenced
    <2> QED BY <2>2, <2>3, Frames
<1>4. ASSUME NEW u \in Threads, Phase(u)' = "answering", thread'[u].number = n,
             thread'[u].status # 500
      PROVE  n \in Silenced \/ (Record(u) /\ n = thread[u].number /\ UNCHANGED events)
    <2>1. CASE thread'[u] = thread[u]
        <3>1. Phase(u) = "answering" /\ thread[u].number = n /\ thread[u].status # 500
            BY <1>4, <2>1 DEF Phase
        <3>2. n \in commits
            BY <1>1, <2>1, <3>1, Undisturbed
        <3> QED BY <1>2, <3>1, <3>2 DEF Silenced, Spoken
    <2>2. CASE Begin(u)
        <3>1. commits' = commits /\ thread'[u].number = next
            BY <2>2, StructureBegins DEF Begin, Untouched
        <3>2. next \in Nat
            BY WorkFacts DEF Structure
        <3> QED BY <1>1, <1>4, <3>1, <3>2 DEF HistoryInv
    <2>3. ASSUME NEW x, Moves(u, x)
          PROVE  /\ thread'[u] = x /\ n = thread[u].number /\ Phase(u)' = x.phase
                 /\ HistoryOk(u) /\ x.phase = "answering" /\ x.status # 500
        <3>1. thread'[u] = x /\ x.number = thread[u].number /\ Phase(u) # "idle"
            BY <2>3, OwnStep DEF Moves, Continues
        <3>2. HistoryOk(u)
            BY <3>1 DEF HistoryInv
        <3> QED BY <1>4, <3>1, <3>2 DEF Phase
    <2>4. CASE Check(u)
        <3>1. PICK x : Moves(u, x) /\ Phase(u) = "checking"
            BY <1>0, <2>4, CheckMoves
        <3>2. commits' = commits
            BY <2>4 DEF Check, Untouched
        <3> QED BY <1>1, <2>3, <3>1, <3>2 DEF HistoryOk
    <2>5. CASE ServeSucceeds(u)
        <3>1. PICK x : Moves(u, x) /\ Phase(u) = "serving" /\ Concludes(u, x, "success")
            BY <1>0, <2>5, SucceedsMoves
        <3>2. HandlerOk(Handler(u))
            BY <3>1, ReaderInput DEF ServicePhases
        <3>3. "success" \notin Handler(u).audits
            BY <2>3, <3>1 DEF Concludes
        <3>4. commits' = commits
            BY <2>5, <3>2, <3>3, ServiceCommits DEF HandlerOk
        <3> QED BY <1>1, <2>3, <3>1, <3>4 DEF HistoryOk
    <2>6. CASE ServeFails(u)
        <3>1. PICK x : /\ Moves(u, x) /\ Phase(u) = "serving"
                       /\ Answers(thread[u], x, 500) \/ Concludes(u, x, "failure")
            BY <1>0, <2>6, FailsMoves
        <3>2. HandlerOk(Handler(u))
            BY <3>1, ReaderInput DEF ServicePhases
        <3>3. "failure" \notin Handler(u).audits
            BY <2>3, <3>1 DEF Concludes, Answers
        <3>4. commits' = commits
            BY <2>6, <3>2, <3>3, ServiceCommits DEF HandlerOk
        <3> QED BY <1>1, <2>3, <3>1, <3>4 DEF HistoryOk
    <2>7. CASE ServeThrows(u)
        <3>1. PICK x : Moves(u, x) /\ x.status = 500
            BY <1>0, <2>7, ThrowsMoves DEF Answers
        <3> QED BY <2>3, <3>1
    <2>8. CASE ReadPage(u)
        <3>1. PICK x : Moves(u, x) /\ x.phase = "counting"
            BY <1>0, <2>8, ReadMoves
        <3> QED BY <2>3, <3>1
    <2>9. CASE CountEvents(u)
        <3>1. PICK x : Moves(u, x) /\ Phase(u) = "counting"
            BY <1>0, <2>9, CountMoves
        <3>2. commits' = commits
            BY <2>9 DEF CountEvents
        <3> QED BY <1>1, <2>3, <3>1, <3>2 DEF HistoryOk
    <2>10. CASE Record(u)
        <3>1. PICK x : Moves(u, x)
            BY <1>0, <2>10, RecordMoves
        <3>2. PICK e : e = EventOf(u)
            OBVIOUS
        <3>3. e.number = n
            BY <2>3, <3>1, <3>2 DEF EventOf
        <3>4. CASE events' = Append(events, e)
            BY <1>1, <3>3, <3>4, Appended DEF HasEvent, NamesInv
        <3> QED BY <2>3, <2>10, <3>1, <3>2, <3>4, RecordWrites
    <2>11. ~Finish(u)
        BY <1>4, StructureFinishes
    <2>12. CASE CountThrows(u)
        <3>1. PICK x : Moves(u, x) /\ x.status = 500
            BY <1>0, <2>12, CountThrowsMoves DEF Answers
        <3> QED BY <2>3, <3>1
    <2> QED BY <2>1, <2>2, <2>4, <2>5, <2>6, <2>7, <2>8, <2>9, <2>10, <2>11, <2>12, ThreadSteps
            DEF Middle
<1> QED BY <1>1, <1>3, <1>4 DEF Spoken

LEMMA SilencedFinite ==
    ASSUME Structure, HistoryInv
    PROVE  IsFiniteSet(Silenced) /\ Cardinality(Silenced) \in Nat
<1>1. next - 1 \in Nat
    BY WorkFacts DEF Structure, WorkInv
<1>2. Silenced \in SUBSET (1 .. next - 1)
    BY DEF HistoryInv, Silenced
<1> QED BY <1>1, <1>2, FiniteBelow

LEMMA SilenceStep ==
    Structure /\ RouteInv /\ NamesInv /\ PageInv /\ HistoryInv /\ SilenceInv /\ [Next]_vars
        => SilenceInv'
<1> SUFFICES ASSUME Structure, RouteInv, NamesInv, PageInv, HistoryInv, SilenceInv, [Next]_vars
             PROVE  SilenceInv'
    OBVIOUS
<1>1. PICK S, Z : S = Silenced /\ Z = Silenced'
    OBVIOUS
<1>2. IsFiniteSet(S) /\ Cardinality(S) \in Nat /\ Cardinality(S) <= counters.failed
      /\ counters \in [recorded : Nat, failed : Nat]
    BY <1>1, SilencedFinite DEF SilenceInv
<1>3. \A n \in Z : \/ n \in S
                   \/ \E t \in Threads : Record(t) /\ n = thread[t].number /\ UNCHANGED events
    BY <1>1, SilencedBy
<1>4. CASE \A t \in Threads : ~Record(t)
    <2>1. Z \subseteq S
        BY <1>3, <1>4
    <2>2. Cardinality(Z) <= Cardinality(S) /\ Cardinality(Z) \in Nat
        BY <1>2, <2>1, FS_Subset, FS_CardinalityType
    <2>3. counters' = counters
        BY <1>4, Frames
    <2> QED BY <1>1, <1>2, <2>2, <2>3 DEF SilenceInv
<1>5. ASSUME NEW t \in Threads, Record(t) PROVE SilenceInv'
    <2>1. ASSUME NEW u \in Threads, Record(u) PROVE u = t
        <3>1. PICK x : Moves(t, x)
            BY <1>5, RecordMoves DEF Structure
        <3>2. thread'[u] # thread[u]
            BY <2>1, PhaseLeft DEF Middle
        <3> QED BY <3>1, <3>2, StructureMoves
    <2>2. CASE UNCHANGED events
        <3>1. counters' = [counters EXCEPT !.failed = @ + 1]
            <4>1. PICK e : e = EventOf(t)
                OBVIOUS
            <4>2. Len(Append(events, e)) = Len(events) + 1 /\ Len(events) \in Nat
                BY Appended DEF NamesInv
            <4>3. events' # Append(events, e)
                BY <2>2, <4>2
            <4> QED BY <1>5, <4>1, <4>3, RecordWrites
        <3>2. counters' \in [recorded : Nat, failed : Nat] /\ counters'.failed = counters.failed + 1
            BY <1>2, <3>1
        <3>3. PICK n : n = thread[t].number
            OBVIOUS
        <3>4. Z \subseteq S \cup {n}
            BY <1>3, <2>1, <3>3
        <3>5. /\ IsFiniteSet(S \cup {n}) /\ Cardinality(S \cup {n}) \in Nat
              /\ Cardinality(S \cup {n}) <= Cardinality(S) + 1
            <4>1. IsFiniteSet(S \cup {n})
                BY <1>2, FS_AddElement
            <4>2. \/ Cardinality(S \cup {n}) = Cardinality(S)
                  \/ Cardinality(S \cup {n}) = Cardinality(S) + 1
                BY <1>2, FS_AddElement
            <4> QED BY <1>2, <4>1, <4>2
        <3>6. Cardinality(Z) <= Cardinality(S \cup {n}) /\ Cardinality(Z) \in Nat
            BY <3>4, <3>5, FS_Subset, FS_CardinalityType
        <3>7. counters.failed \in Nat
            BY <1>2
        <3> QED BY <1>1, <1>2, <3>2, <3>5, <3>6, <3>7 DEF SilenceInv
    <2>3. CASE ~UNCHANGED events
        <3>1. Z \subseteq S
            BY <1>3, <2>3
        <3>2. Cardinality(Z) <= Cardinality(S) /\ Cardinality(Z) \in Nat
            BY <1>2, <3>1, FS_Subset, FS_CardinalityType
        <3>3. \/ counters' = [counters EXCEPT !.recorded = @ + 1]
              \/ counters' = [counters EXCEPT !.failed = @ + 1]
            BY <1>5, RecordWrites
        <3>4. /\ counters' \in [recorded : Nat, failed : Nat] /\ counters.failed \in Nat
              /\ counters'.failed \in Nat /\ counters'.failed >= counters.failed
            BY <1>2, <3>3
        <3> QED BY <1>1, <1>2, <3>2, <3>4 DEF SilenceInv
    <2> QED BY <2>2, <2>3
<1> QED BY <1>4, <1>5

LEMMA SilenceInvariance == Spec => []SilenceInv
<1>1. Spec => [](Structure /\ RouteInv /\ NamesInv /\ PageInv /\ HistoryInv)
    BY Invariance, RouteInvariance, NamesInvariance, PageInvariance, HistoryInvariance, PTL
<1> QED BY <1>1, InitHistory, SilenceStep, PTL DEF Spec

(* A change that was committed is on the audit trail by the time of its    *)
(* answer, or its loss is counted, or the answer is 500; a request has one *)
(* event, and none of success without the change (the handlers of the API, *)
(* AuditService::record), for every number of threads and requests.        *)
THEOREM ChangesRecorded == Spec => []ChangesAreRecorded
<1>1. ASSUME Structure, NamesInv, HistoryInv, SilenceInv PROVE ChangesAreRecorded
    <2> DEFINE Stored(number) == {i \in DOMAIN events : events[i].number = number}
               Silent == {number \in commits :
                             /\ answers[number] # << >> /\ answers[number][1].status # 500
                             /\ Stored(number) = {}}
    <2>1. Cardinality(Silent) <= counters.failed
        <3>1. ASSUME NEW n \in Silent PROVE n \in Silenced
            <4>1. n \in commits /\ answers[n] # << >> /\ answers[n][1].status # 500 /\ Stored(n) = {}
                OBVIOUS
            <4>2. n \in 1 .. next - 1
                BY <1>1, <4>1 DEF HistoryInv
            <4>3. n \in DOMAIN work
                BY <1>1, <4>2, WorkFacts DEF Structure, WorkInv
            <4>4. ~HasEvent(n)
                BY <4>1 DEF HasEvent
            <4> QED BY <4>1, <4>3, <4>4 DEF Silenced, Spoken
        <3> HIDE DEF Silent
        <3>2. Silent \subseteq Silenced
            BY <3>1
        <3>3. PICK S, Z : S = Silenced /\ Z = Silent
            OBVIOUS
        <3>4. IsFiniteSet(S) /\ Cardinality(S) \in Nat /\ Z \subseteq S
            BY <1>1, <3>2, <3>3, SilencedFinite
        <3>5. Cardinality(Z) <= Cardinality(S) /\ Cardinality(Z) \in Nat
            BY <3>4, FS_Subset, FS_CardinalityType
        <3>6. Cardinality(S) <= counters.failed /\ counters.failed \in Nat
            BY <1>1, <3>3 DEF SilenceInv
        <3> QED BY <3>3, <3>4, <3>5, <3>6
    <2>2. ASSUME NEW number \in DOMAIN work PROVE Cardinality(Stored(number)) <= 1
        <3>1. \A i, j \in Stored(number) : i = j
            BY <1>1 DEF HistoryInv
        <3>2. PICK T : T = Stored(number)
            OBVIOUS
        <3> HIDE DEF Stored
        <3>3. T = {} \/ \E i : T = {i}
            BY <3>1, <3>2
        <3>4. CASE T = {}
            BY <3>2, <3>4, FS_EmptySet
        <3>5. ASSUME NEW i, T = {i} PROVE Cardinality(T) = 1
            <4>1. Cardinality({i}) = 1
                BY FS_Singleton
            <4> QED BY <3>5, <4>1
        <3> QED BY <3>2, <3>3, <3>4, <3>5
    <2>3. \A i \in DOMAIN events :
              \/ events[i].outcome = "failure" \/ events[i].number \in commits
              \/ \E j \in DOMAIN pages : pages[j].number = events[i].number
        BY <1>1 DEF HistoryInv, IsTold, HasPage
    <2> QED BY <2>1, <2>2, <2>3 DEF ChangesAreRecorded
<1> QED BY <1>1, Invariance, NamesInvariance, HistoryInvariance, SilenceInvariance, PTL

-----------------------------------------------------------------------------
(* The rate limiter.                                                       *)

IsLimiter(l) == l = [buckets |-> l.buckets, checks |-> l.checks]

(* The buckets of room are buckets of l, and the client's own is missing   *)
(* only if its window is over.                                             *)
IsRoom(room, l, client, at) ==
    /\ IsLimiter(room)
    /\ DOMAIN room.buckets \subseteq DOMAIN l.buckets
    /\ \A c \in DOMAIN room.buckets : room.buckets[c] = l.buckets[c]
    /\ client \in DOMAIN l.buckets \ DOMAIN room.buckets =>
          at >= l.buckets[client].window_start + Window

Bucket == [window_start : Nat, request_count : 0 .. MaxRequests]

LEMMA Cleaned ==
    ASSUME NEW l, \A c \in DOMAIN l.buckets : l.buckets[c] \in Bucket, NEW client, NEW at \in Nat
    PROVE  IsRoom(cleanup_locked(l, at), l, client, at)
<1> DEFINE checks == (l.checks + 1) % CleanupEvery
           kept == {c \in DOMAIN l.buckets : l.buckets[c].window_start >= at - 2 * Window}
           room == cleanup_locked(l, at)
<1>1. room = [buckets |-> IF checks = 0 THEN Keep(l.buckets, kept) ELSE l.buckets,
              checks |-> checks]
    BY DEF cleanup_locked
<1>2. IsLimiter(room) /\ room.buckets = IF checks = 0 THEN Keep(l.buckets, kept) ELSE l.buckets
    <2> HIDE DEF checks, kept
    <2> QED BY <1>1 DEF IsLimiter
<1>3. kept \subseteq DOMAIN l.buckets
    OBVIOUS
<1>4. /\ DOMAIN Keep(l.buckets, kept) = kept
      /\ \A c \in kept : Keep(l.buckets, kept)[c] = l.buckets[c]
    <2> HIDE DEF kept
    <2> QED BY DEF Keep
<1>5. ASSUME client \in DOMAIN l.buckets, client \notin kept
      PROVE  at >= l.buckets[client].window_start + Window
    <2>1. l.buckets[client].window_start \in Nat
        BY <1>5 DEF Bucket
    <2>2. ~(l.buckets[client].window_start >= at - 2 * Window)
        BY <1>5
    <2> QED BY <2>1, <2>2, LimiterAssumption
<1> HIDE DEF room, kept, checks
<1>6. \/ room.buckets = Keep(l.buckets, kept)
      \/ room.buckets = l.buckets
    BY <1>2
<1>7. CASE room.buckets = Keep(l.buckets, kept)
    BY <1>2, <1>3, <1>4, <1>5, <1>7 DEF IsRoom, room
<1>8. CASE room.buckets = l.buckets
    BY <1>2, <1>8 DEF IsRoom, room
<1> QED BY <1>6, <1>7, <1>8

LEMMA Evicted ==
    ASSUME NEW l, NEW client, NEW at, NEW m, IsRoom(m, l, client, at),
           NEW room \in AfterEviction(m, client)
    PROVE  IsRoom(room, l, client, at)
<1>1. CASE room = m
    BY <1>1
<1>2. ASSUME NEW victim \in DOMAIN m.buckets, client \notin DOMAIN m.buckets,
             room = [m EXCEPT !.buckets = Keep(@, DOMAIN @ \ {victim})]
      PROVE  IsRoom(room, l, client, at)
    <2> DEFINE B == m.buckets
               K == Keep(B, DOMAIN B \ {victim})
    <2>1. DOMAIN K = DOMAIN B \ {victim} /\ \A c \in DOMAIN B \ {victim} : K[c] = B[c]
        BY DEF Keep
    <2> HIDE DEF K
    <2>2. room = [m EXCEPT !.buckets = K]
        BY <1>2 DEF K
    <2>3. IsLimiter(room) /\ room.buckets = K
        BY <2>2 DEF IsRoom, IsLimiter
    <2> QED BY <1>2, <2>1, <2>3 DEF IsRoom
<1> QED BY <1>1, <1>2 DEF AfterEviction

(* A decision: the window it counts the request in, and what it counted.   *)
Decides(l, client, at, d) ==
    \E b \in Bucket :
        /\ d.start = b.window_start
        /\ d.allowed <=> b.request_count < MaxRequests
        /\ client \in DOMAIN d.limiter.buckets
        /\ d.limiter.buckets[client] =
              [window_start |-> b.window_start,
               request_count |-> IF d.allowed THEN b.request_count + 1 ELSE b.request_count]
        /\ \A c \in DOMAIN d.limiter.buckets : c # client =>
              c \in DOMAIN l.buckets /\ d.limiter.buckets[c] = l.buckets[c]
        /\ \/ /\ client \in DOMAIN l.buckets /\ b = l.buckets[client]
              /\ at < b.window_start + Window
           \/ /\ b.window_start = at
              /\ client \in DOMAIN l.buckets =>
                    at >= l.buckets[client].window_start + Window

LEMMA Decided ==
    ASSUME MaxRequests > 0, NEW l, \A c \in DOMAIN l.buckets : l.buckets[c] \in Bucket,
           NEW client, NEW at \in Nat, NEW d \in check(l, client, at)
    PROVE  Decides(l, client, at, d) /\ IsLimiter(d.limiter)
<1>1. PICK room \in AfterEviction(cleanup_locked(l, at), client) :
         LET bucket == CurrentBucket(room, client, at)
             allowed == bucket.request_count < MaxRequests
         IN  d = [limiter |-> SetBucket(room, client,
                      [bucket EXCEPT !.request_count = IF allowed THEN @ + 1 ELSE @]),
                  allowed |-> allowed, start |-> bucket.window_start]
    BY LimiterAssumption DEF check
<1>2. IsRoom(room, l, client, at)
    BY Cleaned, Evicted
<1> DEFINE b == CurrentBucket(room, client, at)
           allowed == b.request_count < MaxRequests
           nb == [b EXCEPT !.request_count = IF allowed THEN @ + 1 ELSE @]
<1>3. /\ b \in Bucket
      /\ \/ /\ client \in DOMAIN l.buckets /\ b = l.buckets[client]
            /\ at < b.window_start + Window
         \/ /\ b.window_start = at
            /\ client \in DOMAIN l.buckets => at >= l.buckets[client].window_start + Window
    <2>1. CASE client \notin DOMAIN room.buckets
        <3>1. b = [window_start |-> at, request_count |-> 0]
            BY <2>1 DEF CurrentBucket
        <3>2. b \in Bucket /\ b.window_start = at
            BY <3>1, LimiterAssumption DEF Bucket
        <3> HIDE DEF b
        <3> QED BY <1>2, <2>1, <3>2 DEF IsRoom
    <2>2. CASE client \in DOMAIN room.buckets
        <3>1. PICK o : o = room.buckets[client]
            OBVIOUS
        <3>2. client \in DOMAIN l.buckets /\ o = l.buckets[client] /\ o \in Bucket
            BY <1>2, <2>2, <3>1 DEF IsRoom
        <3>3. o.window_start \in Nat
            BY <3>2 DEF Bucket
        <3>4. CASE at - o.window_start >= Window
            <4>1. b = [window_start |-> at, request_count |-> 0]
                BY <2>2, <3>1, <3>4 DEF CurrentBucket
            <4>2. b \in Bucket /\ b.window_start = at
                BY <4>1, LimiterAssumption DEF Bucket
            <4>3. at >= o.window_start + Window
                BY <3>3, <3>4, LimiterAssumption
            <4> HIDE DEF b
            <4> QED BY <3>2, <4>2, <4>3
        <3>5. CASE ~(at - o.window_start >= Window)
            <4>1. b = o
                BY <2>2, <3>1, <3>5 DEF CurrentBucket
            <4>2. at < o.window_start + Window
                BY <3>3, <3>5, LimiterAssumption
            <4> HIDE DEF b
            <4> QED BY <3>2, <4>1, <4>2
        <3> QED BY <3>4, <3>5
    <2> QED BY <2>1, <2>2
<1>4. /\ d.limiter = SetBucket(room, client, nb) /\ d.allowed = allowed /\ d.start = b.window_start
    BY <1>1
<1> HIDE DEF b
<1>5. nb = [window_start |-> b.window_start,
            request_count |-> IF allowed THEN b.request_count + 1 ELSE b.request_count]
    BY <1>3 DEF Bucket
<1>6. IsLimiter(d.limiter)
      /\ d.limiter.buckets = [c \in DOMAIN room.buckets \cup {client} |->
                                 IF c = client THEN nb ELSE room.buckets[c]]
    <2> HIDE DEF nb
    <2>1. PICK B : B = [c \in DOMAIN room.buckets \cup {client} |->
                           IF c = client THEN nb ELSE room.buckets[c]]
        OBVIOUS
    <2>2. d.limiter = [room EXCEPT !.buckets = B]
        BY <1>4, <2>1 DEF SetBucket
    <2> QED BY <1>2, <2>1, <2>2 DEF IsRoom, IsLimiter
<1> HIDE DEF nb
<1>7. /\ client \in DOMAIN d.limiter.buckets /\ d.limiter.buckets[client] = nb
      /\ \A c \in DOMAIN d.limiter.buckets : c # client =>
            c \in DOMAIN l.buckets /\ d.limiter.buckets[c] = l.buckets[c]
    BY <1>2, <1>6 DEF IsRoom
<1>8. d.allowed <=> b.request_count < MaxRequests
    BY <1>4
<1>9. nb = [window_start |-> b.window_start,
            request_count |-> IF d.allowed THEN b.request_count + 1 ELSE b.request_count]
    BY <1>4, <1>5
<1> QED BY <1>3, <1>4, <1>6, <1>7, <1>8, <1>9 DEF Decides

(* The requests of a client that were let through in one of its windows.   *)
InWindow(c, start) == {a \in admitted : a.client = c /\ a.start = start}

Apart(a, b) == a.start = b.start \/ a.start + Window <= b.start \/ b.start + Window <= a.start

(* The windows of a client whose bucket was never given up do not overlap, *)
(* none has let more requests through than allowed, and the bucket has     *)
(* counted those of the last one.                                          *)
ClientOk(c) ==
    /\ \A a, b \in admitted : a.client = c /\ b.client = c => Apart(a, b)
    /\ \A start : Cardinality(InWindow(c, start)) <= MaxRequests
    /\ IF c \in DOMAIN limiter.buckets
       THEN /\ \A a \in admitted : a.client = c =>
                  \/ a.start = limiter.buckets[c].window_start
                  \/ a.start + Window <= limiter.buckets[c].window_start
            /\ Cardinality(InWindow(c, limiter.buckets[c].window_start))
                  <= limiter.buckets[c].request_count
       ELSE \A a \in admitted : a.client # c

LimitsOk ==
    /\ IsFiniteSet(admitted)
    /\ \A a \in admitted : a.at \in Nat /\ a.start \in Nat /\ a.at < a.start + Window
    /\ \A c \in DOMAIN limiter.buckets : limiter.buckets[c] \in Bucket
    /\ \A c : c \notin evicted => ClientOk(c)

LimitInv == MaxRequests > 0 => LimitsOk

(* What Check does to the limiter and to the history.                      *)
LEMMA CheckDecides ==
    ASSUME Structure, LimitsOk, MaxRequests > 0, NEW t \in Threads, Check(t)
    PROVE  \E d, at, e :
              /\ at \in Nat /\ Decides(limiter, e.client, at, d)
              /\ limiter' = d.limiter
              /\ evicted' = evicted \cup (DOMAIN limiter.buckets \ DOMAIN d.limiter.buckets)
              /\ admitted' = IF d.allowed THEN admitted \cup {e} ELSE admitted
              /\ e.at = at /\ e.start = d.start
<1>1. Phase(t) = "checking"
    BY DEF Check
<1>2. InTask(t)
    BY <1>1, PhaseFacts DEF Structure
<1>3. PICK client, at : client = thread[t].who.client /\ at = thread[t].at
    OBVIOUS
<1>4. at \in Nat
    BY <1>2, <1>3 DEF InTask, Structure, WorkInv
<1>5. PICK d \in check(limiter, client, at) :
         /\ limiter' = d.limiter
         /\ evicted' = evicted \cup (DOMAIN limiter.buckets \ DOMAIN d.limiter.buckets)
         /\ IF d.allowed
            THEN admitted' = admitted \cup
                    {[number |-> thread[t].number, client |-> client, at |-> at, start |-> d.start]}
            ELSE admitted' = admitted
    BY <1>3, Zenon DEF Check
<1>6. PICK e : e = [number |-> thread[t].number, client |-> client, at |-> at, start |-> d.start]
    OBVIOUS
<1>7. e.client = client /\ e.at = at /\ e.start = d.start
    BY <1>6
<1>8. PICK l : l = limiter
    OBVIOUS
<1>9. \A c \in DOMAIN l.buckets : l.buckets[c] \in Bucket
    BY <1>8 DEF LimitsOk
<1>10. Decides(l, client, at, d)
    BY <1>4, <1>5, <1>8, <1>9, Decided
<1>11. admitted' = IF d.allowed THEN admitted \cup {e} ELSE admitted
    BY <1>5, <1>6
<1> QED BY <1>4, <1>5, <1>7, <1>8, <1>10, <1>11

LEMMA WindowFinite ==
    ASSUME IsFiniteSet(admitted), NEW c, NEW start
    PROVE  IsFiniteSet(InWindow(c, start)) /\ Cardinality(InWindow(c, start)) \in Nat
<1>1. InWindow(c, start) \subseteq admitted
    BY DEF InWindow
<1> QED BY <1>1, FS_Subset, FS_CardinalityType

LEMMA LimitCheck ==
    ASSUME Structure, LimitsOk, MaxRequests > 0, NEW t \in Threads, Check(t)
    PROVE  LimitsOk'
<1>1. PICK d, at, e :
         /\ at \in Nat /\ Decides(limiter, e.client, at, d)
         /\ limiter' = d.limiter
         /\ evicted' = evicted \cup (DOMAIN limiter.buckets \ DOMAIN d.limiter.buckets)
         /\ admitted' = IF d.allowed THEN admitted \cup {e} ELSE admitted
         /\ e.at = at /\ e.start = d.start
    BY CheckDecides
<1> DEFINE client == e.client
<1>2. PICK b \in Bucket :
        /\ d.start = b.window_start
        /\ d.allowed <=> b.request_count < MaxRequests
        /\ client \in DOMAIN d.limiter.buckets
        /\ d.limiter.buckets[client] =
              [window_start |-> b.window_start,
               request_count |-> IF d.allowed THEN b.request_count + 1 ELSE b.request_count]
        /\ \A c \in DOMAIN d.limiter.buckets : c # client =>
              c \in DOMAIN limiter.buckets /\ d.limiter.buckets[c] = limiter.buckets[c]
        /\ \/ /\ client \in DOMAIN limiter.buckets /\ b = limiter.buckets[client]
              /\ at < b.window_start + Window
           \/ /\ b.window_start = at
              /\ client \in DOMAIN limiter.buckets =>
                    at >= limiter.buckets[client].window_start + Window
    BY <1>1 DEF Decides
<1>3. MaxRequests \in Nat \ {0} /\ Window \in Nat \ {0}
    BY LimiterAssumption
<1>4. b.window_start \in Nat /\ b.request_count \in 0 .. MaxRequests
    BY DEF Bucket
<1>5. PICK nb : nb = limiter'.buckets[client]
    OBVIOUS
<1>6. /\ client \in DOMAIN limiter'.buckets /\ nb \in Bucket
      /\ nb.window_start = b.window_start
      /\ d.allowed => nb.request_count = b.request_count + 1
      /\ ~d.allowed => nb.request_count = b.request_count
    <2>1. nb = [window_start |-> b.window_start,
                request_count |-> IF d.allowed THEN b.request_count + 1 ELSE b.request_count]
        BY <1>1, <1>2, <1>5
    <2>2. CASE d.allowed
        BY <1>1, <1>2, <1>3, <1>4, <2>1, <2>2 DEF Bucket
    <2>3. CASE ~d.allowed
        BY <1>1, <1>2, <1>3, <1>4, <2>1, <2>3 DEF Bucket
    <2> QED BY <2>2, <2>3
<1>7. \A c \in DOMAIN limiter'.buckets : limiter'.buckets[c] \in Bucket
    BY <1>1, <1>2, <1>5, <1>6 DEF LimitsOk
<1>8. IsFiniteSet(admitted) /\ IsFiniteSet(admitted')
    <2>1. IsFiniteSet(admitted)
        BY DEF LimitsOk
    <2>2. IsFiniteSet(admitted \cup {e})
        BY <2>1, FS_AddElement
    <2> QED BY <1>1, <2>1, <2>2
<1>9. e.at \in Nat /\ e.start \in Nat /\ e.at < e.start + Window /\ e.start = nb.window_start
    BY <1>1, <1>2, <1>3, <1>4, <1>6
<1>10. \A a \in admitted' : a.at \in Nat /\ a.start \in Nat /\ a.at < a.start + Window
    <2>1. \A a \in admitted : a.at \in Nat /\ a.start \in Nat /\ a.at < a.start + Window
        BY DEF LimitsOk
    <2> QED BY <1>1, <1>9, <2>1
<1>11. ASSUME NEW c, c \notin evicted' PROVE ClientOk(c)'
    <2>1. c \notin evicted /\ ClientOk(c)
        BY <1>1, <1>11 DEF LimitsOk
    <2>2. CASE c # client
        <3>1. \A a \in admitted' : a.client = c => a \in admitted
            BY <1>1, <2>2
        <3>2. admitted \subseteq admitted'
            BY <1>1
        <3>3. \A start : InWindow(c, start)' = InWindow(c, start)
            BY <3>1, <3>2 DEF InWindow
        <3>4. c \in DOMAIN limiter.buckets <=> c \in DOMAIN limiter'.buckets
            BY <1>1, <1>2, <1>11, <2>2
        <3>5. c \in DOMAIN limiter'.buckets => limiter'.buckets[c] = limiter.buckets[c]
            BY <1>1, <1>2, <2>2
        <3>6. \A a, x \in admitted' : a.client = c /\ x.client = c => Apart(a, x)
            BY <2>1, <3>1 DEF ClientOk
        <3>7. \A start : Cardinality(InWindow(c, start)') <= MaxRequests
            BY <2>1, <3>3 DEF ClientOk
        <3> QED BY <2>1, <3>1, <3>3, <3>4, <3>5, <3>6, <3>7 DEF ClientOk, Apart
    <2>3. CASE c = client
        <3>1. \A a \in admitted : a.client = c =>
                 a.start \in Nat /\ (a.start = b.window_start \/ a.start + Window <= b.window_start)
            <4>1. \A a \in admitted : a.start \in Nat
                BY DEF LimitsOk
            <4>2. CASE client \notin DOMAIN limiter.buckets
                BY <2>1, <2>3, <4>2 DEF ClientOk
            <4>3. CASE client \in DOMAIN limiter.buckets
                <5>1. PICK w : w = limiter.buckets[client].window_start
                    OBVIOUS
                <5>2. w \in Nat
                    BY <4>3, <5>1 DEF LimitsOk, Bucket
                <5>3. \A a \in admitted : a.client = c => a.start = w \/ a.start + Window <= w
                    BY <2>1, <2>3, <4>3, <5>1 DEF ClientOk
                <5>4. b.window_start = w \/ b.window_start >= w + Window
                    BY <1>2, <4>3, <5>1
                <5> QED BY <1>3, <1>4, <4>1, <5>2, <5>3, <5>4
            <4> QED BY <4>2, <4>3
        <3>2. \A a \in admitted' : a.client = c =>
                 a.start = nb.window_start \/ a.start + Window <= nb.window_start
            BY <1>1, <1>6, <1>9, <3>1
        <3>3. \A a, x \in admitted' : a.client = c /\ x.client = c => Apart(a, x)
            <4>1. \A a, x \in admitted : a.client = c /\ x.client = c => Apart(a, x)
                BY <2>1 DEF ClientOk
            <4>2. \A a \in admitted : a.client = c => Apart(a, e) /\ Apart(e, a)
                BY <1>6, <1>9, <3>1 DEF Apart
            <4>3. Apart(e, e)
                BY DEF Apart
            <4> QED BY <1>1, <4>1, <4>2, <4>3
        <3>4. PICK w, W : w = b.window_start /\ W = InWindow(c, w)
            OBVIOUS
        <3>5. IsFiniteSet(W) /\ Cardinality(W) \in Nat
            BY <1>8, <3>4, WindowFinite
        <3>6. Cardinality(W) <= b.request_count
            <4>1. CASE client \in DOMAIN limiter.buckets /\ b = limiter.buckets[client]
                BY <2>1, <2>3, <3>4, <4>1 DEF ClientOk
            <4>2. CASE /\ b.window_start = at
                       /\ client \in DOMAIN limiter.buckets =>
                             at >= limiter.buckets[client].window_start + Window
                <5>1. ASSUME NEW a \in W PROVE FALSE
                    <6>1. a \in admitted /\ a.client = c /\ a.start = at /\ a.start \in Nat
                        BY <3>1, <3>4, <4>2, <5>1 DEF InWindow
                    <6>2. CASE client \notin DOMAIN limiter.buckets
                        BY <2>1, <2>3, <6>1, <6>2 DEF ClientOk
                    <6>3. CASE client \in DOMAIN limiter.buckets
                        <7>1. PICK v : v = limiter.buckets[client].window_start
                            OBVIOUS
                        <7>2. v \in Nat /\ at >= v + Window
                            BY <4>2, <6>3, <7>1 DEF LimitsOk, Bucket
                        <7>3. a.start = v \/ a.start + Window <= v
                            BY <2>1, <2>3, <6>1, <6>3, <7>1 DEF ClientOk
                        <7> QED BY <1>1, <1>3, <6>1, <7>2, <7>3
                    <6> QED BY <6>2, <6>3
                <5>2. W = {}
                    BY <5>1
                <5>3. Cardinality(W) = 0
                    BY <5>2, FS_EmptySet
                <5> QED BY <1>4, <5>3
            <4> QED BY <1>2, <4>1, <4>2
        <3>7. Cardinality(InWindow(c, w)') <= nb.request_count
            <4>1. CASE d.allowed
                <5>1. InWindow(c, w)' = W \cup {e}
                    BY <1>1, <1>2, <2>3, <3>4, <4>1 DEF InWindow
                <5>2. \/ Cardinality(W \cup {e}) = Cardinality(W)
                      \/ Cardinality(W \cup {e}) = Cardinality(W) + 1
                    BY <3>5, FS_AddElement
                <5> QED BY <1>4, <1>6, <3>5, <3>6, <4>1, <5>1, <5>2
            <4>2. CASE ~d.allowed
                <5>1. InWindow(c, w)' = W
                    BY <1>1, <3>4, <4>2 DEF InWindow
                <5> QED BY <1>6, <3>6, <4>2, <5>1
            <4> QED BY <4>1, <4>2
        <3>8. ASSUME NEW start PROVE Cardinality(InWindow(c, start)') <= MaxRequests
            <4>1. CASE start = w
                <5>1. Cardinality(InWindow(c, w)') \in Nat
                    <6>1. InWindow(c, w)' \subseteq admitted'
                        BY DEF InWindow
                    <6> QED BY <1>8, <6>1, FS_Subset, FS_CardinalityType
                <5>2. nb.request_count \in 0 .. MaxRequests
                    BY <1>6 DEF Bucket
                <5> QED BY <1>3, <3>7, <4>1, <5>1, <5>2
            <4>2. CASE start # w
                <5>1. e.start # start
                    BY <1>1, <1>2, <3>4, <4>2
                <5>2. InWindow(c, start)' = InWindow(c, start)
                    BY <1>1, <5>1 DEF InWindow
                <5> QED BY <2>1, <5>2 DEF ClientOk
            <4> QED BY <4>1, <4>2
        <3>9. nb = limiter'.buckets[c] /\ w = nb.window_start
            BY <1>5, <1>6, <2>3, <3>4
        <3> QED BY <1>6, <2>3, <3>2, <3>3, <3>7, <3>8, <3>9 DEF ClientOk, Apart
    <2> QED BY <2>2, <2>3
<1> QED BY <1>7, <1>8, <1>10, <1>11 DEF LimitsOk

LEMMA LimitStep == Structure /\ LimitInv /\ [Next]_vars => LimitInv'
<1> SUFFICES ASSUME Structure, LimitInv, [Next]_vars, MaxRequests > 0 PROVE LimitsOk'
    BY DEF LimitInv
<1>1. LimitsOk
    BY DEF LimitInv
<1>2. CASE UNCHANGED <<limiter, admitted, evicted>>
    BY <1>1, <1>2 DEF LimitsOk, ClientOk, InWindow, Apart
<1>3. ASSUME NEW t \in Threads, Check(t) PROVE LimitsOk'
    BY <1>1, <1>3, LimitCheck
<1> QED BY <1>2, <1>3, Frames

LEMMA InitLimits == Init => LimitInv
<1> SUFFICES ASSUME Init PROVE LimitsOk
    BY DEF LimitInv
<1>1. admitted = {} /\ limiter = NoBuckets
    BY DEF Init
<1>2. DOMAIN limiter.buckets = {}
    BY <1>1 DEF NoBuckets
<1>3. IsFiniteSet(admitted)
    BY <1>1, FS_EmptySet
<1>4. ASSUME NEW c PROVE ClientOk(c)
    <2>1. \A start : Cardinality(InWindow(c, start)) <= MaxRequests
        <3>1. \A start : InWindow(c, start) = {}
            BY <1>1 DEF InWindow
        <3>2. Cardinality({}) = 0
            BY FS_EmptySet
        <3> QED BY <3>1, <3>2, LimiterAssumption
    <2> QED BY <1>1, <1>2, <2>1 DEF ClientOk
<1> QED BY <1>1, <1>2, <1>3, <1>4 DEF LimitsOk

LEMMA LimitInvariance == Spec => []LimitInv
<1>1. Spec => []Structure
    BY Invariance
<1> QED BY <1>1, InitLimits, LimitStep, PTL DEF Spec

(* The windows of a client whose bucket was never given up follow each     *)
(* other without overlap and let no more than the allowed number of        *)
(* requests through, late readings of the clock included, so that less     *)
(* than one window of time sees two of them at the most                    *)
(* (RateLimiter::check), for every limit, window and number of clients,    *)
(* and whatever the order in which the threads reach the mutex.            *)
THEOREM BurstsBounded == Spec => []BurstBounded
<1>1. ASSUME LimitInv PROVE BurstBounded
    <2> SUFFICES ASSUME MaxRequests > 0, NEW first \in admitted, first.client \notin evicted,
                        NEW same, same = {other \in admitted : other.client = first.client}
                 PROVE  /\ \A other \in same : Apart(other, first)
                        /\ Cardinality({other \in same : other.start = first.start})
                              <= MaxRequests
                        /\ Cardinality({later \in same :
                              /\ later.at >= later.start
                              /\ later.at \in first.at .. first.at + Window - 1})
                              <= 2 * MaxRequests
        BY Zenon DEF BurstBounded, Apart
    <2> DEFINE c == first.client
               G == {later \in same :
                        /\ later.at >= later.start
                        /\ later.at \in first.at .. first.at + Window - 1}
    <2>1. LimitsOk /\ ClientOk(c)
        BY <1>1 DEF LimitInv, LimitsOk
    <2>0. /\ \A other \in same : Apart(other, first)
          /\ Cardinality({other \in same : other.start = first.start}) <= MaxRequests
        <3>1. {other \in same : other.start = first.start} = InWindow(c, first.start)
            BY DEF InWindow
        <3> QED BY <2>1, <3>1 DEF ClientOk
    <2>2. MaxRequests \in Nat \ {0} /\ Window \in Nat \ {0} /\ first.at \in Nat
        BY <2>1, LimiterAssumption DEF LimitsOk
    <2>3. \A a \in G : /\ a \in admitted /\ a.client = c /\ a.start \in Nat
                       /\ a.start > first.at - Window /\ a.start <= first.at + Window - 1
        <3>1. ASSUME NEW a \in G
              PROVE  /\ a \in admitted /\ a.client = c /\ a.start \in Nat
                     /\ a.start > first.at - Window /\ a.start <= first.at + Window - 1
            <4>1. a \in admitted /\ a.client = c /\ a.at >= a.start
                  /\ a.at \in first.at .. first.at + Window - 1
                OBVIOUS
            <4>2. a.at \in Nat /\ a.start \in Nat /\ a.at < a.start + Window
                BY <2>1, <4>1 DEF LimitsOk
            <4> HIDE DEF G
            <4> QED BY <2>2, <4>1, <4>2
        <3> QED BY <3>1
    <2>4. \A a, b \in G : Apart(a, b)
        BY <2>1, <2>3 DEF ClientOk
    <2> HIDE DEF G
    <2>5. IsFiniteSet(admitted) /\ G \subseteq admitted
        BY <2>1, <2>3 DEF LimitsOk
    <2>6. ASSUME NEW s, NEW r, \A a \in G : a.start = s \/ a.start = r
          PROVE  Cardinality(G) <= 2 * MaxRequests
        <3>1. PICK S, R : S = InWindow(c, s) /\ R = InWindow(c, r)
            OBVIOUS
        <3>2. /\ IsFiniteSet(S) /\ Cardinality(S) \in Nat /\ Cardinality(S) <= MaxRequests
              /\ IsFiniteSet(R) /\ Cardinality(R) \in Nat /\ Cardinality(R) <= MaxRequests
            BY <2>1, <2>5, <3>1, WindowFinite DEF ClientOk
        <3>3. G \subseteq S \cup R
            BY <2>3, <2>6, <3>1 DEF InWindow
        <3>4. /\ IsFiniteSet(S \cup R)
              /\ Cardinality(S \cup R) = Cardinality(S) + Cardinality(R) - Cardinality(S \cap R)
            BY <3>2, FS_Union
        <3>5. Cardinality(S \cap R) \in Nat
            <4>1. IsFiniteSet(S \cap R)
                BY <3>2, FS_Intersection
            <4> QED BY <4>1, FS_CardinalityType
        <3>6. Cardinality(G) <= Cardinality(S \cup R) /\ Cardinality(G) \in Nat
            BY <3>3, <3>4, FS_Subset, FS_CardinalityType
        <3> QED BY <2>2, <3>2, <3>4, <3>5, <3>6
    <2>7. ASSUME \A a, b \in G : a.start = b.start PROVE Cardinality(G) <= 2 * MaxRequests
        <3>1. PICK s : \A a \in G : a.start = s
            BY <2>7
        <3> QED BY <2>6, <3>1
    <2>8. ASSUME NEW a \in G, NEW b \in G, a.start # b.start PROVE Cardinality(G) <= 2 * MaxRequests
        <3>1. ASSUME NEW x \in G PROVE x.start = a.start \/ x.start = b.start
            <4>1. PICK f, p, q, r : f = first.at /\ p = a.start /\ q = b.start /\ r = x.start
                OBVIOUS
            <4>2. /\ f \in Nat /\ p \in Nat /\ q \in Nat /\ r \in Nat
                  /\ p > f - Window /\ p <= f + Window - 1 /\ q > f - Window /\ q <= f + Window - 1
                  /\ r > f - Window /\ r <= f + Window - 1
                BY <2>2, <2>3, <2>8, <3>1, <4>1
            <4>3. /\ p + Window <= q \/ q + Window <= p
                  /\ r = p \/ r + Window <= p \/ p + Window <= r
                  /\ r = q \/ r + Window <= q \/ q + Window <= r
                BY <2>4, <2>8, <3>1, <4>1 DEF Apart
            <4> QED BY <2>2, <4>1, <4>2, <4>3
        <3>2. PICK s, r : s = a.start /\ r = b.start
            OBVIOUS
        <3> QED BY <2>6, <3>1, <3>2
    <2>9. Cardinality(G) <= 2 * MaxRequests
        BY <2>7, <2>8
    <2> QED BY <2>0, <2>9 DEF G
<1> QED BY <1>1, LimitInvariance, PTL
=============================================================================
