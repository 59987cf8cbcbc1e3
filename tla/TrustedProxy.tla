---------------------------- MODULE TrustedProxy ----------------------------
(***************************************************************************)
(* TrustedProxyResolver (src/src/net/trusted_proxy.cpp): who the client of *)
(* a request is, from the peer's address and the forwarding headers, which *)
(* count only when a trusted proxy sent them.                              *)
(*                                                                         *)
(* An address is a family and its bits.  A header is the sequence of the   *)
(* values it was sent with; a value is its size in bytes, whether it ends  *)
(* in an open quote, and its comma-separated parts.                        *)
(***************************************************************************)
EXTENDS Integers, SequencesExt

CONSTANTS
    TrustedNetworks,   \* trusted_networks_: [family, bits, prefix]
    MaxHeaderBytes,    \* forwarded_header_max_bytes_
    MaxHops            \* maximum_forwarded_hops, 64 in the code

(* A network that is configured is one of IPv4 or IPv6 addresses.          *)
ASSUME ProxyAssumption ==
    /\ MaxHeaderBytes \in Nat \ {0} /\ MaxHops \in Nat \ {0}
    /\ \A network \in TrustedNetworks : network.family \in {"v4", "v6"}

Address(family, bits) == [family |-> family, bits |-> bits]

(* What a peer that has no readable address is called.                     *)
NoAddress == Address("none", << >>)

contains(network, address) ==
    /\ network.family = address.family
    /\ \A bit \in 1 .. network.prefix : network.bits[bit] = address.bits[bit]

is_trusted(address) == \E network \in TrustedNetworks : contains(network, address)

-----------------------------------------------------------------------------
(* Parsing.  A malformed header is a ProxyHeaderError.                     *)

Malformed == [ok |-> FALSE]

Empty == [size |-> 0, open |-> FALSE, parts |-> << >>]

(* A header that is sent twice is refused, one that is not sent is empty.  *)
Duplicated(values) == Len(values) > 1
header_value(values) == IF values = << >> THEN Empty ELSE values[1]

(* Parts that are quoted must be quoted properly.                          *)
unquote(token) == token.quote \in {"none", "closed"}

(* The forms of an address: bare, with a port, an IPv6 address in brackets *)
(* with or without one.  Other forms ("unknown", "_name", a bad port, a    *)
(* bracket left open, no address) are refused, and so is an address that   *)
(* names no host.                                                          *)
AddressForms == {"bare", "port", "bracketed", "bracketed_port"}
parse_ip_token(token) ==
    unquote(token) /\ token.form \in AddressForms /\ token.host

Scheme(text) == text \in {"http", "https"}

(* The parameters of one element with a name.                              *)
Named(element, name) == SelectSeq(element, LAMBDA parameter : parameter.name = name)

(* Every element names one address.  An element without parameters stands  *)
(* for an empty one; the name "" for a parameter that has no name or value.*)
ElementValid(element) ==
    /\ element # << >>
    /\ \A i \in DOMAIN element : element[i].name # ""
    /\ Len(Named(element, "for")) = 1
    /\ parse_ip_token(Named(element, "for")[1].token)

(* The first proto parameter of the header is the scheme; the others are   *)
(* not looked at.                                                          *)
parse_forwarded_header(value) ==
    LET protos == FlattenSeq([i \in DOMAIN value.parts |-> Named(value.parts[i], "proto")])
    IN  IF \/ value.open
           \/ value.parts = << >> \/ Len(value.parts) > MaxHops
           \/ \E i \in DOMAIN value.parts : ~ElementValid(value.parts[i])
           \/ protos # << >> /\ ~(Scheme(protos[1].text) /\ unquote(protos[1].token))
        THEN Malformed
        ELSE [ok |-> TRUE,
              chain |-> [i \in DOMAIN value.parts |->
                            Named(value.parts[i], "for")[1].token.address],
              scheme |-> IF protos = << >> THEN "" ELSE protos[1].text]

parse_x_forwarded_for(value) ==
    IF \/ value.open \/ Len(value.parts) > MaxHops
       \/ \E i \in DOMAIN value.parts : ~parse_ip_token(value.parts[i])
    THEN Malformed
    ELSE [ok |-> TRUE, scheme |-> "",
          chain |-> [i \in DOMAIN value.parts |-> value.parts[i].address]]

(* X-Real-IP is one address.                                               *)
ParseRealIp(value) ==
    IF Len(value.parts) # 1 \/ ~parse_ip_token(value.parts[1]) THEN Malformed
    ELSE [ok |-> TRUE, scheme |-> "", chain |-> <<value.parts[1].address>>]

(* The first of the schemes counts.                                        *)
parse_forwarded_proto(value) ==
    IF value.open \/ ~Scheme(value.parts[1]) THEN Malformed
    ELSE [ok |-> TRUE, scheme |-> value.parts[1]]

-----------------------------------------------------------------------------
(* Mutant: the leftmost address is believed.                               *)
WalkToTheLeft(peer, chain) == IF chain = << >> THEN peer ELSE chain[1]

(* From the peer the chain is read from right to left, for as long as the  *)
(* address reached is that of a trusted proxy.                             *)
WalkChain(peer, chain) ==
    LET reached[hop \in 0 .. Len(chain)] ==
            IF hop = Len(chain) THEN peer
            ELSE IF is_trusted(reached[hop + 1]) THEN chain[hop + 1]
            ELSE reached[hop + 1]
    IN  reached[0]

ForwardingHeaders == {"Forwarded", "X-Forwarded-For", "X-Real-IP", "X-Forwarded-Proto"}

(* What a request may carry: every header a sequence of values, every      *)
(* value a sequence of parts.                                              *)
IsSequence(s) == s \in Seq(ToSet(s))
HeadersOfRequest(headers) ==
    \A name \in ForwardingHeaders :
        /\ IsSequence(headers[name])
        /\ \A i \in DOMAIN headers[name] : IsSequence(headers[name][i].parts)

(* The chain and the scheme that the headers give: Forwarded comes before  *)
(* X-Forwarded-For, and that before X-Real-IP.                             *)
ForwardedBy(headers) ==
    LET value(name) == header_value(headers[name])
        sent(name)  == value(name).size > 0
        from == IF sent("Forwarded") THEN parse_forwarded_header(value("Forwarded"))
                ELSE IF sent("X-Forwarded-For")
                THEN parse_x_forwarded_for(value("X-Forwarded-For"))
                ELSE IF sent("X-Real-IP") THEN ParseRealIp(value("X-Real-IP"))
                ELSE [ok |-> TRUE, chain |-> << >>, scheme |-> ""]
        proto == IF from.ok /\ from.scheme = "" /\ sent("X-Forwarded-Proto")
                 THEN parse_forwarded_proto(value("X-Forwarded-Proto"))
                 ELSE from
    IN  IF \/ \E name \in ForwardingHeaders : Duplicated(headers[name])
           \/ value("Forwarded").size + value("X-Forwarded-For").size
              + value("X-Real-IP").size + value("X-Forwarded-Proto").size > MaxHeaderBytes
           \/ ~from.ok \/ ~proto.ok
        THEN Malformed
        ELSE [ok |-> TRUE, chain |-> from.chain, scheme |-> proto.scheme]

(* After a ProxyHeaderError the session takes the peer for the client and  *)
(* refuses the request later, behind the middlewares.                      *)
resolve(peer, headers, direct_tls) ==
    LET direct == [ok |-> TRUE, client |-> peer, secure |-> direct_tls]
        forwarded == ForwardedBy(headers)
    IN  IF peer = NoAddress \/ ~is_trusted(peer) THEN direct
        ELSE IF ~forwarded.ok THEN [direct EXCEPT !.ok = FALSE]
        ELSE [direct EXCEPT
                 !.client = WalkChain(peer, forwarded.chain),
                 !.secure = IF forwarded.scheme = "" THEN @ ELSE forwarded.scheme = "https"]
=============================================================================
