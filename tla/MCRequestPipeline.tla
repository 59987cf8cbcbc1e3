------------------------- MODULE MCRequestPipeline --------------------------
(* Model checking of RequestPipeline.  Most workloads are one request that *)
(* varies one thing: the forwarding headers, the method and path, or what  *)
(* is validated.  The others are a few requests that two threads run at    *)
(* once: changes that are audited and pages of the audit trail, and        *)
(* requests of one or several clients against the rate limit.              *)
EXTENDS RequestPipeline

V4(bits) == Address("v4", bits)
Alice == V4(<<0, 0>>)
Bob == V4(<<0, 1>>)
ProxyA == V4(<<1, 0>>)
ProxyB == Address("v6", <<0, 1>>)
Stranger == Address("v6", <<1, 1>>)

MCNetworks ==
    {[family |-> "v4", bits |-> <<1, 1>>, prefix |-> 1],
     [family |-> "v6", bits |-> <<0, 1>>, prefix |-> 2]}
MCDecodes == [x \in {"%31", "%zz", "%ff"} |->
                CASE x = "%31" -> "1" [] x = "%zz" -> Undecodable [] x = "%ff" -> "raw"]

(* A request that fails nowhere.                                           *)
NoHeaders == [name \in ForwardingHeaders |-> << >>]
Plain ==
    [peer |-> Alice, tls |-> FALSE, headers |-> NoHeaders, id |-> "", agent |-> "text",
     origin |-> << >>, asked_method |-> << >>, asked_headers |-> << >>,
     method |-> "GET", path |-> <<"health">>, absolute |-> TRUE, token |-> TRUE,
     body |-> [json |-> TRUE, text |-> "object", fields_valid |-> TRUE],
     limit |-> 1, offset |-> 0, outcome |-> ""]

To(method, path) == [Plain EXCEPT !.method = method, !.path = path]

-----------------------------------------------------------------------------
(* The forwarding headers.                                                 *)

Token(address) == [quote |-> "none", form |-> "bare", host |-> TRUE, address |-> address]
Value(parts) == [size |-> Len(parts), open |-> FALSE, parts |-> parts]
For(token) == [name |-> "for", text |-> "", token |-> token]
Proto(text) == [name |-> "proto", text |-> text, token |-> Token(Alice)]
By == [name |-> "by", text |-> "", token |-> Token(Alice)]

Via(headers) == [Plain EXCEPT !.peer = ProxyA, !.headers = headers @@ NoHeaders]
Sent(name, value) == name :> <<value>>

Chains == UNION {[1 .. n -> {Alice, Bob, ProxyA, ProxyB}] : n \in 1 .. 3}
Forwarded(chain) == Value([i \in DOMAIN chain |-> <<For(Token(chain[i]))>>])
XForwardedFor(chain) == Value([i \in DOMAIN chain |-> Token(chain[i])])

Odd ==
    {[Token(Bob) EXCEPT !.form = "port"], [Token(ProxyB) EXCEPT !.form = "bracketed"],
     [Token(Stranger) EXCEPT !.form = "bracketed_port", !.quote = "closed"],
     [Token(Bob) EXCEPT !.form = "unknown"], [Token(Bob) EXCEPT !.quote = "bad"],
     [Token(Bob) EXCEPT !.host = FALSE]}

OddElements ==
    {<<For(Token(Bob)), Proto("https")>>, <<Proto("ftp"), For(Token(Bob))>>, <<By>>, << >>,
     <<For(Token(Bob)), For(Token(Alice))>>, <<By, For(Token(Bob))>>,
     <<For(Token(Bob)), [By EXCEPT !.name = ""]>>}

Proxied ==
    {Via(Sent("X-Forwarded-For", XForwardedFor(chain))) : chain \in Chains}
    \cup {Via(Sent("Forwarded", Forwarded(chain)) @@ Sent("X-Forwarded-For", XForwardedFor(<<Bob>>))) :
            chain \in {c \in Chains : Len(c) < 3}}
    \cup {Via(Sent("X-Forwarded-For", Value(<<token, Token(ProxyA)>>))) : token \in Odd}
    \cup {Via(Sent("X-Real-IP", Value(<<token>>))) : token \in Odd}
    \cup {Via(Sent("Forwarded", Value(<<element, <<For(Token(ProxyB))>> >>))
              @@ Sent("X-Forwarded-Proto", Value(<<proto, "http">>))) :
            element \in OddElements, proto \in {"https", "ftp"}}
    \cup {Via("X-Forwarded-For" :> <<XForwardedFor(<<Bob>>), XForwardedFor(<<Bob>>)>>),
          Via(Sent("X-Forwarded-For", XForwardedFor(<<Bob, Bob, Bob, Bob>>))),
          Via(Sent("X-Forwarded-For", [XForwardedFor(<<Bob>>) EXCEPT !.size = 9])),
          Via(Sent("X-Forwarded-For", [XForwardedFor(<<Bob>>) EXCEPT !.open = TRUE])),
          [Via(Sent("X-Forwarded-For", XForwardedFor(<<Bob>>))) EXCEPT !.peer = NoAddress],
          [Via(Sent("X-Forwarded-For", XForwardedFor(<<Bob>>))) EXCEPT !.peer = Stranger]}

-----------------------------------------------------------------------------
(* The routes, and what they validate.                                     *)

Instances(path) ==
    {[i \in DOMAIN path |->
        IF path[i] = "{id}" THEN id ELSE IF path[i] = "{role}" THEN "auditor" ELSE path[i]] :
        id \in {"1", "%31", "x", "%zz", ""}}
Paths == UNION {Instances(r.path) : r \in ToSet(Routes)} \cup {<<"v1">>, <<"health", "">>, << >>}

Audited == To("POST", <<"v1", "auth", "register">>)
Page(offset) == [To("GET", <<"v1", "admin", "audit-events">>) EXCEPT !.offset = offset]
Logout == To("POST", <<"v1", "auth", "logout">>)

Validated ==
    {[Audited EXCEPT !.body = b] :
        b \in [json : BOOLEAN, text : {"empty", "broken", "array", "object"}, fields_valid : BOOLEAN]}
    \cup {[Page(0) EXCEPT !.limit = limit] : limit \in {0, MaxPage, MaxPage + 1}}
    \cup {Page(-1), [Page(0) EXCEPT !.outcome = "maybe"], [Plain EXCEPT !.absolute = FALSE],
          [Logout EXCEPT !.token = FALSE],
          To("DELETE", <<"v1", "admin", "users", "1", "roles", "%ff">>)}

Cors ==
    [peer : {Alice}, tls : {TRUE}, headers : {NoHeaders}, id : {"", "mine", "not valid"},
     agent : {"text"}, origin : {<< >>, <<"https://a">>, <<"https://b">>, <<"https://a", "https://a">>},
     asked_method : {<< >>, <<"GET">>, <<"TRACE">>},
     asked_headers : {<< >>, <<"content-type">>, <<"content-type", "cookie">>},
     method : {"GET", "OPTIONS"}, path : {<<"health">>}, absolute : {TRUE}, token : {TRUE},
     body : {Plain.body}, limit : {1}, offset : {0}, outcome : {""}]

Single ==
    Proxied \cup {To(method, path) : method \in {"GET", "POST", "DELETE", "PATCH"}, path \in Paths}
    \cup Validated \cup Cors

-----------------------------------------------------------------------------
(* Several requests.                                                       *)

From(client) == [Plain EXCEPT !.peer = client]
As(client, request) == [request EXCEPT !.peer = client]
Raw == [Logout EXCEPT !.agent = "raw", !.id = "mine"]

Trail ==
    {<<Audited, As(Bob, Raw), As(Stranger, Plain)>>,
     <<Raw, As(Bob, [Page(0) EXCEPT !.outcome = "failure"])>>,
     <<Raw, As(Bob, Logout), As(ProxyA, Page(0)), As(Stranger, Page(1))>>}

(* The second check may find the bucket of the first one stale.            *)
Stale == <<From(Alice), From(Bob)>>

Bursts ==
    {<<From(Alice), From(Alice), From(Alice), From(Alice)>>,
     <<From(Alice), From(Bob), From(Stranger), From(Alice)>>, Stale}

MCWorkloads == {<<request>> : request \in Single} \cup Trail \cup Bursts

(* Time matters to the rate limit only.                                    *)
MCMaxTime ==
    [w \in MCWorkloads |-> IF w = Stale THEN 5 ELSE IF w \in Bursts THEN 3 ELSE 0]

(* The registrations that register_api_routes makes do not conflict.       *)
ASSUME RoutesRegister ==
    \A n \in DOMAIN Routes :
        ~Conflicts(FoldLeft(add_route, EmptyTable, SubSeq(Routes, 1, n - 1)), Routes[n])
=============================================================================
