----------------------------- MODULE MCStartup ------------------------------
(* Model checking of Startup.  The files set every integer to each end of  *)
(* its range and to the values next to it, and mix the settings that the   *)
(* validation relates to each other; the environments override some.       *)
EXTENDS Startup

Set(key, text) == [kind |-> "setting", key |-> key, text |-> text]
Line(kind) == [kind |-> kind, key |-> "", text |-> << >>]

(* Every integer at one end of its range, and each alone just outside it.  *)
AllAt(end) == [key \in IntegerKeys |-> <<Number(IntegerRange(key)[end])>>]
OutOfRange ==
    UNION {{<<Set(key, <<Number(IntegerRange(key)[1] - 1)>>)>>,
            <<Set(key, <<Number(IntegerRange(key)[2] + 1)>>)>>} : key \in IntegerKeys}

Origins(kind) == <<Origin("https://a", kind), Origin("https://b", kind)>>

Exact == <<Set("cors_allowed_origins", Origins("exact")), Set("listen_address", <<Word("127.0.0.1")>>)>>
(* Refused in production only: it listens everywhere and is not encrypted.  *)
Exposed == <<Set("cors_allowed_origins", Origins("exact"))>>
Encrypted ==
    <<Set("tls_enabled", <<Number(1)>>), Set("tls_certificate_file", <<Word("cert")>>),
      Set("tls_private_key_file", <<Word("key")>>), Set("cors_allowed_origins", Origins("exact"))>>

Open ==
    <<Line("blank"), Set("registration_enabled", <<Word("TRUE")>>), Set("hsts_preload", <<Word("on")>>),
      Set("trusted_proxy_cidrs", <<Network("v4", 32), Network("v6", 0), Network("v4", NoPrefix)>>)>>

Valid == {Exact, Encrypted, <<Set("trusted_proxy_cidrs", <<Word("NONE")>>)>>}

(* Accepted by validation and refused by a constructor.                    *)
Surprising ==
    {<<Set("cors_allowed_origins", <<Origin("https://a", "exact"), Origin("https://a", "exact")>>)>>,
     <<Set("cors_allowed_origins", Origins("control"))>>,
     <<Set("cors_allowed_origins", Origins("exact")), Set("listen_address", <<Word("localhost")>>)>>}

Invalid ==
    OutOfRange \cup
    {<<Line("no_separator")>>, <<Line("empty")>>, <<Set("unknown_key", <<Word("x")>>)>>,
     <<Set("listen_port", <<Word("http")>>)>>,
     <<Set("tls_enabled", <<Word("maybe")>>)>>, <<Set("environment", <<Word("staging")>>)>>,
     <<Set("auth_login_lockout_seconds", <<Number(4000)>>)>>,
     <<Set("trusted_proxy_cidrs", <<Network("v4", 33)>>)>>,
     <<Set("trusted_proxy_cidrs", <<Network("v6", BadPrefix)>>)>>,
     <<Set("trusted_proxy_cidrs", <<Network("v4", 8), Word("")>>)>>,
     <<Set("cors_allowed_origins", <<Origin("ftp://a", "invalid")>>)>>,
     <<Set("cors_allow_credentials", <<Word("yes")>>)>>,
     <<Set("cors_allowed_origins", <<Origin("*", "wildcard"), Origin("https://a", "exact")>>)>>,
     <<Set("hsts_preload", <<Word("on")>>), Set("hsts_enabled", <<Number(0)>>)>>}

InProduction == [environment |-> <<Word("Production")>>]
Unlimited == [environment |-> <<Word("production")>>, http_rate_limit_requests |-> <<Number(0)>>]
Blank == [environment |-> <<Word("")>>]

Input(files, environments) == [lines : files, environment : environments]
MCInputs ==
    Input(Valid \cup Surprising \cup Invalid, {<< >>})
    \cup Input({Exact, Encrypted, Exposed}, {InProduction})
    \cup Input({Exact}, {Unlimited, Blank})
    \cup Input({<< >>}, {AllAt(1), InProduction})
    \cup Input({Open}, {AllAt(2)})
=============================================================================
