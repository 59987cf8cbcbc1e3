---------------------------- MODULE ServerConfig ----------------------------
(***************************************************************************)
(* ServerConfig (src/src/config/server_config.cpp): the settings of the    *)
(* server and of secure-admin, read from the lines of a file, overridden   *)
(* by environment variables, parsed, range-checked and validated; and the  *)
(* checks that the constructors of ServerApplication make of them again.   *)
(*                                                                         *)
(* A value is text.  What the parsers tell apart of a text is: the items   *)
(* between its commas and, of an item, its word, the number it spells (if  *)
(* any), the network it denotes and the kind of CORS origin it is.         *)
(***************************************************************************)
EXTENDS Integers, Sequences, SequencesExt

NotANumber == -1
NoPrefix == -1
BadPrefix == -2

Item == [word : STRING, number : Int, family : {"v4", "v6", "none"},
         prefix : Int, origin : {"wildcard", "exact", "control", "invalid"}]

Word(w) == [word |-> w, number |-> NotANumber, family |-> "none",
            prefix |-> NoPrefix, origin |-> "invalid"]
Number(n) == [Word("digits") EXCEPT !.number = n]
Network(family, prefix) ==
    [Word("network") EXCEPT !.family = family, !.prefix = prefix]
Origin(w, kind) == [Word(w) EXCEPT !.origin = kind]

-----------------------------------------------------------------------------
(* The keys, the least and the greatest value of the integers, and the     *)
(* defaults.                                                               *)

RuntimeRanges ==
    [listen_port |-> <<1, 65535>>, database_pool_size |-> <<1, 64>>,
     database_acquire_timeout_ms |-> <<1, 60000>>, io_threads |-> <<1, 64>>,
     worker_threads |-> <<1, 64>>, worker_queue_capacity |-> <<1, 1000000>>,
     shutdown_grace_period_ms |-> <<1, 600000>>, audit_retention_days |-> <<1, 3650>>]

LoginRanges ==
    [auth_login_account_failure_limit |-> <<1, 1000>>,
     auth_login_ip_failure_limit |-> <<1, 100000>>,
     auth_login_failure_window_seconds |-> <<1, 86400>>,
     auth_login_lockout_seconds |-> <<1, 86400>>,
     auth_login_max_lockout_seconds |-> <<1, 604800>>,
     auth_login_max_tracked_accounts |-> <<1, 10000000>>,
     auth_login_max_tracked_ips |-> <<1, 10000000>>]

PolicyRanges ==
    [tls_handshake_timeout_seconds |-> <<1, 300>>,
     proxy_forwarded_header_max_bytes |-> <<128, 65536>>,
     cors_max_age_seconds |-> <<0, 86400>>, hsts_max_age_seconds |-> <<0, 63072000>>]

HttpRanges ==
    [http_max_connections |-> <<1, 1000000>>, http_rate_limit_requests |-> <<0, 1000000>>,
     http_rate_limit_window_seconds |-> <<1, 3600>>,
     http_rate_limit_max_buckets |-> <<1, 10000000>>,
     http_max_header_bytes |-> <<1024, 1048576>>, http_max_body_bytes |-> <<1, 1073741824>>,
     http_read_timeout_seconds |-> <<1, 3600>>, http_write_timeout_seconds |-> <<1, 3600>>,
     http_idle_timeout_seconds |-> <<1, 3600>>]

IntegerKeys ==
    DOMAIN RuntimeRanges \cup DOMAIN LoginRanges \cup DOMAIN PolicyRanges \cup DOMAIN HttpRanges
IntegerRange(key) ==
    CASE key \in DOMAIN RuntimeRanges -> RuntimeRanges[key]
      [] key \in DOMAIN LoginRanges -> LoginRanges[key]
      [] key \in DOMAIN PolicyRanges -> PolicyRanges[key]
      [] key \in DOMAIN HttpRanges -> HttpRanges[key]

BooleanKeys ==
    {"metrics_require_auth", "registration_enabled", "tls_enabled", "cors_allow_credentials",
     "hsts_enabled", "hsts_include_subdomains", "hsts_preload"}
TextKeys ==
    {"listen_address", "log_file", "database_path", "tls_certificate_file",
     "tls_private_key_file"}
ListKeys == {"trusted_proxy_cidrs", "cors_allowed_origins"}
Keys == IntegerKeys \cup BooleanKeys \cup TextKeys \cup ListKeys \cup {"environment"}

DefaultIntegers ==
    [listen_port |-> 8080, database_pool_size |-> 4, database_acquire_timeout_ms |-> 5000,
     io_threads |-> 4, worker_threads |-> 4, worker_queue_capacity |-> 256,
     shutdown_grace_period_ms |-> 10000, audit_retention_days |-> 90,
     auth_login_account_failure_limit |-> 5, auth_login_ip_failure_limit |-> 20,
     auth_login_failure_window_seconds |-> 300, auth_login_lockout_seconds |-> 300,
     auth_login_max_lockout_seconds |-> 3600, auth_login_max_tracked_accounts |-> 65536,
     auth_login_max_tracked_ips |-> 65536, tls_handshake_timeout_seconds |-> 10,
     proxy_forwarded_header_max_bytes |-> 4096, cors_max_age_seconds |-> 600,
     hsts_max_age_seconds |-> 31536000, http_max_connections |-> 1024,
     http_rate_limit_requests |-> 100, http_rate_limit_window_seconds |-> 1,
     http_rate_limit_max_buckets |-> 65536, http_max_header_bytes |-> 16384,
     http_max_body_bytes |-> 1048576, http_read_timeout_seconds |-> 10,
     http_write_timeout_seconds |-> 10, http_idle_timeout_seconds |-> 30]

Defaults ==
    [key \in Keys |->
        CASE key \in IntegerKeys -> DefaultIntegers[key]
          [] key \in BooleanKeys -> key \in {"hsts_enabled", "hsts_include_subdomains"}
          [] key = "environment" -> "development"
          [] key = "listen_address" -> "0.0.0.0"
          [] key = "log_file" -> "logs/securecore.log"
          [] key = "database_path" -> "data/securecore.db"
          [] key \in {"tls_certificate_file", "tls_private_key_file"} -> ""
          [] key = "trusted_proxy_cidrs" -> << >>
          [] key = "cors_allowed_origins" -> <<Origin("*", "wildcard")>>]

-----------------------------------------------------------------------------
(* Parsing.  A text is a nonempty sequence of items.                       *)

lowercase(w) ==
    CASE w \in {"TRUE", "True"} -> "true"
      [] w = "Production" -> "production"
      [] w = "NONE" -> "none"
      [] OTHER -> w

IsScalar(text) == Len(text) = 1

parse_unsigned(text, minimum, maximum) ==
    IsScalar(text) /\ minimum <= text[1].number /\ text[1].number <= maximum

TrueWords == {"true", "yes", "on"}
FalseWords == {"false", "no", "off"}
IsTrue(item) == lowercase(item.word) \in TrueWords \/ item.number = 1
IsFalse(item) == lowercase(item.word) \in FalseWords \/ item.number = 0
parse_boolean(text) == IsScalar(text) /\ (IsTrue(text[1]) \/ IsFalse(text[1]))

IsNone(text) == IsScalar(text) /\ lowercase(text[1].word) = "none"
parse_csv_list(text) == \A i \in DOMAIN text : text[i].word # ""

(* Does the parser of this key accept the text, and what does it store?    *)
Parses(key, text) ==
    CASE key \in IntegerKeys -> parse_unsigned(text, IntegerRange(key)[1], IntegerRange(key)[2])
      [] key \in BooleanKeys -> parse_boolean(text)
      [] key \in ListKeys -> parse_csv_list(text)
      [] OTHER -> TRUE

Parsed(key, text) ==
    CASE key \in IntegerKeys -> text[1].number
      [] key \in BooleanKeys -> IsTrue(text[1])
      [] key = "trusted_proxy_cidrs" -> IF IsNone(text) THEN << >> ELSE text
      [] key = "cors_allowed_origins" -> text
      [] key = "environment" -> lowercase(text[1].word)
      [] OTHER -> text[1].word

(* A load is a configuration so far, or has failed.                        *)
Loaded(config) == [ok |-> TRUE, config |-> config]
LoadFailed == [ok |-> FALSE, config |-> Defaults]

apply_setting(load, key, text) ==
    IF load.ok /\ key \in Keys /\ Parses(key, text)
    THEN Loaded([load.config EXCEPT ![key] = Parsed(key, text)])
    ELSE LoadFailed

(* The lines of a file.  A key or a value that trims to nothing is the     *)
(* kind "empty".                                                           *)
FileLine == [kind : {"blank", "no_separator", "empty", "setting"},
             key : STRING, text : Seq(Item)]

ReadLine(line, load) ==
    CASE line.kind = "blank" -> load
      [] line.kind \in {"no_separator", "empty"} -> LoadFailed
      [] line.kind = "setting" -> apply_setting(load, line.key, line.text)

(* The loop over the lines of the file.                                    *)
ReadLines(lines) ==
    FoldLeft(LAMBDA load, line : ReadLine(line, load), Loaded(Defaults), lines)

(* Every key has a variable.  A variable that trims to nothing is an       *)
(* error; the others override the file.                                    *)
apply_environment_overrides(load, environment) ==
    IF /\ load.ok
       /\ \A key \in DOMAIN environment : environment[key] # <<Word("")>> /\ Parses(key, environment[key])
    THEN Loaded([key \in Keys |-> IF key \in DOMAIN environment
                                  THEN Parsed(key, environment[key])
                                  ELSE load.config[key]])
    ELSE LoadFailed

-----------------------------------------------------------------------------
(* Validation.                                                             *)

Environments == {"development", "test", "production"}

validate_proxy_cidr(item) ==
    /\ item.family # "none"
    /\ item.prefix \in {NoPrefix} \cup 0 .. (IF item.family = "v4" THEN 32 ELSE 128)

(* Blanks and line ends are looked for; other control characters are not.  *)
valid_cors_origin(item) == item.origin \in {"wildcard", "exact", "control"}

HasWildcard(origins) == \E i \in DOMAIN origins : origins[i].word = "*"

(* Mutant: the order of the two lockout times is not looked at.            *)
LockoutsUnchecked(config) == TRUE

LockoutsOrdered(config) ==
    config["auth_login_max_lockout_seconds"] >= config["auth_login_lockout_seconds"]

OriginsValid(config) ==
    LET origins == config["cors_allowed_origins"]
    IN  /\ origins # << >>
        /\ \A i \in DOMAIN origins : valid_cors_origin(origins[i])
        /\ HasWildcard(origins) => Len(origins) = 1 /\ ~config["cors_allow_credentials"]

PreloadValid(config) ==
    config["hsts_preload"] => /\ config["hsts_enabled"]
                              /\ config["hsts_include_subdomains"]
                              /\ config["hsts_max_age_seconds"] >= 31536000

validate_common(config) ==
    /\ config["environment"] \in Environments
    /\ \A key \in {"listen_address", "log_file", "database_path"} : config[key] # ""
    /\ LockoutsOrdered(config)
    /\ \A i \in DOMAIN config["trusted_proxy_cidrs"] :
           validate_proxy_cidr(config["trusted_proxy_cidrs"][i])
    /\ OriginsValid(config)
    /\ PreloadValid(config)

load_from_file(lines, environment) ==
    LET load == apply_environment_overrides(ReadLines(lines), environment)
    IN  IF load.ok /\ validate_common(load.config) THEN load ELSE LoadFailed

(* What the machine says of the paths of a configuration: can the parent   *)
(* directories be made, what are the certificate and the key, is the port  *)
(* free?                                                                   *)
Hosts == [parents : BOOLEAN, port_free : BOOLEAN,
          tls_files : {"missing", "readable_by_others", "mismatched", "good"}]

is_loopback_address(address) == address \in {"127.0.0.1", "::1", "localhost"}

TlsFilesValid(config, host) ==
    /\ config["tls_certificate_file"] # "" /\ config["tls_private_key_file"] # ""
    /\ host.tls_files \notin {"missing", "readable_by_others"}

ProductionValid(config) ==
    /\ config["tls_enabled"] \/ is_loopback_address(config["listen_address"])
    /\ config["http_rate_limit_requests"] # 0
    /\ ~(Len(config["cors_allowed_origins"]) = 1 /\ HasWildcard(config["cors_allowed_origins"]))

validate_for_server(config, host) ==
    /\ validate_common(config)
    /\ host.parents
    /\ config["tls_enabled"] => TlsFilesValid(config, host)
    /\ config["environment"] = "production" => ProductionValid(config)

validate_for_admin(config, host) == validate_common(config) /\ host.parents

-----------------------------------------------------------------------------
(* What the constructors of ServerApplication's members demand, in their   *)
(* order.                                                                  *)

RateLimiterAccepts(config) ==
    config["http_rate_limit_window_seconds"] > 0 /\ config["http_rate_limit_max_buckets"] > 0

(* CorsPolicy also refuses control characters and an origin given twice.   *)
CorsPolicyAccepts(config) ==
    LET origins == config["cors_allowed_origins"]
    IN  /\ origins # << >>
        /\ \A i \in DOMAIN origins : origins[i].origin \in {"wildcard", "exact"}
        /\ HasWildcard(origins) => Len(origins) = 1 /\ ~config["cors_allow_credentials"]
        /\ IsInjective(origins)

TrustedProxyAccepts(config) ==
    /\ config["proxy_forwarded_header_max_bytes"] # 0
    /\ \A i \in DOMAIN config["trusted_proxy_cidrs"] :
           LET item == config["trusted_proxy_cidrs"][i]
           IN  /\ item.family \in {"v4", "v6"}
               /\ item.prefix # NoPrefix =>
                      0 <= item.prefix /\ item.prefix <= (IF item.family = "v4" THEN 32 ELSE 128)

DatabaseAccepts(config) ==
    /\ config["database_path"] # "" /\ config["database_pool_size"] # 0
    /\ config["database_acquire_timeout_ms"] > 0

AbuseProtectorAccepts(config) ==
    /\ config["auth_login_account_failure_limit"] # 0 /\ config["auth_login_ip_failure_limit"] # 0
    /\ config["auth_login_failure_window_seconds"] > 0 /\ config["auth_login_lockout_seconds"] > 0
    /\ config["auth_login_max_lockout_seconds"] >= config["auth_login_lockout_seconds"]
    /\ config["auth_login_max_tracked_accounts"] # 0 /\ config["auth_login_max_tracked_ips"] # 0

make_tls_context(config, host) ==
    config["tls_enabled"] => TlsFilesValid(config, host) /\ host.tls_files = "good"

WorkerPoolAccepts(config) ==
    config["worker_threads"] # 0 /\ config["worker_queue_capacity"] # 0

(* The address must be numeric, also where validation let localhost pass.  *)
HttpServerAccepts(config, host) ==
    /\ config["http_max_connections"] # 0
    /\ config["listen_address"] \in {"0.0.0.0", "127.0.0.1", "::1"}
    /\ host.port_free

Constructed(config, host) ==
    /\ RateLimiterAccepts(config)
    /\ CorsPolicyAccepts(config)
    /\ TrustedProxyAccepts(config)
    /\ DatabaseAccepts(config)
    /\ AbuseProtectorAccepts(config)
    /\ make_tls_context(config, host)
    /\ WorkerPoolAccepts(config)
    /\ HttpServerAccepts(config, host)
=============================================================================
