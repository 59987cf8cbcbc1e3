------------------------------ MODULE ApiRoutes -----------------------------
(***************************************************************************)
(* The HTTP API (src/src/http/*_routes.cpp, routes.cpp): which handler is  *)
(* registered for which method and path, and what each handler does.       *)
(*                                                                         *)
(* All handlers go through the same stages: the bearer token must be       *)
(* there, the path, query or body is validated, a service is called, an    *)
(* audit record may be written, and the response is made.  They differ in  *)
(* the stages they have, which is what a handler is here:                  *)
(*   token     a request without a bearer token is answered 401            *)
(*   id        the parameter {id} must be a positive integer               *)
(*   input     what else is validated: "body", "query", "role" or "none"   *)
(*   ok        the status of success                                       *)
(*   errors    the statuses of the service's own errors                    *)
(*   commits   outcomes of the service with which the database may change  *)
(*   audits    outcomes that are recorded                                  *)
(*   reads     the response shows audit events                             *)
(*   throws    the service may throw something else, a database error      *)
(*   partial   such an exception may come after the change: the            *)
(*             repository inserts and reads back without a transaction     *)
(***************************************************************************)
EXTENDS Router

CONSTANTS
    RegistrationEnabled,     \* config.registration_enabled
    MetricsAuthentication    \* config.metrics_require_authentication

ASSUME ApiAssumption == RegistrationEnabled \in BOOLEAN /\ MetricsAuthentication \in BOOLEAN

Stages ==
    [token |-> FALSE, id |-> FALSE, input |-> "none", ok |-> 200, errors |-> {},
     commits |-> {}, audits |-> {}, reads |-> FALSE, throws |-> FALSE, partial |-> FALSE]

(* The handlers of a signed-in user.                                       *)
Authenticated == [Stages EXCEPT !.token = TRUE, !.throws = TRUE]

(* The statuses of AuthError, AccountSecurityError and AdminError.         *)
auth_error_status == {401, 403, 500}
account_error_response == {400, 404, 409, 422}
admin_error_response == {403, 404, 409, 422}

Both == {"success", "failure"}

-----------------------------------------------------------------------------
(* routes.cpp                                                              *)
health_handler == Stages
ready_handler == [Stages EXCEPT !.errors = {503}]
register_handler ==
    [Stages EXCEPT !.input = "body", !.ok = 201, !.errors = {409, 422},
                   !.commits = {"success"}, !.audits = Both,
                   !.throws = TRUE, !.partial = TRUE]
login_handler ==
    [Stages EXCEPT !.input = "body", !.errors = auth_error_status \cup {429},
                   !.commits = {"success"}, !.audits = Both,
                   !.throws = TRUE, !.partial = TRUE]

(* A refresh token that is reused, or of a disabled user, ends its family. *)
refresh_handler ==
    [Stages EXCEPT !.input = "body", !.errors = auth_error_status,
                   !.commits = Both, !.audits = Both, !.throws = TRUE]

(* A token that is not valid is answered like one that is.                 *)
logout_handler ==
    [Authenticated EXCEPT !.ok = 204, !.errors = {204},
                          !.commits = {"success"}, !.audits = Both]
logout_all_handler ==
    [Authenticated EXCEPT !.errors = auth_error_status,
                          !.commits = {"success"}, !.audits = Both]
me_handler == [Authenticated EXCEPT !.errors = auth_error_status]
echo_handler == [Stages EXCEPT !.input = "body"]

(* account_routes.cpp                                                      *)
list_sessions_handler == [Authenticated EXCEPT !.errors = auth_error_status]
revoke_session_handler ==
    [Authenticated EXCEPT !.id = TRUE, !.ok = 204, !.errors = auth_error_status \cup {404},
                          !.commits = {"success"}, !.audits = Both]
change_password_handler ==
    [Authenticated EXCEPT !.input = "body",
                          !.errors = auth_error_status \cup account_error_response,
                          !.commits = {"success"}, !.audits = Both]

(* admin_routes.cpp                                                        *)
list_users_handler ==
    [Authenticated EXCEPT !.input = "query", !.errors = auth_error_status \cup admin_error_response]
get_user_handler ==
    [Authenticated EXCEPT !.id = TRUE, !.errors = auth_error_status \cup admin_error_response]
set_user_status_handler ==
    [Authenticated EXCEPT !.id = TRUE, !.input = "body",
                          !.errors = auth_error_status \cup admin_error_response,
                          !.commits = {"success"}, !.audits = Both]

(* rbac_routes.cpp                                                         *)
list_roles_handler == [Authenticated EXCEPT !.errors = auth_error_status \cup admin_error_response]
list_permissions_handler ==
    [Authenticated EXCEPT !.errors = auth_error_status \cup admin_error_response]
list_user_roles_handler ==
    [Authenticated EXCEPT !.id = TRUE, !.errors = auth_error_status \cup admin_error_response]
assign_role_handler ==
    [Authenticated EXCEPT !.id = TRUE, !.input = "body",
                          !.errors = auth_error_status \cup admin_error_response,
                          !.commits = {"success"}, !.audits = Both]
revoke_role_handler ==
    [Authenticated EXCEPT !.id = TRUE, !.input = "role",
                          !.errors = auth_error_status \cup admin_error_response,
                          !.commits = {"success"}, !.audits = Both]

(* audit_routes.cpp: the reading is recorded itself, a refusal is not.     *)
list_audit_events_handler ==
    [Authenticated EXCEPT !.input = "query", !.errors = auth_error_status,
                          !.audits = {"success"}, !.reads = TRUE]

(* metrics_routes.cpp                                                      *)
metrics_handler ==
    IF MetricsAuthentication THEN [Authenticated EXCEPT !.errors = {401, 403}] ELSE Stages

-----------------------------------------------------------------------------
Route(method, path, handler) == [method |-> method, path |-> path, handler |-> handler]

register_routes ==
    <<Route("GET", <<"health">>, "health"), Route("GET", <<"ready">>, "ready")>>
    \o (IF RegistrationEnabled
        THEN <<Route("POST", <<"v1", "auth", "register">>, "register")>> ELSE << >>)
    \o <<Route("POST", <<"v1", "auth", "login">>, "login"),
         Route("POST", <<"v1", "auth", "refresh">>, "refresh"),
         Route("POST", <<"v1", "auth", "logout">>, "logout"),
         Route("POST", <<"v1", "auth", "logout-all">>, "logout_all"),
         Route("GET", <<"v1", "users", "me">>, "me"),
         Route("POST", <<"v1", "echo">>, "echo")>>

register_account_routes ==
    <<Route("GET", <<"v1", "auth", "sessions">>, "list_sessions"),
      Route("DELETE", <<"v1", "auth", "sessions", "{id}">>, "revoke_session"),
      Route("POST", <<"v1", "users", "me", "password">>, "change_password")>>

register_admin_routes ==
    <<Route("GET", <<"v1", "admin", "users">>, "list_users"),
      Route("GET", <<"v1", "admin", "users", "{id}">>, "get_user"),
      Route("PATCH", <<"v1", "admin", "users", "{id}", "status">>, "set_user_status")>>

register_rbac_routes ==
    <<Route("GET", <<"v1", "admin", "roles">>, "list_roles"),
      Route("GET", <<"v1", "admin", "permissions">>, "list_permissions"),
      Route("GET", <<"v1", "admin", "users", "{id}", "roles">>, "list_user_roles"),
      Route("POST", <<"v1", "admin", "users", "{id}", "roles">>, "assign_role"),
      Route("DELETE", <<"v1", "admin", "users", "{id}", "roles", "{role}">>, "revoke_role")>>

register_audit_routes ==
    <<Route("GET", <<"v1", "admin", "audit-events">>, "list_audit_events")>>

register_metrics_routes == <<Route("GET", <<"metrics">>, "metrics")>>

(* In the order ServerApplication registers them.                          *)
Routes ==
    register_routes \o register_admin_routes \o register_account_routes
    \o register_rbac_routes \o register_audit_routes \o register_metrics_routes

RouteTable == FoldLeft(add_route, EmptyTable, Routes)

Handlers ==
    [health |-> health_handler, ready |-> ready_handler, register |-> register_handler,
     login |-> login_handler, refresh |-> refresh_handler, logout |-> logout_handler,
     logout_all |-> logout_all_handler, me |-> me_handler, echo |-> echo_handler,
     list_sessions |-> list_sessions_handler, revoke_session |-> revoke_session_handler,
     change_password |-> change_password_handler, list_users |-> list_users_handler,
     get_user |-> get_user_handler, set_user_status |-> set_user_status_handler,
     list_roles |-> list_roles_handler, list_permissions |-> list_permissions_handler,
     list_user_roles |-> list_user_roles_handler, assign_role |-> assign_role_handler,
     revoke_role |-> revoke_role_handler, list_audit_events |-> list_audit_events_handler,
     metrics |-> metrics_handler]
=============================================================================
