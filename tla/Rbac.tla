-------------------------------- MODULE Rbac --------------------------------
(***************************************************************************)
(* Role-based access control: AdminService, RbacRepository, the enabled    *)
(* and role columns of table users, and the command line tool secure-admin *)
(* that works on the same database file from another process               *)
(* (src/service/admin_service.cpp, src/repository/rbac_repository.cpp,     *)
(* apps/secure_admin/main.cpp).                                            *)
(*                                                                         *)
(* An HTTP call authenticates its caller, then reads the caller's          *)
(* permissions, then changes the target in one IMMEDIATE transaction:      *)
(* three steps, between which other calls and the tool may commit.  A      *)
(* command of the tool decides everything inside its transaction.  What    *)
(* disabling does to the sessions of the account is in AuthSessions.       *)
(***************************************************************************)
EXTENDS Integers, FiniteSets

CONSTANTS
    Users,      \* the accounts that exist or may be registered
    Roles,      \* the built-in roles anybody assigns
    Requests,   \* calls in progress at the same time
    None        \* no caller

BuiltInRoles == {"user", "auditor", "support", "security_admin", "super_admin"}

ASSUME UsersAssumption == IsFiniteSet(Users) /\ None \notin Users
ASSUME RolesAssumption ==
    Roles \subseteq BuiltInRoles /\ {"user", "super_admin"} \subseteq Roles

VARIABLES
    users,      \* the rows of table users
    enabled,    \* users.enabled
    legacy,     \* users.role, the compatibility alias
    roles,      \* user_roles
    call        \* what each HTTP call does, for whom, and where it is

vars == <<users, enabled, legacy, roles, call>>

(* The permissions that guard a change of users or user_roles.             *)
Permissions == {"users.enable", "users.disable", "roles.manage"}

RolePermissions(role) ==
    CASE role = "support" -> {"users.enable"}
      [] role = "security_admin" -> {"users.enable", "users.disable"}
      [] role = "super_admin" -> Permissions
      [] OTHER -> {}

has_permission(u, permission) ==
    \E role \in roles[u] : permission \in RolePermissions(role)

NoCall == [at |-> "idle", user |-> None, permission |-> "roles.manage"]

Call == [at : {"idle", "permission", "change"}, user : Users \cup {None},
         permission : Permissions]

(* After migration 5: every user has the base role, and the accounts that  *)
(* were administrators are super administrators.                           *)
Init ==
    /\ users \in SUBSET Users
    /\ enabled \in [Users -> BOOLEAN]
    /\ \A u \in Users \ users : enabled[u]
    /\ legacy \in [Users -> {"user", "admin"}]
    /\ \A u \in Users \ users : legacy[u] = "user"
    /\ roles = [u \in Users |->
                  IF u \notin users THEN {}
                  ELSE IF legacy[u] = "admin" THEN {"user", "super_admin"}
                  ELSE {"user"}]
    /\ call = [r \in Requests |-> NoCall]

-----------------------------------------------------------------------------
(* UserRepository::create, with role "user" and the trigger                *)
(* assign_default_user_role.                                               *)
Register(u) ==
    /\ u \notin users
    /\ users' = users \cup {u}
    /\ roles' = [roles EXCEPT ![u] = {"user"}]
    /\ UNCHANGED <<enabled, legacy, call>>

-----------------------------------------------------------------------------
(* What the transactions of AdminService and of secure-admin share.        *)

EnabledWithRole(role) == {u \in users : enabled[u] /\ role \in roles[u]}

(* Mutant: the count is compared with the wrong bound.                     *)
LastSuperAdminNever(u) ==
    /\ enabled[u]
    /\ "super_admin" \in roles[u]
    /\ Cardinality(EnabledWithRole("super_admin")) < 1

LastSuperAdmin(u) ==
    /\ enabled[u]
    /\ "super_admin" \in roles[u]
    /\ Cardinality(EnabledWithRole("super_admin")) <= 1

(* Mutant: the alias is not raised.                                        *)
AssignRoleOnly(u, role) ==
    /\ roles' = [roles EXCEPT ![u] = @ \cup {role}]
    /\ UNCHANGED <<users, enabled, legacy>>

assign_role(u, role) ==
    /\ roles' = [roles EXCEPT ![u] = @ \cup {role}]
    /\ legacy' = IF role = "super_admin" THEN [legacy EXCEPT ![u] = "admin"]
                 ELSE legacy
    /\ UNCHANGED <<users, enabled>>

revoke_role(u, role) ==
    /\ role # "user"
    /\ role = "super_admin" => ~LastSuperAdmin(u)
    /\ roles' = [roles EXCEPT ![u] = @ \ {role}]
    /\ legacy' = IF role = "super_admin" THEN [legacy EXCEPT ![u] = "user"]
                 ELSE legacy
    /\ UNCHANGED <<users, enabled>>

set_enabled(u, value) ==
    /\ ~value => ~LastSuperAdmin(u)
    /\ enabled' = [enabled EXCEPT ![u] = value]
    /\ UNCHANGED <<users, legacy, roles>>

-----------------------------------------------------------------------------
(* An HTTP call.                                                           *)

Finish(r) == call' = [call EXCEPT ![r] = NoCall]

(* authenticate_access_token: the account is enabled when its row is read. *)
Authenticate(r, u, permission) ==
    /\ call[r].at = "idle"
    /\ u \in users
    /\ enabled[u]
    /\ call' = [call EXCEPT ![r] = [at |-> "permission", user |-> u,
                                    permission |-> permission]]
    /\ UNCHANGED <<users, enabled, legacy, roles>>

CheckPermission(r) ==
    /\ call[r].at = "permission"
    /\ IF has_permission(call[r].user, call[r].permission)
       THEN call' = [call EXCEPT ![r].at = "change"]
       ELSE Finish(r)
    /\ UNCHANGED <<users, enabled, legacy, roles>>

AssignRole(r, u, role) ==
    /\ call[r].at = "change" /\ call[r].permission = "roles.manage"
    /\ assign_role(u, role)
    /\ Finish(r)

RevokeRole(r, u, role) ==
    /\ call[r].at = "change" /\ call[r].permission = "roles.manage"
    /\ revoke_role(u, role)
    /\ Finish(r)

EnableUser(r, u) ==
    /\ call[r].at = "change" /\ call[r].permission = "users.enable"
    /\ set_enabled(u, TRUE)
    /\ Finish(r)

DisableUser(r, u) ==
    /\ call[r].at = "change" /\ call[r].permission = "users.disable"
    /\ u # call[r].user
    /\ set_enabled(u, FALSE)
    /\ Finish(r)

(* A refusal (self, base role, last super administrator, no such user or   *)
(* role) or an exception: the transaction rolls back.                      *)
Refused(r) ==
    /\ call[r].at # "idle"
    /\ Finish(r)
    /\ UNCHANGED <<users, enabled, legacy, roles>>

-----------------------------------------------------------------------------
(* secure-admin promote, demote, assign-role, revoke-role, enable, disable *)

CliAssign(u, role) == assign_role(u, role) /\ UNCHANGED call

CliRevoke(u, role) == revoke_role(u, role) /\ UNCHANGED call

CliEnable(u) == ~enabled[u] /\ set_enabled(u, TRUE) /\ UNCHANGED call

CliDisable(u) == enabled[u] /\ set_enabled(u, FALSE) /\ UNCHANGED call

-----------------------------------------------------------------------------
HttpStep(r) ==
    \/ \E u \in Users, p \in Permissions : Authenticate(r, u, p)
    \/ \E u \in users :
         \/ \E role \in Roles : AssignRole(r, u, role) \/ RevokeRole(r, u, role)
         \/ EnableUser(r, u) \/ DisableUser(r, u)
    \/ CheckPermission(r) \/ Refused(r)

CliStep(u) ==
    \/ \E role \in Roles : CliAssign(u, role) \/ CliRevoke(u, role)
    \/ CliEnable(u) \/ CliDisable(u)

Next ==
    \/ \E u \in Users : Register(u)
    \/ \E r \in Requests : HttpStep(r)
    \/ \E u \in users : CliStep(u)

Spec == Init /\ [][Next]_vars

-----------------------------------------------------------------------------
(* Every variable has its type, and only an enabled or once enabled user   *)
(* of the table is a caller.                                               *)
TypeOK ==
    /\ users \subseteq Users
    /\ enabled \in [Users -> BOOLEAN]
    /\ legacy \in [Users -> {"user", "admin"}]
    /\ roles \in [Users -> SUBSET Roles]
    /\ call \in [Requests -> Call]
    /\ \A r \in Requests : call[r].at # "idle" => call[r].user \in users

Managers == {u \in users : enabled[u] /\ has_permission(u, "roles.manage")}

(* Once somebody who is enabled can manage roles, somebody always can: no  *)
(* sequence of disabling and revoking, by administrators who race each     *)
(* other, act on permissions they have lost, or use the command line       *)
(* meanwhile, locks everybody out.                                         *)
ManagerRemains == [][Managers # {} => Managers' # {}]_vars

(* The compatibility alias users.role says 'admin' for exactly the super   *)
(* administrators, whichever path granted or revoked the role.             *)
LegacyAliasAgrees ==
    \A u \in Users : legacy[u] = "admin" <=> "super_admin" \in roles[u]

(* The base role is never lost.                                            *)
BaseRoleKept == \A u \in users : "user" \in roles[u]

(* The two tables of rights agree: the alias column follows user_roles and *)
(* no account is without the base role.                                    *)
RoleTablesAgree == LegacyAliasAgrees /\ BaseRoleKept
=============================================================================
