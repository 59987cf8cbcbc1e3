---------------------------- MODULE Rbac_proofs -----------------------------
(***************************************************************************)
(* The properties of Rbac, for every number of users and of calls: the     *)
(* type invariant, the alias, the base role, and that a manager remains.   *)
(***************************************************************************)
EXTENDS Rbac, FiniteSetTheorems, TLAPS

(* A row that does not exist yet has no roles.                             *)
NoRolesBeforeRegistration == \A u \in Users \ users : roles[u] = {}

(* The inductive invariant.  NoRolesBeforeRegistration is what makes the   *)
(* alias hold for a user at the moment of registration.                    *)
IInv ==
    /\ TypeOK
    /\ LegacyAliasAgrees
    /\ BaseRoleKept
    /\ NoRolesBeforeRegistration

(* Mapping of the next-state relation to what it does to the tables: they  *)
(* stay, a user is registered, or a shared transaction of AdminService and *)
(* secure-admin commits.                                                   *)
TablesStep ==
    \/ UNCHANGED <<users, enabled, legacy, roles>>
    \/ \E u \in Users : u \notin users /\ users' = users \cup {u}
                        /\ roles' = [roles EXCEPT ![u] = {"user"}]
                        /\ UNCHANGED <<enabled, legacy>>
    \/ \E u \in users, role \in Roles : assign_role(u, role) \/ revoke_role(u, role)
    \/ \E u \in users, value \in BOOLEAN : set_enabled(u, value)

(* Every step changes the tables in one of those ways: AdminService and    *)
(* secure-admin change them in no other.                                   *)
LEMMA TablesChange == [Next]_vars => TablesStep
<1> SUFFICES ASSUME [Next]_vars PROVE TablesStep
  OBVIOUS
<1>1. CASE UNCHANGED vars
  BY <1>1 DEF vars, TablesStep
<1>2. ASSUME NEW u \in Users, Register(u) PROVE TablesStep
  BY <1>2 DEF Register, TablesStep
<1>3. ASSUME NEW r \in Requests, HttpStep(r) PROVE TablesStep
  <2>1. ASSUME NEW u \in Users, NEW p \in Permissions, Authenticate(r, u, p)
        PROVE TablesStep
    BY <2>1 DEF Authenticate, TablesStep
  <2>2. ASSUME NEW u \in users, NEW role \in Roles,
               AssignRole(r, u, role) \/ RevokeRole(r, u, role)
        PROVE TablesStep
    BY <2>2 DEF AssignRole, RevokeRole, TablesStep
  <2>3. ASSUME NEW u \in users, EnableUser(r, u) \/ DisableUser(r, u)
        PROVE TablesStep
    BY <2>3 DEF EnableUser, DisableUser, TablesStep
  <2>4. CASE CheckPermission(r) \/ Refused(r)
    BY <2>4 DEF CheckPermission, Refused, TablesStep
  <2> QED
    BY <1>3, <2>1, <2>2, <2>3, <2>4 DEF HttpStep
<1>4. ASSUME NEW u \in users, CliStep(u) PROVE TablesStep
  BY <1>4 DEF CliStep, CliAssign, CliRevoke, CliEnable, CliDisable, TablesStep
<1> QED
  BY <1>1, <1>2, <1>3, <1>4 DEF Next

(* A call keeps its type, and its caller is a row of users, because users  *)
(* are never deleted.                                                      *)
LEMMA CallsKeepType == IInv /\ [Next]_vars =>
    /\ call' \in [Requests -> Call]
    /\ \A r \in Requests : call'[r].at # "idle" => call'[r].user \in users
<1> SUFFICES ASSUME IInv, [Next]_vars
             PROVE /\ call' \in [Requests -> Call]
                   /\ \A r \in Requests :
                        call'[r].at # "idle" => call'[r].user \in users
  OBVIOUS
<1> USE DEF IInv, TypeOK
<1>1. CASE UNCHANGED call
  BY <1>1
<1>2. ASSUME NEW r \in Requests, Finish(r)
      PROVE /\ call' \in [Requests -> Call]
            /\ \A q \in Requests : call'[q].at # "idle" => call'[q].user \in users
  BY <1>2 DEF Finish, NoCall, Call, Permissions
<1>3. ASSUME NEW r \in Requests, NEW u \in Users, NEW p \in Permissions,
             Authenticate(r, u, p)
      PROVE /\ call' \in [Requests -> Call]
            /\ \A q \in Requests : call'[q].at # "idle" => call'[q].user \in users
  BY <1>3 DEF Authenticate, Call
<1>4. ASSUME NEW r \in Requests, CheckPermission(r)
      PROVE /\ call' \in [Requests -> Call]
            /\ \A q \in Requests : call'[q].at # "idle" => call'[q].user \in users
  BY <1>2, <1>4 DEF CheckPermission, Call
<1>5. ASSUME NEW r \in Requests, HttpStep(r)
      PROVE (\E q \in Requests : Finish(q)) \/ CheckPermission(r)
            \/ \E u \in Users, p \in Permissions : Authenticate(r, u, p)
  BY <1>5 DEF HttpStep, AssignRole, RevokeRole, EnableUser, DisableUser, Refused
<1>6. ASSUME NEW u \in Users, Register(u) \/ CliStep(u) PROVE UNCHANGED call
  BY <1>6 DEF Register, CliStep, CliAssign, CliRevoke, CliEnable, CliDisable
<1> QED
  BY <1>1, <1>2, <1>3, <1>4, <1>5, <1>6 DEF Next, vars

(* IInv is an invariant.                                                   *)
THEOREM Invariance == Spec => []IInv
<1>1. Init => IInv
  <2> SUFFICES ASSUME Init PROVE IInv
    OBVIOUS
  <2>1. TypeOK
    BY RolesAssumption DEF Init, TypeOK, NoCall, Call, Permissions
  <2>2. LegacyAliasAgrees
    BY DEF Init, LegacyAliasAgrees
  <2>3. BaseRoleKept /\ NoRolesBeforeRegistration
    BY DEF Init, BaseRoleKept, NoRolesBeforeRegistration
  <2> QED
    BY <2>1, <2>2, <2>3 DEF IInv
<1>2. IInv /\ [Next]_vars => IInv'
  <2> SUFFICES ASSUME IInv, [Next]_vars PROVE IInv'
    OBVIOUS
  <2> TablesStep
    BY TablesChange
  <2>0. users \subseteq users' /\ users' \subseteq Users
    BY DEF TablesStep, assign_role, revoke_role, set_enabled, IInv, TypeOK
  <2>1. TypeOK'
    <3>1. enabled' \in [Users -> BOOLEAN]
      BY DEF TablesStep, assign_role, revoke_role, set_enabled, IInv, TypeOK
    <3>2. legacy' \in [Users -> {"user", "admin"}]
      BY DEF TablesStep, assign_role, revoke_role, set_enabled, IInv, TypeOK
    <3>3. roles' \in [Users -> SUBSET Roles]
      BY RolesAssumption
      DEF TablesStep, assign_role, revoke_role, set_enabled, IInv, TypeOK
    <3> QED
      BY <2>0, <3>1, <3>2, <3>3, CallsKeepType DEF TypeOK
  <2>2. LegacyAliasAgrees'
    BY DEF TablesStep, assign_role, revoke_role, set_enabled, IInv, TypeOK,
           LegacyAliasAgrees, NoRolesBeforeRegistration
  <2>3. BaseRoleKept'
    BY DEF TablesStep, assign_role, revoke_role, set_enabled, IInv, TypeOK,
           BaseRoleKept
  <2>4. NoRolesBeforeRegistration'
    BY DEF TablesStep, assign_role, revoke_role, set_enabled, IInv, TypeOK,
           NoRolesBeforeRegistration
  <2> QED
    BY <2>1, <2>2, <2>3, <2>4 DEF IInv
<1> QED
  BY <1>1, <1>2, PTL DEF Spec

(* Every variable keeps its type.                                          *)
THEOREM TypeCorrect == Spec => []TypeOK
<1> IInv => TypeOK
  BY DEF IInv
<1> QED
  BY Invariance, PTL

(* users.role is 'admin' for exactly the super administrators.             *)
THEOREM AliasAgrees == Spec => []LegacyAliasAgrees
<1> IInv => LegacyAliasAgrees
  BY DEF IInv
<1> QED
  BY Invariance, PTL

(* The base role is never lost.                                            *)
THEOREM BaseRole == Spec => []BaseRoleKept
<1> IInv => BaseRoleKept
  BY DEF IInv
<1> QED
  BY Invariance, PTL

-----------------------------------------------------------------------------
(* roles.manage comes with super_admin and with no other role.             *)
LEMMA ManagersAreSuperAdmins == Managers = EnabledWithRole("super_admin")
<1> ASSUME NEW role PROVE "roles.manage" \in RolePermissions(role)
                            <=> role = "super_admin"
  BY DEF RolePermissions, Permissions
<1> QED
  BY DEF Managers, EnabledWithRole, has_permission

(* A finite set with more than one element has another one.                *)
LEMMA AnotherElement ==
    ASSUME NEW S, IsFiniteSet(S), NEW x, ~(Cardinality(S) <= 1)
    PROVE  \E y \in S : y # x
<1>0. Cardinality(S) \in Nat
  BY FS_CardinalityType
<1>1. Cardinality(S \ {x}) >= Cardinality(S) - 1
  BY <1>0, FS_RemoveElement
<1>2. IsFiniteSet(S \ {x}) /\ Cardinality(S \ {x}) # 0
  BY <1>0, <1>1, FS_RemoveElement
<1> QED
  BY <1>2, FS_EmptySet

(* A transaction that would take away an enabled super administrator is    *)
(* refused unless there is another one.                                    *)
LEMMA AnotherSuperAdmin ==
    ASSUME TypeOK, NEW u \in users, ~LastSuperAdmin(u),
           EnabledWithRole("super_admin") # {}
    PROVE  \E v \in EnabledWithRole("super_admin") : v # u
<1>1. IsFiniteSet(EnabledWithRole("super_admin"))
  BY UsersAssumption, FS_Subset DEF TypeOK, EnabledWithRole
<1>2. CASE u \in EnabledWithRole("super_admin")
  BY <1>1, <1>2, AnotherElement DEF LastSuperAdmin, EnabledWithRole
<1>3. CASE u \notin EnabledWithRole("super_admin")
  BY <1>3
<1> QED
  BY <1>2, <1>3

(* Once an enabled user can manage roles, one always can: the check for    *)
(* the last super administrator and the change it guards are in one        *)
(* transaction, in AdminService and in secure-admin alike.                 *)
THEOREM LockoutImpossible == Spec => ManagerRemains
<1>1. ASSUME IInv, IInv', [Next]_vars, Managers # {} PROVE Managers' # {}
  <2> DEFINE Admins == EnabledWithRole("super_admin")
  <2>1. Admins # {} /\ Managers' = Admins'
    <3>1. Managers = Admins
      BY ManagersAreSuperAdmins
    <3>2. Managers' = Admins'
      <4> ASSUME NEW role PROVE "roles.manage" \in RolePermissions(role)
                                  <=> role = "super_admin"
        BY DEF RolePermissions, Permissions
      <4> QED
        BY DEF Managers, EnabledWithRole, has_permission
    <3> QED
      BY <1>1, <3>1, <3>2
  <2> TablesStep
    BY <1>1, TablesChange
  <2> SUFFICES Admins' # {}
    BY <2>1
  <2> USE DEF IInv, TypeOK
  <2>2. CASE UNCHANGED <<users, enabled, legacy, roles>>
    BY <2>1, <2>2 DEF EnabledWithRole
  <2>3. ASSUME NEW u \in Users, u \notin users, users' = users \cup {u},
               roles' = [roles EXCEPT ![u] = {"user"}], UNCHANGED enabled
        PROVE Admins' # {}
    BY <1>1, <2>1, <2>3 DEF EnabledWithRole
  <2>4. ASSUME NEW u \in users, NEW role \in Roles, assign_role(u, role)
        PROVE Admins' # {}
    BY <1>1, <2>1, <2>4 DEF EnabledWithRole, assign_role
  <2>5. ASSUME NEW u \in users, NEW role \in Roles, revoke_role(u, role)
        PROVE Admins' # {}
    <3>1. CASE role = "super_admin"
      <4> PICK v \in Admins : v # u
        BY <1>1, <2>1, <2>5, <3>1, AnotherSuperAdmin DEF revoke_role
      <4> v \in Admins'
        BY <1>1, <2>5 DEF EnabledWithRole, revoke_role
      <4> QED
        OBVIOUS
    <3>2. CASE role # "super_admin"
      BY <1>1, <2>1, <2>5, <3>2 DEF EnabledWithRole, revoke_role
    <3> QED
      BY <3>1, <3>2
  <2>6. ASSUME NEW u \in users, NEW value \in BOOLEAN, set_enabled(u, value)
        PROVE Admins' # {}
    <3>1. CASE value = TRUE
      BY <1>1, <2>1, <2>6, <3>1 DEF EnabledWithRole, set_enabled
    <3>2. CASE value = FALSE
      <4> PICK v \in Admins : v # u
        BY <1>1, <2>1, <2>6, <3>2, AnotherSuperAdmin DEF set_enabled
      <4> v \in Admins'
        BY <1>1, <2>6 DEF EnabledWithRole, set_enabled
      <4> QED
        OBVIOUS
    <3> QED
      BY <3>1, <3>2
  <2> QED
    BY <2>2, <2>3, <2>4, <2>5, <2>6 DEF TablesStep
<1>2. IInv /\ IInv' /\ [Next]_vars => [Managers # {} => Managers' # {}]_vars
  BY <1>1
<1> QED
  BY <1>2, Invariance, PTL DEF Spec, ManagerRemains

(* No sequence of grants, revocations and registrations separates users    *)
(* from user_roles.                                                        *)
THEOREM TablesAgree == Spec => []RoleTablesAgree
<1>1. LegacyAliasAgrees /\ BaseRoleKept => RoleTablesAgree
  BY DEF RoleTablesAgree
<1> QED
  BY <1>1, AliasAgrees, BaseRole, PTL
=============================================================================
