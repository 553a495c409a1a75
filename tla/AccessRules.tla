----------------------------- MODULE AccessRules -----------------------------
(***************************************************************************)
(* What a token says of its bearer and what the policies let the bearer do *)
(* (app/core/auth.py, app/core/authz.py), with authentication enabled.     *)
(*                                                                         *)
(* The claims of a token are a record: iss is the realm of its issuer, or  *)
(* None; realm_roles, client_roles and roles are sets; values maps the     *)
(* paths of other claims to what they hold.                                *)
(***************************************************************************)
EXTENDS Naturals, SequencesExt

CONSTANTS
    None,
    PlatformRealm,      \* KEYCLOAK_PLATFORM_REALM
    ExclusiveGroups,    \* AUTH_EXCLUSIVE_ROLE_GROUPS: sets of roles
    TenantPaths         \* AUTH_TENANT_CLAIM: paths [realm, path], in order; realm says
                        \* whether the path begins with the name of the realm

-----------------------------------------------------------------------------
(* Authentication.                                                         *)

ExtractRoles(claims) == claims.realm_roles \cup claims.client_roles \cup claims.roles

SuperAdminOfPlatform(realm, roles) == realm = PlatformRealm /\ "super_admin" \in roles

\* _enforce_role_exclusivity.
RoleConflict(claims, roles) ==
    /\ ~SuperAdminOfPlatform(claims.iss, roles)
    /\ \E group \in ExclusiveGroups :
           Cardinality(group) >= 2 /\ Cardinality(group \cap roles) > 1

\* _get_first_claim: the first of the paths that leads to something.
ResolvePath(claims, p) == IF p.realm THEN <<claims.iss, p.path>> ELSE <<None, p.path>>
FirstClaim(claims, paths) ==
    LET found == {i \in DOMAIN paths :
                     /\ ResolvePath(claims, paths[i]) \in DOMAIN claims.values
                     /\ claims.values[ResolvePath(claims, paths[i])] # None}
    IN  IF found = {} THEN None
        ELSE claims.values[ResolvePath(claims, paths[Min(found)])]

\* _build_auth_context, None when the token is refused.
BuildAuthContext(claims) ==
    LET roles == ExtractRoles(claims)
        tenant == FirstClaim(claims, TenantPaths)
    IN  IF claims.sub = None \/ tenant = None \/ RoleConflict(claims, roles) THEN None
        ELSE [user_id |-> claims.sub, tenant_id |-> tenant, roles |-> roles,
              realm |-> claims.iss]

IsPlatformAdmin(ctx) == SuperAdminOfPlatform(ctx.realm, ctx.roles)

\* effective_authz_roles.
EffectiveRoles(ctx) ==
    IF IsPlatformAdmin(ctx) THEN ctx.roles ELSE ctx.roles \ {"super_admin"}

\* require_role, require_platform_super_admin and require_tenant_admin.
RequireRole(ctx, required) == required # {} => ctx.roles \cap required # {}
RequirePlatformSuperAdmin(ctx) == RequireRole(ctx, {"super_admin"}) /\ IsPlatformAdmin(ctx)
TenantAdminRoles == {"tenant_admin", "platform_admin"}
RequireTenantAdmin(ctx) ==
    /\ RequireRole(ctx, TenantAdminRoles \cup {"super_admin"})
    /\ IsPlatformAdmin(ctx) \/ EffectiveRoles(ctx) \cap TenantAdminRoles # {}

\* require_tenant_header: the tenant a request works on, None when it is refused.  The
\* header is None, an id of a tenant or the key of one.
RequireTenantHeader(ctx, header, isId) ==
    IF header = None THEN IF IsPlatformAdmin(ctx) THEN None ELSE ctx.tenant_id
    ELSE IF isId \/ IsPlatformAdmin(ctx) \/ header = ctx.tenant_id THEN header
    ELSE None

\* TenantMiddleware: what the rest of the request takes for its tenant.
TenantContext(ctx, header) ==
    IF ctx = None THEN header ELSE IF IsPlatformAdmin(ctx) THEN header ELSE ctx.tenant_id

-----------------------------------------------------------------------------
(* Permissions.                                                            *)

Catalogue == {"templates.read", "products.read", "baseline_templates.read"}
SubmissionWrites == {"submissions.create", "submissions.update", "submissions.delete",
                     "submissions.submit"}
TemplateWrites == {"templates.create", "templates.update", "templates.publish"}
ProductWrites == {"products.create", "products.update", "products.delete",
                  "products.activate", "products.deactivate"}
BaselineWrites ==
    {"baseline_templates.create", "baseline_templates.update", "baseline_templates.delete",
     "baseline_templates.definitions.create", "baseline_templates.definitions.update",
     "baseline_templates.definitions.delete"}

\* DEFAULT_ROLE_PERMISSIONS.
DefaultRolePermissions(role) ==
    CASE role = "maker" -> SubmissionWrites \cup Catalogue
                               \cup {"submissions.read", "submissions.comment"}
      [] role = "checker" -> Catalogue \cup {"submissions.read_all", "submissions.transition",
                                             "submissions.comment"}
      [] role \in TenantAdminRoles ->
             Catalogue \cup TemplateWrites \cup ProductWrites
                 \cup {"submissions.read_all", "submissions.comment"}
      [] role = "schema_author" -> BaselineWrites \cup {"baseline_templates.read"}
      [] role = "super_admin" -> {"*"}
      [] OTHER -> {}

\* DEFAULT_ROLE_COLUMN_RULES: a rule is [permission, kind, field], of a role.
DefaultColumns(role) ==
    IF role # "maker" THEN {}
    ELSE {[permission |-> "submissions.read", kind |-> "deny", field |-> f] :
             f \in {"review_notes", "reviewed_by", "reviewed_at"}}

\* _normalize_permission.
Normalize(p) == IF p = "submissions.read_own" THEN "submissions.read" ELSE p

\* The edges of _permission_closure.
Implies(p) ==
    CASE p = "submissions.transition" -> {"submissions.read_all"}
      [] p \in {"submissions.read_all", "submissions.update", "submissions.delete",
                "submissions.submit", "submissions.comment"} -> {"submissions.read"}
      [] p \in ProductWrites -> {"products.read"}
      [] p \in TemplateWrites -> {"templates.read"}
      [] p \in BaselineWrites -> {"baseline_templates.read"}
      [] OTHER -> {}

\* What can be reached from start; no path has more than two edges.
PermissionClosure(start) ==
    LET onward(s) == s \cup UNION {Implies(p) : p \in s}
    IN  onward(onward(start))

\* known_permissions, what "*" is shown as.
KnownPermissions ==
    PermissionClosure(
        UNION {DefaultRolePermissions(role) :
                  role \in {"maker", "checker", "schema_author"} \cup TenantAdminRoles})

Forbidden(role) ==
    CASE role = "maker" -> {"submissions.read_all", "submissions.transition"}
      [] role = "checker" -> SubmissionWrites
      [] OTHER -> {}

\* validate_policy_role_permissions.
RolePermissionsValid(role, permissions) ==
    PermissionClosure({Normalize(p) : p \in permissions}) \cap Forbidden(role) = {}

\* A policy is [mode, roles, columns]: roles maps roles to permissions, columns is a set of
\* rules with their role.  A scope without a policy is one that adds nothing.
NoPolicy == [mode |-> "merge", roles |-> <<>>, columns |-> {}]

\* The checks of the upserts; the first form looks at makers alone.
PolicyValid_Makers(policy) ==
    "maker" \in DOMAIN policy.roles => RolePermissionsValid("maker", policy.roles["maker"])
PolicyValid(policy) ==
    \A role \in DOMAIN policy.roles \cap {"maker", "checker"} :
        RolePermissionsValid(role, policy.roles[role])

\* _merge_role_permissions: policies are the global one and those of the realm and the
\* tenant, in this order.  One that replaces leaves a super_admin everything.
MergeRolePermissions(roles, policies) ==
    LET listed(policy) ==
            UNION {{Normalize(p) : p \in policy.roles[role]} :
                       role \in roles \cap DOMAIN policy.roles}
        kept(perms, policy) ==
            IF policy.mode # "replace" THEN perms
            ELSE UNION {DefaultRolePermissions(role) \cap {"*"} : role \in roles}
    IN  FoldLeft(LAMBDA perms, policy : kept(perms, policy) \cup listed(policy),
                 UNION {DefaultRolePermissions(role) : role \in roles}, policies)

\* _merge_role_columns.
MergeRoleColumns(roles, policies) ==
    LET ofRoles(policy) ==
            {[permission |-> Normalize(c.permission), kind |-> c.kind, field |-> c.field] :
                 c \in {c \in policy.columns : c.role \in roles}}
    IN  FoldLeft(LAMBDA columns, policy :
                     ofRoles(policy) \cup (IF policy.mode = "replace" THEN {} ELSE columns),
                 UNION {DefaultColumns(role) : role \in roles}, policies)

\* get_column_rules.
ColumnRules(columns, permission, kind) ==
    {c.field : c \in {c \in columns : c.permission = permission /\ c.kind = kind}}

\* enforce_write_columns: the fields that may not be written.
FieldsForbidden(columns, permission, fields) ==
    LET allow == ColumnRules(columns, permission, "allow")
    IN  (IF allow = {} THEN {} ELSE fields \ allow)
            \cup (fields \cap ColumnRules(columns, permission, "deny"))

\* require_permission and require_any_permission.
HasPermissions(perms, required) == "*" \in perms \/ required \subseteq perms
HasAnyPermission(perms, required) ==
    "*" \in perms \/ (required # {} => perms \cap required # {})
=============================================================================
