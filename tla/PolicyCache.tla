----------------------------- MODULE PolicyCache -----------------------------
(***************************************************************************)
(* The policies that map roles to permissions (app/core/authz.py): a       *)
(* worker remembers each for a while, and several requests fill what it    *)
(* remembers at once, while policies are replaced                          *)
(* (app/services/authz/policy.py).                                         *)
(*                                                                         *)
(* A tenant is [id, key, realm], a route [required, any].  The scope of a  *)
(* policy is <<"global", None>>, <<"realm", key>> or <<"tenant", id>>.     *)
(***************************************************************************)
EXTENDS Worker

CONSTANTS
    Registry,       \* the tenants
    Contexts,       \* what the tokens say of those who come
    Routes,
    Policies,       \* what may be PUT
    PolicyTTL,      \* AUTHZ_CACHE_TTL_SECONDS, for which 0 is the default
    MaxPuts         \* a bound on the policies put

VARIABLES
    policies,       \* scope -> the rows of authz_policies, by their documents
    policy_cache,   \* _GLOBAL_CACHE and _TENANT_CACHE: scope -> None or [policy, expires]
    replaced,       \* scope -> the policies it had before -> when they were replaced
    puts

policyVars == <<policies, policy_cache, replaced, puts>>

Global == <<"global", None>>
Scopes ==
    {Global} \cup {<<"tenant", t.id>> : t \in Registry}
        \cup {<<"realm", k>> : k \in {ctx.tenant_id : ctx \in Contexts}
                                   \cup {ctx.realm : ctx \in Contexts}
                                   \cup {t.key : t \in Registry}}

ASSUME PoliciesOK ==
    /\ PolicyTTL \in Nat \ {0} /\ MaxPuts \in Nat /\ MaxTime \in Nat
    /\ \A t, u \in Registry : t # u => {t.id, t.key, t.realm} \cap {u.id, u.key, u.realm} = {}

PoliciesTypeOK ==
    /\ \A s \in Scopes : Range(policies[s]) \subseteq Policies \cup {NoPolicy}
    /\ \A s \in Scopes : policy_cache[s] # None => policy_cache[s].expires <= MaxTime + PolicyTTL
    /\ policies[Global] # <<>>

\* The migrations insert the global policy, which nothing deletes.
PoliciesInit ==
    /\ policies = [s \in Scopes |-> IF s = Global THEN <<NoPolicy>> ELSE <<>>]
    /\ policy_cache = [s \in Scopes |-> None]
    /\ replaced = [s \in Scopes |-> <<>>]
    /\ puts = 0

-----------------------------------------------------------------------------

\* The scopes a route goes through: it knows the tenant by the key or the realm that the
\* token names.
TenantScope(tenants) == IF tenants = {} THEN <<>> ELSE <<<<"tenant", (CHOOSE t \in tenants : TRUE).id>>>>
RouteScopes(ctx) ==
    <<Global, <<"realm", ctx.tenant_id>>>>
        \o TenantScope({t \in Registry : ctx.tenant_id \in {t.key, t.realm}})

\* Those /me goes through: it knows the tenant by its id as well, and takes the policy of
\* the realm by the key of the tenant.
MeScopes(ctx) ==
    LET tenants == {t \in Registry : ctx.tenant_id \in {t.id, t.key, t.realm}}
    IN  <<Global,
          <<"realm", IF tenants # {} THEN (CHOOSE t \in tenants : TRUE).key
                     ELSE IF ctx.realm # None THEN ctx.realm ELSE ctx.tenant_id>>>>
            \o TenantScope(tenants)

ScopesOf(r) == IF r.me THEN MeScopes(r.ctx) ELSE RouteScopes(r.ctx)

\* What a request that began at now gets from the cache after found, until it comes to a
\* scope that must be loaded.
PolicyFresh(cached, now) == cached # None /\ cached.expires > now
Gathered(scopes, cache, found, now) ==
    LET reach == Max({n \in Len(found)..Len(scopes) :
                         \A k \in (Len(found) + 1)..n : PolicyFresh(cache[scopes[k]], now)})
    IN  [k \in 1..reach |-> IF k <= Len(found) THEN found[k] ELSE cache[scopes[k]].policy]

\* The request with what it has found: it goes on loading, or it has all it needs.
WithPolicies(r, cache, found) ==
    LET got == Gathered(ScopesOf(r), cache, found, r.now)
    IN  [stage |-> IF Len(got) = Len(ScopesOf(r)) THEN "decides" ELSE "load",
         ctx |-> r.ctx, me |-> r.me, now |-> r.now, found |-> got]

\* require_permission, require_any_permission and /me, to which a platform super admin
\* comes like everybody: get_effective_policy begins.
Authorize(c, ctx, me) ==
    /\ Idle(c)
    /\ me \/ ~IsPlatformAdmin(ctx)
    /\ Is(c, WithPolicies([ctx |-> ctx, me |-> me, now |-> clock], policy_cache, <<>>))
    /\ UNCHANGED policyVars

NextScope(r) == ScopesOf(r)[Len(r.found) + 1]

\* _load_policy: any row of the scope, as no order is asked for.
LoadPolicy(c) ==
    /\ At(c, "load")
    /\ LET r == request[c]
           rows == policies[NextScope(r)]
       IN  \E policy \in IF rows = <<>> THEN {NoPolicy} ELSE Range(rows) :
               Is(c, [stage |-> "loaded", ctx |-> r.ctx, me |-> r.me, now |-> r.now,
                      found |-> r.found, policy |-> policy])
    /\ UNCHANGED policyVars

\* An entry lasts from the time the request began to look; the first form lets it last
\* from when it is made.
Entry_FromNow(r) == [policy |-> r.policy, expires |-> clock + PolicyTTL]
Entry(r) == [policy |-> r.policy, expires |-> r.now + PolicyTTL]

StorePolicy(c) ==
    /\ At(c, "loaded")
    /\ LET r == request[c]
       IN  /\ policy_cache' = [policy_cache EXCEPT ![NextScope(r)] = Entry(r)]
           /\ Is(c, WithPolicies(r, policy_cache', Append(r.found, r.policy)))
    /\ UNCHANGED <<policies, replaced, puts>>

\* What the request is let do.
PermissionsOf(r) == MergeRolePermissions(EffectiveRoles(r.ctx), r.found)
Granted(r, route) ==
    IF route.any THEN HasAnyPermission(PermissionsOf(r), route.required)
    ELSE HasPermissions(PermissionsOf(r), route.required)

\* It goes on to its route, or not; or /me answers.
Decide(c) ==
    /\ At(c, "decides")
    /\ Close(c)
    /\ UNCHANGED policyVars

\* A platform super admin PUTs a policy: the row is read, if there is one, then written; a
\* document that is the one that was read is not.
PutBegin(c, scope, policy) ==
    /\ Idle(c)
    /\ PolicyValid(policy)
    /\ \E row \in IF policies[scope] = <<>> THEN {0} ELSE DOMAIN policies[scope] :
           Is(c, [stage |-> "put", scope |-> scope, row |-> row, policy |-> policy,
                  base |-> IF row = 0 THEN None ELSE policies[scope][row]])
    /\ UNCHANGED policyVars

Noted(times, policy) ==
    [p \in DOMAIN times \cup {policy} |-> IF p = policy THEN clock ELSE times[p]]
PutCommit(c) ==
    /\ At(c, "put")
    /\ puts < MaxPuts /\ puts' = puts + 1
    /\ LET r == request[c]
           rows == policies[r.scope]
           old == IF rows = <<>> THEN NoPolicy ELSE rows[1]
       IN  /\ policies' = [policies EXCEPT ![r.scope] =
                              IF r.row = 0 THEN Append(@, r.policy)
                              ELSE IF r.base = r.policy THEN @
                              ELSE [@ EXCEPT ![r.row] = r.policy]]
           /\ replaced' = IF policies'[r.scope][1] = old THEN replaced
                          ELSE [replaced EXCEPT ![r.scope] = Noted(@, old)]
    /\ Close(c)
    /\ UNCHANGED policy_cache

PoliciesNext ==
    \E c \in Sessions :
        \/ \E ctx \in Contexts, me \in BOOLEAN : Authorize(c, ctx, me)
        \/ LoadPolicy(c) \/ StorePolicy(c) \/ Decide(c)
        \/ \E scope \in Scopes, policy \in Policies : PutBegin(c, scope, policy)
        \/ PutCommit(c)

-----------------------------------------------------------------------------

\* A policy that was replaced decides no request that began to look PolicyTTL or more after,
\* however slow the loads are and in whatever order they fill the cache; unless two first
\* PUTs at once have left its scope with two rows (get_effective_policy).
ReplacedWithinTTL ==
    \A c \in Sessions : At(c, "decides") =>
        \A k \in DOMAIN request[c].found :
            LET s == ScopesOf(request[c])[k]
                policy == request[c].found[k]
            IN  \/ Len(policies[s]) > 1
                \/ policy \in Range(policies[s])
                \/ policies[s] = <<>> /\ policy = NoPolicy
                \/ /\ policy \in DOMAIN replaced[s]
                   /\ request[c].now < replaced[s][policy] + PolicyTTL

\* Whatever policies that may be PUT are in force, one who is only a maker, or only a
\* checker, is let into no route that is forbidden to the role, as long as none of them
\* grants "*" (validate_policy_role_permissions, the merge and the caches).
RolesStayApart ==
    \A c \in Sessions : At(c, "decides") =>
        LET r == request[c]
        IN  \A role \in {"maker", "checker"} :
                /\ r.ctx.roles = {role}
                /\ \A k \in DOMAIN r.found :
                       role \in DOMAIN r.found[k].roles => "*" \notin r.found[k].roles[role]
                => \A route \in Routes :
                       Granted(r, route) =>
                           \/ route.required = {}
                           \/ ~(route.required \subseteq Forbidden(role))
=============================================================================
