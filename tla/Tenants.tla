-------------------------------- MODULE Tenants --------------------------------
(***************************************************************************)
(* Tenants come and go: a row of the registry, a schema of the database    *)
(* and a realm of Keycloak that no transaction spans                       *)
(* (app/services/tenants/tenant.py, app/db/migrations.py,                  *)
(* app/integrations/keycloak/admin.py).                                    *)
(*                                                                         *)
(* A request that makes or removes one goes through stages, each of which  *)
(* can fail.  A client counts as there when it has its mappers.            *)
(***************************************************************************)
EXTENDS Requests

CONSTANTS
    TenantIds, Keys, Usernames,
    ProvisioningEnabled, ProvisioningRequired,  \* settings
    BootstrapUsers,     \* the users a new realm gets, as <<name, roles>>
    RoleSets,           \* what roles a user may be asked for with
    MaxCrashes

VARIABLES
    tenants,        \* TenantIds -> row of the registry, None or Deleted
    schemas,        \* Keys -> "none", "empty" or "ready"
    realms,         \* Keys -> realm, or None
    links,          \* rows of identity_links, as <<tenant, user>>
    crashes,
    blamed          \* tenants that more than one thing has happened to

tenantVars == <<tenants, schemas, realms, links, crashes, blamed>>

AllowedRoles == {"tenant_admin", "schema_author", "platform_admin", "maker", "checker"}

TenantRow == [key : Keys, active : BOOLEAN, client : BOOLEAN]
Realm == [roles : BOOLEAN, client : BOOLEAN, users : [Usernames -> (SUBSET AllowedRoles) \cup {None}]]

\* A request that makes a tenant and one that removes it.
Accounts == Seq(Usernames \X SUBSET AllowedRoles)
Creation == [op : {"create"}, id : TenantIds, key : Keys, made : BOOLEAN, exposed : BOOLEAN,
             at : {"schema", "migrate", "realm", "roles", "client", "save", "account", "assign",
                   "unmake", "deactivate", "drop", "erase"},
             accounts : Accounts]
Removal == [op : {"remove"}, id : TenantIds, key : Keys, at : {"drop", "erase"}, exposed : {TRUE}]

\* _load_bootstrap_users refuses other roles.
TenantsOK ==
    /\ ProvisioningRequired => ProvisioningEnabled
    /\ BootstrapUsers \in Accounts
    /\ {None, Deleted} \cap TenantRow = {}
    /\ None \notin Realm /\ None \notin Creation /\ None \notin Removal
ASSUME TenantsOK

TenantsTypeOK ==
    /\ tenants \in [TenantIds -> TenantRow \cup {None, Deleted}]
    /\ schemas \in [Keys -> {"none", "empty", "ready"}]
    /\ realms \in [Keys -> Realm \cup {None}]
    /\ links \subseteq TenantIds \X Usernames
    /\ blamed \subseteq TenantIds

TenantsInit ==
    /\ tenants = [t \in TenantIds |-> None]
    /\ schemas = [k \in Keys |-> "none"]
    /\ realms = [k \in Keys |-> None]
    /\ links = {} /\ crashes = 0 /\ blamed = {}

OfKey(k) == {t \in TenantIds : Lives(tenants[t]) /\ tenants[t].key = k}

-----------------------------------------------------------------------------
(* Where a request is.                                                     *)

At(c, stage) == ~Idle(c) /\ request[c].op \in {"create", "remove", "user"} /\ request[c].at = stage
GoesTo(c, stage) == Is(c, [request[c] EXCEPT !.at = stage])
For(c) == request[c].id
Key(c) == request[c].key

\* What is left to do when accounts have been made.
AfterAccounts(c) ==
    IF Len(request[c].accounts) > 1
    THEN Is(c, [request[c] EXCEPT !.at = "account", !.accounts = Tail(@)])
    ELSE IF request[c].op = "user" THEN GoesTo(c, "link") ELSE Close(c)

-----------------------------------------------------------------------------
(* create_tenant.                                                          *)

\* The row is there, and active, before anything else is.
Register(c, t, k) ==
    /\ Idle(c) /\ tenants[t] = None
    /\ OfKey(k) = {}
    /\ tenants' = [tenants EXCEPT ![t] = [key |-> k, active |-> TRUE, client |-> FALSE]]
    /\ Is(c, [op |-> "create", id |-> t, key |-> k, at |-> "schema", made |-> FALSE,
              exposed |-> FALSE, accounts |-> BootstrapUsers])
    /\ UNCHANGED <<schemas, realms, links, crashes, blamed>>

\* provision_tenant_schema.
Started(k) == schemas' = [schemas EXCEPT ![k] = IF @ = "none" THEN "empty" ELSE @]
MakeSchema(c) ==
    /\ At(c, "schema")
    /\ Started(Key(c))
    /\ GoesTo(c, "migrate")
    /\ UNCHANGED <<tenants, realms, links, crashes, blamed>>

\* upgrade_tenant_schema, which makes a schema that is not there.
Upgraded(k) == schemas' = [schemas EXCEPT ![k] = "ready"]
Migrate(c) ==
    /\ At(c, "migrate")
    /\ Upgraded(Key(c))
    /\ IF ProvisioningEnabled THEN GoesTo(c, "realm") ELSE Close(c)
    /\ UNCHANGED <<tenants, realms, links, crashes, blamed>>

\* ensure_realm tells whether it made it.
EnsureRealm(c) ==
    /\ At(c, "realm")
    /\ realms' = [realms EXCEPT ![Key(c)] =
                     IF @ # None THEN @
                     ELSE [roles |-> FALSE, client |-> FALSE, users |-> [u \in Usernames |-> None]]]
    /\ Is(c, [request[c] EXCEPT !.at = "roles", !.made = (realms[Key(c)] = None)])
    /\ UNCHANGED <<tenants, schemas, links, crashes, blamed>>

EnsureRoles(c) ==
    /\ At(c, "roles") /\ realms[Key(c)] # None
    /\ realms' = [realms EXCEPT ![Key(c)].roles = TRUE]
    /\ GoesTo(c, "client")
    /\ UNCHANGED <<tenants, schemas, links, crashes, blamed>>

\* ensure_client_with_mappers.
EnsureClient(c) ==
    /\ At(c, "client") /\ realms[Key(c)] # None
    /\ realms' = [realms EXCEPT ![Key(c)].client = TRUE]
    /\ GoesTo(c, IF request[c].op = "user" THEN "account" ELSE "save")
    /\ UNCHANGED <<tenants, schemas, links, crashes, blamed>>

SaveClient(c) ==
    /\ At(c, "save") /\ Lives(tenants[For(c)])
    /\ tenants' = [tenants EXCEPT ![For(c)].client = TRUE]
    /\ IF request[c].accounts = <<>> THEN Close(c) ELSE GoesTo(c, "account")
    /\ UNCHANGED <<schemas, realms, links, crashes, blamed>>

\* ensure_user, set_user_password and assign_realm_roles, as _bootstrap_tenant_realm_users and
\* create_tenant_user call them: who is there keeps the roles he has.  An account is its
\* roles, and its password is not told apart.
Holder(c) == request[c].accounts[1][1]

EnsureUser(c) ==
    /\ At(c, "account") /\ realms[Key(c)] # None
    /\ realms' = [realms EXCEPT ![Key(c)].users[Holder(c)] = IF @ = None THEN {} ELSE @]
    /\ GoesTo(c, "assign")
    /\ UNCHANGED <<tenants, schemas, links, crashes, blamed>>

AssignRoles(c) ==
    /\ At(c, "assign")
    /\ realms[Key(c)] # None /\ realms[Key(c)].roles /\ realms[Key(c)].users[Holder(c)] # None
    /\ realms' = [realms EXCEPT ![Key(c)].users[Holder(c)] = @ \cup request[c].accounts[1][2]]
    /\ AfterAccounts(c)
    /\ UNCHANGED <<tenants, schemas, links, crashes, blamed>>

\* Any of these can fail.  What create_tenant does then depends on how far it was and on
\* whether a realm is required; the first form keeps the tenant as if none was.
AfterFailure_Kept(c) == IF request[c].at \in {"schema", "migrate"} THEN "drop" ELSE "kept"
AfterFailure(c) ==
    IF request[c].at \in {"schema", "migrate"} THEN "drop"
    ELSE IF ~ProvisioningRequired THEN "kept"
    ELSE IF request[c].made THEN "unmake" ELSE "deactivate"

Fails(c) ==
    /\ \E stage \in {"schema", "migrate", "realm", "roles", "client", "save", "account", "assign"} : At(c, stage)
    /\ IF At(c, "migrate") THEN Started(Key(c)) ELSE UNCHANGED schemas
    /\ IF request[c].op = "user" \/ AfterFailure(c) = "kept" THEN Close(c)
       ELSE Is(c, [request[c] EXCEPT !.at = AfterFailure(c), !.exposed = (AfterFailure(c) = "drop")])
    /\ UNCHANGED <<tenants, realms, links, crashes, blamed>>

-----------------------------------------------------------------------------
(* What is done to undo it, each step of which is left out if it fails,    *)
(* and delete_tenant with hard_delete, which ends at the first that does.  *)

Unmake(c) ==
    /\ At(c, "unmake")
    /\ \/ realms' = [realms EXCEPT ![Key(c)] = None] /\ blamed' = blamed \cup (OfKey(Key(c)) \ {For(c)})
       \/ UNCHANGED <<realms, blamed>>
    /\ GoesTo(c, "deactivate")
    /\ UNCHANGED <<tenants, schemas, links, crashes>>

Deactivate(c) ==
    /\ At(c, "deactivate")
    /\ \/ /\ Lives(tenants[For(c)])
          /\ tenants' = [tenants EXCEPT ![For(c)].active = FALSE]
          /\ GoesTo(c, "drop")
       \/ Is(c, [request[c] EXCEPT !.at = "drop", !.exposed = TRUE]) /\ UNCHANGED tenants
    /\ UNCHANGED <<schemas, realms, links, crashes, blamed>>

\* drop_tenant_schema: by the key, whoever has it.
Drop(c) ==
    /\ At(c, "drop")
    /\ \/ /\ schemas' = [schemas EXCEPT ![Key(c)] = "none"]
          /\ blamed' = blamed \cup (OfKey(Key(c)) \ {For(c)})
          /\ GoesTo(c, "erase")
       \/ /\ IF request[c].op = "remove" THEN Close(c) ELSE GoesTo(c, "erase")
          /\ UNCHANGED <<schemas, blamed>>
    /\ UNCHANGED <<tenants, realms, links, crashes>>

Erase(c) ==
    /\ At(c, "erase")
    /\ \/ /\ tenants' = [tenants EXCEPT ![For(c)] = Deleted]
          /\ UNCHANGED blamed
       \/ /\ blamed' = IF request[c].exposed THEN blamed \cup {For(c)} ELSE blamed
          /\ UNCHANGED tenants
    /\ Close(c)
    /\ UNCHANGED <<schemas, realms, links, crashes>>

HardDelete(c, t) ==
    /\ Idle(c) /\ Lives(tenants[t])
    /\ Is(c, [op |-> "remove", id |-> t, key |-> tenants[t].key, at |-> "drop", exposed |-> TRUE])
    /\ UNCHANGED tenantVars

\* update_tenant, and delete_tenant without hard_delete.
Attended(t) == \E c \in Sessions : /\ ~Idle(c) /\ request[c].op \in {"create", "remove"}
                                   /\ request[c].id = t
Needs(t) == {"schema"} \cup IF ProvisioningRequired THEN {"client"} ELSE {}
Has(t) ==
    LET k == tenants[t].key
    IN  (IF schemas[k] = "ready" THEN {"schema"} ELSE {})
        \cup (IF tenants[t].client /\ realms[k] # None /\ realms[k].client THEN {"client"} ELSE {})
Halfway(t) == Lives(tenants[t]) /\ tenants[t].active /\ ~(Needs(t) \subseteq Has(t))

UpdateTenant(t, active) ==
    /\ Lives(tenants[t])
    /\ tenants[t].active # active
    /\ tenants' = [tenants EXCEPT ![t].active = active]
    /\ UNCHANGED <<schemas, realms, links, crashes, request>>
    /\ blamed' = IF active /\ (Halfway(t)' \/ Attended(t)) THEN blamed \cup {t} ELSE blamed

-----------------------------------------------------------------------------
(* Users, deployments and crashes.                                         *)

\* create_tenant_user.
RolesAllowed(roles) ==
    roles # {} /\ roles \subseteq AllowedRoles /\ ~({"maker", "checker"} \subseteq roles)

CreateUser(c, t, u, roles) ==
    /\ Idle(c) /\ ProvisioningEnabled
    /\ Lives(tenants[t]) /\ RolesAllowed(roles)
    /\ Is(c, [op |-> "user", id |-> t, key |-> tenants[t].key, at |-> "realm", made |-> FALSE,
              accounts |-> <<<<u, roles>>>>])
    /\ UNCHANGED tenantVars

\* _upsert_identity_link, which may fail.
Link(c) ==
    /\ At(c, "link")
    /\ links' \in {links, links \cup {<<For(c), Holder(c)>>}}
    /\ Close(c)
    /\ UNCHANGED <<tenants, schemas, realms, crashes, blamed>>

\* upgrade_all_tenants goes through the tenants that were active, up to the first that fails.
Deploy(c) ==
    /\ Idle(c)
    /\ \E order \in SetToSeqs({t \in TenantIds : Lives(tenants[t]) /\ tenants[t].active}) :
           /\ order # <<>>
           /\ Is(c, [op |-> "deploy", todo |-> [i \in DOMAIN order |-> tenants[order[i]].key]])
    /\ UNCHANGED tenantVars

DeployOne(c) ==
    /\ Does(c, "deploy")
    /\ LET left == Tail(request[c].todo)
       IN  \/ /\ Upgraded(Head(request[c].todo))
              /\ IF left = <<>> THEN Close(c) ELSE Is(c, [request[c] EXCEPT !.todo = left])
           \/ Started(Head(request[c].todo)) /\ Close(c)
    /\ UNCHANGED <<tenants, realms, links, crashes, blamed>>

\* The process goes with a request half done; or what no handler catches ends it, such as a
\* failure of the refresh after the row was made.  To a user or a deployment it is Fails.
Crash(c) ==
    /\ ~Idle(c) /\ request[c].op \in {"create", "remove"}
    /\ crashes < MaxCrashes
    /\ crashes' = crashes + 1
    /\ blamed' = blamed \cup {For(c)}
    /\ Close(c)
    /\ UNCHANGED <<tenants, schemas, realms, links>>

TenantsNext ==
    \/ \E t \in TenantIds, active \in BOOLEAN : UpdateTenant(t, active)
    \/ \E c \in Sessions :
           \/ \E t \in TenantIds :
                  \/ \E k \in Keys : Register(c, t, k)
                  \/ HardDelete(c, t)
                  \/ \E u \in Usernames, roles \in RoleSets : CreateUser(c, t, u, roles)
           \/ MakeSchema(c) \/ Migrate(c) \/ EnsureRealm(c) \/ EnsureRoles(c) \/ EnsureClient(c)
           \/ SaveClient(c) \/ EnsureUser(c) \/ AssignRoles(c) \/ Fails(c)
           \/ Unmake(c) \/ Deactivate(c) \/ Drop(c) \/ Erase(c) \/ Link(c)
           \/ Deploy(c) \/ DeployOne(c) \/ Crash(c)

\* A tenant that is let in and lacks what it needs is being made or removed, or more than one
\* thing has gone wrong with it: the process ended meanwhile, the step that was to take the
\* row away failed where none had made it inactive, the tenant was activated by hand, or a
\* request for an earlier tenant of the same key removed what is its own (create_tenant,
\* delete_tenant).
NoTenantHalfway ==
    \A t \in TenantIds : Halfway(t) => Attended(t) \/ t \in blamed
=============================================================================
