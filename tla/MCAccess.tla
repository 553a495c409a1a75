------------------------------- MODULE MCAccess -------------------------------
(***************************************************************************)
(* One tenant with its realm: the key of the realm is rotated, policies    *)
(* are put for it, and the realm itself comes and goes.                    *)
(***************************************************************************)
EXTENDS Access

MCGroups == {{"maker", "checker"}}
MCTenantPaths == <<[realm |-> FALSE, path |-> "tenant_id"], [realm |-> TRUE, path |-> "tenant_id"]>>

Claims(user, role) ==
    [iss |-> "acme", sub |-> user, realm_roles |-> {role}, client_roles |-> {}, roles |-> {},
     values |-> (<<"acme", "tenant_id">> :> "acme")]
MCKeysOf == "acme" :> {"k1", "k2"}
MCStaticUrls == <<"acme">>
MCTokens == {[claims |-> Claims("m", "maker"), kid |-> "k1"],
             [claims |-> Claims("c", "checker"), kid |-> "k2"]}

MCRegistry == {[id |-> "t1", key |-> "acme", realm |-> "acme"]}
MCContexts == {BuildAuthContext(Claims("c", "checker"))}
MCRoutes == {[required |-> {"submissions.transition"}, any |-> FALSE],
             [required |-> {"submissions.submit"}, any |-> TRUE]}

\* One takes everything but reading from a checker; one would let a checker hand in what it
\* decides on, and is refused.
Policy(mode, role, permissions) ==
    [mode |-> mode, roles |-> role :> permissions, columns |-> {}]
MCPolicies == {Policy("replace", "checker", {"submissions.read"}),
               Policy("merge", "checker", {"submissions.submit"})}

MCBases == <<"raw", "raw/auth">>
MCClients == "other" :> [default |-> "web", clients |-> "web" :> "other-web"]
MCTenantClients == "acme" :> "acme-web"

\* The parts share nothing but the clock and the sessions: each is followed on its own, with
\* the others as they begin.
KeysQuiet ==
    /\ withdrawn = [k \in Kids |-> None] /\ issuer_jwks = [i \in Issuers |-> None]
    /\ static_jwks = {} /\ refresh.left = StaticUrls /\ published = ("acme" :> {"k1"})
    /\ \A c \in Sessions : Idle(c) \/ request[c].stage \notin {"waits", "fetch", "fetched", "decoded"}
PoliciesQuiet ==
    /\ policy_cache = [s \in Scopes |-> None] /\ puts = 0
    /\ \A c \in Sessions : Idle(c) \/ request[c].stage \notin {"load", "loaded", "decides", "put"}
RealmsQuiet ==
    /\ discovered = [r \in Realms |-> None] /\ moves = 0 /\ served = [r \in Realms |-> None]
    /\ \A c \in Sessions :
           Idle(c) \/ request[c].stage \notin {"queue", "ask", "hear", "client", "post", "answered"}
OnePartAtATime ==
    \/ KeysQuiet /\ PoliciesQuiet
    \/ KeysQuiet /\ RealmsQuiet
    \/ PoliciesQuiet /\ RealmsQuiet

Symmetry == Permutations(Sessions)
=============================================================================
