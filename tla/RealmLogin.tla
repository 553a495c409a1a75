------------------------------ MODULE RealmLogin ------------------------------
(***************************************************************************)
(* The routes that log in through Keycloak (app/routes/auth/routes.py): a  *)
(* worker asks whether a realm is there, at each address Keycloak may be   *)
(* at, and remembers the answer; then it asks for a token as the client of *)
(* the realm.                                                              *)
(***************************************************************************)
EXTENDS Worker

CONSTANTS
    Realms,
    AllowedRealms,  \* KEYCLOAK_REALMS: a set; empty, those that are found are allowed
    Bases,          \* _candidate_keycloak_bases: a sequence
    Clients,        \* KEYCLOAK_CLIENTS_JSON: realm -> [default, clients], if it names it;
                    \* clients is a function of aliases
    TenantClients,  \* realm -> the client in its row of tenants, if there is one
    DefaultClient,  \* KEYCLOAK_CLIENT_ID
    RealmTTL,       \* KEYCLOAK_REALM_DISCOVERY_TTL_SECONDS
    MissingTTL,     \* 60 seconds
    MaxMoves        \* a bound on the realms that come and go

VARIABLES
    served,         \* Realms -> where Keycloak serves it, or None
    since,          \* Realms -> since when
    discovered,     \* _REALM_DISCOVERY_CACHE: Realms -> None or [at, exists]
    moves

realmVars == <<served, since, discovered, moves>>

ASSUME RealmsOK ==
    /\ RealmTTL \in Nat /\ MissingTTL \in Nat \ {0} /\ MaxMoves \in Nat
    /\ Bases \in Seq(Range(Bases)) \ {<<>>}
    /\ AllowedRealms \subseteq Realms
    /\ \A r \in DOMAIN Clients : Clients[r].default \in DOMAIN Clients[r].clients

RealmsTypeOK ==
    \A r \in Realms : discovered[r] # None => discovered[r].at <= clock

RealmsInit ==
    /\ served \in [Realms -> Range(Bases) \cup {None}]
    /\ since = [r \in Realms |-> 0]
    /\ discovered = [r \in Realms |-> None]
    /\ moves = 0

\* A realm is created or deleted (external).
MoveRealm(realm) ==
    /\ moves < MaxMoves /\ moves' = moves + 1
    /\ served' = [served EXCEPT ![realm] = IF @ = None THEN Bases[Len(Bases)] ELSE None]
    /\ since' = [since EXCEPT ![realm] = clock]
    /\ UNCHANGED <<discovered, request>>

\* Whether what is remembered of a realm will do for a request that began at now: that it is
\* missing is remembered for a shorter time.  The first form keeps both as long.
RealmFresh_OneTTL(realm, now) ==
    /\ discovered[realm] # None
    /\ RealmTTL = 0 \/ now - discovered[realm].at < RealmTTL
RealmFresh(realm, now) ==
    /\ discovered[realm] # None
    /\ \/ RealmTTL = 0
       \/ now - discovered[realm].at <
              IF discovered[realm].exists THEN RealmTTL ELSE Min({RealmTTL, MissingTTL})

Answer(r, status) == [stage |-> "answered", realm |-> r.realm, now |-> r.now, status |-> status]
Found(r, exists) == IF exists THEN [r EXCEPT !.stage = "client"] ELSE Answer(r, 404)

\* login, refresh and service_token, to which alone a client is named: _realm_allowed.
Login(c, realm, alias) ==
    /\ Idle(c)
    /\ LET r == [stage |-> "queue", realm |-> realm, alias |-> alias, now |-> clock, base |-> 1,
                 answer |-> None]
       IN  Is(c, IF AllowedRealms # {} THEN Found(r, realm \in AllowedRealms)
                 ELSE IF RealmFresh(realm, clock) THEN Found(r, discovered[realm].exists)
                 ELSE r)
    /\ UNCHANGED realmVars

\* _discover_realm_exists_with_attempts: one request has the lock while it asks, and looks
\* again first, as of when it began.
Discover(c) ==
    /\ At(c, "queue")
    /\ ~\E d \in Sessions : At(d, "ask") \/ At(d, "hear")
    /\ LET r == request[c]
       IN  Is(c, IF RealmFresh(r.realm, r.now) THEN Found(r, discovered[r.realm].exists)
                 ELSE [r EXCEPT !.stage = "ask"])
    /\ UNCHANGED realmVars

\* Keycloak answers at one address (external), or fails to.
AskRealm(c) ==
    /\ At(c, "ask")
    /\ LET r == request[c]
       IN  \E answer \in {IF served[r.realm] = Bases[r.base] THEN 200 ELSE 404, 502} :
               Is(c, [r EXCEPT !.stage = "hear", !.answer = answer])
    /\ UNCHANGED realmVars

\* An address that does not know the realm leads to the next.
HearRealm(c) ==
    /\ At(c, "hear")
    /\ LET r == request[c]
       IN  \/ /\ r.answer = 404 /\ r.base < Len(Bases)
              /\ Is(c, [r EXCEPT !.stage = "ask", !.base = @ + 1])
              /\ UNCHANGED discovered
           \/ /\ r.answer = 200 \/ (r.answer = 404 /\ r.base = Len(Bases))
              /\ discovered' = [discovered EXCEPT ![r.realm] =
                                   [at |-> r.now, exists |-> r.answer = 200]]
              /\ Is(c, Found(r, r.answer = 200))
           \/ /\ r.answer = 502
              /\ Is(c, Answer(r, 502))
              /\ UNCHANGED discovered
    /\ UNCHANGED <<served, since, moves>>

\* _client_from_mapping: None if the mapping does not say, "unknown" if it refuses.
ClientFromMapping(realm, alias) ==
    IF realm \notin DOMAIN Clients THEN None
    ELSE LET entry == Clients[realm]
             selected == IF alias = None THEN entry.default ELSE alias
         IN  IF selected \in DOMAIN entry.clients THEN entry.clients[selected] ELSE "unknown"

\* _client_for_realm_async: the mapping, then the row of the tenant if the database gives it
\* in half a second, then the default client.
FindClient(c) ==
    /\ At(c, "client")
    /\ LET r == request[c]
           mapped == ClientFromMapping(r.realm, r.alias)
           rows == IF r.realm \in DOMAIN TenantClients THEN {TenantClients[r.realm]} ELSE {}
       IN  IF mapped = "unknown" THEN Is(c, Answer(r, 400))
           ELSE \E client \in IF mapped # None THEN {mapped} ELSE rows \cup {DefaultClient} :
                    Is(c, [r EXCEPT !.stage = "post", !.answer = client])
    /\ UNCHANGED realmVars

\* _post_to_keycloak_realm_with_fallback: the address of the realm has a token for those
\* who show what they should; where no address knows the realm, the answer is 502.
PostToken(c) ==
    /\ At(c, "post")
    /\ LET r == request[c]
       IN  \E status \in IF served[r.realm] = None THEN {502} ELSE {200, 401, 502} :
               Is(c, Answer(r, status))
    /\ UNCHANGED realmVars

Leave(c) ==
    /\ At(c, "answered")
    /\ Close(c)
    /\ UNCHANGED realmVars

RealmsNext ==
    \/ \E realm \in Realms : MoveRealm(realm)
    \/ \E c \in Sessions :
           \/ \E realm \in Realms, alias \in {None} \cup UNION {DOMAIN Clients[r].clients :
                                                                   r \in DOMAIN Clients} :
                  Login(c, realm, alias)
           \/ Discover(c) \/ AskRealm(c) \/ HearRealm(c) \/ FindClient(c) \/ PostToken(c)
           \/ Leave(c)

\* When the realms are found and not listed, no request is told that its realm is not found
\* if Keycloak has served it since MissingTTL before the request began, whichever requests
\* asked before and however long they took (_discover_realm_exists_with_attempts).
RealmsFoundSoon ==
    AllowedRealms = {} /\ RealmTTL > 0 =>
        \A c \in Sessions : At(c, "answered") /\ request[c].status = 404 =>
            LET realm == request[c].realm
            IN  served[realm] = None \/ since[realm] + MissingTTL > request[c].now
=============================================================================
