------------------------------ MODULE TokenKeys ------------------------------
(***************************************************************************)
(* The keys a worker checks tokens with (app/core/auth.py): those that a   *)
(* loop fetches from configured URLs, and those of the issuer of a token,  *)
(* fetched when one comes.  Keycloak rotates them meanwhile.               *)
(*                                                                         *)
(* A token is [claims, kid].                                               *)
(***************************************************************************)
EXTENDS Worker

CONSTANTS
    Issuers,        \* those that are allowed
    Kids,           \* ids of keys
    KeysOf,         \* Issuers -> the keys it may come to have
    StaticUrls,     \* KEYCLOAK_JWKS_URL(S): a sequence of issuers
    Tokens,
    KeyTTL,         \* JWKS_REFRESH_SECONDS, for which 0 is a day
    FetchTimeout    \* JWKS_FETCH_TIMEOUT_SECONDS

VARIABLES
    published,      \* Issuers -> the keys it publishes
    static_jwks,    \* _JWKS_CACHE
    refresh,        \* the refresh loop: when it is due, the URLs left and the keys got
    issuer_jwks,    \* _ISSUER_JWKS_CACHE: Issuers -> None or [keys, at]
    withdrawn       \* Kids -> when it was withdrawn, None before

keyVars == <<published, static_jwks, refresh, issuer_jwks, withdrawn>>
caches == <<static_jwks, refresh, issuer_jwks>>

ASSUME KeysOK ==
    /\ KeysOf \in [Issuers -> SUBSET Kids]
    /\ \A i, j \in Issuers : i # j => KeysOf[i] \cap KeysOf[j] = {}
    /\ StaticUrls \in Seq(Issuers)
    /\ KeyTTL \in Nat \ {0} /\ FetchTimeout \in Nat

KeysTypeOK ==
    /\ \A i \in Issuers : published[i] \subseteq KeysOf[i]
    /\ static_jwks \subseteq Kids
    /\ \A i \in Issuers : issuer_jwks[i] # None => issuer_jwks[i].keys \subseteq KeysOf[i]
    /\ \A k \in Kids : withdrawn[k] # None => withdrawn[k] <= clock

KeysInit ==
    /\ published \in [Issuers -> {{k} : k \in Kids}]
    /\ \A i \in Issuers : published[i] \subseteq KeysOf[i]
    /\ static_jwks = {}
    /\ refresh = [due |-> 0, left |-> StaticUrls, got |-> {}]
    /\ issuer_jwks = [i \in Issuers |-> None]
    /\ withdrawn = [k \in Kids |-> None]

\* Keycloak rotates the key of a realm (external).
Rotate(i) ==
    \E old \in published[i], new \in KeysOf[i] \ published[i] :
        /\ withdrawn[new] = None
        /\ published' = [published EXCEPT ![i] = {new}]
        /\ withdrawn' = [withdrawn EXCEPT ![old] = clock]
        /\ UNCHANGED <<caches, request>>

\* _jwks_refresh_loop and refresh_jwks_once: the URLs are asked one after the other, one
\* that fails is skipped, and what was got takes the place of what there was.
RefreshStep ==
    /\ clock >= refresh.due /\ refresh.left # <<>>
    /\ \E answer \in {published[Head(refresh.left)], {}} :
           refresh' = [refresh EXCEPT !.left = Tail(@), !.got = @ \cup answer]
    /\ UNCHANGED <<published, withdrawn, static_jwks, issuer_jwks, request>>

RefreshEnd ==
    /\ StaticUrls # <<>> /\ refresh.left = <<>>
    /\ static_jwks' = IF refresh.got = {} THEN static_jwks ELSE refresh.got
    /\ refresh' = [due |-> clock + KeyTTL, left |-> StaticUrls, got |-> {}]
    /\ UNCHANGED <<published, withdrawn, issuer_jwks, request>>

\* Whether _get_issuer_cache takes what it has; the first form takes whatever there is.
IssuerFresh_Ever(i) == issuer_jwks[i] # None /\ issuer_jwks[i].keys # {}
IssuerFresh(i) ==
    /\ issuer_jwks[i] # None
    /\ issuer_jwks[i].keys # {}
    /\ clock - issuer_jwks[i].at < KeyTTL

\* The end of decode_jwt: a token whose key is known is taken, with what it says.
Decoded(c, token, has) ==
    IF token.kid \in has /\ BuildAuthContext(token.claims) # None
    THEN Is(c, [stage |-> "decoded", token |-> token])
    ELSE Close(c)

\* decode_jwt: the keys of the URLs come first, then those of the issuer.  A key that
\* neither has is not asked for again as long as the issuer's are fresh.
Arrive(c, token) ==
    /\ Idle(c)
    /\ token.claims.iss \in Issuers
    /\ IF token.kid \in static_jwks THEN Decoded(c, token, static_jwks)
       ELSE IF IssuerFresh(token.claims.iss)
       THEN Decoded(c, token, issuer_jwks[token.claims.iss].keys)
       ELSE Is(c, [stage |-> "waits", token |-> token])
    /\ UNCHANGED keyVars

\* The lock of an issuer: one request has it while it fetches, and looks again first.
Locked(i) ==
    \E c \in Sessions : (At(c, "fetch") \/ At(c, "fetched")) /\ request[c].token.claims.iss = i
TakeLock(c) ==
    /\ At(c, "waits")
    /\ LET token == request[c].token
           i == token.claims.iss
       IN  /\ ~Locked(i)
           /\ IF IssuerFresh(i) THEN Decoded(c, token, issuer_jwks[i].keys)
              ELSE Is(c, [stage |-> "fetch", token |-> token, asked |-> clock])
    /\ UNCHANGED keyVars

\* Keycloak answers (external).
FetchAnswer(c) ==
    /\ At(c, "fetch")
    /\ LET r == request[c]
       IN  Is(c, [stage |-> "fetched", token |-> r.token, asked |-> r.asked,
                  answer |-> published[r.token.claims.iss]])
    /\ UNCHANGED keyVars

\* The answer is in time.
FetchStore(c) ==
    /\ At(c, "fetched")
    /\ LET r == request[c]
       IN  /\ clock - r.asked <= FetchTimeout
           /\ issuer_jwks' = [issuer_jwks EXCEPT
                                 ![r.token.claims.iss] = [keys |-> r.answer, at |-> clock]]
           /\ Decoded(c, r.token, r.answer)
    /\ UNCHANGED <<published, withdrawn, static_jwks, refresh>>

\* Or there is none, and the token is refused.
FetchFails(c) ==
    /\ At(c, "fetch") \/ At(c, "fetched")
    /\ Close(c)
    /\ UNCHANGED keyVars

\* The request goes on to its route.
Proceed(c) ==
    /\ At(c, "decoded")
    /\ Close(c)
    /\ UNCHANGED keyVars

KeysNext ==
    \/ \E i \in Issuers : Rotate(i)
    \/ RefreshStep \/ RefreshEnd
    \/ \E c \in Sessions :
           \/ \E token \in Tokens : Arrive(c, token)
           \/ TakeLock(c) \/ FetchAnswer(c) \/ FetchStore(c) \/ FetchFails(c) \/ Proceed(c)

\* A token is taken only while its key is published, or for KeyTTL and the time of one
\* fetch after the key was withdrawn, whichever of the requests that wait for one fetch
\* finds it; unless the keys of the URLs have it, which stay until a refresh of them
\* succeeds (decode_jwt, _get_issuer_cache).
KeysOutlivedByTTL ==
    [][\A c \in Sessions :
           request'[c] # request[c] /\ At(c, "decoded")' =>
               LET kid == request'[c].token.kid
               IN  \/ kid \in static_jwks
                   \/ withdrawn[kid] = None
                   \/ clock < withdrawn[kid] + KeyTTL + FetchTimeout]_request
=============================================================================
