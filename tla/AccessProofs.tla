----------------------------- MODULE AccessProofs -----------------------------
(***************************************************************************)
(* What Access guarantees for any number of requests, issuers, keys,       *)
(* scopes, policies and realms, and every length of what is remembered.    *)
(*                                                                         *)
(* The argument.  Whatever is remembered, or held by a request on its way, *)
(* was so at the time it was asked for, or at a later one: PublishedSince  *)
(* of keys, Known of policies, MissingSince of realms.  Each is a relation *)
(* of what is held, a time and the world, which no rotation, PUT or move   *)
(* undoes, for these note when they happen; so how old it may be when it   *)
(* is used follows from the times alone.  The parts share the clock and    *)
(* the sessions, and a step of one leaves the requests of the others       *)
(* (Moves).  What a merge of policies grants is shown for every number of  *)
(* them by the least number for which it would not hold (MergeFacts).      *)
(***************************************************************************)
EXTENDS Access, WellFoundedInduction, TLAPS

\* The stages of the requests of each part.
KeyStages == {"waits", "fetch", "fetched", "decoded"}
PolicyStages == {"load", "loaded", "decides", "put"}
RealmStages == {"queue", "ask", "hear", "client", "post", "answered"}

\* The only requests that change are some at the stages S, or are over.
Moves(S) ==
    /\ DOMAIN request' = DOMAIN request
    /\ \A c \in Sessions :
           request'[c] = request[c] \/ request'[c] = None \/ request'[c].stage \in S

-----------------------------------------------------------------------------
(* Keys.                                                                   *)

\* The keys K were published at the time t or after.
PublishedSince(K, t) ==
    K \subseteq Kids /\ \A k \in K : withdrawn[k] = None \/ t <= withdrawn[k]

KeyRequestSound(q) ==
    /\ q.stage \in {"waits", "fetch", "fetched"} =>
         q.token \in Tokens /\ q.token.claims.iss \in Issuers
    /\ q.stage \in {"fetch", "fetched"} => q.asked \in 0..clock
    /\ q.stage = "fetched" => /\ q.answer \subseteq KeysOf[q.token.claims.iss]
                              /\ PublishedSince(q.answer, q.asked)

\* A key that is published was never withdrawn, and what is remembered was published when it
\* was asked for, FetchTimeout before at most.
KeysInv ==
    /\ DOMAIN published = Issuers /\ DOMAIN issuer_jwks = Issuers /\ DOMAIN withdrawn = Kids
    /\ \A k \in Kids : withdrawn[k] # None => withdrawn[k] \in 0..clock
    /\ \A i \in Issuers : /\ published[i] \subseteq KeysOf[i]
                          /\ \A k \in published[i] : withdrawn[k] = None
    /\ DOMAIN refresh = {"due", "left", "got"}
    /\ refresh.left \in Seq(Issuers) /\ refresh.got \subseteq Kids /\ static_jwks \subseteq Kids
    /\ \A i \in Issuers : issuer_jwks[i] # None =>
         /\ issuer_jwks[i].at \in 0..clock
         /\ issuer_jwks[i].keys \subseteq KeysOf[i]
         /\ \A k \in issuer_jwks[i].keys :
              withdrawn[k] = None \/ issuer_jwks[i].at <= withdrawn[k] + FetchTimeout
    /\ \A c \in Sessions : request[c] # None => KeyRequestSound(request[c])

\* KeysOutlivedByTTL for one request.
InTime(c) ==
    (request'[c] # request[c] /\ At(c, "decoded")') =>
        LET kid == request'[c].token.kid
        IN  \/ kid \in static_jwks
            \/ withdrawn[kid] = None
            \/ clock < withdrawn[kid] + KeyTTL + FetchTimeout

Requests ==
    /\ clock \in Nat /\ clock <= MaxTime /\ DOMAIN request = Sessions
    /\ \A c \in Sessions : request[c] # None =>
         request[c].stage \in KeyStages \cup PolicyStages \cup RealmStages

\* A request is replaced, and no other is.
LEMMA IsMoves ==
    ASSUME Requests, NEW c \in Sessions, NEW r, Is(c, r)
    PROVE  /\ request'[c] = r /\ DOMAIN request' = Sessions
           /\ \A d \in Sessions \ {c} : request'[d] = request[d]
  BY DEF Is, Requests

\* The end of decode_jwt.
LEMMA DecodedMoves ==
    ASSUME Requests, NEW c \in Sessions, NEW token, NEW has, Decoded(c, token, has)
    PROVE  /\ DOMAIN request' = Sessions
           /\ \A d \in Sessions \ {c} : request'[d] = request[d]
           /\ request'[c] # None => /\ request'[c].stage = "decoded"
                                    /\ request'[c].token = token /\ token.kid \in has
  BY IsMoves DEF Decoded, Close

-----------------------------------------------------------------------------
(* Policies.                                                               *)

\* The policy was that of the scope s at the time t or after: it still is, or it
\* was replaced since.
Known(s, policy, t) ==
    \/ Len(policies[s]) > 1
    \/ policy \in Range(policies[s])
    \/ policies[s] = <<>> /\ policy = NoPolicy
    \/ policy \in DOMAIN replaced[s] /\ t <= replaced[s][policy]

CacheSound(cache) ==
    \A s \in Scopes : cache[s] # None =>
        /\ PolicyValid(cache[s].policy)
        /\ cache[s].expires \in PolicyTTL..(clock + PolicyTTL)
        /\ Known(s, cache[s].policy, cache[s].expires - PolicyTTL)

\* The policies found are those of the scopes, in order, of PolicyTTL before now or after.
FoundSound(scopes, found, now) ==
    /\ Len(found) \in 0..Len(scopes) /\ DOMAIN found = 1..Len(found)
    /\ \A k \in DOMAIN found : /\ PolicyValid(found[k])
                               /\ Known(scopes[k], found[k], (now + 1) - PolicyTTL)

PolicyRequestSound(q) ==
    /\ q.stage = "put" => /\ q.scope \in Scopes /\ q.row \in 0..Len(policies[q.scope])
                          /\ q.policy \in Policies /\ PolicyValid(q.policy)
    /\ q.stage \in {"load", "loaded", "decides"} =>
         /\ q.ctx \in Contexts /\ q.me \in BOOLEAN /\ q.now \in 0..clock
         /\ FoundSound(ScopesOf(q), q.found, q.now)
    /\ q.stage = "decides" => Len(q.found) = Len(ScopesOf(q))
    /\ q.stage \in {"load", "loaded"} => Len(q.found) # Len(ScopesOf(q))
    /\ q.stage = "loaded" => PolicyValid(q.policy) /\ Known(NextScope(q), q.policy, q.now)

\* What is remembered of a scope was its policy PolicyTTL before it expires, or after.
PoliciesInv ==
    /\ policies \in [Scopes -> Seq(Policies \cup {NoPolicy})] /\ policies[Global] # <<>>
    /\ \A s \in Scopes : \A n \in DOMAIN policies[s] : PolicyValid(policies[s][n])
    /\ DOMAIN policy_cache = Scopes /\ DOMAIN replaced = Scopes
    /\ \A s \in Scopes : \A policy \in DOMAIN replaced[s] : replaced[s][policy] \in 0..clock
    /\ CacheSound(policy_cache)
    /\ \A c \in Sessions : request[c] # None => PolicyRequestSound(request[c])

-----------------------------------------------------------------------------
(* Realms.                                                                 *)

\* The realm was not served at the time t, or at some later one.
MissingSince(realm, t) == served[realm] = None \/ t <= since[realm]
ServedFrom(realm, n) == \E j \in n..Len(Bases) : served[realm] = Bases[j]

RealmRequestSound(q) ==
    /\ q.stage \in RealmStages => q.realm \in Realms /\ q.now \in 0..clock
    /\ q.stage \in {"queue", "ask", "hear", "client", "post"} =>
         /\ DOMAIN q = {"stage", "realm", "alias", "now", "base", "answer"}
         /\ q.base \in 1..Len(Bases)
    /\ q.stage = "queue" => q.base = 1
    /\ q.stage = "ask" => MissingSince(q.realm, q.now) \/ ServedFrom(q.realm, q.base)
    /\ q.stage = "hear" /\ q.answer = 404 =>
         MissingSince(q.realm, q.now) \/ ServedFrom(q.realm, q.base + 1)
    /\ q.stage = "answered" /\ q.status = 404 /\ AllowedRealms = {} /\ RealmTTL > 0 =>
         MissingSince(q.realm, (q.now + 1) - MissingTTL)

\* A realm that is remembered as missing was missing when the request that asked began, or
\* after.
RealmsInv ==
    /\ served \in [Realms -> Range(Bases) \cup {None}]
    /\ since \in [Realms -> 0..clock]
    /\ DOMAIN discovered = Realms
    /\ \A realm \in Realms : discovered[realm] # None =>
         /\ discovered[realm].at \in 0..clock
         /\ ~discovered[realm].exists => MissingSince(realm, discovered[realm].at)
    /\ \A c \in Sessions : request[c] # None => RealmRequestSound(request[c])

IInv == Requests /\ KeysInv /\ PoliciesInv /\ RealmsInv

-----------------------------------------------------------------------------
(* Steps about keys.                                                       *)

\* What is left to show of a step of a request about keys.
LEMMA KeysRequest ==
    ASSUME KeysInv, Requests, NEW c \in Sessions, UNCHANGED <<keyVars, clock>>,
           DOMAIN request' = Sessions,
           \A d \in Sessions \ {c} : request'[d] = request[d],
           request'[c] # None => /\ KeyRequestSound(request'[c])
                                 /\ request'[c].stage \in KeyStages
    PROVE  KeysInv' /\ Moves(KeyStages)
<1>1. Moves(KeyStages)
  BY DEF Moves, Requests
<1>2. \A d \in Sessions : request'[d] # None => KeyRequestSound(request[d])'
  <2> SUFFICES ASSUME NEW d \in Sessions, request'[d] # None
               PROVE  KeyRequestSound(request[d])'
    OBVIOUS
  <2>1. KeyRequestSound(request'[d])
    BY DEF KeysInv
  <2> QED BY <2>1 DEF KeyRequestSound, PublishedSince, keyVars
<1>3. KeysInv'
  BY <1>2 DEF KeysInv, keyVars
<1> QED BY <1>1, <1>3

\* A key is rotated: it had not been withdrawn.
LEMMA RotateKeeps ==
    ASSUME KeysInv, Requests, NEW i \in Issuers, Rotate(i), UNCHANGED clock
    PROVE  KeysInv' /\ Moves(KeyStages)
<1> USE KeysOK
<1>1. PICK old \in published[i], new \in KeysOf[i] \ published[i] :
        /\ withdrawn[new] = None
        /\ published' = [published EXCEPT ![i] = {new}]
        /\ withdrawn' = [withdrawn EXCEPT ![old] = clock]
        /\ UNCHANGED <<caches, request>>
  BY DEF Rotate
<1>2. old \in Kids /\ new \in Kids /\ old # new /\ clock \in Nat
  BY <1>1 DEF KeysInv, Requests
<1>3. /\ DOMAIN published' = Issuers /\ DOMAIN withdrawn' = Kids
      /\ withdrawn'[old] = clock /\ withdrawn[old] = None
      /\ \A k \in Kids \ {old} : withdrawn'[k] = withdrawn[k]
      /\ published'[i] = {new} /\ \A j \in Issuers \ {i} : published'[j] = published[j]
  BY <1>1, <1>2 DEF KeysInv
<1>4. /\ UNCHANGED <<static_jwks, refresh, issuer_jwks, request, clock>>
  BY <1>1 DEF caches
<1>5. \A j \in Issuers : /\ published'[j] \subseteq KeysOf[j]
                         /\ \A k \in published'[j] : withdrawn'[k] = None
  <2> TAKE j \in Issuers
  <2>1. CASE j = i
    BY <1>1, <1>2, <1>3, <2>1
  <2>2. CASE j # i
    <3>1. published'[j] = published[j] /\ published[j] \subseteq KeysOf[j]
      BY <1>3, <2>2 DEF KeysInv
    <3>2. old \notin published[j]
      BY <2>2, <3>1 DEF KeysInv
    <3>3. published[j] \subseteq Kids /\ \A k \in published[j] : withdrawn[k] = None
      BY <3>1 DEF KeysInv
    <3> QED BY <1>3, <3>1, <3>2, <3>3
  <2> QED BY <2>1, <2>2
<1>6. \A k \in Kids : withdrawn'[k] # None => withdrawn'[k] \in 0..clock
  BY <1>2, <1>3 DEF KeysInv
<1>7. ASSUME NEW j \in Issuers, issuer_jwks[j] # None
      PROVE  \A k \in issuer_jwks[j].keys :
               withdrawn'[k] = None \/ issuer_jwks[j].at <= withdrawn'[k] + FetchTimeout
  <2> TAKE k \in issuer_jwks[j].keys
  <2>1. /\ k \in Kids /\ issuer_jwks[j].at \in 0..clock /\ FetchTimeout \in Nat
        /\ withdrawn[k] = None \/ issuer_jwks[j].at <= withdrawn[k] + FetchTimeout
    BY <1>7 DEF KeysInv
  <2>2. CASE k = old
    BY <1>2, <1>3, <2>1, <2>2
  <2>3. CASE k # old
    BY <1>3, <2>1, <2>3
  <2> QED BY <2>2, <2>3
<1>8. ASSUME NEW c \in Sessions, request[c] # None
      PROVE  KeyRequestSound(request[c])'
  <2>1. KeyRequestSound(request[c])
    BY <1>8 DEF KeysInv
  <2>2. ASSUME NEW K, NEW t \in 0..clock, PublishedSince(K, t)
        PROVE  PublishedSince(K, t)'
    BY <1>2, <1>3, <2>2 DEF PublishedSince
  <2> QED BY <1>4, <2>1, <2>2 DEF KeyRequestSound
<1>9. KeysInv'
  BY <1>3, <1>4, <1>5, <1>6, <1>7, <1>8 DEF KeysInv
<1> QED BY <1>4, <1>9 DEF Moves

\* The refresh loop.
LEMMA RefreshKeeps ==
    ASSUME KeysInv, Requests, RefreshStep \/ RefreshEnd, UNCHANGED clock
    PROVE  KeysInv' /\ Moves(KeyStages)
<1> USE KeysOK
<1>1. UNCHANGED <<published, withdrawn, issuer_jwks, request>>
  BY DEF RefreshStep, RefreshEnd
<1>2. /\ DOMAIN refresh' = {"due", "left", "got"} /\ static_jwks' \subseteq Kids
      /\ refresh'.left \in Seq(Issuers) /\ refresh'.got \subseteq Kids
  <2>1. CASE RefreshStep
    <3>1. PICK answer \in {published[Head(refresh.left)], {}} :
            refresh' = [refresh EXCEPT !.left = Tail(@), !.got = @ \cup answer]
      BY <2>1 DEF RefreshStep
    <3>2. refresh.left \in Seq(Issuers) /\ refresh.left # <<>> /\ static_jwks' = static_jwks
      BY <2>1 DEF RefreshStep, KeysInv
    <3>3. Head(refresh.left) \in Issuers /\ Tail(refresh.left) \in Seq(Issuers)
      BY <3>2
    <3>4. answer \subseteq Kids
      BY <3>1, <3>3 DEF KeysInv
    <3> QED BY <3>1, <3>2, <3>3, <3>4 DEF KeysInv
  <2>2. CASE RefreshEnd
    BY <2>2 DEF RefreshEnd, KeysInv
  <2> QED BY <2>1, <2>2
<1>3. \A c \in Sessions : request'[c] # None => KeyRequestSound(request[c])'
  BY <1>1 DEF KeysInv, KeyRequestSound, PublishedSince
<1>4. KeysInv'
  BY <1>1, <1>2, <1>3 DEF KeysInv
<1> QED BY <1>1, <1>4 DEF Moves

\* A token whose key is among those of its issuer, which are fresh, is in time.
LEMMA FreshInTime ==
    ASSUME KeysInv, Requests, NEW i \in Issuers, IssuerFresh(i), NEW kid \in issuer_jwks[i].keys
    PROVE  withdrawn[kid] = None \/ clock < withdrawn[kid] + KeyTTL + FetchTimeout
<1>1. /\ clock \in Nat /\ issuer_jwks[i].at \in 0..clock /\ kid \in Kids
      /\ withdrawn[kid] = None \/ issuer_jwks[i].at <= withdrawn[kid] + FetchTimeout
      /\ withdrawn[kid] # None => withdrawn[kid] \in 0..clock
      /\ clock - issuer_jwks[i].at < KeyTTL /\ KeyTTL \in Nat /\ FetchTimeout \in Nat
  BY KeysOK DEF KeysInv, Requests, IssuerFresh
<1> QED BY <1>1

\* The steps of a request about keys.
LEMMA KeyStepKeeps ==
    ASSUME KeysInv, Requests, NEW c \in Sessions, UNCHANGED clock,
           \/ \E token \in Tokens : Arrive(c, token)
           \/ TakeLock(c) \/ FetchAnswer(c) \/ FetchStore(c) \/ FetchFails(c) \/ Proceed(c)
    PROVE  KeysInv' /\ Moves(KeyStages) /\ \A d \in Sessions : InTime(d)
<1> USE KeysOK
<1>1. ASSUME NEW token \in Tokens, Arrive(c, token)
      PROVE  KeysInv' /\ Moves(KeyStages) /\ \A d \in Sessions : InTime(d)
  <2> DEFINE i == token.claims.iss
             r == [stage |-> "waits", token |-> token]
  <2>1. i \in Issuers /\ UNCHANGED keyVars
    BY <1>1 DEF Arrive
  <2>2. CASE \/ token.kid \in static_jwks /\ Decoded(c, token, static_jwks)
             \/ IssuerFresh(i) /\ Decoded(c, token, issuer_jwks[i].keys)
    <3>1. /\ DOMAIN request' = Sessions
          /\ \A d \in Sessions \ {c} : request'[d] = request[d]
          /\ request'[c] # None =>
               /\ request'[c].stage = "decoded" /\ request'[c].token = token
               /\ \/ token.kid \in static_jwks
                  \/ IssuerFresh(i) /\ token.kid \in issuer_jwks[i].keys
      BY <2>2, DecodedMoves
    <3>2. \A d \in Sessions : InTime(d)
      <4> SUFFICES ASSUME NEW d \in Sessions, request'[d] # request[d], request'[d] # None
                   PROVE  LET kid == request'[d].token.kid
                          IN  \/ kid \in static_jwks
                              \/ withdrawn[kid] = None
                              \/ clock < withdrawn[kid] + KeyTTL + FetchTimeout
        BY DEF InTime, At, Idle
      <4>1. d = c
        BY <3>1
      <4> QED BY <2>1, <3>1, <4>1, FreshInTime
    <3>3. request'[c] # None => /\ KeyRequestSound(request'[c])
                                /\ request'[c].stage \in KeyStages
      BY <3>1 DEF KeyRequestSound, KeyStages
    <3> QED BY <2>1, <3>1, <3>2, <3>3, KeysRequest
  <2>3. CASE Is(c, r)
    <3>1. /\ request'[c] = r /\ DOMAIN request' = Sessions
          /\ \A d \in Sessions \ {c} : request'[d] = request[d]
      BY <2>3, IsMoves
    <3>2. \A d \in Sessions : InTime(d)
      BY <3>1 DEF InTime, At
    <3>3. KeyRequestSound(r) /\ r.stage \in KeyStages
      BY <2>1 DEF KeyRequestSound, KeyStages
    <3> QED BY <2>1, <3>1, <3>2, <3>3, KeysRequest
  <2> QED BY <1>1, <2>2, <2>3 DEF Arrive
<1>2. CASE TakeLock(c)
  <2> DEFINE token == request[c].token
             i == token.claims.iss
             r == [stage |-> "fetch", token |-> token, asked |-> clock]
  <2>1. token \in Tokens /\ i \in Issuers /\ UNCHANGED keyVars /\ clock \in 0..clock
    BY <1>2 DEF TakeLock, At, Idle, KeysInv, KeyRequestSound, Requests
  <2>2. CASE IssuerFresh(i) /\ Decoded(c, token, issuer_jwks[i].keys)
    <3>1. /\ DOMAIN request' = Sessions
          /\ \A d \in Sessions \ {c} : request'[d] = request[d]
          /\ request'[c] # None =>
               /\ request'[c].stage = "decoded" /\ request'[c].token = token
               /\ token.kid \in issuer_jwks[i].keys
      BY <2>2, DecodedMoves
    <3>2. \A d \in Sessions : InTime(d)
      <4> SUFFICES ASSUME NEW d \in Sessions, request'[d] # request[d], request'[d] # None
                   PROVE  LET kid == request'[d].token.kid
                          IN  \/ withdrawn[kid] = None
                              \/ clock < withdrawn[kid] + KeyTTL + FetchTimeout
        BY DEF InTime, At, Idle
      <4>1. d = c
        BY <3>1
      <4> QED BY <2>1, <2>2, <3>1, <4>1, FreshInTime
    <3>3. request'[c] # None => /\ KeyRequestSound(request'[c])
                                /\ request'[c].stage \in KeyStages
      BY <3>1 DEF KeyRequestSound, KeyStages
    <3> QED BY <2>1, <3>1, <3>2, <3>3, KeysRequest
  <2>3. CASE Is(c, r)
    <3>1. /\ request'[c] = r /\ DOMAIN request' = Sessions
          /\ \A d \in Sessions \ {c} : request'[d] = request[d]
      BY <2>3, IsMoves
    <3>2. \A d \in Sessions : InTime(d)
      BY <3>1 DEF InTime, At
    <3>3. KeyRequestSound(r) /\ r.stage \in KeyStages
      BY <2>1 DEF KeyRequestSound, KeyStages
    <3> QED BY <2>1, <3>1, <3>2, <3>3, KeysRequest
  <2> QED BY <1>2, <2>2, <2>3 DEF TakeLock
<1>3. CASE FetchAnswer(c)
  <2> DEFINE q == request[c]
             i == q.token.claims.iss
             r == [stage |-> "fetched", token |-> q.token, asked |-> q.asked,
                   answer |-> published[i]]
  <2>1. q.token \in Tokens /\ i \in Issuers /\ q.asked \in 0..clock /\ UNCHANGED keyVars
    BY <1>3 DEF FetchAnswer, At, Idle, KeysInv, KeyRequestSound
  <2>2. /\ request'[c] = r /\ DOMAIN request' = Sessions
        /\ \A d \in Sessions \ {c} : request'[d] = request[d]
    BY <1>3, IsMoves DEF FetchAnswer
  <2>3. \A d \in Sessions : InTime(d)
    BY <2>2 DEF InTime, At
  <2>4. r.answer \subseteq KeysOf[i] /\ PublishedSince(r.answer, r.asked)
    BY <2>1 DEF KeysInv, PublishedSince
  <2>5. KeyRequestSound(r) /\ r.stage \in KeyStages
    BY <2>1, <2>4 DEF KeyRequestSound, KeyStages
  <2> QED BY <2>1, <2>2, <2>3, <2>5, KeysRequest
<1>4. CASE FetchStore(c)
  <2> DEFINE q == request[c]
             i == q.token.claims.iss
             entry == [keys |-> q.answer, at |-> clock]
  <2>1. /\ q.token \in Tokens /\ i \in Issuers /\ q.asked \in 0..clock /\ clock \in Nat
        /\ q.answer \subseteq KeysOf[i] /\ q.answer \subseteq Kids
        /\ \A k \in q.answer : withdrawn[k] = None \/ q.asked <= withdrawn[k]
        /\ \A k \in Kids : withdrawn[k] # None => withdrawn[k] \in 0..clock
    BY <1>4 DEF FetchStore, At, Idle, KeysInv, KeyRequestSound, PublishedSince, Requests
  <2>2. /\ clock - q.asked <= FetchTimeout
        /\ issuer_jwks' = [issuer_jwks EXCEPT ![i] = entry]
        /\ Decoded(c, q.token, q.answer)
        /\ UNCHANGED <<published, withdrawn, static_jwks, refresh>>
    BY <1>4 DEF FetchStore
  <2>3. /\ DOMAIN request' = Sessions
        /\ \A d \in Sessions \ {c} : request'[d] = request[d]
        /\ request'[c] # None =>
             /\ request'[c].stage = "decoded" /\ request'[c].token = q.token
             /\ q.token.kid \in q.answer
    BY <2>2, DecodedMoves
  <2>4. \A k \in q.answer : withdrawn[k] = None \/ clock <= withdrawn[k] + FetchTimeout
    BY <2>1, <2>2
  <2>5. \A d \in Sessions : InTime(d)
    <3> SUFFICES ASSUME NEW d \in Sessions, request'[d] # request[d], request'[d] # None
                 PROVE  LET kid == request'[d].token.kid
                        IN  \/ withdrawn[kid] = None
                            \/ clock < withdrawn[kid] + KeyTTL + FetchTimeout
      BY DEF InTime, At, Idle
    <3>1. d = c
      BY <2>3
    <3> QED BY <2>1, <2>3, <2>4, <3>1
  <2>6. \A j \in Issuers : issuer_jwks'[j] # None =>
         /\ issuer_jwks'[j].at \in 0..clock
         /\ issuer_jwks'[j].keys \subseteq KeysOf[j]
         /\ \A k \in issuer_jwks'[j].keys :
              withdrawn[k] = None \/ issuer_jwks'[j].at <= withdrawn[k] + FetchTimeout
    <3> TAKE j \in Issuers
    <3>1. CASE j = i
      <4>1. issuer_jwks'[j] = entry
        BY <2>2, <3>1 DEF KeysInv
      <4> QED BY <2>1, <2>4, <3>1, <4>1
    <3>2. CASE j # i
      <4>1. issuer_jwks'[j] = issuer_jwks[j]
        BY <2>2, <3>2 DEF KeysInv
      <4> QED BY <4>1 DEF KeysInv
    <3> QED BY <3>1, <3>2
  <2>7. \A d \in Sessions : request'[d] # None => KeyRequestSound(request[d])'
    <3> SUFFICES ASSUME NEW d \in Sessions, request'[d] # None
                 PROVE  KeyRequestSound(request[d])'
      OBVIOUS
    <3>1. KeyRequestSound(request'[d])
      BY <2>3 DEF KeysInv, KeyRequestSound
    <3> QED BY <2>2, <3>1 DEF KeyRequestSound, PublishedSince
  <2>8. DOMAIN issuer_jwks' = Issuers
    BY <2>2 DEF KeysInv
  <2>9. KeysInv'
    BY <2>2, <2>6, <2>7, <2>8 DEF KeysInv
  <2>10. Moves(KeyStages)
    BY <2>3 DEF Moves, KeyStages, Requests
  <2> QED BY <2>5, <2>9, <2>10
<1>5. CASE FetchFails(c) \/ Proceed(c)
  <2>1. UNCHANGED keyVars /\ Is(c, None)
    BY <1>5 DEF FetchFails, Proceed, Close
  <2>2. /\ request'[c] = None /\ DOMAIN request' = Sessions
        /\ \A d \in Sessions \ {c} : request'[d] = request[d]
    BY <2>1, IsMoves
  <2>3. \A d \in Sessions : InTime(d)
    BY <2>2 DEF InTime, At, Idle
  <2> QED BY <2>1, <2>2, <2>3, KeysRequest
<1> QED BY <1>1, <1>2, <1>3, <1>4, <1>5

\* Every step about keys.
LEMMA KeysNextKeeps ==
    ASSUME KeysInv, Requests, KeysNext, UNCHANGED clock
    PROVE  KeysInv' /\ Moves(KeyStages) /\ \A d \in Sessions : InTime(d)
<1>1. ASSUME UNCHANGED request PROVE \A d \in Sessions : InTime(d)
  BY <1>1 DEF InTime
<1> QED BY <1>1, RotateKeeps, RefreshKeeps, KeyStepKeeps
        DEF KeysNext, Rotate, RefreshStep, RefreshEnd

\* A step about something else, and the passing of time.
LEMMA KeysElsewhere ==
    ASSUME KeysInv, Requests, NEW S, S \cap KeyStages = {}, Moves(S), UNCHANGED keyVars,
           clock' = clock
    PROVE  KeysInv'
<1>1. ASSUME NEW c \in Sessions, request'[c] # None PROVE KeyRequestSound(request[c])'
  <2>1. CASE request'[c] = request[c]
    <3>1. KeyRequestSound(request[c])
      BY <1>1, <2>1 DEF KeysInv
    <3> QED BY <2>1, <3>1 DEF KeyRequestSound, PublishedSince, keyVars
  <2>2. CASE request'[c].stage \notin KeyStages
    BY <2>2 DEF KeyRequestSound, KeyStages
  <2> QED BY <1>1, <2>1, <2>2 DEF Moves
<1> QED BY <1>1 DEF KeysInv, keyVars

\* Time passes.
LEMMA KeysTick ==
    ASSUME KeysInv, Requests, UNCHANGED <<keyVars, request>>, clock' = clock + 1
    PROVE  KeysInv'
<1>1. clock \in Nat /\ clock' = clock + 1 /\ 0..clock \subseteq 0..clock'
  BY DEF Requests
<1>2. ASSUME NEW c \in Sessions, request'[c] # None PROVE KeyRequestSound(request[c])'
  <2>1. KeyRequestSound(request[c])
    BY <1>2 DEF KeysInv
  <2> QED BY <1>1, <2>1 DEF KeyRequestSound, PublishedSince, keyVars
<1> QED BY <1>1, <1>2 DEF KeysInv, keyVars

-----------------------------------------------------------------------------
(* Steps about policies.                                                   *)

\* A set of numbers that is not empty has a least element.
LEMMA Least ==
    ASSUME NEW T \in SUBSET Nat, T # {}
    PROVE  \E n \in T : \A m \in T : n <= m
<1> DEFINE Less == OpToRel(<, Nat)
<1>1. IsWellFoundedOn(Less, Nat)
  BY NatLessThanWellFounded
<1>2. \A m, n \in Nat : <<m, n>> \in Less <=> m < n
  BY DEF OpToRel
<1> HIDE DEF Less
<1>3. PICK n \in T : \A m \in T : ~(<<m, n>> \in Less)
  BY <1>1, WFMin
<1>4. \A m \in T : ~(m < n)
  BY <1>2, <1>3
<1> QED BY <1>4

\* And under a bound a largest one.
LEMMA MaxFacts ==
    ASSUME NEW N \in Nat, NEW S \in SUBSET (0..N), S # {}
    PROVE  Max(S) \in S /\ \A n \in S : n <= Max(S)
<1> DEFINE T == {N - n : n \in S}
<1>1. \A q \in S : N - q \in Nat
  OBVIOUS
<1>2. T \in SUBSET Nat /\ T # {}
  BY <1>1
<1>3. PICK n \in T : \A m \in T : n <= m
  BY <1>2, Least
<1>4. PICK r \in S : n = N - r
  OBVIOUS
<1>5. \A q \in S : r >= q
  <2> TAKE q \in S
  <2>1. N - q \in T
    OBVIOUS
  <2> QED BY <1>3, <1>4, <2>1
<1> QED BY <1>5 DEF Max

\* The scopes of a request.
LEMMA TenantScopeFacts ==
    ASSUME NEW T \in SUBSET Registry
    PROVE  /\ TenantScope(T) \in Seq(Scopes) /\ Len(TenantScope(T)) <= 1
<1>1. CASE T = {}
  BY <1>1 DEF TenantScope
<1>2. CASE T # {}
  <2>1. (CHOOSE t \in T : TRUE) \in Registry
    BY <1>2
  <2>2. <<"tenant", (CHOOSE t \in T : TRUE).id>> \in Scopes
    BY <2>1 DEF Scopes
  <2> QED BY <1>2, <2>2 DEF TenantScope
<1> QED BY <1>1, <1>2

\* Those of every request are scopes.
LEMMA ScopesFacts ==
    ASSUME NEW r, r.ctx \in Contexts
    PROVE  ScopesOf(r) \in Seq(Scopes)
<1>1. Global \in Scopes
  BY DEF Scopes
<1>2. CASE ~r.me
  <2>1. <<"realm", r.ctx.tenant_id>> \in Scopes
    BY DEF Scopes
  <2>2. TenantScope({t \in Registry : r.ctx.tenant_id \in {t.key, t.realm}}) \in Seq(Scopes)
    BY TenantScopeFacts
  <2>3. <<Global, <<"realm", r.ctx.tenant_id>>>> \in Seq(Scopes)
    BY <1>1, <2>1
  <2> QED BY <1>2, <2>2, <2>3 DEF ScopesOf, RouteScopes
<1>3. CASE r.me
  <2> DEFINE T == {t \in Registry : r.ctx.tenant_id \in {t.id, t.key, t.realm}}
             k == IF T # {} THEN (CHOOSE t \in T : TRUE).key
                  ELSE IF r.ctx.realm # None THEN r.ctx.realm ELSE r.ctx.tenant_id
  <2>1. <<"realm", k>> \in Scopes
    <3>1. T # {} => (CHOOSE t \in T : TRUE) \in Registry
      OBVIOUS
    <3> HIDE DEF T
    <3> QED BY <3>1 DEF Scopes
  <2>2. TenantScope(T) \in Seq(Scopes)
    BY TenantScopeFacts
  <2>3. <<Global, <<"realm", k>>>> \in Seq(Scopes)
    BY <1>1, <2>1
  <2>4. MeScopes(r.ctx) = <<Global, <<"realm", k>>>> \o TenantScope(T)
    BY DEF MeScopes
  <2> HIDE DEF T, k
  <2> QED BY <1>3, <2>2, <2>3, <2>4 DEF ScopesOf
<1> QED BY <1>2, <1>3

\* What was known before a PUT is known after it.
LEMMA PutKnown ==
    ASSUME PoliciesInv, Requests, NEW c \in Sessions, PutCommit(c), UNCHANGED clock
    PROVE  /\ DOMAIN policies' = Scopes /\ DOMAIN replaced' = Scopes
           /\ policies' \in [Scopes -> Seq(Policies \cup {NoPolicy})]
           /\ policies'[Global] # <<>>
           /\ \A s \in Scopes : /\ Len(policies[s]) <= Len(policies'[s])
                                /\ \A n \in DOMAIN policies'[s] : PolicyValid(policies'[s][n])
                                /\ \A p \in DOMAIN replaced'[s] : replaced'[s][p] \in 0..clock
           /\ \A s \in Scopes : \A p : \A t \in Int :
                (t <= clock /\ Known(s, p, t)) => Known(s, p, t)'
<1> DEFINE q == request[c]
<1>0. PICK s : s = q.scope
  OBVIOUS
<1> DEFINE rows == policies[s]
           old == IF rows = <<>> THEN NoPolicy ELSE rows[1]
<1>1. /\ q # None /\ q.stage = "put" /\ s \in Scopes /\ q.row \in 0..Len(rows)
      /\ q.policy \in Policies /\ PolicyValid(q.policy) /\ clock \in Nat
      /\ rows \in Seq(Policies \cup {NoPolicy})
      /\ \A n \in DOMAIN rows : PolicyValid(rows[n])
  BY <1>0 DEF PutCommit, At, Idle, PoliciesInv, PolicyRequestSound, Requests
<1>2. /\ policies' = [policies EXCEPT ![s] =
                         IF q.row = 0 THEN Append(@, q.policy)
                         ELSE IF q.base = q.policy THEN @ ELSE [@ EXCEPT ![q.row] = q.policy]]
      /\ replaced' = IF policies'[s][1] = old THEN replaced
                     ELSE [replaced EXCEPT ![s] = Noted(@, old)]
  BY <1>0 DEF PutCommit
<1>3. /\ DOMAIN policies' = Scopes /\ DOMAIN replaced' = Scopes
      /\ \A u \in Scopes \ {s} : policies'[u] = policies[u] /\ replaced'[u] = replaced[u]
  BY <1>1, <1>2 DEF PoliciesInv
<1> DEFINE now == policies'[s]
<1>4. now = IF q.row = 0 THEN Append(rows, q.policy)
            ELSE IF q.base = q.policy THEN rows ELSE [rows EXCEPT ![q.row] = q.policy]
  BY <1>1, <1>2 DEF PoliciesInv
<1> HIDE DEF q, rows, now
<1>5. /\ now \in Seq(Policies \cup {NoPolicy}) /\ Len(rows) <= Len(now)
      /\ \A n \in DOMAIN now : PolicyValid(now[n])
      /\ now # <<>>
  <2>1. CASE q.row = 0
    <3>1. now = Append(rows, q.policy)
      BY <1>4, <2>1
    <3>2. /\ now \in Seq(Policies \cup {NoPolicy}) /\ Len(now) = Len(rows) + 1
          /\ \A n \in 1..Len(rows) : now[n] = rows[n]
          /\ now[Len(rows) + 1] = q.policy
      BY <1>1, <3>1
    <3>3. \A n \in DOMAIN now : n \in 1..Len(rows) \/ n = Len(rows) + 1
      BY <1>1, <3>2
    <3> QED BY <1>1, <3>2, <3>3
  <2>2. CASE q.row # 0
    <3>1. q.row \in 1..Len(rows)
      BY <1>1, <2>2
    <3>2. CASE now = rows
      BY <1>1, <3>1, <3>2
    <3>3. CASE now = [rows EXCEPT ![q.row] = q.policy]
      <4>1. /\ now \in Seq(Policies \cup {NoPolicy}) /\ Len(now) = Len(rows)
            /\ \A n \in DOMAIN now : now[n] = IF n = q.row THEN q.policy ELSE rows[n]
        BY <1>1, <3>1, <3>3
      <4> QED BY <1>1, <3>1, <4>1
    <3> QED BY <1>4, <2>2, <3>2, <3>3
  <2> QED BY <2>1, <2>2
<1>6. replaced'[s] = IF now[1] = old THEN replaced[s] ELSE Noted(replaced[s], old)
  BY <1>1, <1>2 DEF PoliciesInv, now
<1>7. /\ \A p \in DOMAIN replaced'[s] : replaced'[s][p] \in 0..clock
      /\ \A p \in DOMAIN replaced[s] : /\ p \in DOMAIN replaced'[s]
                                       /\ replaced'[s][p] = replaced[s][p] \/ replaced'[s][p] = clock
      /\ now[1] # old => old \in DOMAIN replaced'[s] /\ replaced'[s][old] = clock
  <2>1. \A p \in DOMAIN replaced[s] : replaced[s][p] \in 0..clock
    BY <1>1 DEF PoliciesInv
  <2>2. CASE now[1] = old
    BY <1>6, <2>1, <2>2
  <2>3. CASE now[1] # old
    <3>1. replaced'[s] = Noted(replaced[s], old)
      BY <1>6, <2>3
    <3> HIDE DEF old
    <3>2. replaced'[s] = [p \in {old} \cup DOMAIN replaced[s] |->
                            IF p = old THEN clock ELSE replaced[s][p]]
      BY <3>1 DEF Noted
    <3> QED BY <1>1, <2>1, <3>2
  <2> QED BY <2>2, <2>3
<1>8. ASSUME NEW p, NEW t \in Int, t <= clock, Known(s, p, t)
      PROVE  Known(s, p, t)'
  <2>1. CASE Len(rows) > 1
    BY <1>1, <1>5, <2>1 DEF Known, rows, now
  <2>2. CASE ~(Len(rows) > 1) /\ (p \in Range(rows) \/ (rows = <<>> /\ p = NoPolicy))
    <3>1. p = old
      <4>1. CASE rows = <<>>
        BY <2>2, <4>1 DEF Range
      <4>2. CASE rows # <<>>
        <5>0. Len(rows) \in Nat /\ DOMAIN rows = 1..Len(rows) /\ Len(rows) # 0
          BY <1>1, <4>2
        <5>1. Len(rows) = 1
          BY <2>2, <5>0
        <5>2. DOMAIN rows = {1}
          BY <5>0, <5>1
        <5> QED BY <2>2, <4>2, <5>2 DEF Range
      <4> QED BY <4>1, <4>2
    <3>2. CASE now[1] = old
      <4>1. old \in Range(now)
        BY <1>5, <3>2 DEF Range
      <4> QED BY <3>1, <4>1 DEF Known, rows, now
    <3>3. CASE now[1] # old
      <4>1. p \in DOMAIN replaced'[s] /\ t <= replaced'[s][p]
        BY <1>7, <1>8, <3>1, <3>3
      <4> QED BY <4>1 DEF Known
    <3> QED BY <3>2, <3>3
  <2>3. CASE p \in DOMAIN replaced[s] /\ t <= replaced[s][p]
    <3>1. p \in DOMAIN replaced'[s] /\ t <= replaced'[s][p]
      BY <1>7, <1>8, <2>3
    <3> QED BY <3>1 DEF Known
  <2> QED BY <1>8, <2>1, <2>2, <2>3 DEF Known, rows
<1>9. policies' \in [Scopes -> Seq(Policies \cup {NoPolicy})]
  <2>1. \A u \in Scopes : policies'[u] \in Seq(Policies \cup {NoPolicy})
    BY <1>3, <1>5 DEF PoliciesInv, now
  <2>2. policies' = [u \in Scopes |-> policies'[u]]
    BY <1>1, <1>2 DEF PoliciesInv
  <2> QED BY <2>1, <2>2
<1>10. policies'[Global] # <<>>
  BY <1>3, <1>5 DEF PoliciesInv, now, Scopes
<1>11. \A u \in Scopes : /\ Len(policies[u]) <= Len(policies'[u])
                         /\ \A n \in DOMAIN policies'[u] : PolicyValid(policies'[u][n])
                         /\ \A p \in DOMAIN replaced'[u] : replaced'[u][p] \in 0..clock
  <2> TAKE u \in Scopes
  <2>1. CASE u = s
    BY <1>5, <1>7, <2>1 DEF now, rows
  <2>2. CASE u # s
    <3>1. policies'[u] = policies[u] /\ replaced'[u] = replaced[u]
      BY <1>3, <2>2
    <3>2. Len(policies[u]) \in Nat
      BY DEF PoliciesInv
    <3> QED BY <3>1, <3>2 DEF PoliciesInv
  <2> QED BY <2>1, <2>2
<1>12. \A u \in Scopes : \A p : \A t \in Int : (t <= clock /\ Known(u, p, t)) => Known(u, p, t)'
  <2> SUFFICES ASSUME NEW u \in Scopes, NEW p, NEW t \in Int, t <= clock, Known(u, p, t)
               PROVE  Known(u, p, t)'
    OBVIOUS
  <2>1. CASE u = s
    BY <1>8, <2>1
  <2>2. CASE u # s
    BY <1>3, <2>2 DEF Known
  <2> QED BY <2>1, <2>2
<1> QED BY <1>3, <1>9, <1>10, <1>11, <1>12

\* What was known at a time was known before.
LEMMA KnownBefore ==
    ASSUME PoliciesInv, Requests, NEW s \in Scopes, NEW p, NEW t \in Int, NEW u \in Int,
           u <= t, Known(s, p, t)
    PROVE  Known(s, p, u)
<1>1. \A x \in DOMAIN replaced[s] : replaced[s][x] \in Int
  BY DEF PoliciesInv, Requests
<1> QED BY <1>1 DEF Known

\* What a request gets from the cache.
LEMMA GatheredFacts ==
    ASSUME PoliciesInv, Requests, NEW cache, CacheSound(cache), NEW scopes \in Seq(Scopes),
           NEW now \in 0..clock, NEW found, FoundSound(scopes, found, now)
    PROVE  FoundSound(scopes, Gathered(scopes, cache, found, now), now)
<1> USE PoliciesOK
<1> DEFINE S == {n \in Len(found)..Len(scopes) :
                   \A k \in (Len(found) + 1)..n : PolicyFresh(cache[scopes[k]], now)}
           reach == Max(S)
           got == [k \in 1..reach |-> IF k <= Len(found) THEN found[k]
                                      ELSE cache[scopes[k]].policy]
<1>1. /\ Len(scopes) \in Nat /\ Len(found) \in 0..Len(scopes) /\ now \in Nat /\ clock \in Nat
      /\ DOMAIN found = 1..Len(found)
  BY DEF FoundSound, Requests
<1>2. S \in SUBSET (0..Len(scopes)) /\ Len(found) \in S
  BY <1>1
<1>3. reach \in S
  BY <1>1, <1>2, MaxFacts
<1> HIDE DEF reach
<1>4. /\ reach \in Len(found)..Len(scopes)
      /\ \A k \in (Len(found) + 1)..reach : PolicyFresh(cache[scopes[k]], now)
  BY <1>3
<1>5. Gathered(scopes, cache, found, now) = got
  BY DEF Gathered, reach
<1>6. Len(got) = reach /\ DOMAIN got = 1..reach
  BY <1>1, <1>4
<1>7. ASSUME NEW k \in 1..reach
      PROVE  PolicyValid(got[k]) /\ Known(scopes[k], got[k], (now + 1) - PolicyTTL)
  <2>1. CASE k <= Len(found)
    <3>1. got[k] = found[k] /\ k \in DOMAIN found
      BY <1>1, <1>4, <2>1
    <3> QED BY <3>1 DEF FoundSound
  <2>2. CASE ~(k <= Len(found))
    <3>1. got[k] = cache[scopes[k]].policy /\ k \in (Len(found) + 1)..reach
          /\ scopes[k] \in Scopes
      BY <1>1, <1>4, <2>2
    <3>2. cache[scopes[k]] # None /\ cache[scopes[k]].expires > now
      BY <1>4, <3>1 DEF PolicyFresh
    <3> DEFINE t == cache[scopes[k]].expires - PolicyTTL
    <3>3. /\ PolicyValid(got[k]) /\ Known(scopes[k], got[k], t)
          /\ t \in Int /\ (now + 1) - PolicyTTL <= t /\ (now + 1) - PolicyTTL \in Int
      <4>1. /\ PolicyValid(cache[scopes[k]].policy)
            /\ cache[scopes[k]].expires \in PolicyTTL..(clock + PolicyTTL)
            /\ Known(scopes[k], cache[scopes[k]].policy, cache[scopes[k]].expires - PolicyTTL)
        BY <3>1, <3>2 DEF CacheSound
      <4> HIDE DEF got
      <4>2. PolicyTTL \in Nat /\ cache[scopes[k]].expires \in Int
        BY <1>1, <4>1
      <4>3. t \in Int /\ (now + 1) - PolicyTTL <= t /\ (now + 1) - PolicyTTL \in Int
        BY <1>1, <3>2, <4>2
      <4> QED BY <3>1, <4>1, <4>3
    <3> HIDE DEF t, got
    <3> QED BY <3>1, <3>3, KnownBefore
  <2> QED BY <2>1, <2>2
<1> HIDE DEF got
<1> QED BY <1>1, <1>4, <1>5, <1>6, <1>7 DEF FoundSound

\* The request with what it has found.
LEMMA WithPoliciesSound ==
    ASSUME PoliciesInv, Requests, NEW cache, CacheSound(cache), NEW r, r.ctx \in Contexts,
           r.me \in BOOLEAN, r.now \in 0..clock, NEW found,
           FoundSound(ScopesOf(r), found, r.now)
    PROVE  LET q == WithPolicies(r, cache, found)
           IN  PolicyRequestSound(q) /\ q.stage \in {"load", "decides"}
<1> DEFINE got == Gathered(ScopesOf(r), cache, found, r.now)
           q == [stage |-> IF Len(got) = Len(ScopesOf(r)) THEN "decides" ELSE "load",
                 ctx |-> r.ctx, me |-> r.me, now |-> r.now, found |-> got]
<1>1. FoundSound(ScopesOf(r), got, r.now)
  BY GatheredFacts, ScopesFacts
<1> HIDE DEF got
<1>2. /\ q.ctx = r.ctx /\ q.me = r.me /\ q.now = r.now /\ q.found = got
      /\ q.stage = IF Len(got) = Len(ScopesOf(r)) THEN "decides" ELSE "load"
  OBVIOUS
<1> HIDE DEF q
<1>3. ScopesOf(q) = ScopesOf(r)
  BY <1>2 DEF ScopesOf
<1>4. PolicyRequestSound(q) /\ q.stage \in {"load", "decides"}
  BY <1>1, <1>2, <1>3 DEF PolicyRequestSound
<1>5. WithPolicies(r, cache, found) = q
  BY DEF WithPolicies, q, got
<1> QED BY <1>4, <1>5

\* What is left to show of a step of a request about policies.
LEMMA PoliciesRequest ==
    ASSUME PoliciesInv, Requests, NEW c \in Sessions, UNCHANGED <<policies, replaced, clock>>,
           DOMAIN request' = Sessions, DOMAIN policy_cache' = Scopes,
           CacheSound(policy_cache'),
           \A d \in Sessions \ {c} : request'[d] = request[d],
           request'[c] # None => /\ PolicyRequestSound(request'[c])
                                 /\ request'[c].stage \in PolicyStages
    PROVE  PoliciesInv' /\ Moves(PolicyStages)
<1>1. Moves(PolicyStages)
  BY DEF Moves, Requests
<1>2. \A s, p, t : Known(s, p, t) => Known(s, p, t)'
  BY DEF Known
<1>3. \A scopes, found, now : FoundSound(scopes, found, now) => FoundSound(scopes, found, now)'
  BY <1>2 DEF FoundSound
<1>4. ASSUME NEW d \in Sessions, request'[d] # None PROVE PolicyRequestSound(request[d])'
  <2>1. PolicyRequestSound(request'[d])
    BY <1>4 DEF PoliciesInv
  <2> QED BY <1>2, <1>3, <2>1 DEF PolicyRequestSound
<1>5. CacheSound(policy_cache)'
  BY <1>2 DEF CacheSound
<1>6. PoliciesInv'
  BY <1>4, <1>5 DEF PoliciesInv
<1> QED BY <1>1, <1>6

\* The steps of a request that asks for permissions.
LEMMA AuthorizeKeeps ==
    ASSUME PoliciesInv, Requests, NEW c \in Sessions, NEW ctx \in Contexts,
           NEW me \in BOOLEAN, Authorize(c, ctx, me), UNCHANGED clock
    PROVE  PoliciesInv' /\ Moves(PolicyStages)
<1> DEFINE r == [ctx |-> ctx, me |-> me, now |-> clock]
           q == WithPolicies(r, policy_cache, <<>>)
<1>1. Is(c, q) /\ UNCHANGED policyVars
  BY DEF Authorize
<1>2. r.ctx \in Contexts /\ r.me \in BOOLEAN /\ r.now \in 0..clock
  BY DEF Requests
<1> HIDE DEF r
<1>3. FoundSound(ScopesOf(r), <<>>, r.now)
  <2>1. Len(ScopesOf(r)) \in Nat
    BY <1>2, ScopesFacts
  <2> QED BY <2>1 DEF FoundSound
<1>4. CacheSound(policy_cache)
  BY DEF PoliciesInv
<1>5. PolicyRequestSound(q) /\ q.stage \in PolicyStages
  BY <1>2, <1>3, <1>4, WithPoliciesSound DEF PolicyStages
<1> HIDE DEF q
<1> QED BY <1>1, <1>4, <1>5, IsMoves, PoliciesRequest DEF policyVars, PoliciesInv

\* A policy is loaded.
LEMMA LoadKeeps ==
    ASSUME PoliciesInv, Requests, NEW c \in Sessions, LoadPolicy(c), UNCHANGED clock
    PROVE  PoliciesInv' /\ Moves(PolicyStages)
<1> DEFINE r == request[c]
           s == NextScope(r)
<1>1. /\ r # None /\ r.stage = "load" /\ UNCHANGED policyVars
      /\ r.ctx \in Contexts /\ r.me \in BOOLEAN /\ r.now \in 0..clock
      /\ FoundSound(ScopesOf(r), r.found, r.now) /\ Len(r.found) # Len(ScopesOf(r))
  BY DEF LoadPolicy, At, Idle, PoliciesInv, PolicyRequestSound
<1>2. s \in Scopes
  <2>1. ScopesOf(r) \in Seq(Scopes)
    BY <1>1, ScopesFacts
  <2>2. Len(r.found) + 1 \in 1..Len(ScopesOf(r))
    BY <1>1, <2>1 DEF FoundSound
  <2> QED BY <2>1, <2>2 DEF NextScope
<1>3. PICK policy \in IF policies[s] = <<>> THEN {NoPolicy} ELSE Range(policies[s]) :
        Is(c, [stage |-> "loaded", ctx |-> r.ctx, me |-> r.me, now |-> r.now,
               found |-> r.found, policy |-> policy])
  BY DEF LoadPolicy
<1>4. PolicyValid(policy) /\ Known(s, policy, r.now)
  <2>1. CASE policies[s] = <<>>
    <3>1. policy = NoPolicy
      BY <2>1
    <3> QED BY <2>1, <3>1 DEF Known, PolicyValid, NoPolicy
  <2>2. CASE policies[s] # <<>>
    <3>1. PICK n \in DOMAIN policies[s] : policy = policies[s][n]
      BY <2>2 DEF Range
    <3> QED BY <1>2, <2>2, <3>1 DEF Known, PoliciesInv
  <2> QED BY <2>1, <2>2
<1> DEFINE q == [stage |-> "loaded", ctx |-> r.ctx, me |-> r.me, now |-> r.now,
                 found |-> r.found, policy |-> policy]
<1>5. /\ q.stage = "loaded" /\ q.ctx = r.ctx /\ q.me = r.me /\ q.now = r.now
      /\ q.found = r.found /\ q.policy = policy /\ Is(c, q)
  BY <1>3
<1> HIDE DEF q
<1>6. ScopesOf(q) = ScopesOf(r) /\ NextScope(q) = s
  BY <1>5 DEF ScopesOf, NextScope
<1>7. PolicyRequestSound(q) /\ q.stage \in PolicyStages
  BY <1>1, <1>4, <1>5, <1>6 DEF PolicyRequestSound, PolicyStages
<1> QED BY <1>1, <1>5, <1>7, IsMoves, PoliciesRequest DEF policyVars, PoliciesInv

\* A policy is remembered from the time the request began.
LEMMA StoreKeeps ==
    ASSUME PoliciesInv, Requests, NEW c \in Sessions, StorePolicy(c), UNCHANGED clock
    PROVE  PoliciesInv' /\ Moves(PolicyStages)
<1> USE PoliciesOK
<1> DEFINE r == request[c]
           s == NextScope(r)
           got == Append(r.found, r.policy)
           q == WithPolicies(r, policy_cache', got)
<1>1. /\ r # None /\ r.stage = "loaded" /\ UNCHANGED <<policies, replaced, puts>>
      /\ policy_cache' = [policy_cache EXCEPT ![s] = Entry(r)] /\ Is(c, q)
      /\ r.ctx \in Contexts /\ r.me \in BOOLEAN /\ r.now \in 0..clock
      /\ FoundSound(ScopesOf(r), r.found, r.now) /\ Len(r.found) # Len(ScopesOf(r))
      /\ PolicyValid(r.policy) /\ Known(s, r.policy, r.now)
  BY DEF StorePolicy, At, Idle, PoliciesInv, PolicyRequestSound
<1>2. /\ ScopesOf(r) \in Seq(Scopes) /\ Len(r.found) + 1 \in 1..Len(ScopesOf(r))
      /\ Len(r.found) \in Nat /\ Len(ScopesOf(r)) \in Nat
  <2>1. ScopesOf(r) \in Seq(Scopes)
    BY <1>1, ScopesFacts
  <2> QED BY <1>1, <2>1 DEF FoundSound
<1>3. s \in Scopes /\ s = ScopesOf(r)[Len(r.found) + 1]
  BY <1>2 DEF NextScope
<1>4. CacheSound(policy_cache')
  <2> SUFFICES ASSUME NEW u \in Scopes, policy_cache'[u] # None
               PROVE  /\ PolicyValid(policy_cache'[u].policy)
                      /\ policy_cache'[u].expires \in PolicyTTL..(clock + PolicyTTL)
                      /\ Known(u, policy_cache'[u].policy, policy_cache'[u].expires - PolicyTTL)
    BY DEF CacheSound
  <2>1. CASE u = s
    <3>1. policy_cache'[u] = Entry(r)
      BY <1>1, <1>3, <2>1 DEF PoliciesInv
    <3>2. policy_cache'[u].policy = r.policy /\ policy_cache'[u].expires = r.now + PolicyTTL
      BY <3>1 DEF Entry
    <3>3. r.now \in Nat /\ clock \in Nat /\ r.now <= clock /\ (r.now + PolicyTTL) - PolicyTTL = r.now
      BY <1>1 DEF Requests
    <3> HIDE DEF s
    <3>4. r.now + PolicyTTL \in PolicyTTL..(clock + PolicyTTL)
      BY <3>3
    <3> QED BY <1>1, <2>1, <3>2, <3>3, <3>4
  <2>2. CASE u # s
    <3>1. policy_cache'[u] = policy_cache[u]
      BY <1>1, <1>3, <2>2 DEF PoliciesInv
    <3> QED BY <3>1 DEF PoliciesInv, CacheSound
  <2> QED BY <2>1, <2>2
<1>5. DOMAIN policy_cache' = Scopes
  BY <1>1 DEF PoliciesInv
<1>6. FoundSound(ScopesOf(r), got, r.now)
  <2>1. /\ Len(r.found) \in 0..Len(ScopesOf(r)) /\ DOMAIN r.found = 1..Len(r.found)
        /\ \A k \in DOMAIN r.found : /\ PolicyValid(r.found[k])
                                     /\ Known(ScopesOf(r)[k], r.found[k], (r.now + 1) - PolicyTTL)
    BY <1>1 DEF FoundSound
  <2>2. /\ DOMAIN got = 1..(Len(r.found) + 1) /\ Len(got) = Len(r.found) + 1
        /\ \A k \in 1..Len(r.found) : got[k] = r.found[k]
        /\ got[Len(r.found) + 1] = r.policy
    BY <1>2
  <2>3. Known(s, r.policy, (r.now + 1) - PolicyTTL)
    <3>1. /\ r.now \in Int /\ (r.now + 1) - PolicyTTL \in Int /\ (r.now + 1) - PolicyTTL <= r.now
      BY <1>1 DEF Requests
    <3> QED BY <1>1, <1>3, <3>1, KnownBefore
  <2> HIDE DEF got, s
  <2>4. \A k \in DOMAIN got : k \in 1..Len(r.found) \/ k = Len(r.found) + 1
    BY <1>2, <2>2
  <2> QED BY <1>1, <1>2, <1>3, <2>1, <2>2, <2>3, <2>4 DEF FoundSound
<1>7. PolicyRequestSound(q) /\ q.stage \in PolicyStages
  BY <1>1, <1>4, <1>6, WithPoliciesSound DEF PolicyStages
<1> HIDE DEF q, s
<1> QED BY <1>1, <1>4, <1>5, <1>7, IsMoves, PoliciesRequest

\* A PUT begins, or a request goes on.
LEMMA PutBeginKeeps ==
    ASSUME PoliciesInv, Requests, NEW c \in Sessions, NEW scope \in Scopes,
           NEW policy \in Policies, PutBegin(c, scope, policy), UNCHANGED clock
    PROVE  PoliciesInv' /\ Moves(PolicyStages)
<1>1. PICK row \in IF policies[scope] = <<>> THEN {0} ELSE DOMAIN policies[scope] :
        Is(c, [stage |-> "put", scope |-> scope, row |-> row, policy |-> policy,
               base |-> IF row = 0 THEN None ELSE policies[scope][row]])
  BY DEF PutBegin
<1> DEFINE q == [stage |-> "put", scope |-> scope, row |-> row, policy |-> policy,
                 base |-> IF row = 0 THEN None ELSE policies[scope][row]]
<1>2. PolicyValid(policy) /\ UNCHANGED policyVars
  BY DEF PutBegin
<1>3. row \in 0..Len(policies[scope])
  <2>1. Len(policies[scope]) \in Nat /\ DOMAIN policies[scope] = 1..Len(policies[scope])
    BY DEF PoliciesInv
  <2> QED BY <1>1, <2>1
<1>4. /\ q.stage = "put" /\ q.scope = scope /\ q.row = row /\ q.policy = policy /\ Is(c, q)
  BY <1>1
<1> HIDE DEF q
<1>5. PolicyRequestSound(q) /\ q.stage \in PolicyStages
  BY <1>2, <1>3, <1>4 DEF PolicyRequestSound, PolicyStages
<1> QED BY <1>2, <1>4, <1>5, IsMoves, PoliciesRequest DEF policyVars, PoliciesInv

\* A request is let go on, or not.
LEMMA DecideKeeps ==
    ASSUME PoliciesInv, Requests, NEW c \in Sessions, Decide(c), UNCHANGED clock
    PROVE  PoliciesInv' /\ Moves(PolicyStages)
  BY IsMoves, PoliciesRequest DEF Decide, Close, policyVars, PoliciesInv

\* A PUT commits: all that was known is still.
LEMMA PutCommitKeeps ==
    ASSUME PoliciesInv, Requests, NEW c \in Sessions, PutCommit(c), UNCHANGED clock
    PROVE  PoliciesInv' /\ Moves(PolicyStages)
<1> USE PoliciesOK
<1>1. UNCHANGED policy_cache /\ Is(c, None)
  BY DEF PutCommit, Close
<1>2. /\ request'[c] = None /\ DOMAIN request' = Sessions
      /\ \A d \in Sessions \ {c} : request'[d] = request[d]
  BY <1>1, IsMoves
<1>3. /\ DOMAIN policies' = Scopes /\ DOMAIN replaced' = Scopes
      /\ policies' \in [Scopes -> Seq(Policies \cup {NoPolicy})]
      /\ policies'[Global] # <<>>
      /\ \A s \in Scopes : /\ Len(policies[s]) <= Len(policies'[s])
                           /\ \A n \in DOMAIN policies'[s] : PolicyValid(policies'[s][n])
                           /\ \A p \in DOMAIN replaced'[s] : replaced'[s][p] \in 0..clock
      /\ \A s \in Scopes : \A p : \A t \in Int :
           (t <= clock /\ Known(s, p, t)) => Known(s, p, t)'
  BY PutKnown
<1>4. CacheSound(policy_cache)'
  <2> SUFFICES ASSUME NEW s \in Scopes, policy_cache'[s] # None
               PROVE  /\ PolicyValid(policy_cache'[s].policy)
                      /\ policy_cache'[s].expires \in PolicyTTL..(clock' + PolicyTTL)
                      /\ Known(s, policy_cache[s].policy, policy_cache[s].expires - PolicyTTL)'
    BY DEF CacheSound
  <2>1. /\ PolicyValid(policy_cache[s].policy)
        /\ policy_cache[s].expires \in PolicyTTL..(clock + PolicyTTL)
        /\ Known(s, policy_cache[s].policy, policy_cache[s].expires - PolicyTTL)
    BY <1>1 DEF PoliciesInv, CacheSound
  <2>2. PICK p, t : p = policy_cache[s].policy /\ t = policy_cache[s].expires - PolicyTTL
    OBVIOUS
  <2>3. t \in Int /\ t <= clock
    BY <2>1, <2>2 DEF Requests
  <2>4. Known(s, p, t)'
    BY <1>3, <2>1, <2>2, <2>3
  <2> QED BY <1>1, <2>1, <2>2, <2>4
<1>5. ASSUME NEW scopes \in Seq(Scopes), NEW found, NEW now \in 0..clock,
             FoundSound(scopes, found, now)
      PROVE  FoundSound(scopes, found, now)'
  <2>1. (now + 1) - PolicyTTL \in Int /\ (now + 1) - PolicyTTL <= clock
    BY DEF Requests
  <2>2. \A k \in DOMAIN found : scopes[k] \in Scopes
    BY <1>5 DEF FoundSound
  <2> QED BY <1>3, <1>5, <2>1, <2>2 DEF FoundSound
<1>6. ASSUME NEW d \in Sessions, request'[d] # None PROVE PolicyRequestSound(request[d])'
  <2>1. PICK q : q = request[d] /\ q = request'[d]
    BY <1>2, <1>6
  <2>2. PolicyRequestSound(q)
    BY <1>6, <2>1 DEF PoliciesInv
  <2>3. q.stage = "put" => q.row \in 0..Len(policies'[q.scope])
    <3> SUFFICES ASSUME q.stage = "put" PROVE q.row \in 0..Len(policies'[q.scope])
      OBVIOUS
    <3>1. q.scope \in Scopes /\ q.row \in 0..Len(policies[q.scope])
      BY <2>2 DEF PolicyRequestSound
    <3>2. Len(policies[q.scope]) \in Nat /\ Len(policies'[q.scope]) \in Nat
      BY <1>3, <3>1 DEF PoliciesInv
    <3> QED BY <1>3, <3>1, <3>2
  <2>4. q.stage \in {"load", "loaded", "decides"} =>
          /\ ScopesOf(q) \in Seq(Scopes) /\ FoundSound(ScopesOf(q), q.found, q.now)'
    <3> SUFFICES ASSUME q.stage \in {"load", "loaded", "decides"}
                 PROVE  ScopesOf(q) \in Seq(Scopes) /\ FoundSound(ScopesOf(q), q.found, q.now)'
      OBVIOUS
    <3>1. q.ctx \in Contexts /\ q.now \in 0..clock /\ FoundSound(ScopesOf(q), q.found, q.now)
      BY <2>2 DEF PolicyRequestSound
    <3> QED BY <1>5, <3>1, ScopesFacts
  <2>5. q.stage = "loaded" => Known(NextScope(q), q.policy, q.now)'
    <3> SUFFICES ASSUME q.stage = "loaded" PROVE Known(NextScope(q), q.policy, q.now)'
      OBVIOUS
    <3>1. /\ q.now \in 0..clock /\ Known(NextScope(q), q.policy, q.now)
          /\ Len(q.found) \in 0..Len(ScopesOf(q)) /\ Len(q.found) # Len(ScopesOf(q))
      BY <2>2 DEF PolicyRequestSound, FoundSound
    <3>2. ScopesOf(q) \in Seq(Scopes)
      BY <2>4
    <3>3. NextScope(q) \in Scopes
      <4>1. Len(q.found) + 1 \in 1..Len(ScopesOf(q))
        BY <3>1, <3>2
      <4> QED BY <3>2, <4>1 DEF NextScope
    <3>4. q.now \in Int /\ q.now <= clock
      BY <3>1 DEF Requests
    <3> QED BY <1>3, <3>1, <3>3, <3>4
  <2>6. PolicyRequestSound(q)'
    BY <2>2, <2>3, <2>4, <2>5 DEF PolicyRequestSound
  <2> QED BY <2>1, <2>6
<1>7. PoliciesInv'
  BY <1>1, <1>3, <1>4, <1>6 DEF PoliciesInv
<1> QED BY <1>2, <1>7 DEF Moves, Requests

\* Every step about policies.
LEMMA PoliciesNextKeeps ==
    ASSUME PoliciesInv, Requests, PoliciesNext, UNCHANGED clock
    PROVE  PoliciesInv' /\ Moves(PolicyStages)
  BY AuthorizeKeeps, LoadKeeps, StoreKeeps, DecideKeeps, PutBeginKeeps, PutCommitKeeps
     DEF PoliciesNext

\* A step about something else, and the passing of time.
LEMMA PoliciesElsewhere ==
    ASSUME PoliciesInv, Requests, NEW S, S \cap PolicyStages = {}, Moves(S),
           UNCHANGED policyVars, UNCHANGED clock
    PROVE  PoliciesInv'
<1>1. \A s, p, t : Known(s, p, t) => Known(s, p, t)'
  BY DEF Known, policyVars
<1>2. \A scopes, found, now : FoundSound(scopes, found, now) => FoundSound(scopes, found, now)'
  BY <1>1 DEF FoundSound
<1>3. ASSUME NEW c \in Sessions, request'[c] # None PROVE PolicyRequestSound(request[c])'
  <2>1. CASE request'[c] = request[c]
    <3>1. PolicyRequestSound(request[c])
      BY <1>3, <2>1 DEF PoliciesInv
    <3> QED BY <1>1, <1>2, <2>1, <3>1 DEF PolicyRequestSound, policyVars
  <2>2. CASE request'[c].stage \notin PolicyStages
    BY <2>2 DEF PolicyRequestSound, PolicyStages
  <2> QED BY <1>3, <2>1, <2>2 DEF Moves
<1>4. CacheSound(policy_cache)'
  BY <1>1 DEF CacheSound, PoliciesInv, policyVars
<1> QED BY <1>3, <1>4 DEF PoliciesInv, policyVars

\* Time passes.
LEMMA PoliciesTick ==
    ASSUME PoliciesInv, Requests, UNCHANGED <<policyVars, request>>, clock' = clock + 1
    PROVE  PoliciesInv'
<1> USE PoliciesOK
<1>1. \A s, p, t : Known(s, p, t) => Known(s, p, t)'
  BY DEF Known, policyVars
<1>2. \A scopes, found, now : FoundSound(scopes, found, now) => FoundSound(scopes, found, now)'
  BY <1>1 DEF FoundSound
<1>3. /\ clock \in Nat /\ clock' = clock + 1 /\ 0..clock \subseteq 0..clock'
      /\ PolicyTTL..(clock + PolicyTTL) \subseteq PolicyTTL..(clock' + PolicyTTL)
  BY DEF Requests
<1>4. ASSUME NEW c \in Sessions, request'[c] # None PROVE PolicyRequestSound(request[c])'
  <2>1. PolicyRequestSound(request[c])
    BY <1>4 DEF PoliciesInv
  <2> QED BY <1>1, <1>2, <1>3, <2>1 DEF PolicyRequestSound, policyVars
<1>5. CacheSound(policy_cache)'
  BY <1>1, <1>3 DEF CacheSound, PoliciesInv, policyVars
<1> QED BY <1>3, <1>4, <1>5 DEF PoliciesInv, policyVars

-----------------------------------------------------------------------------
(* Steps about realms.                                                     *)

\* What is left to show of a step of a request about realms.
LEMMA RealmsRequest ==
    ASSUME RealmsInv, Requests, NEW c \in Sessions, UNCHANGED <<served, since, clock>>,
           DOMAIN request' = Sessions, DOMAIN discovered' = Realms,
           \A realm \in Realms : discovered'[realm] # None =>
               /\ discovered'[realm].at \in 0..clock
               /\ ~discovered'[realm].exists => MissingSince(realm, discovered'[realm].at),
           \A d \in Sessions \ {c} : request'[d] = request[d],
           request'[c] # None => /\ RealmRequestSound(request'[c])
                                 /\ request'[c].stage \in RealmStages
    PROVE  RealmsInv' /\ Moves(RealmStages)
<1>1. Moves(RealmStages)
  BY DEF Moves, Requests
<1>2. ASSUME NEW d \in Sessions, request'[d] # None PROVE RealmRequestSound(request[d])'
  <2>1. RealmRequestSound(request'[d])
    BY <1>2 DEF RealmsInv
  <2> QED BY <2>1 DEF RealmRequestSound, MissingSince, ServedFrom
<1>3. \A realm \in Realms : discovered'[realm] # None =>
         /\ discovered'[realm].at \in 0..clock'
         /\ ~discovered'[realm].exists => MissingSince(realm, discovered[realm].at)'
  BY DEF MissingSince
<1>4. RealmsInv'
  BY <1>2, <1>3 DEF RealmsInv
<1> QED BY <1>1, <1>4

\* A realm is created or deleted, now.
LEMMA MoveRealmKeeps ==
    ASSUME RealmsInv, Requests, NEW realm \in Realms, MoveRealm(realm), UNCHANGED clock
    PROVE  RealmsInv' /\ Moves(RealmStages)
<1> USE RealmsOK
<1>1. /\ served' = [served EXCEPT ![realm] = IF @ = None THEN Bases[Len(Bases)] ELSE None]
      /\ since' = [since EXCEPT ![realm] = clock] /\ UNCHANGED <<discovered, request>>
  BY DEF MoveRealm
<1>2. Bases[Len(Bases)] \in Range(Bases)
  <2>1. Bases \in Seq(Range(Bases)) /\ Bases # <<>>
    OBVIOUS
  <2>2. Len(Bases) \in DOMAIN Bases
    BY <2>1
  <2> QED BY <2>2 DEF Range
<1>3. /\ served' \in [Realms -> Range(Bases) \cup {None}] /\ since' \in [Realms -> 0..clock]
      /\ since'[realm] = clock /\ \A x \in Realms \ {realm} :
                                    since'[x] = since[x] /\ served'[x] = served[x]
  BY <1>1, <1>2 DEF RealmsInv, Requests
<1>4. ASSUME NEW x \in Realms, NEW t \in Int, t <= clock, MissingSince(x, t)
      PROVE  MissingSince(x, t)'
  BY <1>3, <1>4 DEF MissingSince
<1>5. ASSUME NEW x \in Realms, NEW t \in Int, t <= clock, NEW n,
             MissingSince(x, t) \/ ServedFrom(x, n)
      PROVE  MissingSince(x, t)' \/ ServedFrom(x, n)'
  <2>1. CASE x = realm
    BY <1>3, <1>5, <2>1 DEF MissingSince
  <2>2. CASE x # realm
    BY <1>3, <1>5, <2>2 DEF MissingSince, ServedFrom
  <2> QED BY <2>1, <2>2
<1>6. ASSUME NEW d \in Sessions, request'[d] # None PROVE RealmRequestSound(request[d])'
  <2>1. PICK q : q = request[d] /\ q = request'[d]
    BY <1>1, <1>6
  <2>2. RealmRequestSound(q)
    BY <1>6, <2>1 DEF RealmsInv
  <2>3. q.stage \in RealmStages =>
          /\ q.realm \in Realms /\ q.now \in Int /\ q.now <= clock
          /\ (q.now + 1) - MissingTTL \in Int /\ (q.now + 1) - MissingTTL <= clock
    BY <2>2 DEF RealmRequestSound, Requests
  <2>4. q.stage = "ask" => MissingSince(q.realm, q.now)' \/ ServedFrom(q.realm, q.base)'
    BY <1>5, <2>2, <2>3 DEF RealmRequestSound, RealmStages
  <2>5. q.stage = "hear" /\ q.answer = 404 =>
          MissingSince(q.realm, q.now)' \/ ServedFrom(q.realm, q.base + 1)'
    BY <1>5, <2>2, <2>3 DEF RealmRequestSound, RealmStages
  <2>6. q.stage = "answered" /\ q.status = 404 /\ AllowedRealms = {} /\ RealmTTL > 0 =>
          MissingSince(q.realm, (q.now + 1) - MissingTTL)'
    BY <1>4, <2>2, <2>3 DEF RealmRequestSound, RealmStages
  <2>7. RealmRequestSound(q)'
    BY <2>2, <2>4, <2>5, <2>6 DEF RealmRequestSound
  <2> QED BY <2>1, <2>7
<1>7. \A x \in Realms : discovered'[x] # None =>
        /\ discovered'[x].at \in 0..clock
        /\ ~discovered'[x].exists => MissingSince(x, discovered[x].at)'
  <2> SUFFICES ASSUME NEW x \in Realms, discovered'[x] # None
               PROVE  /\ discovered'[x].at \in 0..clock
                      /\ ~discovered'[x].exists => MissingSince(x, discovered[x].at)'
    OBVIOUS
  <2>1. PICK t : t = discovered[x].at
    OBVIOUS
  <2>2. t \in 0..clock /\ (~discovered[x].exists => MissingSince(x, t)) /\ t \in Int /\ t <= clock
    BY <1>1, <2>1 DEF RealmsInv, Requests
  <2>3. ~discovered[x].exists => MissingSince(x, t)'
    BY <1>4, <2>2
  <2> QED BY <1>1, <2>1, <2>2, <2>3
<1>8. RealmsInv'
  BY <1>1, <1>3, <1>6, <1>7 DEF RealmsInv
<1> QED BY <1>1, <1>8 DEF Moves

\* Who goes by what is remembered of a realm is told that it is not found only soon after.
LEMMA RememberedFacts ==
    ASSUME RealmsInv, Requests, NEW realm \in Realms, NEW now \in 0..clock,
           RealmFresh(realm, now), ~discovered[realm].exists, RealmTTL > 0
    PROVE  MissingSince(realm, (now + 1) - MissingTTL)
<1> USE RealmsOK
<1>1. RealmTTL \in Nat /\ MissingTTL \in Nat
  OBVIOUS
<1>2. Min({RealmTTL, MissingTTL}) \in Nat /\ Min({RealmTTL, MissingTTL}) <= MissingTTL
  <2>1. \E x \in {RealmTTL, MissingTTL} : \A y \in {RealmTTL, MissingTTL} : x =< y
    BY <1>1
  <2>2. /\ Min({RealmTTL, MissingTTL}) \in {RealmTTL, MissingTTL}
        /\ \A y \in {RealmTTL, MissingTTL} : Min({RealmTTL, MissingTTL}) =< y
    BY <2>1 DEF Min
  <2> QED BY <1>1, <2>2
<1>3. /\ discovered[realm] # None /\ discovered[realm].at \in 0..clock
      /\ MissingSince(realm, discovered[realm].at)
      /\ now - discovered[realm].at < Min({RealmTTL, MissingTTL})
  BY <1>1 DEF RealmsInv, RealmFresh
<1>4. since[realm] \in Int /\ discovered[realm].at \in Int /\ now \in Int /\ clock \in Int
  BY <1>3 DEF RealmsInv, Requests
<1>5. (now + 1) - MissingTTL <= discovered[realm].at
  BY <1>1, <1>2, <1>3, <1>4
<1> QED BY <1>1, <1>3, <1>4, <1>5 DEF MissingSince

\* The requests that are on.
LEMMA LoginKeeps ==
    ASSUME RealmsInv, Requests, NEW c \in Sessions, NEW realm \in Realms, NEW alias,
           Login(c, realm, alias), UNCHANGED clock
    PROVE  RealmsInv' /\ Moves(RealmStages)
<1> USE RealmsOK
<1> DEFINE r == [stage |-> "queue", realm |-> realm, alias |-> alias, now |-> clock,
                 base |-> 1, answer |-> None]
           q == IF AllowedRealms # {} THEN Found(r, realm \in AllowedRealms)
                ELSE IF RealmFresh(realm, clock) THEN Found(r, discovered[realm].exists)
                ELSE r
<1>1. Is(c, q) /\ UNCHANGED realmVars
  BY DEF Login
<1>2. clock \in 0..clock /\ Len(Bases) \in Nat /\ 1 \in 1..Len(Bases)
  <2>1. Bases \in Seq(Range(Bases)) /\ Bases # <<>>
    OBVIOUS
  <2> QED BY <2>1 DEF Requests
<1>3. RealmRequestSound(q) /\ q.stage \in RealmStages
  <2> DEFINE on == [r EXCEPT !.stage = "client"]
             off == [stage |-> "answered", realm |-> realm, now |-> clock, status |-> 404]
  <2>1. RealmRequestSound(r) /\ r.stage \in RealmStages
    BY <1>2 DEF RealmRequestSound, RealmStages
  <2>2. RealmRequestSound(on) /\ on.stage \in RealmStages
    BY <1>2 DEF RealmRequestSound, RealmStages
  <2>3. ASSUME \/ AllowedRealms # {}
               \/ RealmFresh(realm, clock) /\ ~discovered[realm].exists
        PROVE  RealmRequestSound(off) /\ off.stage \in RealmStages
    <3>1. AllowedRealms = {} /\ RealmTTL > 0 =>
            MissingSince(realm, (clock + 1) - MissingTTL)
      BY <1>2, <2>3, RememberedFacts
    <3> QED BY <1>2, <3>1 DEF RealmRequestSound, RealmStages
  <2>4. Found(r, TRUE) = on /\ Found(r, FALSE) = off
    BY DEF Found, Answer
  <2>5. \A e : Found(r, e) = on \/ (~e /\ Found(r, e) = off)
    BY DEF Found, Answer
  <2> HIDE DEF r, on, off
  <2> QED BY <2>1, <2>2, <2>3, <2>4, <2>5
<1> HIDE DEF q
<1> QED BY <1>1, <1>3, IsMoves, RealmsRequest DEF realmVars, RealmsInv

\* A request has the lock: it goes by what is remembered, or asks.
LEMMA DiscoverKeeps ==
    ASSUME RealmsInv, Requests, NEW c \in Sessions, Discover(c), UNCHANGED clock
    PROVE  RealmsInv' /\ Moves(RealmStages)
<1> USE RealmsOK
<1> DEFINE r == request[c]
           q == IF RealmFresh(r.realm, r.now) THEN Found(r, discovered[r.realm].exists)
                ELSE [r EXCEPT !.stage = "ask"]
<1>1. /\ Is(c, q) /\ UNCHANGED realmVars
      /\ r # None /\ r.stage = "queue" /\ RealmRequestSound(r)
  BY DEF Discover, At, Idle, RealmsInv
<1>2. /\ r.realm \in Realms /\ r.now \in 0..clock /\ r.base \in 1..Len(Bases)
      /\ DOMAIN r = {"stage", "realm", "alias", "now", "base", "answer"}
  BY <1>1 DEF RealmRequestSound, RealmStages
<1>3. RealmRequestSound(q) /\ q.stage \in RealmStages
  <2> DEFINE on == [r EXCEPT !.stage = "client"]
             off == [stage |-> "answered", realm |-> r.realm, now |-> r.now, status |-> 404]
             asks == [r EXCEPT !.stage = "ask"]
  <2>1. RealmRequestSound(on) /\ on.stage \in RealmStages
    BY <1>2 DEF RealmRequestSound, RealmStages
  <2>2. ASSUME RealmFresh(r.realm, r.now) /\ ~discovered[r.realm].exists
        PROVE  RealmRequestSound(off) /\ off.stage \in RealmStages
    <3>1. AllowedRealms = {} /\ RealmTTL > 0 =>
            MissingSince(r.realm, (r.now + 1) - MissingTTL)
      BY <1>2, <2>2, RememberedFacts
    <3> HIDE DEF r
    <3> QED BY <1>2, <3>1 DEF RealmRequestSound, RealmStages
  <2>3. RealmRequestSound(asks) /\ asks.stage \in RealmStages
    <3>1. MissingSince(r.realm, r.now) \/ ServedFrom(r.realm, r.base)
      <4>1. r.base = 1
        BY <1>1 DEF RealmRequestSound
      <4>2. served[r.realm] \in Range(Bases) \cup {None}
        BY <1>2 DEF RealmsInv
      <4>3. Bases \in Seq(Range(Bases))
        OBVIOUS
      <4>4. served[r.realm] \in Range(Bases) => ServedFrom(r.realm, 1)
        BY <4>3 DEF Range, ServedFrom
      <4> QED BY <4>1, <4>2, <4>4 DEF MissingSince
    <3> QED BY <1>2, <3>1 DEF RealmRequestSound, RealmStages
  <2>4. \A e : (e /\ Found(r, e) = on) \/ (~e /\ Found(r, e) = off)
    BY DEF Found, Answer
  <2> HIDE DEF r, on, off
  <2> QED BY <2>1, <2>2, <2>3, <2>4
<1> HIDE DEF q, r
<1> QED BY <1>1, <1>3, IsMoves, RealmsRequest DEF realmVars, RealmsInv

\* Keycloak answers at the address that is asked.
LEMMA AskKeeps ==
    ASSUME RealmsInv, Requests, NEW c \in Sessions, AskRealm(c), UNCHANGED clock
    PROVE  RealmsInv' /\ Moves(RealmStages)
<1> DEFINE r == request[c]
<1>1. PICK answer \in {IF served[r.realm] = Bases[r.base] THEN 200 ELSE 404, 502} :
        Is(c, [r EXCEPT !.stage = "hear", !.answer = answer])
  BY DEF AskRealm
<1> DEFINE q == [r EXCEPT !.stage = "hear", !.answer = answer]
<1>2. UNCHANGED realmVars /\ r # None /\ r.stage = "ask" /\ RealmRequestSound(r)
  BY DEF AskRealm, At, Idle, RealmsInv
<1>3. /\ r.realm \in Realms /\ r.now \in 0..clock /\ r.base \in 1..Len(Bases)
      /\ DOMAIN r = {"stage", "realm", "alias", "now", "base", "answer"}
      /\ MissingSince(r.realm, r.now) \/ ServedFrom(r.realm, r.base)
  BY <1>2 DEF RealmRequestSound, RealmStages
<1>4. /\ q.stage = "hear" /\ q.answer = answer /\ q.realm = r.realm /\ q.now = r.now
      /\ q.base = r.base /\ DOMAIN q = DOMAIN r
  BY <1>3
<1>5. answer = 404 => MissingSince(r.realm, r.now) \/ ServedFrom(r.realm, r.base + 1)
  <2> SUFFICES ASSUME answer = 404, ServedFrom(r.realm, r.base)
               PROVE  ServedFrom(r.realm, r.base + 1)
    BY <1>3
  <2>1. served[r.realm] # Bases[r.base]
    BY <1>1
  <2>2. PICK j \in r.base..Len(Bases) : served[r.realm] = Bases[j]
    BY DEF ServedFrom
  <2>3. j \in (r.base + 1)..Len(Bases)
    BY <1>3, <2>1, <2>2
  <2> QED BY <2>2, <2>3 DEF ServedFrom
<1> HIDE DEF q, r
<1>6. RealmRequestSound(q) /\ q.stage \in RealmStages
  BY <1>3, <1>4, <1>5 DEF RealmRequestSound, RealmStages
<1>7. Is(c, q)
  BY <1>1 DEF q
<1> QED BY <1>2, <1>6, <1>7, IsMoves, RealmsRequest DEF realmVars, RealmsInv

\* An answer is heard: only when no address is left is the realm missing.
LEMMA HearKeeps ==
    ASSUME RealmsInv, Requests, NEW c \in Sessions, HearRealm(c), UNCHANGED clock
    PROVE  RealmsInv' /\ Moves(RealmStages)
<1> USE RealmsOK
<1> DEFINE r == request[c]
<1>1. UNCHANGED <<served, since>> /\ r # None /\ r.stage = "hear" /\ RealmRequestSound(r)
  BY DEF HearRealm, At, Idle, RealmsInv
<1>2. /\ r.realm \in Realms /\ r.now \in 0..clock /\ r.base \in 1..Len(Bases)
      /\ DOMAIN r = {"stage", "realm", "alias", "now", "base", "answer"}
      /\ r.answer = 404 => MissingSince(r.realm, r.now) \/ ServedFrom(r.realm, r.base + 1)
      /\ clock \in Nat /\ Len(Bases) \in Nat
  <2>1. Bases \in Seq(Range(Bases))
    OBVIOUS
  <2> QED BY <1>1, <2>1 DEF RealmRequestSound, RealmStages, Requests
<1>3. CASE /\ r.answer = 404 /\ r.base < Len(Bases) /\ UNCHANGED discovered
           /\ Is(c, [r EXCEPT !.stage = "ask", !.base = @ + 1])
  <2> DEFINE q == [r EXCEPT !.stage = "ask", !.base = @ + 1]
  <2>1. /\ q.stage = "ask" /\ q.realm = r.realm /\ q.now = r.now
        /\ q.base = r.base + 1 /\ DOMAIN q = DOMAIN r /\ Is(c, q)
    BY <1>2, <1>3
  <2> HIDE DEF q, r
  <2>2. RealmRequestSound(q) /\ q.stage \in RealmStages
    BY <1>2, <1>3, <2>1 DEF RealmRequestSound, RealmStages
  <2> QED BY <1>1, <1>3, <2>1, <2>2, IsMoves, RealmsRequest DEF RealmsInv
<1>4. CASE /\ r.answer = 200 \/ (r.answer = 404 /\ r.base = Len(Bases))
           /\ discovered' = [discovered EXCEPT ![r.realm] =
                                [at |-> r.now, exists |-> r.answer = 200]]
           /\ Is(c, Found(r, r.answer = 200))
  <2>1. r.answer # 200 => MissingSince(r.realm, r.now)
    <3> SUFFICES ASSUME r.answer # 200 PROVE MissingSince(r.realm, r.now)
      OBVIOUS
    <3>1. r.answer = 404 /\ r.base = Len(Bases)
      BY <1>4
    <3>2. (r.base + 1)..Len(Bases) = {}
      BY <1>2, <3>1
    <3>3. ~ServedFrom(r.realm, r.base + 1)
      BY <3>2 DEF ServedFrom
    <3> QED BY <1>2, <3>1, <3>3
  <2> DEFINE q == Found(r, r.answer = 200)
             on == [r EXCEPT !.stage = "client"]
             off == [stage |-> "answered", realm |-> r.realm, now |-> r.now, status |-> 404]
  <2>2. RealmRequestSound(on) /\ on.stage \in RealmStages
    BY <1>2 DEF RealmRequestSound, RealmStages
  <2>3. ASSUME r.answer # 200 PROVE RealmRequestSound(off) /\ off.stage \in RealmStages
    <3>1. MissingTTL \in Nat \ {0} /\ since[r.realm] \in Int /\ r.now \in Int
      BY <1>2 DEF RealmsInv, Requests
    <3>2. (r.now + 1) - MissingTTL <= r.now
      BY <3>1
    <3>3. MissingSince(r.realm, (r.now + 1) - MissingTTL)
      BY <2>1, <2>3, <3>1, <3>2 DEF MissingSince
    <3> HIDE DEF r
    <3> QED BY <1>2, <3>3 DEF RealmRequestSound, RealmStages
  <2>4. q = on \/ (r.answer # 200 /\ q = off)
    BY DEF Found, Answer
  <2>5. DOMAIN discovered' = Realms
    BY <1>4 DEF RealmsInv
  <2>6. \A realm \in Realms : discovered'[realm] # None =>
          /\ discovered'[realm].at \in 0..clock
          /\ ~discovered'[realm].exists => MissingSince(realm, discovered'[realm].at)
    <3> TAKE realm \in Realms
    <3>1. CASE realm = r.realm
      <4>1. discovered'[realm] = [at |-> r.now, exists |-> r.answer = 200]
        BY <1>2, <1>4, <3>1 DEF RealmsInv
      <4>2. discovered'[realm].at = r.now
        BY <4>1
      <4>3. discovered'[realm].exists = (r.answer = 200)
        BY <4>1
      <4>4. ~discovered'[realm].exists => r.answer # 200
        BY <4>3, Zenon
      <4> QED BY <1>2, <2>1, <3>1, <4>2, <4>4
    <3>2. CASE realm # r.realm
      <4>1. discovered'[realm] = discovered[realm]
        BY <1>2, <1>4, <3>2 DEF RealmsInv
      <4> QED BY <4>1 DEF RealmsInv
    <3> QED BY <3>1, <3>2
  <2>7. RealmRequestSound(q) /\ q.stage \in RealmStages /\ Is(c, q)
    <3> HIDE DEF on, off, q
    <3>1. Is(c, q)
      BY <1>4 DEF q
    <3> QED BY <2>2, <2>3, <2>4, <3>1
  <2> HIDE DEF q, r
  <2> QED BY <1>1, <2>5, <2>6, <2>7, IsMoves, RealmsRequest
<1>5. CASE Is(c, Answer(r, 502)) /\ UNCHANGED discovered
  <2> DEFINE q == Answer(r, 502)
  <2>1. RealmRequestSound(q) /\ q.stage \in RealmStages
    BY <1>2 DEF RealmRequestSound, RealmStages, Answer
  <2> HIDE DEF q
  <2>2. Is(c, q)
    BY <1>5 DEF q
  <2> QED BY <1>1, <1>5, <2>1, <2>2, IsMoves, RealmsRequest DEF RealmsInv
<1> QED BY <1>3, <1>4, <1>5 DEF HearRealm

\* What is answered once the realm is found is not that it is not.
LEMMA AnswerKeeps ==
    ASSUME RealmsInv, Requests, NEW c \in Sessions,
           FindClient(c) \/ PostToken(c) \/ Leave(c), UNCHANGED clock
    PROVE  RealmsInv' /\ Moves(RealmStages)
<1> DEFINE r == request[c]
<1>1. UNCHANGED realmVars /\ r # None /\ RealmRequestSound(r)
  BY DEF FindClient, PostToken, Leave, At, Idle, RealmsInv
<1>2. CASE FindClient(c) \/ PostToken(c)
  <2>1. r.stage \in {"client", "post"}
    BY <1>2 DEF FindClient, PostToken, At
  <2>2. /\ r.realm \in Realms /\ r.now \in 0..clock /\ r.base \in 1..Len(Bases)
        /\ DOMAIN r = {"stage", "realm", "alias", "now", "base", "answer"}
    BY <1>1, <2>1 DEF RealmRequestSound, RealmStages
  <2>3. CASE \E client : Is(c, [r EXCEPT !.stage = "post", !.answer = client])
    <3>1. PICK client : Is(c, [r EXCEPT !.stage = "post", !.answer = client])
      BY <2>3
    <3> DEFINE q == [r EXCEPT !.stage = "post", !.answer = client]
    <3>2. RealmRequestSound(q) /\ q.stage \in RealmStages
      BY <2>2 DEF RealmRequestSound, RealmStages
    <3> HIDE DEF q
    <3>3. Is(c, q)
      BY <3>1 DEF q
    <3> QED BY <1>1, <3>2, <3>3, IsMoves, RealmsRequest DEF realmVars, RealmsInv
  <2>4. CASE \E status \in {200, 400, 401, 502} : Is(c, Answer(r, status))
    <3>1. PICK status \in {200, 400, 401, 502} : Is(c, Answer(r, status))
      BY <2>4
    <3> DEFINE q == Answer(r, status)
    <3>2. RealmRequestSound(q) /\ q.stage \in RealmStages
      BY <2>2 DEF RealmRequestSound, RealmStages, Answer
    <3> HIDE DEF q
    <3>3. Is(c, q)
      BY <3>1 DEF q
    <3> QED BY <1>1, <3>2, <3>3, IsMoves, RealmsRequest DEF realmVars, RealmsInv
  <2>5. CASE FindClient(c)
    <3> DEFINE mapped == ClientFromMapping(r.realm, r.alias)
               rows == IF r.realm \in DOMAIN TenantClients THEN {TenantClients[r.realm]} ELSE {}
    <3>1. IF mapped = "unknown" THEN Is(c, Answer(r, 400))
          ELSE \E client \in IF mapped # None THEN {mapped} ELSE rows \cup {DefaultClient} :
                    Is(c, [r EXCEPT !.stage = "post", !.answer = client])
      BY <2>5 DEF FindClient
    <3> HIDE DEF mapped, rows, r
    <3> QED BY <2>3, <2>4, <3>1
  <2>6. CASE PostToken(c)
    <3>1. PICK status \in IF served[r.realm] = None THEN {502} ELSE {200, 401, 502} :
            Is(c, Answer(r, status))
      BY <2>6 DEF PostToken
    <3> HIDE DEF r
    <3> QED BY <2>4, <3>1
  <2> QED BY <1>2, <2>5, <2>6
<1>3. CASE Leave(c)
  <2>1. Is(c, None)
    BY <1>3 DEF Leave, Close
  <2> HIDE DEF r
  <2> QED BY <1>1, <2>1, IsMoves, RealmsRequest DEF realmVars, RealmsInv
<1> QED BY <1>2, <1>3

\* Every step about realms.
LEMMA RealmsNextKeeps ==
    ASSUME RealmsInv, Requests, RealmsNext, UNCHANGED clock
    PROVE  RealmsInv' /\ Moves(RealmStages)
  BY MoveRealmKeeps, LoginKeeps, DiscoverKeeps, AskKeeps, HearKeeps, AnswerKeeps DEF RealmsNext

\* A step about something else, and the passing of time.
LEMMA RealmsElsewhere ==
    ASSUME RealmsInv, Requests, NEW S, S \cap RealmStages = {}, Moves(S),
           UNCHANGED realmVars, UNCHANGED clock
    PROVE  RealmsInv'
<1>1. ASSUME NEW c \in Sessions, request'[c] # None PROVE RealmRequestSound(request[c])'
  <2>1. CASE request'[c] = request[c]
    <3>1. RealmRequestSound(request[c])
      BY <1>1, <2>1 DEF RealmsInv
    <3> QED BY <2>1, <3>1 DEF RealmRequestSound, MissingSince, ServedFrom, realmVars
  <2>2. CASE request'[c].stage \notin RealmStages
    BY <2>2 DEF RealmRequestSound, RealmStages
  <2> QED BY <1>1, <2>1, <2>2 DEF Moves
<1> QED BY <1>1 DEF RealmsInv, MissingSince, realmVars

\* Time passes.
LEMMA RealmsTick ==
    ASSUME RealmsInv, Requests, UNCHANGED <<realmVars, request>>, clock' = clock + 1
    PROVE  RealmsInv'
<1>1. clock \in Nat /\ clock' = clock + 1 /\ 0..clock \subseteq 0..clock'
  BY DEF Requests
<1>2. ASSUME NEW c \in Sessions, request'[c] # None PROVE RealmRequestSound(request[c])'
  <2>1. RealmRequestSound(request[c])
    BY <1>2 DEF RealmsInv
  <2> QED BY <1>1, <2>1 DEF RealmRequestSound, MissingSince, ServedFrom, realmVars
<1>3. since' \in [Realms -> 0..clock']
  BY <1>1 DEF RealmsInv, realmVars
<1> QED BY <1>1, <1>2, <1>3 DEF RealmsInv, MissingSince, realmVars

-----------------------------------------------------------------------------
(* What policies grant.                                                    *)

\* What no policy that may be PUT, and that does not grant "*", adds for a role.
Barred(role) == Forbidden(role) \cup {"*"}

\* A policy that does not grant "*" to the role.
Limited(role, policy) ==
    /\ PolicyValid(policy)
    /\ role \in DOMAIN policy.roles => "*" \notin policy.roles[role]

\* One step of _merge_role_permissions.
Listed(role, policy) ==
    UNION {{Normalize(p) : p \in policy.roles[x]} : x \in {role} \cap DOMAIN policy.roles}
Kept(role, perms, policy) ==
    IF policy.mode # "replace" THEN perms
    ELSE UNION {DefaultRolePermissions(x) \cap {"*"} : x \in {role}}
Merged(role, perms, policy) == Kept(role, perms, policy) \cup Listed(role, policy)

\* By default a maker or a checker has nothing that is barred to the role.
LEMMA DefaultsFacts ==
    ASSUME NEW role \in {"maker", "checker"}
    PROVE  (UNION {DefaultRolePermissions(x) : x \in {role}}) \cap Barred(role) = {}
<1> SUFFICES DefaultRolePermissions(role) \cap Barred(role) = {}
  OBVIOUS
<1>1. CASE role = "maker"
  <2>1. DefaultRolePermissions(role) = SubmissionWrites \cup Catalogue
                                           \cup {"submissions.read", "submissions.comment"}
    BY <1>1 DEF DefaultRolePermissions, TenantAdminRoles
  <2>2. Forbidden(role) = {"submissions.read_all", "submissions.transition"}
    BY <1>1 DEF Forbidden
  <2>3. \A p \in DefaultRolePermissions(role) : p \notin Barred(role)
    BY <2>1, <2>2 DEF Barred, SubmissionWrites, Catalogue
  <2> QED BY <2>3
<1>2. CASE role = "checker"
  <2>1. DefaultRolePermissions(role) =
            Catalogue \cup {"submissions.read_all", "submissions.transition",
                            "submissions.comment"}
    BY <1>2 DEF DefaultRolePermissions, TenantAdminRoles
  <2>2. Forbidden(role) = SubmissionWrites
    BY <1>2 DEF Forbidden
  <2>3. \A p \in DefaultRolePermissions(role) : p \notin Barred(role)
    BY <2>1, <2>2 DEF Barred, SubmissionWrites, Catalogue
  <2> QED BY <2>3
<1> QED BY <1>1, <1>2

\* One step of the merge adds nothing that is barred.
LEMMA MergedFacts ==
    ASSUME NEW role \in {"maker", "checker"}, NEW policy, Limited(role, policy),
           NEW perms, perms \cap Barred(role) = {}
    PROVE  Merged(role, perms, policy) \cap Barred(role) = {}
<1>1. Kept(role, perms, policy) \cap Barred(role) = {}
  <2>1. "*" \notin DefaultRolePermissions(role)
    BY DefaultsFacts DEF Barred
  <2> QED BY <2>1 DEF Kept
<1>2. Listed(role, policy) \cap Barred(role) = {}
  <2> SUFFICES ASSUME role \in DOMAIN policy.roles
               PROVE  {Normalize(p) : p \in policy.roles[role]} \cap Barred(role) = {}
    BY DEF Listed
  <2> DEFINE N == {Normalize(p) : p \in policy.roles[role]}
  <2>1. PermissionClosure(N) \cap Forbidden(role) = {}
    BY DEF Limited, PolicyValid, RolePermissionsValid
  <2>2. N \subseteq PermissionClosure(N)
    BY DEF PermissionClosure
  <2>3. "*" \notin N
    BY DEF Normalize, Limited
  <2> QED BY <2>1, <2>2, <2>3 DEF Barred
<1> QED BY <1>1, <1>2 DEF Merged

\* The merge is by the recursion of the fold.
Merging(role, base, ps, g, m) ==
    g = [s \in SUBSET (1..m) |->
           IF s = {} THEN base ELSE Merged(role, g[s \ {Max(s)}], ps[Max(s)])]

\* A set without its largest element has only smaller ones.
LEMMA MaxOf ==
    ASSUME NEW m \in Nat, NEW s \in SUBSET (1..m), s # {}
    PROVE  /\ Max(s) \in 1..m /\ Max(s) \in s
           /\ s \ {Max(s)} \in SUBSET (1..(Max(s) - 1))
<1>1. Max(s) \in s /\ \A n \in s : n <= Max(s)
  <2>1. s \in SUBSET (0..m)
    OBVIOUS
  <2> QED BY <2>1, MaxFacts
<1> DEFINE x == Max(s)
<1>2. x \in s /\ \A n \in s : n <= x
  BY <1>1
<1> HIDE DEF x
<1>3. x \in Nat /\ \A n \in s : n \in 1..m
  BY <1>2
<1>4. \A n \in s \ {x} : n \in 1..(x - 1)
  BY <1>2, <1>3
<1>5. x \in 1..m /\ x \in s /\ s \ {x} \in SUBSET (1..(x - 1))
  BY <1>2, <1>3, <1>4
<1> QED BY <1>5 DEF x

\* There is a function of that recursion.
LEMMA MergingExists ==
    ASSUME NEW role, NEW base, NEW ps, NEW n \in Nat
    PROVE  \E g : Merging(role, base, ps, g, n)
<1> DEFINE Bad == {m \in Nat : ~\E g : Merging(role, base, ps, g, m)}
<1> SUFFICES ASSUME Bad # {} PROVE FALSE
  OBVIOUS
<1>1. PICK m \in Bad : \A j \in Bad : m <= j
  BY Least
<1>2. m \in Nat /\ ~\E g : Merging(role, base, ps, g, m)
  OBVIOUS
<1>3. CASE m = 0
  <2> DEFINE g == [s \in SUBSET (1..0) |-> base]
  <2>1. \A s \in SUBSET (1..0) : s = {}
    OBVIOUS
  <2>2. Merging(role, base, ps, g, 0)
    <3> DEFINE h == [s \in SUBSET (1..0) |->
                       IF s = {} THEN base ELSE Merged(role, g[s \ {Max(s)}], ps[Max(s)])]
    <3>1. g = h
      BY <2>1
    <3> QED BY <3>1 DEF Merging
  <2> QED BY <1>2, <1>3, <2>2
<1>4. CASE m # 0
  <2>1. m - 1 \in Nat /\ m - 1 \notin Bad
    BY <1>1, <1>4
  <2>2. PICK f : Merging(role, base, ps, f, m - 1)
    BY <2>1
  <2> DEFINE g == [s \in SUBSET (1..m) |->
                     IF s = {} THEN base ELSE Merged(role, f[s \ {Max(s)}], ps[Max(s)])]
             h == [s \in SUBSET (1..m) |->
                     IF s = {} THEN base ELSE Merged(role, g[s \ {Max(s)}], ps[Max(s)])]
  <2>3. \A s \in SUBSET (1..(m - 1)) : f[s] = g[s]
    <3> TAKE s \in SUBSET (1..(m - 1))
    <3>1. s \in SUBSET (1..m)
      BY <2>1
    <3>2. f[s] = IF s = {} THEN base ELSE Merged(role, f[s \ {Max(s)}], ps[Max(s)])
      BY <2>2 DEF Merging
    <3> QED BY <3>1, <3>2
  <2>4. ASSUME NEW s \in SUBSET (1..m) PROVE g[s] = h[s]
    <3>1. CASE s = {}
      BY <3>1
    <3>2. CASE s # {}
      <4>1. s \ {Max(s)} \in SUBSET (1..(m - 1))
        <5>1. Max(s) \in 1..m /\ s \ {Max(s)} \in SUBSET (1..(Max(s) - 1))
          BY <1>2, <3>2, MaxOf
        <5>2. 1..(Max(s) - 1) \subseteq 1..(m - 1)
          BY <1>2, <5>1
        <5> QED BY <5>1, <5>2
      <4>2. f[s \ {Max(s)}] = g[s \ {Max(s)}]
        BY <2>3, <4>1
      <4> HIDE DEF g
      <4>3. g[s] = Merged(role, f[s \ {Max(s)}], ps[Max(s)])
        BY <3>2 DEF g
      <4> QED BY <3>2, <4>2, <4>3
    <3> QED BY <3>1, <3>2
  <2>5. g = h
    BY <2>4
  <2>6. Merging(role, base, ps, g, m)
    BY <2>5 DEF Merging
  <2> QED BY <1>2, <2>6
<1> QED BY <1>3, <1>4

\* However many policies there are, the merge adds nothing that is barred.
LEMMA MergeFacts ==
    ASSUME NEW role \in {"maker", "checker"}, NEW ps, NEW n \in Nat, DOMAIN ps = 1..n,
           \A k \in 1..n : Limited(role, ps[k])
    PROVE  MergeRolePermissions({role}, ps) \cap Barred(role) = {}
<1> DEFINE base == UNION {DefaultRolePermissions(x) : x \in {role}}
           iter[s \in SUBSET DOMAIN ps] ==
               IF s = {} THEN base ELSE Merged(role, iter[s \ {Max(s)}], ps[Max(s)])
<1>1. MergeRolePermissions({role}, ps) = iter[DOMAIN ps]
  BY DEF MergeRolePermissions, FoldLeft, MapThenFoldSet, Merged, Kept, Listed
<1>2. base \cap Barred(role) = {}
  BY DefaultsFacts
<1> HIDE DEF base
<1>0. \E g : g = [s \in SUBSET DOMAIN ps |->
                    IF s = {} THEN base ELSE Merged(role, g[s \ {Max(s)}], ps[Max(s)])]
  <2> HIDE DEF iter
  <2>1. PICK g : Merging(role, base, ps, g, n)
    BY MergingExists
  <2>2. g = [s \in SUBSET (1..n) |->
               IF s = {} THEN base ELSE Merged(role, g[s \ {Max(s)}], ps[Max(s)])]
    BY <2>1 DEF Merging
  <2>3. SUBSET DOMAIN ps = SUBSET (1..n)
    OBVIOUS
  <2>4. g = [s \in SUBSET DOMAIN ps |->
               IF s = {} THEN base ELSE Merged(role, g[s \ {Max(s)}], ps[Max(s)])]
    BY <2>2, <2>3, Zenon
  <2> QED BY <2>4
<1>3. iter = [s \in SUBSET (1..n) |->
                IF s = {} THEN base ELSE Merged(role, iter[s \ {Max(s)}], ps[Max(s)])]
  BY <1>0
<1> HIDE DEF iter
<1> DEFINE Bad == {m \in Nat : m <= n /\ \E s \in SUBSET (1..m) : iter[s] \cap Barred(role) # {}}
<1>4. ASSUME Bad # {} PROVE FALSE
  <2>1. PICK m \in Bad : \A j \in Bad : m <= j
    BY <1>4, Least
  <2>2. m \in Nat /\ m <= n
    OBVIOUS
  <2>3. PICK s \in SUBSET (1..m) : iter[s] \cap Barred(role) # {}
    OBVIOUS
  <2>4. s \in SUBSET (1..n)
    BY <2>2
  <2>5. s # {}
    BY <1>2, <1>3, <2>3, <2>4
  <2> DEFINE x == Max(s)
  <2>6. x \in 1..m /\ s \ {x} \in SUBSET (1..(x - 1))
    BY <2>2, <2>5, MaxOf
  <2>7. iter[s] = Merged(role, iter[s \ {x}], ps[x])
    BY <1>3, <2>4, <2>5
  <2> HIDE DEF x
  <2>8. x - 1 \in Nat /\ x - 1 <= n /\ x - 1 < m /\ x \in 1..n
    BY <2>2, <2>6
  <2>9. x - 1 \notin Bad
    BY <2>1, <2>2, <2>8
  <2>10. iter[s \ {x}] \cap Barred(role) = {}
    BY <2>6, <2>8, <2>9
  <2> QED BY <2>3, <2>7, <2>8, <2>10, MergedFacts
<1>5. 1..n \in SUBSET (1..n) /\ n \notin Bad
  BY <1>4
<1> QED BY <1>1, <1>5

-----------------------------------------------------------------------------
(* The parts together.                                                     *)

\* At first nothing is remembered, and nobody has asked.
LEMMA InitIInv == Init => IInv
<1> SUFFICES ASSUME Init PROVE IInv
  OBVIOUS
<1> USE KeysOK, PoliciesOK, RealmsOK DEF Init
<1>1. Requests
  BY DEF Requests
<1>2. KeysInv
  <2>1. DOMAIN published = Issuers /\ \A i \in Issuers : published[i] \subseteq KeysOf[i]
    BY DEF KeysInit
  <2>2. /\ DOMAIN issuer_jwks = Issuers /\ \A i \in Issuers : issuer_jwks[i] = None
        /\ DOMAIN withdrawn = Kids /\ \A k \in Kids : withdrawn[k] = None
        /\ static_jwks = {} /\ refresh = [due |-> 0, left |-> StaticUrls, got |-> {}]
    BY DEF KeysInit
  <2>3. \A i \in Issuers : KeysOf[i] \subseteq Kids
    OBVIOUS
  <2>4. /\ DOMAIN refresh = {"due", "left", "got"}
        /\ refresh.left \in Seq(Issuers) /\ refresh.got \subseteq Kids
    BY <2>2
  <2> QED BY <2>1, <2>2, <2>3, <2>4 DEF KeysInv
<1>3. PoliciesInv
  <2>1. /\ policies = [s \in Scopes |-> IF s = Global THEN <<NoPolicy>> ELSE <<>>]
        /\ policy_cache = [s \in Scopes |-> None] /\ replaced = [s \in Scopes |-> <<>>]
    BY DEF PoliciesInit
  <2>2. Global \in Scopes
    BY DEF Scopes
  <2>3. policies \in [Scopes -> Seq(Policies \cup {NoPolicy})] /\ policies[Global] # <<>>
    <3>1. <<NoPolicy>> \in Seq(Policies \cup {NoPolicy}) /\ <<NoPolicy>> # <<>>
      OBVIOUS
    <3>2. << >> \in Seq(Policies \cup {NoPolicy})
      OBVIOUS
    <3> QED BY <2>1, <2>2, <3>1, <3>2
  <2>4. \A s \in Scopes : \A n \in DOMAIN policies[s] : PolicyValid(policies[s][n])
    <3>1. PolicyValid(NoPolicy)
      BY DEF PolicyValid, NoPolicy
    <3> QED BY <2>1, <3>1
  <2>5. DOMAIN policy_cache = Scopes /\ DOMAIN replaced = Scopes /\ CacheSound(policy_cache)
        /\ \A s \in Scopes : DOMAIN replaced[s] = {}
    BY <2>1 DEF CacheSound
  <2> QED BY <2>3, <2>4, <2>5 DEF PoliciesInv
<1>4. RealmsInv
  BY DEF RealmsInit, RealmsInv
<1> QED BY <1>1, <1>2, <1>3, <1>4 DEF IInv

\* A step of one part leaves the others as they were.
LEMMA NextIInv == IInv /\ [Next]_vars => IInv'
<1> SUFFICES ASSUME IInv, [Next]_vars PROVE IInv'
  OBVIOUS
<1>1. Requests /\ KeysInv /\ PoliciesInv /\ RealmsInv
  BY DEF IInv
<1>2. ASSUME NEW S, S \subseteq KeyStages \cup PolicyStages \cup RealmStages, Moves(S),
             UNCHANGED clock
      PROVE  Requests'
  BY <1>1, <1>2 DEF Requests, Moves
<1>3. /\ KeyStages \cap PolicyStages = {} /\ KeyStages \cap RealmStages = {}
      /\ PolicyStages \cap RealmStages = {} /\ PolicyStages \cap KeyStages = {}
      /\ RealmStages \cap KeyStages = {} /\ RealmStages \cap PolicyStages = {}
  BY DEF KeyStages, PolicyStages, RealmStages
<1>4. CASE Tick /\ UNCHANGED <<request, keyVars, policyVars, realmVars>>
  <2>1. clock' = clock + 1
    BY <1>4 DEF Tick
  <2>2. Requests'
    BY <1>1, <1>4, <2>1, PoliciesOK DEF Requests, Tick
  <2>3. KeysInv'
    BY <1>1, <1>4, <2>1, KeysTick
  <2>4. PoliciesInv'
    BY <1>1, <1>4, <2>1, PoliciesTick
  <2>5. RealmsInv'
    BY <1>1, <1>4, <2>1, RealmsTick
  <2> QED BY <2>2, <2>3, <2>4, <2>5 DEF IInv
<1>5. CASE KeysNext /\ UNCHANGED <<clock, policyVars, realmVars>>
  <2>1. KeysInv' /\ Moves(KeyStages)
    BY <1>1, <1>5, KeysNextKeeps
  <2>2. PoliciesInv' /\ RealmsInv'
    BY <1>1, <1>3, <1>5, <2>1, PoliciesElsewhere, RealmsElsewhere
  <2> QED BY <1>2, <1>5, <2>1, <2>2 DEF IInv
<1>6. CASE PoliciesNext /\ UNCHANGED <<clock, keyVars, realmVars>>
  <2>1. PoliciesInv' /\ Moves(PolicyStages)
    BY <1>1, <1>6, PoliciesNextKeeps
  <2>2. KeysInv' /\ RealmsInv'
    BY <1>1, <1>3, <1>6, <2>1, KeysElsewhere, RealmsElsewhere
  <2> QED BY <1>2, <1>6, <2>1, <2>2 DEF IInv
<1>7. CASE RealmsNext /\ UNCHANGED <<clock, keyVars, policyVars>>
  <2>1. RealmsInv' /\ Moves(RealmStages)
    BY <1>1, <1>7, RealmsNextKeeps
  <2>2. KeysInv' /\ PoliciesInv'
    BY <1>1, <1>3, <1>7, <2>1, KeysElsewhere, PoliciesElsewhere
  <2> QED BY <1>2, <1>7, <2>1, <2>2 DEF IInv
<1>8. CASE UNCHANGED vars
  <2>1. UNCHANGED <<clock, request, keyVars, policyVars, realmVars>>
    BY <1>8 DEF vars
  <2>2. Moves({})
    BY <2>1 DEF Moves
  <2>3. KeysInv' /\ PoliciesInv' /\ RealmsInv' /\ Requests'
    BY <1>1, <1>2, <2>1, <2>2, KeysElsewhere, PoliciesElsewhere, RealmsElsewhere
  <2> QED BY <2>3 DEF IInv
<1> QED BY <1>4, <1>5, <1>6, <1>7, <1>8 DEF Next

\* The inductive invariant: what is remembered, and what the requests hold, was so when it
\* was asked for or after.
THEOREM Invariance == Spec => []IInv
<1> QED BY InitIInv, NextIInv, PTL DEF Spec

\* Keys, policies and realms, and what is remembered of them, have their types.
THEOREM TypeCorrect == Spec => []TypeOK
<1>1. IInv => TypeOK
  <2> SUFFICES ASSUME IInv PROVE TypeOK
    OBVIOUS
  <2>1. KeysTypeOK /\ RealmsTypeOK
    BY DEF IInv, Requests, KeysInv, KeysTypeOK, RealmsInv, RealmsTypeOK
  <2>2. \A s \in Scopes : Range(policies[s]) \subseteq Policies \cup {NoPolicy}
    BY DEF IInv, PoliciesInv, Range
  <2>3. ASSUME NEW s \in Scopes, policy_cache[s] # None
        PROVE  policy_cache[s].expires <= MaxTime + PolicyTTL
    <3>1. policy_cache[s].expires \in PolicyTTL..(clock + PolicyTTL)
      BY <2>3 DEF IInv, PoliciesInv, CacheSound
    <3>2. clock \in Nat /\ clock <= MaxTime
      BY DEF IInv, Requests
    <3> QED BY <3>1, <3>2, PoliciesOK
  <2>4. PoliciesTypeOK
    BY <2>2, <2>3 DEF IInv, PoliciesInv, PoliciesTypeOK
  <2> QED BY <2>1, <2>4 DEF TypeOK
<1> QED BY Invariance, <1>1, PTL

\* A policy that was replaced decides no request that began PolicyTTL or more after, for any
\* scopes and any loads and PUTs that overlap (get_effective_policy).
THEOREM PoliciesAreReplaced == Spec => []ReplacedWithinTTL
<1>1. IInv => ReplacedWithinTTL
  <2> SUFFICES ASSUME IInv, NEW c \in Sessions, At(c, "decides"),
                      NEW k \in DOMAIN request[c].found
               PROVE  LET s == ScopesOf(request[c])[k]
                          policy == request[c].found[k]
                      IN  \/ Len(policies[s]) > 1
                          \/ policy \in Range(policies[s])
                          \/ policies[s] = <<>> /\ policy = NoPolicy
                          \/ /\ policy \in DOMAIN replaced[s]
                             /\ request[c].now < replaced[s][policy] + PolicyTTL
    BY DEF ReplacedWithinTTL
  <2> DEFINE r == request[c]
             s == ScopesOf(r)[k]
             policy == r.found[k]
  <2>1. PolicyRequestSound(r) /\ r.stage = "decides"
    BY DEF IInv, PoliciesInv, At, Idle
  <2>2. r.now \in 0..clock /\ r.ctx \in Contexts /\ FoundSound(ScopesOf(r), r.found, r.now)
    BY <2>1 DEF PolicyRequestSound
  <2>3. Known(s, policy, (r.now + 1) - PolicyTTL)
    BY <2>2 DEF FoundSound
  <2>4. s \in Scopes
    <3>1. ScopesOf(r) \in Seq(Scopes)
      BY <2>2, ScopesFacts
    <3>2. k \in 1..Len(ScopesOf(r))
      BY <2>2, <3>1 DEF FoundSound
    <3> HIDE DEF r
    <3> QED BY <3>1, <3>2
  <2>5. \A p \in DOMAIN replaced[s] : replaced[s][p] \in Int
    BY <2>4 DEF IInv, PoliciesInv, Requests
  <2>6. PolicyTTL \in Int /\ r.now \in Int
    BY <2>2, PoliciesOK DEF IInv, Requests
  <2> HIDE DEF r, s, policy
  <2>7. policy \in DOMAIN replaced[s] /\ (r.now + 1) - PolicyTTL <= replaced[s][policy]
          => r.now < replaced[s][policy] + PolicyTTL
    BY <2>5, <2>6
  <2>8. \/ Len(policies[s]) > 1
        \/ policy \in Range(policies[s])
        \/ policies[s] = <<>> /\ policy = NoPolicy
        \/ /\ policy \in DOMAIN replaced[s]
           /\ r.now < replaced[s][policy] + PolicyTTL
    BY <2>3, <2>7 DEF Known
  <2> QED BY <2>8 DEF r, s, policy
<1> QED BY Invariance, <1>1, PTL

\* No policies that may be PUT let a maker or a checker into a route that is forbidden to
\* the role, however many scopes they are merged from (validate_policy_role_permissions).
THEOREM RolesAreApart == Spec => []RolesStayApart
<1>1. IInv => RolesStayApart
  <2> SUFFICES ASSUME IInv, NEW c \in Sessions, At(c, "decides"),
                      NEW role \in {"maker", "checker"}, request[c].ctx.roles = {role},
                      \A k \in DOMAIN request[c].found :
                          role \in DOMAIN request[c].found[k].roles =>
                              "*" \notin request[c].found[k].roles[role],
                      NEW route \in Routes, Granted(request[c], route),
                      route.required # {}, route.required \subseteq Forbidden(role)
               PROVE  FALSE
    BY DEF RolesStayApart
  <2> DEFINE r == request[c]
  <2>1. r.ctx \in Contexts /\ FoundSound(ScopesOf(r), r.found, r.now)
    BY DEF IInv, PoliciesInv, At, Idle, PolicyRequestSound
  <2>2. /\ Len(r.found) \in Nat /\ DOMAIN r.found = 1..Len(r.found)
        /\ \A k \in 1..Len(r.found) : Limited(role, r.found[k])
    <3>1. ScopesOf(r) \in Seq(Scopes)
      BY <2>1, ScopesFacts
    <3> QED BY <2>1, <3>1 DEF FoundSound, Limited
  <2>3. EffectiveRoles(r.ctx) = {role}
    BY DEF EffectiveRoles
  <2>4. PermissionsOf(r) \cap Barred(role) = {}
    <3>1. PermissionsOf(r) = MergeRolePermissions({role}, r.found)
      BY <2>3 DEF PermissionsOf
    <3> HIDE DEF r
    <3> QED BY <2>2, <3>1, MergeFacts
  <2> HIDE DEF r
  <2>5. "*" \notin PermissionsOf(r) /\ PermissionsOf(r) \cap route.required = {}
    BY <2>4 DEF Barred
  <2>6. Granted(r, route)
    BY DEF r
  <2> QED BY <2>5, <2>6 DEF Granted, HasAnyPermission, HasPermissions
<1> QED BY Invariance, <1>1, PTL

\* Whoever asked before, a request is told that its realm is not found only if it was missing
\* less than MissingTTL before the request began (_discover_realm_exists_with_attempts).
THEOREM RealmsAreFound == Spec => []RealmsFoundSoon
<1>1. IInv => RealmsFoundSoon
  <2> SUFFICES ASSUME IInv, AllowedRealms = {}, RealmTTL > 0, NEW c \in Sessions,
                      At(c, "answered"), request[c].status = 404
               PROVE  LET realm == request[c].realm
                      IN  served[realm] = None \/ since[realm] + MissingTTL > request[c].now
    BY DEF RealmsFoundSoon
  <2>1. RealmRequestSound(request[c])
    BY DEF IInv, RealmsInv, At, Idle
  <2>2. /\ request[c].realm \in Realms /\ request[c].now \in 0..clock
        /\ MissingSince(request[c].realm, (request[c].now + 1) - MissingTTL)
    BY <2>1 DEF At, RealmRequestSound, RealmStages
  <2>3. since[request[c].realm] \in Int /\ request[c].now \in Int /\ MissingTTL \in Int
    BY <2>2, RealmsOK DEF IInv, RealmsInv, Requests
  <2> QED BY <2>2, <2>3 DEF MissingSince
<1> QED BY Invariance, <1>1, PTL

\* A token is taken only while its key is published, or KeyTTL and one fetch after, for any
\* issuers, keys and requests that wait for one fetch (decode_jwt, _get_issuer_cache).
THEOREM KeysAreOutlived == Spec => KeysOutlivedByTTL
<1> DEFINE A == \A c \in Sessions :
                  request'[c] # request[c] /\ At(c, "decoded")' =>
                      LET kid == request'[c].token.kid
                      IN  \/ kid \in static_jwks
                          \/ withdrawn[kid] = None
                          \/ clock < withdrawn[kid] + KeyTTL + FetchTimeout
<1>1. IInv /\ [Next]_vars => [A]_request
  <2> SUFFICES ASSUME IInv, [Next]_vars, NEW c \in Sessions,
                      request'[c] # request[c], At(c, "decoded")'
               PROVE  InTime(c)
    BY DEF InTime
  <2>1. CASE KeysNext /\ UNCHANGED clock
    BY <2>1, KeysNextKeeps DEF IInv
  <2>2. CASE PoliciesNext /\ UNCHANGED clock
    <3>1. Moves(PolicyStages)
      BY <2>2, PoliciesNextKeeps DEF IInv
    <3> QED BY <3>1 DEF Moves, PolicyStages, At, Idle
  <2>3. CASE RealmsNext /\ UNCHANGED clock
    <3>1. Moves(RealmStages)
      BY <2>3, RealmsNextKeeps DEF IInv
    <3> QED BY <3>1 DEF Moves, RealmStages, At, Idle
  <2>4. CASE UNCHANGED request
    BY <2>4
  <2> QED BY <2>1, <2>2, <2>3, <2>4 DEF Next, vars
<1> QED BY Invariance, <1>1, PTL DEF Spec, KeysOutlivedByTTL
=============================================================================
