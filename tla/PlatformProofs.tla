---------------------------- MODULE PlatformProofs ----------------------------
(***************************************************************************)
(* What Platform promises, for any tenants, baselines, products and        *)
(* requests.  The three parts share the sessions and nothing else: each    *)
(* has an inductive invariant of its own, about its tables and the         *)
(* requests that have to do with it, and a step of one part leaves what    *)
(* the others know as it is.                                               *)
(***************************************************************************)
EXTENDS Platform, SequenceTheorems, TLAPS

TenantOps == {"create", "remove", "user", "deploy"}
BaselineOps == {"header", "drop", "define", "rewrite", "erase", "issue", "ask", "copy", "adapt"}
ProductOps == {"offer", "write", "delete"}

Busy(c, ops) == ~Idle(c) /\ request[c].op \in ops

\* A step in which only requests of some operations begin, go on or end.
Only(ops) ==
    /\ DOMAIN request' = Sessions
    /\ \A c \in Sessions : \/ request'[c] = request[c]
                           \/ (Idle(c) \/ Busy(c, ops)) /\ (Idle(c) \/ Busy(c, ops))'

-----------------------------------------------------------------------------
(* Tenants.                                                                *)

\* Where requests can be, and what they hold on to.
TenantRequest(r) ==
    /\ r.op = "create" => r \in Creation
    /\ r.op = "remove" => r \in Removal
    /\ r.op = "user" =>
           /\ r.id \in TenantIds /\ r.key \in Keys /\ r.accounts \in Accounts
           /\ DOMAIN r = {"op", "id", "key", "at", "made", "accounts"}
           /\ r.at \in {"realm", "roles", "client", "account", "assign", "link"}
    /\ r.op = "create" /\ r.at \in {"account", "assign"} => r.accounts # <<>>
    /\ r.op = "user" => r.accounts # <<>>
    /\ r.op = "deploy" => DOMAIN r = {"op", "todo"}

\* The tenant of a request was registered, under the key the request goes by.
Known(r) ==
    r.op \in {"create", "remove", "user"} =>
        /\ tenants[r.id] # None
        /\ Lives(tenants[r.id]) => tenants[r.id].key = r.key

Creates(c, t) == ~Idle(c) /\ request[c].op = "create" /\ request[c].id = t
Open(t) == Lives(tenants[t]) /\ tenants[t].active

\* A creation that gave up has made the tenant inactive, or minds that it could not.
Undone(r) ==
    r.op = "create" /\ r.at \in {"drop", "erase"} /\ ~r.exposed => r.id \in blamed \/ ~Open(r.id)

\* What a creation has set up of a realm is there when it saves that it is.
RealmReady(k) == realms[k] # None /\ realms[k].client
SetUp(r) ==
    r.op = "create" /\ r.at = "save" /\ Lives(tenants[r.id]) /\ r.id \notin blamed
        => RealmReady(r.key)

\* What a tenant that is let in lacks, somebody is about to make, or to take the tenant away.
Parts == {"schema", "client"}
Lacks(t, part) == Open(t) /\ part \in Needs(t) \ Has(t)
Makes(r, part) ==
    \/ r.at \in {"schema", "migrate"}
    \/ part = "client" /\ r.at \in {"realm", "roles", "client", "save"}
    \/ r.at \in {"unmake", "deactivate"}
    \/ r.at \in {"drop", "erase"} /\ r.exposed
Mends(c, t, part) ==
    /\ ~Idle(c) /\ request[c].op \in {"create", "remove"} /\ request[c].id = t
    /\ IF request[c].op = "create" THEN Makes(request[c], part) ELSE request[c].at = "erase"
Mended(t, part) == Lacks(t, part) /\ t \notin blamed => \E c \in Sessions : Mends(c, t, part)

TenantsSound ==
    /\ TenantsTypeOK
    /\ \A c \in Sessions : Busy(c, TenantOps) =>
           /\ TenantRequest(request[c])
           /\ Known(request[c]) /\ Undone(request[c]) /\ SetUp(request[c])
    /\ \A c, d \in Sessions, t \in TenantIds : Creates(c, t) /\ Creates(d, t) => c = d
    /\ \A t \in TenantIds, part \in Parts : Mended(t, part)

-----------------------------------------------------------------------------
(* Baselines.                                                              *)

BaselineRequest(r) ==
    /\ r.op = "header" => r.column \in {"active", "locked", "current"}
    /\ r.op = "header" => r.to \in IF r.column = "current" THEN BDefs \cup {None} ELSE BOOLEAN
    /\ r.op = "define" =>
           /\ r.id \in BDefs /\ r.id # BFirst
           /\ r.rules \in Configs /\ r.asks \in SUBSET Questions
    /\ r.op \in {"rewrite", "erase", "issue", "ask"} => r.id \in BDefs
    /\ r.op = "rewrite" =>
           /\ r.base \in Definition /\ r.base.draft
           /\ \E rules \in Configs : r.mine = [r.base EXCEPT !.rules = rules]
    /\ r.op = "issue" => r.sets \in BOOLEAN
    /\ r.op = "ask" => r.asks \in SUBSET Questions
    /\ r.op = "copy" => r.id \in TDefs /\ r.row \in Copy /\ r.row.from # None
    /\ r.op = "adapt" =>
           /\ r.id \in TDefs /\ r.base \in Copy /\ r.base.draft
           /\ \E own \in OwnConfigs : r.mine = [r.base EXCEPT !.rules = own]

\* An id is taken when its row is inserted, by one request.
NewDefinition(c, b) == ~Idle(c) /\ request[c].op = "define" /\ request[c].id = b
NewCopy(c, d) == ~Idle(c) /\ request[c].op = "copy" /\ request[c].id = d

BaselineSound ==
    /\ BaselineTypeOK
    /\ \A c \in Sessions : Busy(c, BaselineOps) => BaselineRequest(request[c])
    /\ \A b \in BDefs : ~Lives(baseline) => ~Lives(bdefs[b])
    /\ baseline = None => \A b \in BDefs : bdefs[b] = None
    /\ \A d \in TDefs : tdefs[d] # None /\ tdefs[d].from # None => Lives(bdefs[tdefs[d].from])
    /\ \A b \in BDefs, c, d \in Sessions :
           NewDefinition(c, b) => bdefs[b] = None /\ (NewDefinition(d, b) => c = d)
    /\ \A e \in TDefs, c, d \in Sessions :
           NewCopy(c, e) => tdefs[e] = None /\ (NewCopy(d, e) => c = d)

-----------------------------------------------------------------------------
(* Products.                                                               *)

ProductRequest(r) ==
    /\ r.op \in {"offer", "write", "delete"} => r.id \in ProductIds
    /\ r.op = "offer" => r.mine \in ProductRow /\ r.mine.status = "draft"
    /\ r.op = "write" =>
           /\ r.base \in ProductRow /\ r.mine \in ProductRow
           /\ \/ Changeable(r.base, r.mine) /\ r.mine.status = r.base.status
              \/ r.mine.template = r.base.template /\ r.mine.code = r.base.code
                 /\ (r.mine.status = "active" => r.base.template # None)

ProductsSound ==
    /\ ProductsTypeOK
    /\ \A c \in Sessions : Busy(c, ProductOps) => ProductRequest(request[c])
    /\ \A p \in ProductIds : Lives(products[p]) /\ products[p].template # None
                                 => Lives(templates[products[p].template])

IInv == DOMAIN request = Sessions /\ TenantsSound /\ BaselineSound /\ ProductsSound

-----------------------------------------------------------------------------
(* Steps of one part, and what the others keep.                            *)

\* Who has to do with a part is who had before, unchanged, if the step is another part's.
LEMMA ApartFacts ==
    ASSUME NEW mine, NEW theirs, mine \cap theirs = {}, Only(theirs), NEW c \in Sessions,
           Busy(c, mine) \/ Busy(c, mine)'
    PROVE  request'[c] = request[c] /\ Busy(c, mine) /\ Busy(c, mine)'
<1>1. CASE request'[c] = request[c]
  BY <1>1 DEF Busy, Idle
<1>2. CASE (Idle(c) \/ Busy(c, theirs)) /\ (Idle(c) \/ Busy(c, theirs))'
  BY <1>2 DEF Busy, Idle
<1> QED BY <1>1, <1>2 DEF Only

\* A request begins, goes on or ends.
LEMMA IsOnly ==
    ASSUME NEW ops, NEW c \in Sessions, NEW r, DOMAIN request = Sessions,
           request' = [request EXCEPT ![c] = r],
           Idle(c) \/ Busy(c, ops), r = None \/ r.op \in ops
    PROVE  Only(ops)
<1>1. ASSUME NEW d \in Sessions, d # c
      PROVE  request'[d] = request[d]
  BY <1>1
<1>2. request'[c] = r
  OBVIOUS
<1>3. (Idle(c) \/ Busy(c, ops))'
  BY <1>2 DEF Idle, Busy
<1> QED BY <1>1, <1>3 DEF Only

\* What a request of another part knows nothing of.
LEMMA SoundRequest ==
    ASSUME NEW c \in Sessions, request'[c] = request[c]
    PROVE  /\ TenantRequest(request[c])' <=> TenantRequest(request[c])
           /\ BaselineRequest(request[c])' <=> BaselineRequest(request[c])
           /\ ProductRequest(request[c])' <=> ProductRequest(request[c])
<1>1. PICK r : r = request[c]
  OBVIOUS
<1> QED BY <1>1

\* A step of another part leaves tenants, and the requests about them, as they are.
LEMMA TenantsStay ==
    ASSUME TenantsSound, NEW ops, ops \cap TenantOps = {}, Only(ops), UNCHANGED tenantVars
    PROVE  TenantsSound'
<1>1. UNCHANGED <<tenants, schemas, realms, links, crashes, blamed>>
  BY DEF tenantVars
<1>2. TenantsTypeOK'
  BY <1>1 DEF TenantsSound, TenantsTypeOK
<1>3. \A c \in Sessions : Busy(c, TenantOps) \/ Busy(c, TenantOps)'
          => request'[c] = request[c] /\ Busy(c, TenantOps) /\ Busy(c, TenantOps)'
  BY ApartFacts
<1>4. ASSUME NEW c \in Sessions, Busy(c, TenantOps)'
      PROVE  (TenantRequest(request[c]) /\ Known(request[c]) /\ Undone(request[c]) /\ SetUp(request[c]))'
  <2>1. request'[c] = request[c] /\ Busy(c, TenantOps)
    BY <1>3, <1>4
  <2>2. PICK r : r = request[c]
    OBVIOUS
  <2>3. TenantRequest(r) /\ Known(r) /\ Undone(r) /\ SetUp(r)
    BY <2>1, <2>2 DEF TenantsSound
  <2>4. Known(r)' /\ Undone(r)' /\ SetUp(r)'
    BY <2>3, <1>1 DEF Known, Undone, SetUp, Open, RealmReady
  <2> QED BY <2>1, <2>2, <2>3, <2>4
<1>5. ASSUME NEW c \in Sessions, NEW t
      PROVE  Creates(c, t)' <=> Creates(c, t)
  BY <1>3, <1>5 DEF Creates, Busy, TenantOps, Idle
<1>6. ASSUME NEW t \in TenantIds, NEW part \in Parts
      PROVE  Mended(t, part)'
  <2>1. Lacks(t, part)' <=> Lacks(t, part)
    BY <1>1 DEF Lacks, Open, Needs, Has
  <2>2. \A c \in Sessions : Mends(c, t, part) => Mends(c, t, part)'
    BY <1>3 DEF Mends, Busy, TenantOps, Makes
  <2> QED BY <2>1, <2>2, <1>1 DEF TenantsSound, Mended
<1> QED BY <1>2, <1>4, <1>5, <1>6 DEF TenantsSound

\* A step of another part leaves baselines, and the requests about them, as they are.
LEMMA BaselineStays ==
    ASSUME BaselineSound, NEW ops, ops \cap BaselineOps = {}, Only(ops), UNCHANGED baselineVars
    PROVE  BaselineSound'
<1>1. UNCHANGED <<baseline, bdefs, basks, tdefs>>
  BY DEF baselineVars
<1>2. \A c \in Sessions : Busy(c, BaselineOps) \/ Busy(c, BaselineOps)'
          => request'[c] = request[c] /\ Busy(c, BaselineOps) /\ Busy(c, BaselineOps)'
  BY ApartFacts
<1>3. ASSUME NEW c \in Sessions
      PROVE  /\ \A b : NewDefinition(c, b)' <=> NewDefinition(c, b)
             /\ \A d : NewCopy(c, d)' <=> NewCopy(c, d)
  BY <1>2, <1>3 DEF NewDefinition, NewCopy, Busy, BaselineOps, Idle
<1>4. \A c \in Sessions : Busy(c, BaselineOps)' => BaselineRequest(request[c])'
  BY <1>2, SoundRequest DEF BaselineSound
<1>5. BaselineTypeOK'
  BY <1>1 DEF BaselineSound, BaselineTypeOK
<1> QED BY <1>1, <1>3, <1>4, <1>5 DEF BaselineSound, Lives

\* A step of another part leaves products, and the requests about them, as they are.
LEMMA ProductsStay ==
    ASSUME ProductsSound, NEW ops, ops \cap ProductOps = {}, Only(ops), UNCHANGED productVars
    PROVE  ProductsSound'
<1>1. UNCHANGED <<products, templates>>
  BY DEF productVars
<1>2. \A c \in Sessions : Busy(c, ProductOps) \/ Busy(c, ProductOps)'
          => request'[c] = request[c] /\ Busy(c, ProductOps) /\ Busy(c, ProductOps)'
  BY ApartFacts
<1>3. \A c \in Sessions : Busy(c, ProductOps)' => ProductRequest(request[c])'
  BY <1>2, SoundRequest DEF ProductsSound
<1> QED BY <1>1, <1>3 DEF ProductsSound, ProductsTypeOK, Lives

-----------------------------------------------------------------------------
(* Products.                                                               *)

\* A row is none of the markers.
LEMMA ProductMarkers ==
    /\ \A row \in ProductRow : Lives(row)
    /\ \A row \in TemplateRow : Lives(row)
    /\ ~Lives(None) /\ ~Lives(Deleted)
BY ProductsOK DEF ProductsOK, Lives

\* A commit of a product writes the columns that were changed (Flush of UnitOfWork).
LEMMA ProductFlush ==
    ASSUME NEW row \in ProductRow, NEW base \in ProductRow, NEW mine \in ProductRow
    PROVE  /\ Flush(row, base, mine) \in ProductRow
           /\ Flush(row, base, mine).template =
                  IF mine.template # base.template THEN mine.template ELSE row.template
           /\ Flush(row, base, mine).status =
                  IF mine.status # base.status THEN mine.status ELSE row.status
<1>1. DOMAIN row = {"status", "code", "template"}
  BY DEF ProductRow
<1>2. Flush(row, base, mine) =
          [status |-> IF mine.status # base.status THEN mine.status ELSE row.status,
           code |-> IF mine.code # base.code THEN mine.code ELSE row.code,
           template |-> IF mine.template # base.template THEN mine.template ELSE row.template]
  BY <1>1 DEF Flush, ProductRow
<1> QED BY <1>2 DEF ProductRow

\* One request opens or ends; what products there are is sound.
LEMMA ProductsStep ==
    ASSUME ProductsSound, NEW c \in Sessions, NEW r, DOMAIN request = Sessions,
           request' = [request EXCEPT ![c] = r], r = None \/ ProductRequest(r),
           ProductsTypeOK',
           \A p \in ProductIds : Lives(products'[p]) /\ products'[p].template # None
                                     => Lives(templates'[products'[p].template])
    PROVE  ProductsSound'
<1>1. ASSUME NEW d \in Sessions, Busy(d, ProductOps)'
      PROVE  ProductRequest(request[d])'
  <2>1. CASE d = c
    <3>1. request'[d] = r /\ r # None
      BY <1>1, <2>1 DEF Busy, Idle
    <3> QED BY <3>1
  <2>2. CASE d # c
    <3>1. request'[d] = request[d]
      BY <2>2
    <3>2. Busy(d, ProductOps)
      BY <1>1, <3>1 DEF Busy, Idle
    <3> QED BY <3>1, <3>2, SoundRequest DEF ProductsSound
  <2> QED BY <2>1, <2>2
<1> QED BY <1>1 DEF ProductsSound

\* What a commit of a request makes of its product (create_product, update_product,
\* activate_product, deactivate_product, delete_product).
LEMMA CommittedProduct ==
    ASSUME ProductsSound, NEW c \in Sessions, WriteCommit(c)
    PROVE  LET r == request[c]
           IN  /\ ProductRequest(r) /\ r.op = "write" /\ r.id \in ProductIds /\ ~Idle(c)
               /\ products[r.id] \in ProductRow
               /\ Flush(products[r.id], r.base, r.mine) \in ProductRow
               /\ products' = [products EXCEPT ![r.id] = Flush(products[r.id], r.base, r.mine)]
               /\ r.mine.template # r.base.template /\ r.mine.template # None
                      => Lives(templates[r.mine.template])
               /\ templates' = templates /\ Close(c)
<1> DEFINE r == request[c]
           after == Flush(products[r.id], r.base, r.mine)
<1>1. /\ ~Idle(c) /\ r.op = "write" /\ Lives(products[r.id])
      /\ products' = [products EXCEPT ![r.id] = after]
      /\ RowFits(r.id, [products'[r.id] EXCEPT
                           !.template = IF r.mine.template = r.base.template THEN None ELSE @])
      /\ templates' = templates /\ Close(c)
  BY DEF WriteCommit, Does
<1>2. ProductRequest(r) /\ r.id \in ProductIds
  BY <1>1 DEF ProductsSound, Busy, ProductOps, ProductRequest
<1>3. products[r.id] \in ProductRow /\ products \in [ProductIds -> ProductRow \cup {None, Deleted}]
  BY <1>1, <1>2 DEF ProductsSound, ProductsTypeOK, Lives
<1>4. after \in ProductRow /\ (r.mine.template # r.base.template => after.template = r.mine.template)
  BY <1>1, <1>2, <1>3, ProductFlush DEF ProductRequest
<1> HIDE DEF after, r
<1>5. products'[r.id] = after
  BY <1>1, <1>2, <1>3
<1>6. r.mine.template # r.base.template /\ r.mine.template # None => Lives(templates[r.mine.template])
  <2> SUFFICES ASSUME r.mine.template # r.base.template, r.mine.template # None
               PROVE  Lives(templates[r.mine.template])
    OBVIOUS
  <2> DEFINE row == [products'[r.id] EXCEPT
                        !.template = IF r.mine.template = r.base.template THEN None ELSE @]
  <2>1. row.template = r.mine.template
    BY <1>4, <1>5 DEF ProductRow
  <2>2. row.template # None => Lives(templates[row.template])
    BY <1>1 DEF RowFits
  <2> QED BY <2>1, <2>2
<1> QED BY <1>1, <1>2, <1>3, <1>4, <1>6 DEF after, r

\* The commit of an update, an activation or a deactivation of a product.
LEMMA WriteCommitSound ==
    ASSUME ProductsSound, DOMAIN request = Sessions, NEW c \in Sessions, WriteCommit(c)
    PROVE  ProductsSound'
<1> DEFINE r == request[c]
           after == Flush(products[r.id], r.base, r.mine)
<1>1. /\ ProductRequest(r) /\ r.op = "write" /\ r.id \in ProductIds
      /\ products[r.id] \in ProductRow /\ after \in ProductRow
      /\ products' = [products EXCEPT ![r.id] = after]
      /\ r.mine.template # r.base.template /\ r.mine.template # None
             => Lives(templates[r.mine.template])
      /\ templates' = templates /\ request' = [request EXCEPT ![c] = None]
  BY CommittedProduct DEF Close, Is
<1>2. products \in [ProductIds -> ProductRow \cup {None, Deleted}]
  BY DEF ProductsSound, ProductsTypeOK
<1>3. after.template \in {r.mine.template, products[r.id].template}
      /\ (after.template # products[r.id].template => r.mine.template # r.base.template)
  BY <1>1, ProductFlush DEF ProductRequest
<1>4. after.template # None => Lives(templates[after.template])
  BY <1>1, <1>3, ProductMarkers DEF ProductsSound
<1> HIDE DEF after, r
<1>5. ProductsTypeOK'
  BY <1>1, <1>2 DEF ProductsSound, ProductsTypeOK
<1>6. \A p \in ProductIds : Lives(products'[p]) /\ products'[p].template # None
                                => Lives(templates'[products'[p].template])
  BY <1>1, <1>2, <1>4 DEF ProductsSound
<1> QED BY <1>1, <1>5, <1>6, ProductsStep

\* The steps of products (products/service.py).
LEMMA ProductsNextSound ==
    ASSUME ProductsSound, DOMAIN request = Sessions, ProductsNext
    PROVE  ProductsSound' /\ Only(ProductOps)
<1> USE DEF ProductOps
<1>1. /\ products \in [ProductIds -> ProductRow \cup {None, Deleted}]
      /\ templates \in [Templates -> TemplateRow \cup {None, Deleted}]
  BY DEF ProductsSound, ProductsTypeOK
<1>2. ASSUME request' = request
      PROVE  Only(ProductOps) /\ (\A c \in Sessions : Busy(c, ProductOps)' => ProductRequest(request[c])')
  BY <1>2, SoundRequest DEF Only, ProductsSound, Busy, Idle
<1>3. ASSUME NEW t \in Templates, NewTemplate(t)
      PROVE  ProductsSound' /\ Only(ProductOps)
  <2>1. templates' = [templates EXCEPT ![t] = [active |-> TRUE]] /\ products' = products /\ request' = request
    BY <1>3 DEF NewTemplate
  <2>2. [active |-> TRUE] \in TemplateRow
    BY DEF TemplateRow
  <2>3. ProductsTypeOK'
    BY <1>1, <2>1, <2>2 DEF ProductsTypeOK
  <2>4. \A u \in Templates : Lives(templates[u]) => Lives(templates'[u])
    BY <1>1, <2>1, <2>2, ProductMarkers
  <2>5. \A p \in ProductIds : Lives(products[p]) => products[p].template \in Templates \cup {None}
    BY <1>1 DEF Lives, ProductRow
  <2> QED BY <1>2, <2>1, <2>3, <2>4, <2>5 DEF ProductsSound
<1>4. ASSUME NEW t \in Templates, NEW active \in BOOLEAN, SetActive(t, active)
      PROVE  ProductsSound' /\ Only(ProductOps)
  <2>1. /\ templates' = [templates EXCEPT ![t].active = active] /\ products' = products
        /\ request' = request /\ templates[t] \in TemplateRow
    BY <1>1, <1>4 DEF SetActive, Lives
  <2>2. [templates[t] EXCEPT !.active = active] \in TemplateRow
    BY <2>1 DEF TemplateRow
  <2>3. ProductsTypeOK'
    BY <1>1, <2>1, <2>2 DEF ProductsTypeOK
  <2>4. \A u \in Templates : Lives(templates[u]) => Lives(templates'[u])
    BY <1>1, <2>1, <2>2, ProductMarkers
  <2>5. \A p \in ProductIds : Lives(products[p]) => products[p].template \in Templates \cup {None}
    BY <1>1 DEF Lives, ProductRow
  <2> QED BY <1>2, <2>1, <2>3, <2>4, <2>5 DEF ProductsSound
<1>5. ASSUME NEW t \in Templates, DeleteTemplate(t)
      PROVE  ProductsSound' /\ Only(ProductOps)
  <2>1. /\ templates' = [templates EXCEPT ![t] = Deleted] /\ request' = request
        /\ products' = [p \in ProductIds |->
                           IF Lives(products[p]) /\ products[p].template = t
                           THEN [products[p] EXCEPT !.template = None] ELSE products[p]]
    BY <1>5 DEF DeleteTemplate
  <2>2. ASSUME NEW p \in ProductIds, Lives(products[p])
        PROVE  /\ products[p] \in ProductRow /\ [products[p] EXCEPT !.template = None] \in ProductRow
               /\ [products[p] EXCEPT !.template = None].template = None
    BY <1>1, <2>2 DEF Lives, ProductRow
  <2>3. ProductsTypeOK'
    BY <1>1, <2>1, <2>2 DEF ProductsTypeOK
  <2>4. ASSUME NEW p \in ProductIds, Lives(products'[p]), products'[p].template # None
        PROVE  Lives(templates'[products'[p].template])
    <3>1. products'[p] = products[p] /\ products[p].template # t
      BY <2>1, <2>2, <2>4
    <3> QED BY <1>1, <2>1, <2>4, <3>1 DEF ProductsSound
  <2> QED BY <1>2, <2>1, <2>3, <2>4 DEF ProductsSound
<1>6. ASSUME NEW c \in Sessions, NEW r, Is(c, r), ProductRequest(r), r.op \in ProductOps,
             Idle(c), UNCHANGED productVars
      PROVE  ProductsSound' /\ Only(ProductOps)
  <2>1. ProductsTypeOK' /\ products' = products /\ templates' = templates
    BY <1>1, <1>6 DEF productVars, ProductsTypeOK
  <2>2. request' = [request EXCEPT ![c] = r]
    BY <1>6 DEF Is
  <2>3. ProductsSound'
    BY <1>6, <2>1, <2>2, ProductsStep DEF ProductsSound
  <2>4. Only(ProductOps)
    BY <1>6, <2>2, IsOnly
  <2> QED BY <2>3, <2>4
<1>7. ASSUME NEW c \in Sessions, NEW p \in ProductIds, NEW code \in Codes,
             NEW t \in Templates \cup {None}, CreateBegin(c, p, code, t)
      PROVE  ProductsSound' /\ Only(ProductOps)
  <2> DEFINE r == [op |-> "offer", id |-> p,
                   mine |-> [status |-> "draft", code |-> code, template |-> t]]
  <2>1. ProductRequest(r) /\ r.op \in ProductOps
    BY DEF ProductRequest, ProductRow, Statuses
  <2>2. Is(c, r) /\ Idle(c) /\ UNCHANGED productVars
    BY <1>7 DEF CreateBegin
  <2> HIDE DEF r
  <2> QED BY <1>6, <2>1, <2>2
<1>8. ASSUME NEW c \in Sessions, NEW p \in ProductIds, NEW mine \in ProductRow, Writes(c, p, mine),
             Idle(c), Lives(products[p]),
             \/ Changeable(products[p], mine) /\ mine.status = products[p].status
             \/ mine.template = products[p].template /\ mine.code = products[p].code
                /\ (mine.status = "active" => products[p].template # None)
      PROVE  ProductsSound' /\ Only(ProductOps)
  <2> DEFINE r == [op |-> "write", id |-> p, base |-> products[p], mine |-> mine]
  <2>1. products[p] \in ProductRow
    BY <1>1, <1>8 DEF Lives
  <2>2. ProductRequest(r) /\ r.op \in ProductOps
    BY <1>8, <2>1 DEF ProductRequest
  <2>3. Is(c, r) /\ UNCHANGED productVars
    BY <1>8 DEF Writes
  <2> HIDE DEF r
  <2> QED BY <1>6, <1>8, <2>2, <2>3
<1>9. ASSUME NEW c \in Sessions, NEW p \in ProductIds, NEW code \in Codes,
             NEW t \in Templates \cup {None}, UpdateBegin(c, p, code, t)
      PROVE  ProductsSound' /\ Only(ProductOps)
  <2> DEFINE mine == [products[p] EXCEPT !.code = code, !.template = t]
  <2>1. Idle(c) /\ Lives(products[p]) /\ Changeable(products[p], mine) /\ Writes(c, p, mine)
    BY <1>9 DEF UpdateBegin
  <2>2. products[p] \in ProductRow
    BY <1>1, <2>1 DEF Lives
  <2>3. mine \in ProductRow /\ mine.status = products[p].status
    BY <2>2 DEF ProductRow
  <2> HIDE DEF mine
  <2> QED BY <1>8, <2>1, <2>3
<1>10. ASSUME NEW c \in Sessions, NEW p \in ProductIds, ActivateBegin(c, p) \/ DeactivateBegin(c, p)
       PROVE  ProductsSound' /\ Only(ProductOps)
  <2>1. PICK status \in {"active", "inactive"} :
            /\ Idle(c) /\ Lives(products[p]) /\ Writes(c, p, [products[p] EXCEPT !.status = status])
            /\ status = "active" => products[p].template # None
    BY <1>10 DEF ActivateBegin, DeactivateBegin
  <2> DEFINE mine == [products[p] EXCEPT !.status = status]
  <2>2. products[p] \in ProductRow
    BY <1>1, <2>1 DEF Lives
  <2>3. /\ mine \in ProductRow /\ mine.template = products[p].template
        /\ mine.code = products[p].code /\ mine.status = status
    BY <2>2 DEF ProductRow, Statuses
  <2>4. Writes(c, p, mine)
    BY <2>1
  <2> HIDE DEF mine
  <2> QED BY <1>8, <2>1, <2>3, <2>4
<1>11. ASSUME NEW c \in Sessions, NEW p \in ProductIds, DeleteBegin(c, p)
       PROVE  ProductsSound' /\ Only(ProductOps)
  BY <1>6, <1>11 DEF DeleteBegin, ProductRequest
<1>12. ASSUME NEW c \in Sessions, CreateCommit(c)
       PROVE  ProductsSound' /\ Only(ProductOps)
  <2> DEFINE r == request[c]
  <2>1. /\ ~Idle(c) /\ r.op = "offer" /\ RowFits(r.id, r.mine)
        /\ products' = [products EXCEPT ![r.id] = r.mine] /\ templates' = templates
        /\ request' = [request EXCEPT ![c] = None]
    BY <1>12 DEF CreateCommit, Does, Close, Is
  <2>2. r.id \in ProductIds /\ r.mine \in ProductRow /\ Busy(c, ProductOps)
    BY <2>1 DEF ProductsSound, Busy, ProductRequest
  <2> HIDE DEF r
  <2>3. ProductsTypeOK'
    BY <1>1, <2>1, <2>2 DEF ProductsTypeOK
  <2>4. \A p \in ProductIds : Lives(products'[p]) /\ products'[p].template # None
                                  => Lives(templates'[products'[p].template])
    BY <1>1, <2>1, <2>2 DEF ProductsSound, RowFits
  <2>5. ProductsSound'
    BY <2>1, <2>3, <2>4, ProductsStep
  <2> QED BY <2>1, <2>2, <2>5, IsOnly
<1>13. ASSUME NEW c \in Sessions, WriteCommit(c)
       PROVE  ProductsSound' /\ Only(ProductOps)
  <2>1. request' = [request EXCEPT ![c] = None] /\ Busy(c, ProductOps)
    BY <1>13 DEF WriteCommit, Does, Close, Is, Busy
  <2> QED BY <1>13, <2>1, WriteCommitSound, IsOnly
<1>14. ASSUME NEW c \in Sessions, DeleteCommit(c)
       PROVE  ProductsSound' /\ Only(ProductOps)
  <2> DEFINE r == request[c]
  <2>1. /\ ~Idle(c) /\ r.op = "delete"
        /\ products' = [products EXCEPT ![r.id] = Deleted] /\ templates' = templates
        /\ request' = [request EXCEPT ![c] = None]
    BY <1>14 DEF DeleteCommit, Does, Close, Is
  <2>2. Busy(c, ProductOps)
    BY <2>1 DEF Busy
  <2> HIDE DEF r
  <2>3. ProductsTypeOK'
    BY <1>1, <2>1 DEF ProductsTypeOK
  <2>4. \A p \in ProductIds : Lives(products'[p]) /\ products'[p].template # None
                                  => Lives(templates'[products'[p].template])
    BY <1>1, <2>1, ProductMarkers DEF ProductsSound
  <2>5. ProductsSound'
    BY <2>1, <2>3, <2>4, ProductsStep
  <2> QED BY <2>1, <2>2, <2>5, IsOnly
<1> QED
  BY <1>3, <1>4, <1>5, <1>7, <1>9, <1>10, <1>11, <1>12, <1>13, <1>14 DEF ProductsNext

-----------------------------------------------------------------------------
(* Baselines.                                                              *)

\* A row is none of the markers.
LEMMA BaselineMarkers ==
    /\ \A row \in Header \cup Definition : Lives(row)
    /\ \A row \in Copy : row # None
    /\ ~Lives(None) /\ ~Lives(Deleted) /\ None # Deleted
BY BaselinesOK, MarkersDiffer DEF BaselinesOK, Lives

\* One request begins, goes on or ends, and the tables are sound.
LEMMA BaselineStep ==
    ASSUME BaselineSound, NEW c \in Sessions, NEW r, DOMAIN request = Sessions,
           request' = [request EXCEPT ![c] = r],
           r = None \/ BaselineRequest(r),
           r # None /\ r.op = "define" =>
               bdefs'[r.id] = None /\ \A d \in Sessions : ~NewDefinition(d, r.id),
           r # None /\ r.op = "copy" =>
               tdefs'[r.id] = None /\ \A d \in Sessions : ~NewCopy(d, r.id),
           \A b \in BDefs : bdefs[b] = None /\ bdefs'[b] # None => r = None /\ NewDefinition(c, b),
           \A e \in TDefs : tdefs[e] = None /\ tdefs'[e] # None => r = None /\ NewCopy(c, e),
           BaselineTypeOK',
           \A b \in BDefs : ~Lives(baseline') => ~Lives(bdefs'[b]),
           baseline' = None => \A b \in BDefs : bdefs'[b] = None,
           \A d \in TDefs : tdefs'[d] # None /\ tdefs'[d].from # None => Lives(bdefs'[tdefs'[d].from])
    PROVE  BaselineSound'
<1>1. request'[c] = r /\ \A d \in Sessions : d # c => request'[d] = request[d]
  OBVIOUS
<1>2. ASSUME NEW d \in Sessions, Busy(d, BaselineOps)'
      PROVE  BaselineRequest(request[d])'
  <2>1. CASE d = c
    <3>1. request'[d] = r /\ r # None
      BY <1>1, <1>2, <2>1 DEF Busy, Idle
    <3> QED BY <3>1
  <2>2. CASE d # c
    <3>1. request'[d] = request[d]
      BY <1>1, <2>2
    <3>2. Busy(d, BaselineOps)
      BY <1>2, <3>1 DEF Busy, Idle
    <3> QED BY <3>1, <3>2, SoundRequest DEF BaselineSound
  <2> QED BY <2>1, <2>2
<1>3. ASSUME NEW b \in BDefs, NEW d \in Sessions, NEW e \in Sessions, NewDefinition(d, b)'
      PROVE  bdefs'[b] = None /\ (NewDefinition(e, b)' => d = e)
  <2>1. \A f \in Sessions : f # c => (NewDefinition(f, b)' <=> NewDefinition(f, b))
    BY <1>1 DEF NewDefinition, Idle
  <2>2. NewDefinition(c, b)' => r # None /\ r.op = "define" /\ r.id = b
    BY <1>1 DEF NewDefinition, Idle
  <2>3. \A f, g \in Sessions : NewDefinition(f, b) => bdefs[b] = None /\ (NewDefinition(g, b) => f = g)
    BY DEF BaselineSound
  <2> QED BY <1>3, <2>1, <2>2, <2>3
<1>4. ASSUME NEW b \in TDefs, NEW d \in Sessions, NEW e \in Sessions, NewCopy(d, b)'
      PROVE  tdefs'[b] = None /\ (NewCopy(e, b)' => d = e)
  <2>1. \A f \in Sessions : f # c => (NewCopy(f, b)' <=> NewCopy(f, b))
    BY <1>1 DEF NewCopy, Idle
  <2>2. NewCopy(c, b)' => r # None /\ r.op = "copy" /\ r.id = b
    BY <1>1 DEF NewCopy, Idle
  <2>3. \A f, g \in Sessions : NewCopy(f, b) => tdefs[b] = None /\ (NewCopy(g, b) => f = g)
    BY DEF BaselineSound
  <2> QED BY <1>4, <2>1, <2>2, <2>3
<1> QED BY <1>2, <1>3, <1>4 DEF BaselineSound

\* A request begins.
LEMMA BaselineBegins ==
    ASSUME BaselineSound, NEW c \in Sessions, NEW r, DOMAIN request = Sessions,
           Idle(c), Is(c, r), r.op \in BaselineOps, BaselineRequest(r),
           r.op = "define" => bdefs[r.id] = None /\ \A d \in Sessions : ~NewDefinition(d, r.id),
           r.op = "copy" => tdefs[r.id] = None /\ \A d \in Sessions : ~NewCopy(d, r.id),
           UNCHANGED baselineVars
    PROVE  BaselineSound' /\ Only(BaselineOps)
<1>1. UNCHANGED <<baseline, bdefs, basks, tdefs>> /\ request' = [request EXCEPT ![c] = r]
  BY DEF baselineVars, Is
<1>2. BaselineTypeOK'
  BY <1>1 DEF BaselineSound, BaselineTypeOK
<1>3. /\ \A b \in BDefs : ~Lives(baseline') => ~Lives(bdefs'[b])
      /\ baseline' = None => \A b \in BDefs : bdefs'[b] = None
      /\ \A d \in TDefs : tdefs'[d] # None /\ tdefs'[d].from # None => Lives(bdefs'[tdefs'[d].from])
  BY <1>1 DEF BaselineSound
<1>4. bdefs' = bdefs /\ tdefs' = tdefs
  BY <1>1
<1>5. r # None /\ r.op = "define" =>
          bdefs'[r.id] = None /\ \A d \in Sessions : ~NewDefinition(d, r.id)
  BY <1>4
<1>6. r # None /\ r.op = "copy" =>
          tdefs'[r.id] = None /\ \A d \in Sessions : ~NewCopy(d, r.id)
  BY <1>4
<1>7. /\ \A b \in BDefs : bdefs[b] = None /\ bdefs'[b] # None => r = None /\ NewDefinition(c, b)
      /\ \A e \in TDefs : tdefs[e] = None /\ tdefs'[e] # None => r = None /\ NewCopy(c, e)
  BY <1>4
<1>8. BaselineSound'
  BY <1>1, <1>2, <1>3, <1>5, <1>6, <1>7, BaselineStep
<1> QED BY <1>1, <1>8, IsOnly

\* A request ends, and has done what it was for.
LEMMA BaselineEnds ==
    ASSUME BaselineSound, NEW c \in Sessions, DOMAIN request = Sessions,
           Busy(c, BaselineOps), Close(c),
           \A b \in BDefs : bdefs[b] = None /\ bdefs'[b] # None => NewDefinition(c, b),
           \A e \in TDefs : tdefs[e] = None /\ tdefs'[e] # None => NewCopy(c, e),
           BaselineTypeOK',
           \A b \in BDefs : ~Lives(baseline') => ~Lives(bdefs'[b]),
           baseline' = None => \A b \in BDefs : bdefs'[b] = None,
           \A d \in TDefs : tdefs'[d] # None /\ tdefs'[d].from # None => Lives(bdefs'[tdefs'[d].from])
    PROVE  BaselineSound' /\ Only(BaselineOps)
<1>1. request' = [request EXCEPT ![c] = None]
  BY DEF Close, Is
<1>2. BaselineSound'
  BY <1>1, BaselineStep
<1> QED BY <1>1, <1>2, IsOnly

\* What goes leaves nothing that needs it, and nothing that is not there comes of it.
LEMMA WithoutFacts ==
    ASSUME BaselineTypeOK, NEW gone \in SUBSET BDefs, Without(gone)
    PROVE  /\ bdefs' \in [BDefs -> Definition \cup {None, Deleted}]
           /\ basks' \in [BDefs -> SUBSET Questions]
           /\ tdefs' \in [TDefs -> Copy \cup {None}]
           /\ \A b \in BDefs : IF b \in gone THEN ~Lives(bdefs'[b]) ELSE bdefs'[b] = bdefs[b]
           /\ \A b \in BDefs : bdefs'[b] = None <=> bdefs[b] = None
           /\ \A d \in TDefs : tdefs'[d] = None <=> tdefs[d] = None
           /\ \A d \in TDefs : tdefs'[d] # None /\ tdefs'[d].from # None
                  => tdefs[d] # None /\ tdefs'[d].from = tdefs[d].from /\ tdefs[d].from \notin gone
<1>1. /\ bdefs \in [BDefs -> Definition \cup {None, Deleted}]
      /\ basks \in [BDefs -> SUBSET Questions] /\ tdefs \in [TDefs -> Copy \cup {None}]
  BY DEF BaselineTypeOK
<1>2. bdefs' = [b \in BDefs |-> IF b \in gone /\ Lives(bdefs[b]) THEN Deleted ELSE bdefs[b]]
      /\ basks' = [b \in BDefs |-> IF b \in gone THEN {} ELSE basks[b]]
  BY DEF Without
<1>3. tdefs' = [d \in TDefs |-> IF tdefs[d] # None /\ tdefs[d].from \in gone
                               THEN [tdefs[d] EXCEPT !.from = None] ELSE tdefs[d]]
  BY DEF Without
<1>4. \A row \in Copy : [row EXCEPT !.from = None] \in Copy /\ [row EXCEPT !.from = None].from = None
  BY DEF Copy
<1>5. \A d \in TDefs : tdefs[d] # None => tdefs[d] \in Copy
  BY <1>1
<1>6. tdefs' \in [TDefs -> Copy \cup {None}]
  BY <1>1, <1>3, <1>4, <1>5
<1>7. \A d \in TDefs : tdefs'[d] = None <=> tdefs[d] = None
  BY <1>3, <1>4, <1>5, BaselineMarkers
<1>8. \A d \in TDefs : tdefs'[d] # None /\ tdefs'[d].from # None
          => tdefs[d] # None /\ tdefs'[d].from = tdefs[d].from /\ tdefs[d].from \notin gone
  BY <1>3, <1>4, <1>5
<1>9. bdefs' \in [BDefs -> Definition \cup {None, Deleted}] /\ basks' \in [BDefs -> SUBSET Questions]
  BY <1>1, <1>2
<1>10. /\ \A b \in BDefs : IF b \in gone THEN ~Lives(bdefs'[b]) ELSE bdefs'[b] = bdefs[b]
       /\ \A b \in BDefs : bdefs'[b] = None <=> bdefs[b] = None
  BY <1>2, BaselineMarkers
<1> QED BY <1>6, <1>7, <1>8, <1>9, <1>10

\* A baseline comes with its first definition or without one.
LEMMA CreateBaselineSound ==
    ASSUME BaselineSound, DOMAIN request = Sessions,
           NEW rules \in Configs, NEW asks \in {{}, Questions}, CreateBaseline(rules, asks)
    PROVE  BaselineSound' /\ Only(BaselineOps)
<1>1. /\ bdefs \in [BDefs -> Definition \cup {None, Deleted}]
      /\ basks \in [BDefs -> SUBSET Questions] /\ tdefs \in [TDefs -> Copy \cup {None}]
  BY DEF BaselineSound, BaselineTypeOK
<1>2. \A b \in BDefs : bdefs[b] = None
  BY DEF BaselineSound, CreateBaseline
<1>3. request' = request /\ tdefs' = tdefs
  BY DEF CreateBaseline
<1>4. /\ baseline' \in Header
      /\ bdefs' \in [BDefs -> Definition \cup {None, Deleted}] /\ basks' \in [BDefs -> SUBSET Questions]
      /\ \A b \in BDefs : b # BFirst => bdefs'[b] = bdefs[b]
  <2>1. CASE /\ baseline' = [active |-> TRUE, locked |-> FALSE, current |-> BFirst]
             /\ bdefs' = [bdefs EXCEPT ![BFirst] = [draft |-> TRUE, rules |-> rules]]
             /\ basks' = [basks EXCEPT ![BFirst] = asks]
    BY <1>1, <2>1, BaselinesOK DEF BaselinesOK, Header, Definition
  <2>2. CASE /\ baseline' = [active |-> TRUE, locked |-> FALSE, current |-> None]
             /\ UNCHANGED <<bdefs, basks>>
    BY <1>1, <2>2 DEF Header
  <2> QED BY <2>1, <2>2 DEF CreateBaseline
<1>5. BaselineTypeOK' /\ Lives(baseline') /\ baseline' # None
  BY <1>1, <1>3, <1>4, BaselineMarkers DEF BaselineTypeOK
<1>6. \A d \in TDefs : tdefs[d] # None => tdefs[d].from = None
  BY <1>1, <1>2, BaselineMarkers DEF BaselineSound, Copy
<1>7. \A c \in Sessions : Busy(c, BaselineOps)' => BaselineRequest(request[c])'
  BY <1>3, SoundRequest DEF BaselineSound, Busy, Idle
<1>8. ASSUME NEW b \in BDefs, NEW c \in Sessions, NEW d \in Sessions, NewDefinition(c, b)'
      PROVE  bdefs'[b] = None /\ (NewDefinition(d, b)' => c = d)
  <2>1. NewDefinition(c, b) /\ (NewDefinition(d, b)' <=> NewDefinition(d, b))
    BY <1>3, <1>8 DEF NewDefinition, Idle
  <2>2. b # BFirst
    BY <2>1 DEF NewDefinition, BaselineSound, BaselineRequest, Busy, BaselineOps
  <2> QED BY <1>4, <2>1, <2>2 DEF BaselineSound
<1>9. ASSUME NEW e \in TDefs, NEW c \in Sessions, NEW d \in Sessions, NewCopy(c, e)'
      PROVE  tdefs'[e] = None /\ (NewCopy(d, e)' => c = d)
  <2>1. NewCopy(c, e) /\ (NewCopy(d, e)' <=> NewCopy(d, e))
    BY <1>3, <1>9 DEF NewCopy, Idle
  <2> QED BY <1>3, <2>1 DEF BaselineSound
<1> QED BY <1>3, <1>5, <1>6, <1>7, <1>8, <1>9 DEF BaselineSound, Only

\* A tenant publishes what it has copied.
LEMMA PublishCopySound ==
    ASSUME BaselineSound, DOMAIN request = Sessions, NEW t \in TDefs, PublishCopy(t)
    PROVE  BaselineSound' /\ Only(BaselineOps)
<1>1. tdefs \in [TDefs -> Copy \cup {None}] /\ tdefs[t] # None
      /\ tdefs' = [tdefs EXCEPT ![t].draft = FALSE]
  BY DEF BaselineSound, BaselineTypeOK, PublishCopy
<1>2. baseline' = baseline /\ bdefs' = bdefs /\ basks' = basks /\ request' = request
  BY DEF PublishCopy
<1>3. tdefs[t] \in Copy /\ [tdefs[t] EXCEPT !.draft = FALSE] \in Copy
      /\ [tdefs[t] EXCEPT !.draft = FALSE].from = tdefs[t].from
  BY <1>1 DEF Copy
<1>4. /\ tdefs' \in [TDefs -> Copy \cup {None}]
      /\ \A d \in TDefs : tdefs'[d] = None <=> tdefs[d] = None
      /\ \A d \in TDefs : tdefs[d] # None => tdefs'[d].from = tdefs[d].from
  BY <1>1, <1>3, BaselineMarkers
<1>5. BaselineTypeOK'
  BY <1>2, <1>4 DEF BaselineSound, BaselineTypeOK
<1>6. \A c \in Sessions : Busy(c, BaselineOps)' => BaselineRequest(request[c])'
  BY <1>2, SoundRequest DEF BaselineSound, Busy, Idle
<1>7. \A c \in Sessions : /\ \A b : NewDefinition(c, b)' <=> NewDefinition(c, b)
                          /\ \A d : NewCopy(c, d)' <=> NewCopy(c, d)
  BY <1>2 DEF NewDefinition, NewCopy, Idle
<1>8. \A b \in BDefs, c, d \in Sessions :
          NewDefinition(c, b)' => bdefs'[b] = None /\ (NewDefinition(d, b)' => c = d)
  BY <1>2, <1>7 DEF BaselineSound
<1>9. \A e \in TDefs, c, d \in Sessions :
          NewCopy(c, e)' => tdefs'[e] = None /\ (NewCopy(d, e)' => c = d)
  BY <1>4, <1>7 DEF BaselineSound
<1> QED BY <1>2, <1>4, <1>5, <1>6, <1>8, <1>9 DEF BaselineSound, Only

\* What requests are made with (update_baseline_template to get_tenant_template_definition).
LEMMA BaselineBeginSound ==
    ASSUME BaselineSound, DOMAIN request = Sessions, NEW c \in Sessions,
           \/ \E to \in BOOLEAN, column \in {"active", "locked"} : HeaderBegin(c, column, to)
           \/ \E b \in BDefs \cup {None} : HeaderBegin(c, "current", b)
           \/ DropBegin(c)
           \/ \E b \in BDefs :
                  \/ \E rules \in Configs, asks \in SUBSET Questions : DefineBegin(c, b, rules, asks)
                  \/ \E rules \in Configs : RewriteBegin(c, b, rules)
                  \/ EraseBegin(c, b)
                  \/ \E set_as_active \in BOOLEAN : IssueBegin(c, b, set_as_active)
                  \/ \E asks \in (SUBSET Questions) \ {{}}, adds \in BOOLEAN : AskBegin(c, b, asks, adds)
           \/ \E d \in TDefs, own \in OwnConfigs : CopyBegin(c, d, own) \/ AdaptBegin(c, d, own)
    PROVE  BaselineSound' /\ Only(BaselineOps)
<1> USE DEF BaselineOps
<1>1. /\ baseline \in Header \cup {None, Deleted}
      /\ bdefs \in [BDefs -> Definition \cup {None, Deleted}]
      /\ basks \in [BDefs -> SUBSET Questions]
  BY DEF BaselineSound, BaselineTypeOK
<1>2. ASSUME NEW column \in {"active", "locked", "current"},
             NEW to \in IF column = "current" THEN BDefs \cup {None} ELSE BOOLEAN,
             HeaderBegin(c, column, to)
      PROVE  BaselineSound' /\ Only(BaselineOps)
  <2> DEFINE r == [op |-> "header", column |-> column, to |-> to]
  <2>1. BaselineRequest(r) /\ r.op = "header"
    BY DEF BaselineRequest
  <2>2. Idle(c) /\ Is(c, r) /\ UNCHANGED baselineVars
    BY <1>2 DEF HeaderBegin
  <2> HIDE DEF r
  <2> QED BY <2>1, <2>2, BaselineBegins
<1>3. ASSUME DropBegin(c)
      PROVE  BaselineSound' /\ Only(BaselineOps)
  <2> DEFINE r == [op |-> "drop"]
  <2>1. BaselineRequest(r) /\ r.op = "drop"
    BY DEF BaselineRequest
  <2>2. Idle(c) /\ Is(c, r) /\ UNCHANGED baselineVars
    BY <1>3 DEF DropBegin
  <2> HIDE DEF r
  <2> QED BY <2>1, <2>2, BaselineBegins
<1>4. ASSUME NEW b \in BDefs, NEW rules \in Configs, NEW asks \in SUBSET Questions,
             DefineBegin(c, b, rules, asks)
      PROVE  BaselineSound' /\ Only(BaselineOps)
  <2> DEFINE r == [op |-> "define", id |-> b, rules |-> rules, asks |-> asks]
  <2>1. BaselineRequest(r) /\ r.op = "define" /\ r.id = b
    BY <1>4 DEF BaselineRequest, DefineBegin
  <2>2. Idle(c) /\ Is(c, r) /\ UNCHANGED baselineVars /\ bdefs[b] = None
    BY <1>4 DEF DefineBegin
  <2>3. \A d \in Sessions : ~NewDefinition(d, b)
    BY <1>4 DEF DefineBegin, NewDefinition, Does
  <2> HIDE DEF r
  <2> QED BY <2>1, <2>2, <2>3, BaselineBegins
<1>5. ASSUME NEW b \in BDefs, NEW rules \in Configs, RewriteBegin(c, b, rules)
      PROVE  BaselineSound' /\ Only(BaselineOps)
  <2> DEFINE r == [op |-> "rewrite", id |-> b, base |-> bdefs[b],
                   mine |-> [bdefs[b] EXCEPT !.rules = rules]]
  <2>1. bdefs[b] \in Definition /\ bdefs[b].draft
    BY <1>1, <1>5 DEF RewriteBegin, IsDraft, Lives
  <2>2. BaselineRequest(r) /\ r.op = "rewrite"
    BY <2>1 DEF BaselineRequest
  <2>3. Idle(c) /\ Is(c, r) /\ UNCHANGED baselineVars
    BY <1>5 DEF RewriteBegin
  <2> HIDE DEF r
  <2> QED BY <2>2, <2>3, BaselineBegins
<1>6. ASSUME NEW b \in BDefs, EraseBegin(c, b)
      PROVE  BaselineSound' /\ Only(BaselineOps)
  <2> DEFINE r == [op |-> "erase", id |-> b]
  <2>1. BaselineRequest(r) /\ r.op = "erase"
    BY DEF BaselineRequest
  <2>2. Idle(c) /\ Is(c, r) /\ UNCHANGED baselineVars
    BY <1>6 DEF EraseBegin
  <2> HIDE DEF r
  <2> QED BY <2>1, <2>2, BaselineBegins
<1>7. ASSUME NEW b \in BDefs, NEW set_as_active \in BOOLEAN, IssueBegin(c, b, set_as_active)
      PROVE  BaselineSound' /\ Only(BaselineOps)
  <2> DEFINE sets == set_as_active /\ baseline.current # b
             r == [op |-> "issue", id |-> b, sets |-> sets]
  <2>1. sets \in BOOLEAN
    OBVIOUS
  <2>2. Idle(c) /\ Is(c, r) /\ UNCHANGED baselineVars
    BY <1>7 DEF IssueBegin
  <2> HIDE DEF sets
  <2>3. BaselineRequest(r) /\ r.op = "issue"
    BY <2>1 DEF BaselineRequest
  <2> HIDE DEF r
  <2> QED BY <2>2, <2>3, BaselineBegins
<1>8. ASSUME NEW b \in BDefs, NEW asks \in SUBSET Questions, NEW adds \in BOOLEAN,
             AskBegin(c, b, asks, adds)
      PROVE  BaselineSound' /\ Only(BaselineOps)
  <2> DEFINE r == [op |-> "ask", id |-> b, asks |-> asks, adds |-> adds]
  <2>1. BaselineRequest(r) /\ r.op = "ask"
    BY DEF BaselineRequest
  <2>2. Idle(c) /\ Is(c, r) /\ UNCHANGED baselineVars
    BY <1>8 DEF AskBegin
  <2> HIDE DEF r
  <2> QED BY <2>1, <2>2, BaselineBegins
<1>9. ASSUME NEW d \in TDefs, NEW own \in OwnConfigs, CopyBegin(c, d, own)
      PROVE  BaselineSound' /\ Only(BaselineOps)
  <2> DEFINE row == [draft |-> TRUE, from |-> ActiveBaseline, locked |-> basks[ActiveBaseline],
                     rules |-> own]
             r == [op |-> "copy", id |-> d, row |-> row]
  <2>1. ActiveBaseline \in BDefs /\ ActiveBaseline # None
    BY <1>1, <1>9 DEF CopyBegin, ActiveBaseline, Lives, Header
  <2>2. row \in Copy /\ row.from # None
    BY <1>1, <2>1 DEF Copy
  <2>3. Idle(c) /\ Is(c, r) /\ UNCHANGED baselineVars /\ tdefs[d] = None
    BY <1>9 DEF CopyBegin
  <2>4. \A s \in Sessions : ~NewCopy(s, d)
    BY <1>9 DEF CopyBegin, NewCopy, Does
  <2> HIDE DEF row
  <2>5. BaselineRequest(r) /\ r.op = "copy" /\ r.id = d
    BY <2>2 DEF BaselineRequest
  <2> HIDE DEF r
  <2> QED BY <2>3, <2>4, <2>5, BaselineBegins
<1>10. ASSUME NEW to \in BOOLEAN, NEW column \in {"active", "locked"}, HeaderBegin(c, column, to)
       PROVE  BaselineSound' /\ Only(BaselineOps)
  BY <1>2, <1>10
<1>11. ASSUME NEW b \in BDefs \cup {None}, HeaderBegin(c, "current", b)
       PROVE  BaselineSound' /\ Only(BaselineOps)
  BY <1>2, <1>11
<1>12. ASSUME NEW d \in TDefs, NEW own \in OwnConfigs, AdaptBegin(c, d, own)
       PROVE  BaselineSound' /\ Only(BaselineOps)
  <2> DEFINE r == [op |-> "adapt", id |-> d, base |-> tdefs[d],
                   mine |-> [tdefs[d] EXCEPT !.rules = own]]
  <2>1. tdefs[d] \in Copy /\ tdefs[d].draft
    BY <1>12 DEF AdaptBegin, BaselineSound, BaselineTypeOK
  <2>2. BaselineRequest(r) /\ r.op = "adapt"
    BY <2>1 DEF BaselineRequest
  <2>3. Idle(c) /\ Is(c, r) /\ UNCHANGED baselineVars
    BY <1>12 DEF AdaptBegin
  <2> HIDE DEF r
  <2> QED BY <2>2, <2>3, BaselineBegins
<1> QED
  BY <1>3, <1>4, <1>5, <1>6, <1>7, <1>8, <1>9, <1>10, <1>11, <1>12

\* What requests do when they commit.
LEMMA BaselineCommitSound ==
    ASSUME BaselineSound, DOMAIN request = Sessions, NEW c \in Sessions,
           \/ HeaderCommit(c) \/ DropCommit(c) \/ DefineCommit(c) \/ RewriteCommit(c)
           \/ EraseCommit(c) \/ IssueCommit(c) \/ AskCommit(c) \/ CopyCommit(c) \/ AdaptCommit(c)
    PROVE  BaselineSound' /\ Only(BaselineOps)
<1> USE DEF BaselineOps
<1>1. /\ baseline \in Header \cup {None, Deleted}
      /\ bdefs \in [BDefs -> Definition \cup {None, Deleted}]
      /\ basks \in [BDefs -> SUBSET Questions]
      /\ tdefs \in [TDefs -> Copy \cup {None}]
  BY DEF BaselineSound, BaselineTypeOK
<1>2. Busy(c, BaselineOps) /\ BaselineRequest(request[c]) /\ Close(c)
  BY DEF HeaderCommit, DropCommit, DefineCommit, RewriteCommit, EraseCommit, IssueCommit, AskCommit,
         CopyCommit, AdaptCommit, Does, Busy, BaselineSound
<1>3. PICK r : r = request[c]
  OBVIOUS
<1>4. BaselineRequest(r)
  BY <1>2, <1>3
<1>5. /\ \A b \in BDefs : Lives(bdefs[b]) => bdefs[b] \in Definition /\ Lives(baseline)
      /\ Lives(baseline) => baseline \in Header
      /\ \A d \in TDefs : tdefs[d] # None /\ tdefs[d].from # None => Lives(bdefs[tdefs[d].from])
      /\ \A d \in TDefs : tdefs[d] # None => tdefs[d].from \in BDefs \cup {None}
  BY <1>1 DEF BaselineSound, Lives, Copy
<1>6. CASE HeaderCommit(c)
  <2>1. /\ r.op = "header" /\ Lives(baseline) /\ bdefs' = bdefs /\ basks' = basks /\ tdefs' = tdefs
        /\ baseline' = [baseline EXCEPT ![r.column] = r.to]
    BY <1>3, <1>6 DEF HeaderCommit, Does
  <2>2. baseline' \in Header
    BY <1>4, <1>5, <2>1 DEF BaselineRequest, Header
  <2>3. BaselineTypeOK' /\ Lives(baseline') /\ baseline' # None
    BY <1>1, <2>1, <2>2, BaselineMarkers DEF BaselineTypeOK
  <2> QED BY <1>2, <1>5, <2>1, <2>3, BaselineEnds
<1>7. CASE DropCommit(c)
  <2>1. Lives(baseline) /\ baseline' = Deleted /\ Without(BDefs)
    BY <1>7 DEF DropCommit
  <2>2. BaselineTypeOK
    BY DEF BaselineSound
  <2>3. /\ BaselineTypeOK' /\ (\A b \in BDefs : ~Lives(bdefs'[b]))
        /\ \A b \in BDefs : bdefs'[b] = None <=> bdefs[b] = None
        /\ \A d \in TDefs : tdefs'[d] = None <=> tdefs[d] = None
        /\ \A d \in TDefs : tdefs'[d] = None \/ tdefs'[d].from = None
    BY <1>5, <2>1, <2>2, WithoutFacts DEF BaselineTypeOK
  <2> QED BY <1>2, <2>1, <2>3, BaselineEnds, BaselineMarkers
<1>8. CASE DefineCommit(c)
  <2> DEFINE row == [draft |-> TRUE, rules |-> r.rules]
  <2>1. /\ r.op = "define" /\ Lives(baseline) /\ baseline' = baseline /\ tdefs' = tdefs
        /\ bdefs' = [bdefs EXCEPT ![r.id] = row] /\ basks' = [basks EXCEPT ![r.id] = r.asks]
    BY <1>3, <1>8 DEF DefineCommit, Does
  <2>2. r.id \in BDefs /\ row \in Definition /\ r.asks \in SUBSET Questions
    BY <1>4, <2>1 DEF BaselineRequest, Definition
  <2>3. NewDefinition(c, r.id)
    BY <1>2, <1>3, <2>1 DEF NewDefinition, Busy
  <2> HIDE DEF row
  <2>4. BaselineTypeOK' /\ baseline' # None /\ Lives(row)
    BY <1>1, <2>1, <2>2, BaselineMarkers DEF BaselineTypeOK, Lives
  <2>5. \A b \in BDefs : IF b = r.id THEN Lives(bdefs'[b]) ELSE bdefs'[b] = bdefs[b]
    BY <1>1, <2>1, <2>2, <2>4
  <2> QED BY <1>2, <1>5, <2>1, <2>3, <2>4, <2>5, BaselineEnds
<1>9. CASE RewriteCommit(c)
  <2> DEFINE row == Flush(bdefs[r.id], r.base, r.mine)
  <2>1. /\ r.op = "rewrite" /\ Lives(bdefs[r.id]) /\ baseline' = baseline /\ tdefs' = tdefs
        /\ basks' = basks /\ bdefs' = [bdefs EXCEPT ![r.id] = row]
    BY <1>3, <1>9 DEF RewriteCommit, Does
  <2>2. r.id \in BDefs /\ r.base \in Definition /\ \E rules \in Configs : r.mine = [r.base EXCEPT !.rules = rules]
    BY <1>4, <2>1 DEF BaselineRequest
  <2>3. bdefs[r.id] \in Definition /\ r.mine \in Definition
    BY <1>5, <2>1, <2>2 DEF Definition
  <2>4. row \in Definition
    BY <2>2, <2>3 DEF Flush, Definition
  <2> HIDE DEF row
  <2>5. BaselineTypeOK' /\ baseline' # None /\ Lives(baseline') /\ Lives(row)
    BY <1>1, <1>5, <2>1, <2>2, <2>4, BaselineMarkers DEF BaselineTypeOK, Lives
  <2>6. \A b \in BDefs : IF b = r.id THEN Lives(bdefs'[b]) /\ bdefs[b] # None ELSE bdefs'[b] = bdefs[b]
    BY <1>1, <2>1, <2>2, <2>5, BaselineMarkers
  <2> QED BY <1>2, <1>5, <2>1, <2>5, <2>6, BaselineEnds
<1>10. CASE EraseCommit(c)
  <2>1. /\ r.op = "erase" /\ Lives(bdefs[r.id]) /\ Without({r.id})
        /\ baseline' = IF baseline.current = r.id THEN [baseline EXCEPT !.current = None] ELSE baseline
    BY <1>3, <1>10 DEF EraseCommit, Does
  <2>2. r.id \in BDefs /\ BaselineTypeOK
    BY <1>4, <2>1 DEF BaselineRequest, BaselineSound
  <2>3. baseline' \in Header
    BY <1>5, <2>1, <2>2 DEF Header
  <2>4. /\ BaselineTypeOK' /\ Lives(baseline') /\ baseline' # None
        /\ \A b \in BDefs : b # r.id => bdefs'[b] = bdefs[b]
        /\ \A b \in BDefs : bdefs'[b] = None <=> bdefs[b] = None
        /\ \A d \in TDefs : tdefs'[d] = None <=> tdefs[d] = None
        /\ \A d \in TDefs : tdefs'[d] # None /\ tdefs'[d].from # None
               => tdefs[d] # None /\ tdefs'[d].from = tdefs[d].from /\ tdefs[d].from # r.id
    BY <2>1, <2>2, <2>3, WithoutFacts, BaselineMarkers DEF BaselineTypeOK
  <2>5. \A d \in TDefs : tdefs'[d] # None /\ tdefs'[d].from # None => Lives(bdefs'[tdefs'[d].from])
    BY <1>5, <2>4
  <2> QED BY <1>2, <2>4, <2>5, BaselineEnds
<1>11. CASE IssueCommit(c)
  <2>1. /\ r.op = "issue" /\ Lives(bdefs[r.id]) /\ bdefs' = [bdefs EXCEPT ![r.id].draft = FALSE]
        /\ baseline' = IF r.sets THEN [baseline EXCEPT !.current = r.id] ELSE baseline
        /\ basks' = basks /\ tdefs' = tdefs
    BY <1>3, <1>11 DEF IssueCommit, Does
  <2>2. r.id \in BDefs /\ bdefs[r.id] \in Definition
    BY <1>4, <1>5, <2>1 DEF BaselineRequest
  <2> DEFINE row == [bdefs[r.id] EXCEPT !.draft = FALSE]
  <2>3. row \in Definition /\ bdefs' = [bdefs EXCEPT ![r.id] = row]
    BY <2>1, <2>2 DEF Definition
  <2>4. baseline' \in Header
    BY <1>5, <2>1, <2>2 DEF Header
  <2> HIDE DEF row
  <2>5. BaselineTypeOK' /\ baseline' # None /\ Lives(baseline') /\ Lives(row)
    BY <1>1, <2>1, <2>2, <2>3, <2>4, BaselineMarkers DEF BaselineTypeOK, Lives
  <2>6. \A b \in BDefs : IF b = r.id THEN Lives(bdefs'[b]) /\ bdefs[b] # None ELSE bdefs'[b] = bdefs[b]
    BY <1>1, <2>1, <2>2, <2>3, <2>5, BaselineMarkers
  <2> QED BY <1>2, <1>5, <2>1, <2>5, <2>6, BaselineEnds
<1>12. CASE AskCommit(c)
  <2>1. /\ r.op = "ask" /\ baseline' = baseline /\ bdefs' = bdefs /\ tdefs' = tdefs
        /\ basks' = [basks EXCEPT ![r.id] = IF r.adds THEN @ \cup r.asks ELSE @ \ r.asks]
    BY <1>3, <1>12 DEF AskCommit, Does
  <2>2. r.id \in BDefs /\ r.asks \in SUBSET Questions
    BY <1>4, <2>1 DEF BaselineRequest
  <2>3. BaselineTypeOK'
    BY <1>1, <2>1, <2>2 DEF BaselineTypeOK
  <2>4. /\ \A b \in BDefs : ~Lives(baseline) => ~Lives(bdefs[b])
        /\ baseline = None => \A b \in BDefs : bdefs[b] = None
    BY DEF BaselineSound
  <2> QED BY <1>2, <1>5, <2>1, <2>3, <2>4, BaselineEnds
<1>13. CASE CopyCommit(c)
  <2>1. /\ r.op = "copy" /\ Lives(bdefs[r.row.from]) /\ tdefs' = [tdefs EXCEPT ![r.id] = r.row]
        /\ baseline' = baseline /\ bdefs' = bdefs /\ basks' = basks
    BY <1>3, <1>13 DEF CopyCommit, Does
  <2>2. r.id \in TDefs /\ r.row \in Copy
    BY <1>4, <2>1 DEF BaselineRequest
  <2>3. NewCopy(c, r.id)
    BY <1>2, <1>3, <2>1 DEF NewCopy, Busy
  <2>4. BaselineTypeOK'
    BY <1>1, <2>1, <2>2 DEF BaselineTypeOK
  <2>5. \A d \in TDefs : IF d = r.id THEN tdefs'[d] = r.row ELSE tdefs'[d] = tdefs[d]
    BY <1>1, <2>1, <2>2
  <2>6. /\ \A b \in BDefs : ~Lives(baseline) => ~Lives(bdefs[b])
        /\ baseline = None => \A b \in BDefs : bdefs[b] = None
    BY DEF BaselineSound
  <2> QED BY <1>2, <1>5, <2>1, <2>3, <2>4, <2>5, <2>6, BaselineEnds
<1>14. CASE AdaptCommit(c)
  <2> DEFINE row == Flush(tdefs[r.id], r.base, r.mine)
  <2>1. /\ r.op = "adapt" /\ tdefs[r.id] # None /\ tdefs' = [tdefs EXCEPT ![r.id] = row]
        /\ baseline' = baseline /\ bdefs' = bdefs /\ basks' = basks
    BY <1>3, <1>14 DEF AdaptCommit, Does
  <2>2. r.id \in TDefs /\ r.base \in Copy /\ \E own \in OwnConfigs : r.mine = [r.base EXCEPT !.rules = own]
    BY <1>4, <2>1 DEF BaselineRequest
  <2>3. tdefs[r.id] \in Copy /\ r.mine \in Copy /\ r.mine.from = r.base.from
    BY <1>1, <2>1, <2>2 DEF Copy
  <2>4. row \in Copy /\ row.from = tdefs[r.id].from
    BY <2>2, <2>3 DEF Flush, Copy
  <2> HIDE DEF row
  <2>5. BaselineTypeOK'
    BY <1>1, <2>1, <2>2, <2>4 DEF BaselineTypeOK
  <2>6. /\ \A d \in TDefs : IF d = r.id THEN tdefs'[d] = row ELSE tdefs'[d] = tdefs[d]
        /\ \A d \in TDefs : tdefs'[d] # None => tdefs[d] # None /\ tdefs'[d].from = tdefs[d].from
    BY <1>1, <2>1, <2>2, <2>4
  <2>7. /\ \A b \in BDefs : ~Lives(baseline) => ~Lives(bdefs[b])
        /\ baseline = None => \A b \in BDefs : bdefs[b] = None
    BY DEF BaselineSound
  <2> QED BY <1>2, <1>5, <2>1, <2>5, <2>6, <2>7, BaselineEnds
<1> QED BY <1>6, <1>7, <1>8, <1>9, <1>10, <1>11, <1>12, <1>13, <1>14

\* The steps of the baseline (baseline_templates/service.py).
LEMMA BaselineNextSound ==
    ASSUME BaselineSound, DOMAIN request = Sessions, BaselineNext
    PROVE  BaselineSound' /\ Only(BaselineOps)
<1>1. CASE \E rules \in Configs, asks \in {{}, Questions} : CreateBaseline(rules, asks)
  BY <1>1, CreateBaselineSound
<1>2. CASE \E d \in TDefs : PublishCopy(d)
  BY <1>2, PublishCopySound
<1> QED BY <1>1, <1>2, BaselineBeginSound, BaselineCommitSound DEF BaselineNext

-----------------------------------------------------------------------------
(* Tenants.                                                                *)

\* A row is none of the markers.
LEMMA TenantMarkers ==
    /\ \A row \in TenantRow : Lives(row)
    /\ \A realm \in Realm : realm # None
    /\ ~Lives(None) /\ ~Lives(Deleted) /\ None # Deleted
    /\ ProvisioningRequired => ProvisioningEnabled
BY TenantsOK, MarkersDiffer DEF TenantsOK, Lives

\* What a step of c leaves of the tenants, for the others that have to do with them.
Keeps(c) ==
    /\ blamed \subseteq blamed'
    /\ \A t \in TenantIds : tenants[t] # None =>
           /\ tenants'[t] # None
           /\ Lives(tenants'[t]) => Lives(tenants[t]) /\ tenants'[t].key = tenants[t].key
           /\ Open(t)' => Open(t) \/ t \in blamed'
    /\ \A t \in TenantIds, k \in Keys :
           Lives(tenants[t]) /\ tenants[t].key = k /\ RealmReady(k)
               => RealmReady(k)' \/ t \in blamed' \/ Creates(c, t)

\* What is missing since, or what c was about to make, it still is about to make.
Continues(c) ==
    \A t \in TenantIds, part \in Parts :
        /\ Lacks(t, part)' /\ t \notin blamed'
        /\ Lacks(t, part) => Mends(c, t, part)
        => Mends(c, t, part)'

\* One request begins, goes on or ends.
LEMMA TenantStep ==
    ASSUME TenantsSound, NEW c \in Sessions, NEW r, DOMAIN request = Sessions,
           request' = [request EXCEPT ![c] = r],
           r = None \/ (TenantRequest(r) /\ Known(r)' /\ Undone(r)' /\ SetUp(r)'),
           r # None /\ r.op = "create" => r.id \in TenantIds,
           \A t \in TenantIds : Creates(c, t)' => Creates(c, t) \/ tenants[t] = None,
           TenantsTypeOK', Keeps(c), Continues(c)
    PROVE  TenantsSound'
<1>1. request'[c] = r /\ \A d \in Sessions : d # c => request'[d] = request[d]
  OBVIOUS
<1>2. ASSUME NEW d \in Sessions, Busy(d, TenantOps)'
      PROVE  (TenantRequest(request[d]) /\ Known(request[d]) /\ Undone(request[d]) /\ SetUp(request[d]))'
  <2>1. CASE d = c
    <3>1. request'[d] = r /\ r # None
      BY <1>1, <1>2, <2>1 DEF Busy, Idle
    <3>2. TenantRequest(r) /\ Known(r)' /\ Undone(r)' /\ SetUp(r)'
      BY <3>1
    <3> QED BY <3>1, <3>2
  <2>2. CASE d # c
    <3>1. request'[d] = request[d] /\ Busy(d, TenantOps)
      BY <1>1, <1>2, <2>2 DEF Busy, Idle
    <3>2. PICK s : s = request[d]
      OBVIOUS
    <3>3. TenantRequest(s) /\ Known(s) /\ Undone(s) /\ SetUp(s) /\ s.op \in TenantOps
      BY <3>1, <3>2 DEF TenantsSound, Busy
    <3>4. s.op \in {"create", "remove", "user"} => s.id \in TenantIds /\ s.key \in Keys
      BY <3>3 DEF TenantRequest, Creation, Removal
    <3>5. Known(s)'
      BY <3>3, <3>4 DEF Known, Keeps
    <3>6. Undone(s)'
      BY <3>3, <3>4 DEF Known, Keeps, Undone
    <3>7. s.op = "create" => Creates(d, s.id) /\ ~Creates(c, s.id)
      BY <3>1, <3>2, <3>4, <2>2 DEF Creates, Busy, TenantsSound
    <3>8. SetUp(s)'
      BY <3>3, <3>4, <3>7 DEF Known, Keeps, SetUp
    <3> QED BY <3>1, <3>2, <3>3, <3>5, <3>6, <3>8
  <2> QED BY <2>1, <2>2
<1>3. ASSUME NEW d \in Sessions, NEW t \in TenantIds, d # c
      PROVE  Creates(d, t)' <=> Creates(d, t)
  BY <1>1, <1>3 DEF Creates, Idle
<1>4. ASSUME NEW d \in Sessions, NEW t \in TenantIds, Creates(d, t)
      PROVE  tenants[t] # None
  BY <1>4 DEF Creates, TenantsSound, Busy, TenantOps, Known
<1>5. ASSUME NEW d \in Sessions, NEW e \in Sessions, NEW t \in TenantIds,
             Creates(d, t)', Creates(e, t)'
      PROVE  d = e
  BY <1>3, <1>4, <1>5 DEF TenantsSound
<1>6. ASSUME NEW t \in TenantIds, NEW part \in Parts
      PROVE  Mended(t, part)'
  <2> SUFFICES ASSUME Lacks(t, part)', t \notin blamed'
               PROVE  \E d \in Sessions : Mends(d, t, part)'
    BY DEF Mended
  <2>1. CASE Mends(c, t, part)'
    BY <2>1
  <2>2. CASE ~Mends(c, t, part)'
    <3>1. Lacks(t, part) /\ ~Mends(c, t, part) /\ t \notin blamed
      BY <2>2 DEF Continues, Keeps
    <3>2. PICK d \in Sessions : Mends(d, t, part)
      BY <3>1 DEF TenantsSound, Mended
    <3>3. request'[d] = request[d]
      BY <1>1, <3>1, <3>2
    <3>4. Mends(d, t, part)'
      BY <3>2, <3>3 DEF Mends, Idle, Makes
    <3> QED BY <3>4
  <2> QED BY <2>1, <2>2
<1> QED BY <1>2, <1>5, <1>6 DEF TenantsSound

\* The step of a request that takes nothing away.
LEMMA TenantGrows ==
    ASSUME TenantsSound, NEW c \in Sessions, NEW r, DOMAIN request = Sessions,
           request' = [request EXCEPT ![c] = r],
           r = None \/ (TenantRequest(r) /\ Known(r) /\ Undone(r) /\ SetUp(r)'),
           \A t \in TenantIds : Creates(c, t)' => Creates(c, t),
           TenantsTypeOK', tenants' = tenants, blamed' = blamed,
           \A k \in Keys : schemas[k] = "ready" => schemas'[k] = "ready",
           \A k \in Keys : RealmReady(k) => RealmReady(k)',
           \A t \in TenantIds, part \in Parts : Lacks(t, part)' /\ Mends(c, t, part) => Mends(c, t, part)'
    PROVE  TenantsSound'
<1>1. Keeps(c)
  BY DEF Keeps, Open
<1>2. ASSUME NEW t \in TenantIds, NEW part \in Parts, Lacks(t, part)'
      PROVE  Lacks(t, part)
  <2>1. Open(t) /\ part \in Needs(t)
    BY <1>2 DEF Lacks, Open, Needs
  <2>2. tenants[t].key \in Keys
    BY <2>1 DEF Open, Lives, TenantsSound, TenantsTypeOK, TenantRow
  <2>3. part \in Has(t) => part \in Has(t)'
    BY <2>2 DEF Has, RealmReady
  <2> QED BY <1>2, <2>1, <2>3 DEF Lacks
<1>3. Continues(c)
  BY <1>2 DEF Continues
<1>4. r = None \/ (TenantRequest(r) /\ Known(r)' /\ Undone(r)' /\ SetUp(r)')
  <2>1. Known(r)' <=> Known(r)
    BY DEF Known
  <2>2. Undone(r)' <=> Undone(r)
    BY DEF Undone, Open
  <2> QED BY <2>1, <2>2
<1>5. r # None /\ r.op = "create" => r.id \in TenantIds
  BY <1>4 DEF TenantRequest, Creation
<1> QED BY <1>1, <1>3, <1>4, <1>5, TenantStep

\* What is known of a request that is somewhere.
LEMMA TenantFacts ==
    ASSUME TenantsSound, NEW c \in Sessions, NEW old, old = request[c], Busy(c, TenantOps)
    PROVE  /\ TenantRequest(old) /\ Known(old) /\ Undone(old) /\ SetUp(old)
           /\ \A t, part : Mends(c, t, part) <=>
                  /\ old.op \in {"create", "remove"} /\ old.id = t
                  /\ IF old.op = "create" THEN Makes(old, part) ELSE old.at = "erase"
           /\ \A t : Creates(c, t) <=> old.op = "create" /\ old.id = t
BY DEF TenantsSound, Busy, Mends, Creates

\* Where a request is that is now at another stage.
LEMMA MendsNext ==
    ASSUME NEW c \in Sessions, NEW r, request' = [request EXCEPT ![c] = r], DOMAIN request = Sessions
    PROVE  /\ \A t, part : Mends(c, t, part)' <=>
                  /\ r # None /\ r.op \in {"create", "remove"} /\ r.id = t
                  /\ IF r.op = "create" THEN Makes(r, part) ELSE r.at = "erase"
           /\ \A t : Creates(c, t)' <=> r # None /\ r.op = "create" /\ r.id = t
<1>1. request'[c] = r
  OBVIOUS
<1>2. \A part : Makes(request[c], part)' <=> Makes(r, part)
  BY <1>1 DEF Makes
<1> QED BY <1>1, <1>2 DEF Mends, Creates, Idle

\* The tenant it creates is its own.
LEMMA CreatesNext ==
    ASSUME NEW c \in Sessions, NEW r, request' = [request EXCEPT ![c] = r], DOMAIN request = Sessions
    PROVE  \A u : Creates(c, u)' => r # None /\ r.id = u
<1>1. request'[c] = r
  OBVIOUS
<1> QED BY <1>1 DEF Creates, Idle

\* A request that begins takes care of no tenant yet (delete_tenant, create_tenant_user,
\* upgrade_all_tenants).
LEMMA TenantBegins ==
    ASSUME TenantsSound, NEW c \in Sessions, NEW r, DOMAIN request = Sessions,
           Idle(c), Is(c, r), r.op \in {"remove", "user", "deploy"}, TenantRequest(r), Known(r),
           UNCHANGED tenantVars
    PROVE  TenantsSound' /\ Only(TenantOps)
<1>1. /\ UNCHANGED <<tenants, schemas, realms, links, crashes, blamed>>
      /\ request' = [request EXCEPT ![c] = r]
  BY DEF tenantVars, Is
<1>2. Undone(r) /\ SetUp(r)'
  BY DEF Undone, SetUp
<1>3. TenantsTypeOK'
  BY <1>1 DEF TenantsSound, TenantsTypeOK
<1>4. /\ \A k \in Keys : schemas[k] = "ready" => schemas'[k] = "ready"
      /\ \A k \in Keys : RealmReady(k) => RealmReady(k)'
  BY <1>1 DEF RealmReady
<1>5. /\ \A t \in TenantIds : Creates(c, t)' => Creates(c, t)
      /\ \A t \in TenantIds, part \in Parts : ~Mends(c, t, part)
  BY <1>1, MendsNext DEF Mends
<1>6. TenantsSound'
  BY <1>1, <1>2, <1>3, <1>4, <1>5, TenantGrows
<1> QED BY <1>1, <1>6, IsOnly DEF TenantOps

\* A creation or the making of a user that goes on, and is sound where it goes.
LEMMA TenantGoes ==
    ASSUME TenantsSound, NEW c \in Sessions, NEW r, NEW old, DOMAIN request = Sessions,
           old = request[c], Busy(c, TenantOps), request' = [request EXCEPT ![c] = r],
           r.op = old.op, r.id = old.id, r.key = old.key, TenantRequest(r),
           Undone(r), SetUp(r)',
           TenantsTypeOK', tenants' = tenants, blamed' = blamed,
           \A k \in Keys : schemas[k] = "ready" => schemas'[k] = "ready",
           \A k \in Keys : RealmReady(k) => RealmReady(k)',
           r.op = "create" => \A part \in Parts : Lacks(r.id, part)' /\ Makes(old, part) => Makes(r, part),
           r.op # "remove"
    PROVE  TenantsSound' /\ Only(TenantOps)
<1>1. /\ TenantRequest(old) /\ Known(old)
      /\ \A t, part : Mends(c, t, part) <=>
                  /\ old.op \in {"create", "remove"} /\ old.id = t
                  /\ IF old.op = "create" THEN Makes(old, part) ELSE old.at = "erase"
      /\ \A t : Creates(c, t) <=> old.op = "create" /\ old.id = t
  BY TenantFacts
<1>2. /\ \A t, part : Mends(c, t, part)' <=>
                  /\ r # None /\ r.op \in {"create", "remove"} /\ r.id = t
                  /\ IF r.op = "create" THEN Makes(r, part) ELSE r.at = "erase"
      /\ \A t : Creates(c, t)' <=> r # None /\ r.op = "create" /\ r.id = t
  BY MendsNext
<1>3. r.op = "create" => r # None
  BY TenantsOK DEF TenantsOK, TenantRequest
<1>4. Known(r)
  BY <1>1 DEF Known
<1>5. \A t \in TenantIds : Creates(c, t)' => Creates(c, t)
  BY <1>1, <1>2
<1>6. \A t \in TenantIds, part \in Parts : Lacks(t, part)' /\ Mends(c, t, part) => Mends(c, t, part)'
  BY <1>1, <1>2, <1>3
<1>7. TenantsSound'
  BY <1>4, <1>5, <1>6, TenantGrows
<1>8. Idle(c) \/ Busy(c, TenantOps)
  OBVIOUS
<1>9. r.op \in TenantOps
  BY DEF Busy
<1> QED BY <1>7, <1>8, <1>9, IsOnly

\* One that ends with nothing taken away, and with nothing it alone was about to make.
LEMMA TenantEnds ==
    ASSUME TenantsSound, NEW c \in Sessions, NEW old, DOMAIN request = Sessions,
           old = request[c], Busy(c, TenantOps), Close(c),
           TenantsTypeOK', tenants' = tenants, blamed' = blamed,
           \A k \in Keys : schemas[k] = "ready" => schemas'[k] = "ready",
           \A k \in Keys : RealmReady(k) => RealmReady(k)',
           \A t \in TenantIds, part \in Parts : ~(Lacks(t, part)' /\ Mends(c, t, part))
    PROVE  TenantsSound' /\ Only(TenantOps)
<1>1. request' = [request EXCEPT ![c] = None]
  BY DEF Close, Is
<1>2. \A t : ~Creates(c, t)'
  BY <1>1, MendsNext
<1>3. TenantsSound'
  BY <1>1, <1>2, TenantGrows
<1> QED BY <1>1, <1>3, IsOnly

\* The request that is at a stage.
LEMMA AtFacts ==
    ASSUME TenantsSound, NEW c \in Sessions, NEW old, old = request[c], NEW stage, At(c, stage)
    PROVE  /\ Busy(c, TenantOps) /\ old.op \in {"create", "remove", "user"} /\ old.at = stage
           /\ TenantRequest(old) /\ Known(old) /\ Undone(old) /\ SetUp(old)
           /\ old.id \in TenantIds /\ old.key \in Keys
           /\ stage \in {"schema", "migrate", "save", "unmake", "deactivate"} => old.op = "create"
           /\ stage \in {"realm", "roles", "client", "account", "assign"} => old.op \in {"create", "user"}
           /\ stage \in {"drop", "erase"} => old.op \in {"create", "remove"}
           /\ stage = "link" => old.op = "user"
           /\ Key(c) = old.key /\ For(c) = old.id
<1>1. Busy(c, TenantOps) /\ old.op \in {"create", "remove", "user"} /\ old.at = stage
  BY DEF At, Busy, TenantOps
<1>2. TenantRequest(old) /\ Known(old) /\ Undone(old) /\ SetUp(old)
  BY <1>1, TenantFacts
<1> QED BY <1>1, <1>2 DEF TenantRequest, Creation, Removal, Key, For

MayBeAt(r, stage) ==
    \/ /\ r.op = "create"
       /\ stage \in {"schema", "migrate", "realm", "roles", "client", "save", "account", "assign",
                    "unmake", "deactivate", "drop", "erase"}
       /\ stage \in {"account", "assign"} => r.accounts # <<>>
    \/ r.op = "user" /\ stage \in {"realm", "roles", "client", "account", "assign", "link"}

\* A request at its next stage is what it was otherwise.
LEMMA Staged ==
    ASSUME NEW old, NEW stage, NEW r, TenantRequest(old), MayBeAt(old, stage),
           r = [old EXCEPT !.at = stage]
    PROVE  /\ TenantRequest(r)
           /\ r.op = old.op /\ r.id = old.id /\ r.key = old.key /\ r.at = stage
           /\ r.accounts = old.accounts
           /\ old.op = "create" => r.exposed = old.exposed /\ r.made = old.made
<1>1. CASE old.op = "create"
  <2>1. old \in Creation
    BY <1>1 DEF TenantRequest
  <2>2. r \in Creation /\ r.op = "create" /\ r.id = old.id /\ r.key = old.key /\ r.at = stage
        /\ r.accounts = old.accounts /\ r.exposed = old.exposed /\ r.made = old.made
    BY <1>1, <2>1 DEF Creation, MayBeAt
  <2>3. stage \in {"account", "assign"} => old.accounts # <<>>
    BY <1>1 DEF MayBeAt
  <2> QED BY <1>1, <2>2, <2>3 DEF TenantRequest
<1>2. CASE old.op = "user"
  <2>1. /\ DOMAIN old = {"op", "id", "key", "at", "made", "accounts"}
        /\ old.id \in TenantIds /\ old.key \in Keys /\ old.accounts \in Accounts /\ old.accounts # <<>>
    BY <1>2 DEF TenantRequest
  <2>2. DOMAIN r = DOMAIN old /\ r.op = "user" /\ r.id = old.id /\ r.key = old.key /\ r.at = stage
        /\ r.accounts = old.accounts
    BY <1>2, <2>1
  <2>3. stage \in {"realm", "roles", "client", "account", "assign", "link"}
    BY <1>2 DEF MayBeAt
  <2> QED BY <1>2, <2>1, <2>2, <2>3 DEF TenantRequest
<1> QED BY <1>1, <1>2 DEF MayBeAt

\* A schema that is made or upgraded; one that is ready stays so (provision_tenant_schema,
\* upgrade_tenant_schema).
LEMMA SchemaGrows ==
    ASSUME TenantsSound, NEW k, Started(k) \/ Upgraded(k)
    PROVE  /\ schemas' \in [Keys -> {"none", "empty", "ready"}]
           /\ \A l \in Keys : schemas[l] = "ready" => schemas'[l] = "ready"
           /\ Upgraded(k) /\ k \in Keys => schemas'[k] = "ready"
BY DEF TenantsSound, TenantsTypeOK, Started, Upgraded

\* A realm that is made, or changed with its client kept.
LEMMA RealmGrows ==
    ASSUME TenantsSound, NEW k \in Keys, NEW realm \in Realm,
           realms' = [realms EXCEPT ![k] = realm],
           realms[k] # None /\ realms[k].client => realm.client
    PROVE  /\ realms' \in [Keys -> Realm \cup {None}]
           /\ \A l \in Keys : RealmReady(l) => RealmReady(l)'
           /\ realm.client => RealmReady(k)'
<1>1. realms \in [Keys -> Realm \cup {None}]
  BY DEF TenantsSound, TenantsTypeOK
<1>2. realms'[k] = realm /\ realm # None /\ \A l \in Keys : l # k => realms'[l] = realms[l]
  BY <1>1, TenantMarkers
<1> QED BY <1>1, <1>2 DEF RealmReady

\* What is there when nothing but a request changes.
LEMMA TenantsTyped ==
    ASSUME TenantsSound, tenants' = tenants, links' = links, blamed' = blamed,
           schemas' \in [Keys -> {"none", "empty", "ready"}], realms' \in [Keys -> Realm \cup {None}]
    PROVE  TenantsTypeOK'
BY DEF TenantsSound, TenantsTypeOK

\* What a tenant whose row is there lacks; only one is of a key.
LEMMA LacksFacts ==
    ASSUME TenantsSound, NEW r, TenantRequest(r), Known(r), r.op \in {"create", "remove", "user"},
           tenants' = tenants
    PROVE  /\ Lacks(r.id, "schema")' => schemas'[r.key] # "ready"
           /\ Lacks(r.id, "client")' => ProvisioningRequired
BY DEF Lacks, Open, Needs, Has, Known

\* create_tenant: the schema, which clears what the tenant lacked of it.
LEMMA MakeSchemaSound ==
    ASSUME TenantsSound, DOMAIN request = Sessions, NEW c \in Sessions, MakeSchema(c)
    PROVE  TenantsSound' /\ Only(TenantOps)
<1>1. PICK old : old = request[c]
  OBVIOUS
<1>0. PICK r : r = [old EXCEPT !.at = "migrate"]
  OBVIOUS
<1>2. At(c, "schema") /\ Started(Key(c)) /\ request' = [request EXCEPT ![c] = r]
      /\ UNCHANGED <<tenants, realms, links, crashes, blamed>>
  BY <1>0, <1>1 DEF MakeSchema, GoesTo, Is
<1>3. /\ Busy(c, TenantOps) /\ TenantRequest(old) /\ old.op = "create" /\ old.key = Key(c)
  BY <1>1, <1>2, AtFacts
<1>4. TenantRequest(r) /\ r.op = old.op /\ r.id = old.id /\ r.key = old.key /\ r.at = "migrate"
  <2>1. MayBeAt(old, "migrate")
    BY <1>3 DEF MayBeAt
  <2> QED BY <1>0, <1>3, <2>1, Staged
<1>5. /\ schemas' \in [Keys -> {"none", "empty", "ready"}]
      /\ \A k \in Keys : schemas[k] = "ready" => schemas'[k] = "ready"
  BY <1>2, SchemaGrows
<1>6. TenantsTypeOK'
  BY <1>2, <1>5, TenantsTyped DEF TenantsSound, TenantsTypeOK
<1>7. Undone(r) /\ SetUp(r)' /\ \A part : Makes(r, part)
  BY <1>4 DEF Undone, SetUp, Makes
<1>8. \A k \in Keys : RealmReady(k) => RealmReady(k)'
  BY <1>2 DEF RealmReady
<1> QED BY <1>1, <1>2, <1>3, <1>4, <1>5, <1>6, <1>7, <1>8, TenantGoes

\* create_tenant: the migrations of the schema; without provisioning it ends here.
LEMMA MigrateSound ==
    ASSUME TenantsSound, DOMAIN request = Sessions, NEW c \in Sessions, Migrate(c)
    PROVE  TenantsSound' /\ Only(TenantOps)
<1>1. PICK old : old = request[c]
  OBVIOUS
<1> DEFINE r == [old EXCEPT !.at = "realm"]
<1>2. At(c, "migrate") /\ Upgraded(Key(c)) /\ UNCHANGED <<tenants, realms, links, crashes, blamed>>
      /\ IF ProvisioningEnabled THEN request' = [request EXCEPT ![c] = r] ELSE Close(c)
  BY <1>1 DEF Migrate, GoesTo, Is
<1>3. /\ Busy(c, TenantOps) /\ TenantRequest(old) /\ Known(old) /\ old.op = "create"
      /\ old.key = Key(c) /\ old.key \in Keys
  BY <1>1, <1>2, AtFacts
<1>4. TenantRequest(r) /\ r.op = old.op /\ r.id = old.id /\ r.key = old.key /\ r.at = "realm"
  <2>1. MayBeAt(old, "realm")
    BY <1>3 DEF MayBeAt
  <2> QED BY <1>3, <2>1, Staged
<1> HIDE DEF r
<1>5. /\ schemas' \in [Keys -> {"none", "empty", "ready"}] /\ schemas'[old.key] = "ready"
      /\ \A k \in Keys : schemas[k] = "ready" => schemas'[k] = "ready"
  BY <1>2, <1>3, SchemaGrows
<1>6. TenantsTypeOK'
  BY <1>2, <1>5, TenantsTyped DEF TenantsSound, TenantsTypeOK
<1>7. Undone(r) /\ SetUp(r)' /\ Makes(r, "client")
  BY <1>4 DEF Undone, SetUp, Makes
<1>8. \A k \in Keys : RealmReady(k) => RealmReady(k)'
  BY <1>2 DEF RealmReady
<1>9. ~Lacks(old.id, "schema")' /\ (Lacks(old.id, "client")' => ProvisioningRequired)
  BY <1>2, <1>3, <1>5, LacksFacts
<1>10. CASE ProvisioningEnabled
  <2>1. \A part \in Parts : Lacks(r.id, part)' => Makes(r, part)
    BY <1>4, <1>7, <1>9 DEF Parts
  <2>2. request' = [request EXCEPT ![c] = r] /\ tenants' = tenants /\ blamed' = blamed
    BY <1>2, <1>10
  <2> QED BY <1>1, <1>3, <1>4, <1>5, <1>6, <1>7, <1>8, <2>1, <2>2, TenantGoes
<1>11. CASE ~ProvisioningEnabled
  <2>1. \A part \in Parts : ~Lacks(old.id, part)'
    BY <1>9, <1>11, TenantMarkers DEF Parts
  <2>2. \A t, part : Mends(c, t, part) => t = old.id
    BY <1>1, <1>3, TenantFacts
  <2>3. Close(c) /\ tenants' = tenants /\ blamed' = blamed
    BY <1>2, <1>11
  <2>4. \A t \in TenantIds, part \in Parts : ~(Lacks(t, part)' /\ Mends(c, t, part))
    BY <2>1, <2>2
  <2> QED BY <1>1, <1>3, <1>5, <1>6, <1>8, <2>3, <2>4, TenantEnds
<1> QED BY <1>10, <1>11

\* The steps that a creation and the making of a user have in common.
LEMMA EnsureRealmSound ==
    ASSUME TenantsSound, DOMAIN request = Sessions, NEW c \in Sessions, EnsureRealm(c)
    PROVE  TenantsSound' /\ Only(TenantOps)
<1>1. PICK old : old = request[c]
  OBVIOUS
<1> PICK made : made = (realms[Key(c)] = None)
  OBVIOUS
<1> PICK r : r = [old EXCEPT !.at = "roles", !.made = made]
  OBVIOUS
<1> DEFINE new == [roles |-> FALSE, client |-> FALSE, users |-> [u \in Usernames |-> None]]
           realm == IF realms[Key(c)] # None THEN realms[Key(c)] ELSE new
<1>2. At(c, "realm") /\ UNCHANGED <<tenants, schemas, links, crashes, blamed>>
      /\ realms' = [realms EXCEPT ![Key(c)] = realm] /\ request' = [request EXCEPT ![c] = r]
  BY <1>1 DEF EnsureRealm, Is
<1>3. /\ Busy(c, TenantOps) /\ TenantRequest(old) /\ old.op \in {"create", "user"}
      /\ old.at = "realm" /\ Key(c) \in Keys
  BY <1>1, <1>2, AtFacts
<1>4. made \in BOOLEAN
  OBVIOUS
<1>5. new \in Realm
  BY DEF Realm
<1>6. realm \in Realm /\ (realms[Key(c)] # None /\ realms[Key(c)].client => realm.client)
  BY <1>3, <1>5 DEF TenantsSound, TenantsTypeOK
<1> HIDE DEF realm
<1>7. TenantRequest(r) /\ r.op = old.op /\ r.id = old.id /\ r.key = old.key /\ r.at = "roles"
  <2>1. CASE old.op = "create"
    <3>1. old \in Creation
      BY <1>3, <2>1 DEF TenantRequest
    <3>2. r \in Creation /\ r.op = "create" /\ r.id = old.id /\ r.key = old.key /\ r.at = "roles"
      BY <1>4, <2>1, <3>1 DEF Creation
    <3> QED BY <2>1, <3>2 DEF TenantRequest
  <2>2. CASE old.op = "user"
    <3>1. /\ DOMAIN old = {"op", "id", "key", "at", "made", "accounts"}
          /\ old.id \in TenantIds /\ old.key \in Keys /\ old.accounts \in Accounts /\ old.accounts # <<>>
      BY <1>3, <2>2 DEF TenantRequest
    <3>2. DOMAIN r = DOMAIN old /\ r.op = "user" /\ r.id = old.id /\ r.key = old.key /\ r.at = "roles"
          /\ r.accounts = old.accounts
      BY <2>2, <3>1
    <3> QED BY <2>2, <3>1, <3>2 DEF TenantRequest
  <2> QED BY <1>3, <2>1, <2>2
<1> HIDE DEF new
<1>8. /\ realms' \in [Keys -> Realm \cup {None}]
      /\ \A k \in Keys : RealmReady(k) => RealmReady(k)'
  BY <1>2, <1>3, <1>6, RealmGrows
<1>9. TenantsTypeOK'
  BY <1>2, <1>8, TenantsTyped DEF TenantsSound, TenantsTypeOK
<1>10. Undone(r) /\ SetUp(r)' /\ r.op # "remove"
  BY <1>3, <1>7 DEF Undone, SetUp
<1>11. \A part : Makes(old, part) => Makes(r, part)
  BY <1>3, <1>7 DEF Makes
<1>12. tenants' = tenants /\ blamed' = blamed /\ request' = [request EXCEPT ![c] = r] /\ schemas' = schemas
  BY <1>2
<1> QED BY <1>1, <1>3, <1>7, <1>8, <1>9, <1>10, <1>11, <1>12, TenantGoes

\* A request that goes on when it has changed a realm and no more.
LEMMA RealmStep ==
    ASSUME TenantsSound, DOMAIN request = Sessions, NEW c \in Sessions, NEW r, NEW old, NEW realm \in Realm,
           old = request[c], Busy(c, TenantOps), request' = [request EXCEPT ![c] = r],
           r.op = old.op, r.id = old.id, r.key = old.key, TenantRequest(r),
           r.key \in Keys, r.op \in {"create", "user"}, r.at \notin {"drop", "erase", "save"},
           realms' = [realms EXCEPT ![r.key] = realm],
           realms[r.key] # None /\ realms[r.key].client => realm.client,
           UNCHANGED <<tenants, schemas, links, crashes, blamed>>,
           \A part : Makes(old, part) => Makes(r, part)
    PROVE  TenantsSound' /\ Only(TenantOps)
<1>1. /\ realms' \in [Keys -> Realm \cup {None}]
      /\ \A k \in Keys : RealmReady(k) => RealmReady(k)'
  BY RealmGrows
<1>2. TenantsTypeOK'
  BY <1>1, TenantsTyped DEF TenantsSound, TenantsTypeOK
<1>3. Undone(r) /\ r.op # "remove"
  BY DEF Undone
<1>4. SetUp(r)'
  BY DEF SetUp
<1>5. tenants' = tenants /\ blamed' = blamed /\ schemas' = schemas
  OBVIOUS
<1> QED BY <1>1, <1>2, <1>3, <1>4, <1>5, TenantGoes

\* ensure_realm_roles.
LEMMA EnsureRolesSound ==
    ASSUME TenantsSound, DOMAIN request = Sessions, NEW c \in Sessions, EnsureRoles(c)
    PROVE  TenantsSound' /\ Only(TenantOps)
<1>1. PICK old : old = request[c]
  OBVIOUS
<1>2. PICK r : r = [old EXCEPT !.at = "client"]
  OBVIOUS
<1>3. At(c, "roles") /\ realms[Key(c)] # None /\ UNCHANGED <<tenants, schemas, links, crashes, blamed>>
      /\ realms' = [realms EXCEPT ![Key(c)].roles = TRUE] /\ request' = [request EXCEPT ![c] = r]
  BY <1>1, <1>2 DEF EnsureRoles, GoesTo, Is
<1>4. /\ Busy(c, TenantOps) /\ TenantRequest(old) /\ old.op \in {"create", "user"}
      /\ old.at = "roles" /\ Key(c) \in Keys /\ Key(c) = old.key
  BY <1>1, <1>3, AtFacts
<1>5. TenantRequest(r) /\ r.op = old.op /\ r.id = old.id /\ r.key = old.key /\ r.at = "client"
  <2>1. MayBeAt(old, "client")
    BY <1>4 DEF MayBeAt
  <2> QED BY <1>2, <1>4, <2>1, Staged
<1>6. realms[old.key] \in Realm
  BY <1>3, <1>4 DEF TenantsSound, TenantsTypeOK
<1>7. PICK realm : realm = [realms[old.key] EXCEPT !.roles = TRUE]
  OBVIOUS
<1>8. realm \in Realm /\ realm.client = realms[old.key].client
  BY <1>6, <1>7 DEF Realm
<1>9. realms' = [realms EXCEPT ![r.key] = realm]
  BY <1>3, <1>4, <1>5, <1>7
<1>10. \A part : Makes(old, part) => Makes(r, part)
  BY <1>4, <1>5 DEF Makes
<1>11. realms[r.key] # None /\ realms[r.key].client => realm.client
  BY <1>5, <1>8
<1>12. r.key \in Keys /\ r.op \in {"create", "user"} /\ r.at \notin {"drop", "erase", "save"}
  BY <1>4, <1>5
<1> QED BY <1>1, <1>3, <1>4, <1>5, <1>8, <1>9, <1>10, <1>11, <1>12, RealmStep

\* ensure_client_with_mappers.
LEMMA EnsureClientSound ==
    ASSUME TenantsSound, DOMAIN request = Sessions, NEW c \in Sessions, EnsureClient(c)
    PROVE  TenantsSound' /\ Only(TenantOps)
<1>1. PICK old : old = request[c]
  OBVIOUS
<1>2. PICK stage : stage = IF old.op = "user" THEN "account" ELSE "save"
  OBVIOUS
<1>3. PICK r : r = [old EXCEPT !.at = stage]
  OBVIOUS
<1>4. At(c, "client") /\ realms[Key(c)] # None /\ UNCHANGED <<tenants, schemas, links, crashes, blamed>>
      /\ realms' = [realms EXCEPT ![Key(c)].client = TRUE] /\ request' = [request EXCEPT ![c] = r]
  BY <1>1, <1>2, <1>3 DEF EnsureClient, GoesTo, Is
<1>5. /\ Busy(c, TenantOps) /\ TenantRequest(old) /\ old.op \in {"create", "user"}
      /\ old.at = "client" /\ Key(c) \in Keys /\ Key(c) = old.key
  BY <1>1, <1>4, AtFacts
<1>6. TenantRequest(r) /\ r.op = old.op /\ r.id = old.id /\ r.key = old.key /\ r.at = stage
  <2>1. MayBeAt(old, stage)
    BY <1>2, <1>5 DEF MayBeAt
  <2> QED BY <1>3, <1>5, <2>1, Staged
<1>7. realms[old.key] \in Realm
  BY <1>4, <1>5 DEF TenantsSound, TenantsTypeOK
<1>8. PICK realm : realm = [realms[old.key] EXCEPT !.client = TRUE]
  OBVIOUS
<1>9. realm \in Realm /\ realm.client
  BY <1>7, <1>8 DEF Realm
<1>10. realms' = [realms EXCEPT ![r.key] = realm]
  BY <1>4, <1>5, <1>6, <1>8
<1>11. r.op = "create" => \A part : Makes(old, part) => Makes(r, part)
  BY <1>2, <1>5, <1>6 DEF Makes
<1>12. r.op = "user" => r.at = "account"
  BY <1>2, <1>6
<1>13. /\ realms' \in [Keys -> Realm \cup {None}]
       /\ \A k \in Keys : RealmReady(k) => RealmReady(k)'
       /\ RealmReady(r.key)'
  BY <1>5, <1>6, <1>9, <1>10, RealmGrows
<1>14. TenantsTypeOK'
  BY <1>4, <1>13, TenantsTyped DEF TenantsSound, TenantsTypeOK
<1>15. Undone(r) /\ r.op # "remove"
  BY <1>2, <1>5, <1>6 DEF Undone
<1>16. SetUp(r)'
  BY <1>13 DEF SetUp
<1>17. tenants' = tenants /\ blamed' = blamed /\ schemas' = schemas
  BY <1>4
<1> QED BY <1>1, <1>4, <1>5, <1>6, <1>11, <1>13, <1>14, <1>15, <1>16, <1>17, TenantGoes

\* ensure_user.
LEMMA EnsureUserSound ==
    ASSUME TenantsSound, DOMAIN request = Sessions, NEW c \in Sessions, EnsureUser(c)
    PROVE  TenantsSound' /\ Only(TenantOps)
<1>1. PICK old : old = request[c]
  OBVIOUS
<1>2. PICK r : r = [old EXCEPT !.at = "assign"]
  OBVIOUS
<1>3. PICK holder : holder = Holder(c)
  OBVIOUS
<1>4. At(c, "account") /\ realms[Key(c)] # None /\ UNCHANGED <<tenants, schemas, links, crashes, blamed>>
      /\ realms' = [realms EXCEPT ![Key(c)].users[holder] = IF @ = None THEN {} ELSE @]
      /\ request' = [request EXCEPT ![c] = r]
  BY <1>1, <1>2, <1>3 DEF EnsureUser, GoesTo, Is
<1>5. /\ Busy(c, TenantOps) /\ TenantRequest(old) /\ old.op \in {"create", "user"}
      /\ old.at = "account" /\ Key(c) \in Keys /\ Key(c) = old.key
  BY <1>1, <1>4, AtFacts
<1>6. old.accounts # <<>>
  BY <1>5 DEF TenantRequest
<1>7. TenantRequest(r) /\ r.op = old.op /\ r.id = old.id /\ r.key = old.key /\ r.at = "assign"
  <2>1. MayBeAt(old, "assign")
    BY <1>5, <1>6 DEF MayBeAt
  <2> QED BY <1>2, <1>5, <2>1, Staged
<1>8. realms[old.key] \in Realm
  BY <1>4, <1>5 DEF TenantsSound, TenantsTypeOK
<1>9. PICK realm : realm = [realms[old.key] EXCEPT !.users[holder] = IF @ = None THEN {} ELSE @]
  OBVIOUS
<1>10. realm \in Realm /\ realm.client = realms[old.key].client
  BY <1>8, <1>9 DEF Realm
<1>11. realms' = [realms EXCEPT ![r.key] = realm]
  BY <1>4, <1>5, <1>7, <1>9
<1>12. \A part : Makes(old, part) => Makes(r, part)
  BY <1>5, <1>7 DEF Makes
<1>13. realms[r.key] # None /\ realms[r.key].client => realm.client
  BY <1>5, <1>7, <1>10
<1>14. r.key \in Keys /\ r.op \in {"create", "user"} /\ r.at \notin {"drop", "erase", "save"}
  BY <1>5, <1>7
<1> QED BY <1>1, <1>4, <1>5, <1>7, <1>10, <1>11, <1>12, <1>13, <1>14, RealmStep

\* The accounts that are left.
LEMMA AccountFacts ==
    ASSUME NEW accounts \in Accounts, accounts # <<>>
    PROVE  /\ accounts[1] \in Usernames \X SUBSET AllowedRoles
           /\ Len(accounts) > 1 => Tail(accounts) \in Accounts /\ Tail(accounts) # <<>>
<1>1. accounts \in Seq(Usernames \X SUBSET AllowedRoles)
  BY DEF Accounts
<1>2. Len(accounts) \in Nat /\ Len(accounts) # 0 /\ 1 \in 1..Len(accounts)
  BY <1>1, EmptySeq, LenProperties
<1>3. accounts[1] \in Usernames \X SUBSET AllowedRoles
  BY <1>1, <1>2, ElementOfSeq
<1>4. Tail(accounts) \in Accounts /\ Len(Tail(accounts)) = Len(accounts) - 1
  BY <1>1, HeadTailProperties DEF Accounts
<1>5. Len(accounts) > 1 => Tail(accounts) # <<>>
  BY <1>2, <1>4, EmptySeq
<1> QED BY <1>3, <1>4, <1>5

\* What goes on with accounts, or ends with them (_bootstrap_tenant_realm_users,
\* create_tenant_user).
LEMMA AfterAccountsFacts ==
    ASSUME NEW c \in Sessions, NEW old, old = request[c], TenantRequest(old),
           old.op \in {"create", "user"}, old.at = "assign", AfterAccounts(c)
    PROVE  \/ Close(c)
           \/ \E r : /\ Is(c, r) /\ TenantRequest(r)
                     /\ r.op = old.op /\ r.id = old.id /\ r.key = old.key /\ r.at \in {"account", "link"}
<1>1. old.accounts \in Accounts /\ old.accounts # <<>>
  BY DEF TenantRequest, Creation
<1>2. CASE Len(old.accounts) > 1
  <2>1. PICK left : left = Tail(old.accounts)
    OBVIOUS
  <2>2. left \in Accounts /\ left # <<>>
    BY <1>1, <1>2, <2>1, AccountFacts
  <2>3. PICK r : r = [old EXCEPT !.at = "account", !.accounts = left]
    OBVIOUS
  <2>4. Is(c, r)
    BY <1>2, <2>1, <2>3 DEF AfterAccounts
  <2>5. CASE old.op = "create"
    <3>1. old \in Creation
      BY <2>5 DEF TenantRequest
    <3>2. /\ r \in Creation /\ r.op = "create" /\ r.id = old.id /\ r.key = old.key
          /\ r.at = "account" /\ r.accounts = left
      BY <2>2, <2>3, <3>1 DEF Creation
    <3>3. TenantRequest(r)
      BY <2>2, <3>2 DEF TenantRequest
    <3> QED BY <2>4, <2>5, <3>2, <3>3
  <2>6. CASE old.op = "user"
    <3>1. /\ DOMAIN old = {"op", "id", "key", "at", "made", "accounts"}
          /\ old.id \in TenantIds /\ old.key \in Keys
      BY <2>6 DEF TenantRequest
    <3>2. DOMAIN r = DOMAIN old /\ r.op = "user" /\ r.id = old.id /\ r.key = old.key
          /\ r.at = "account" /\ r.accounts = left
      BY <2>3, <2>6, <3>1
    <3>3. TenantRequest(r)
      BY <2>2, <3>1, <3>2 DEF TenantRequest
    <3> QED BY <2>4, <2>6, <3>2, <3>3
  <2> QED BY <2>5, <2>6
<1>3. CASE Len(old.accounts) <= 1 /\ old.op = "user"
  <2>1. PICK r : r = [old EXCEPT !.at = "link"]
    OBVIOUS
  <2>2. Is(c, r)
    BY <1>3, <2>1 DEF AfterAccounts, GoesTo
  <2>3. MayBeAt(old, "link")
    BY <1>3 DEF MayBeAt
  <2>4. TenantRequest(r) /\ r.op = old.op /\ r.id = old.id /\ r.key = old.key /\ r.at = "link"
    BY <2>1, <2>3, Staged
  <2> QED BY <2>2, <2>4
<1>4. CASE Len(old.accounts) <= 1 /\ old.op # "user"
  BY <1>4 DEF AfterAccounts
<1>5. Len(old.accounts) \in Nat
  BY <1>1, LenProperties DEF Accounts
<1> QED BY <1>2, <1>3, <1>4, <1>5

\* assign_realm_roles.
LEMMA AssignRolesSound ==
    ASSUME TenantsSound, DOMAIN request = Sessions, NEW c \in Sessions, AssignRoles(c)
    PROVE  TenantsSound' /\ Only(TenantOps)
<1>1. PICK old : old = request[c]
  OBVIOUS
<1>2. PICK account : account = old.accounts[1]
  OBVIOUS
<1>3. /\ At(c, "assign") /\ realms[Key(c)] # None /\ realms[Key(c)].users[account[1]] # None
      /\ UNCHANGED <<tenants, schemas, links, crashes, blamed>> /\ AfterAccounts(c)
      /\ realms' = [realms EXCEPT ![Key(c)].users[account[1]] = @ \cup account[2]]
  BY <1>1, <1>2 DEF AssignRoles, Holder
<1>4. /\ Busy(c, TenantOps) /\ TenantRequest(old) /\ old.op \in {"create", "user"}
      /\ old.at = "assign" /\ Key(c) \in Keys /\ Key(c) = old.key
  BY <1>1, <1>3, AtFacts
<1>5. account[1] \in Usernames /\ account[2] \in SUBSET AllowedRoles
  <2>1. old.accounts \in Accounts /\ old.accounts # <<>>
    BY <1>4 DEF TenantRequest, Creation
  <2> QED BY <1>2, <2>1, AccountFacts
<1>6. realms[old.key] \in Realm
  BY <1>3, <1>4 DEF TenantsSound, TenantsTypeOK
<1>7. PICK realm : realm = [realms[old.key] EXCEPT !.users[account[1]] = @ \cup account[2]]
  OBVIOUS
<1>8. realm \in Realm /\ realm.client = realms[old.key].client
  <2>1. realms[old.key].users[account[1]] \in SUBSET AllowedRoles
    BY <1>3, <1>4, <1>5, <1>6 DEF Realm
  <2>2. realms[old.key].users[account[1]] \cup account[2] \in SUBSET AllowedRoles
    BY <1>5, <2>1
  <2> QED BY <1>5, <1>6, <1>7, <2>2 DEF Realm
<1>9. realms' = [realms EXCEPT ![old.key] = realm]
  BY <1>3, <1>4, <1>7
<1>10. realms[old.key] # None /\ realms[old.key].client => realm.client
  BY <1>8
<1>11. CASE Close(c)
  <2>1. /\ realms' \in [Keys -> Realm \cup {None}]
        /\ \A k \in Keys : RealmReady(k) => RealmReady(k)'
    BY <1>4, <1>8, <1>9, <1>10, RealmGrows
  <2>2. TenantsTypeOK'
    BY <1>3, <2>1, TenantsTyped DEF TenantsSound, TenantsTypeOK
  <2>3. \A t, part : ~Mends(c, t, part)
    BY <1>1, <1>4, TenantFacts DEF Makes
  <2>4. tenants' = tenants /\ blamed' = blamed /\ schemas' = schemas
    BY <1>3
  <2> QED BY <1>1, <1>4, <1>11, <2>1, <2>2, <2>3, <2>4, TenantEnds
<1>12. CASE \E r : /\ Is(c, r) /\ TenantRequest(r)
                   /\ r.op = old.op /\ r.id = old.id /\ r.key = old.key /\ r.at \in {"account", "link"}
  <2>1. PICK r : /\ Is(c, r) /\ TenantRequest(r)
                 /\ r.op = old.op /\ r.id = old.id /\ r.key = old.key /\ r.at \in {"account", "link"}
    BY <1>12
  <2>2. request' = [request EXCEPT ![c] = r]
    BY <2>1 DEF Is
  <2>3. r.key \in Keys /\ r.op \in {"create", "user"} /\ r.at \notin {"drop", "erase", "save"}
    BY <1>4, <2>1
  <2>4. \A part : Makes(old, part) => Makes(r, part)
    BY <1>4 DEF Makes
  <2>5. realms' = [realms EXCEPT ![r.key] = realm] /\ (realms[r.key] # None /\ realms[r.key].client => realm.client)
    BY <1>9, <1>10, <2>1
  <2> QED BY <1>1, <1>3, <1>4, <1>8, <2>1, <2>2, <2>3, <2>4, <2>5, RealmStep
<1> QED BY <1>1, <1>3, <1>4, <1>11, <1>12, AfterAccountsFacts

\* A step that fails: the creation is about to undo all, or nothing of what is needed.
LEMMA FailsSound ==
    ASSUME TenantsSound, DOMAIN request = Sessions, NEW c \in Sessions, Fails(c)
    PROVE  TenantsSound' /\ Only(TenantOps)
<1>1. PICK old : old = request[c]
  OBVIOUS
<1>2. PICK stage \in {"schema", "migrate", "realm", "roles", "client", "save", "account", "assign"} :
          At(c, stage)
  BY DEF Fails
<1>3. PICK after : after = AfterFailure(c)
  OBVIOUS
<1>4. /\ IF At(c, "migrate") THEN Started(Key(c)) ELSE UNCHANGED schemas
      /\ IF old.op = "user" \/ after = "kept" THEN Close(c)
         ELSE Is(c, [old EXCEPT !.at = after, !.exposed = (after = "drop")])
      /\ UNCHANGED <<tenants, realms, links, crashes, blamed>>
  BY <1>1, <1>3 DEF Fails
<1>5. /\ Busy(c, TenantOps) /\ TenantRequest(old) /\ Known(old) /\ old.at = stage
      /\ old.op \in {"create", "remove", "user"}
      /\ stage \in {"drop", "erase"} => old.op \in {"create", "remove"}
  BY <1>1, <1>2, AtFacts
<1>6. old.op \in {"create", "user"}
  BY <1>2, <1>5 DEF TenantRequest, Removal
<1>7. /\ schemas' \in [Keys -> {"none", "empty", "ready"}]
      /\ \A k \in Keys : schemas[k] = "ready" => schemas'[k] = "ready"
  <2>1. CASE At(c, "migrate")
    BY <1>4, <2>1, SchemaGrows
  <2>2. CASE ~At(c, "migrate")
    BY <1>4, <2>2 DEF TenantsSound, TenantsTypeOK
  <2> QED BY <2>1, <2>2
<1>8. TenantsTypeOK'
  BY <1>4, <1>7, TenantsTyped DEF TenantsSound, TenantsTypeOK
<1>9. tenants' = tenants /\ blamed' = blamed /\ realms' = realms
  BY <1>4
<1>10. \A k \in Keys : RealmReady(k) => RealmReady(k)'
  BY <1>9 DEF RealmReady
<1>11. \A t, part : Mends(c, t, part) <=>
           /\ old.op \in {"create", "remove"} /\ old.id = t
           /\ IF old.op = "create" THEN Makes(old, part) ELSE old.at = "erase"
  BY <1>1, <1>5, TenantFacts
<1>12. CASE old.op = "user"
  <2>1. Close(c)
    BY <1>4, <1>12
  <2>2. \A t, part : ~Mends(c, t, part)
    BY <1>11, <1>12
  <2> QED BY <1>1, <1>5, <1>7, <1>8, <1>9, <1>10, <2>1, <2>2, TenantEnds
<1>13. CASE old.op = "create" /\ after = "kept"
  <2>1. Close(c)
    BY <1>4, <1>13
  <2>2. stage \notin {"schema", "migrate"} /\ ~ProvisioningRequired
    BY <1>1, <1>3, <1>5, <1>13 DEF AfterFailure
  <2>3. \A t \in TenantIds, part \in Parts : Mends(c, t, part) => t = old.id /\ part = "client"
    BY <1>2, <1>5, <1>11, <1>13, <2>2 DEF Makes, Parts
  <2>4. ~Lacks(old.id, "client")'
    BY <1>5, <1>9, <2>2, LacksFacts
  <2>5. \A t \in TenantIds, part \in Parts : ~(Lacks(t, part)' /\ Mends(c, t, part))
    BY <2>3, <2>4
  <2> QED BY <1>1, <1>5, <1>7, <1>8, <1>9, <1>10, <2>1, <2>5, TenantEnds
<1>14. CASE old.op = "create" /\ after # "kept"
  <2>1. PICK exposed : exposed = (after = "drop")
    OBVIOUS
  <2>2. PICK r : r = [old EXCEPT !.at = after, !.exposed = exposed]
    OBVIOUS
  <2>3. request' = [request EXCEPT ![c] = r]
    BY <1>4, <1>14, <2>1, <2>2 DEF Is
  <2>4. after \in {"drop", "unmake", "deactivate"}
    BY <1>3, <1>14 DEF AfterFailure
  <2>5. old \in Creation /\ exposed \in BOOLEAN
    BY <1>5, <1>14, <2>1 DEF TenantRequest
  <2>6. /\ r \in Creation /\ r.op = "create" /\ r.id = old.id /\ r.key = old.key
        /\ r.at = after /\ r.exposed = exposed
    BY <2>2, <2>4, <2>5 DEF Creation
  <2>7. TenantRequest(r)
    BY <2>4, <2>6 DEF TenantRequest
  <2>8. Undone(r) /\ SetUp(r)' /\ r.op # "remove"
    BY <2>1, <2>4, <2>6 DEF Undone, SetUp
  <2>9. \A part : Makes(r, part)
    BY <2>1, <2>4, <2>6 DEF Makes
  <2> QED BY <1>1, <1>5, <1>7, <1>8, <1>9, <1>10, <1>14, <2>3, <2>6, <2>7, <2>8, <2>9, TenantGoes
<1> QED BY <1>6, <1>12, <1>13, <1>14

\* _upsert_identity_link.
LEMMA LinkSound ==
    ASSUME TenantsSound, DOMAIN request = Sessions, NEW c \in Sessions, Link(c)
    PROVE  TenantsSound' /\ Only(TenantOps)
<1>1. PICK old : old = request[c]
  OBVIOUS
<1>2. /\ At(c, "link") /\ Close(c) /\ links' \in {links, links \cup {<<For(c), Holder(c)>>}}
      /\ tenants' = tenants /\ schemas' = schemas /\ realms' = realms /\ blamed' = blamed
  BY DEF Link
<1>3. Busy(c, TenantOps) /\ TenantRequest(old) /\ old.op = "user" /\ For(c) = old.id /\ old.id \in TenantIds
  BY <1>1, <1>2, AtFacts
<1>4. Holder(c) \in Usernames
  <2>1. old.accounts[1] \in Usernames \X SUBSET AllowedRoles
    BY <1>3, AccountFacts DEF TenantRequest
  <2> QED BY <1>1, <2>1 DEF Holder
<1>5. TenantsTypeOK'
  <2>1. TenantsTypeOK
    BY DEF TenantsSound
  <2>2. links' \subseteq TenantIds \X Usernames
    BY <1>2, <1>3, <1>4, <2>1 DEF TenantsTypeOK
  <2> QED BY <1>2, <2>1, <2>2 DEF TenantsTypeOK
<1>6. \A k \in Keys : RealmReady(k) => RealmReady(k)'
  BY <1>2 DEF RealmReady
<1>7. \A t, part : ~Mends(c, t, part)
  BY <1>1, <1>3, TenantFacts
<1> QED BY <1>1, <1>2, <1>3, <1>5, <1>6, <1>7, TenantEnds

\* delete_tenant, create_tenant_user and upgrade_all_tenants begin.
LEMMA TenantBeginSound ==
    ASSUME TenantsSound, DOMAIN request = Sessions, NEW c \in Sessions,
           \/ \E t \in TenantIds : \/ HardDelete(c, t)
                                   \/ \E u \in Usernames, roles \in RoleSets : CreateUser(c, t, u, roles)
           \/ Deploy(c)
    PROVE  TenantsSound' /\ Only(TenantOps)
<1>1. ASSUME NEW t \in TenantIds, Lives(tenants[t])
      PROVE  tenants[t].key \in Keys /\ tenants[t] # None
  BY <1>1 DEF TenantsSound, TenantsTypeOK, TenantRow, Lives
<1>2. ASSUME NEW t \in TenantIds, HardDelete(c, t)
      PROVE  TenantsSound' /\ Only(TenantOps)
  <2>1. PICK r : r = [op |-> "remove", id |-> t, key |-> tenants[t].key, at |-> "drop", exposed |-> TRUE]
    OBVIOUS
  <2>2. Idle(c) /\ Lives(tenants[t]) /\ Is(c, r) /\ UNCHANGED tenantVars
    BY <1>2, <2>1 DEF HardDelete
  <2>3. r \in Removal /\ r.op = "remove" /\ r.id = t /\ r.key = tenants[t].key
    BY <1>1, <2>1, <2>2 DEF Removal
  <2>4. TenantRequest(r) /\ Known(r)
    BY <1>1, <2>2, <2>3 DEF TenantRequest, Known
  <2> QED BY <2>2, <2>3, <2>4, TenantBegins
<1>3. ASSUME NEW t \in TenantIds, NEW u \in Usernames, NEW roles \in RoleSets, CreateUser(c, t, u, roles)
      PROVE  TenantsSound' /\ Only(TenantOps)
  <2>1. PICK accounts : accounts = <<<<u, roles>>>>
    OBVIOUS
  <2>2. PICK r : r = [op |-> "user", id |-> t, key |-> tenants[t].key, at |-> "realm", made |-> FALSE,
                      accounts |-> accounts]
    OBVIOUS
  <2>3. Idle(c) /\ Lives(tenants[t]) /\ RolesAllowed(roles) /\ Is(c, r) /\ UNCHANGED tenantVars
    BY <1>3, <2>1, <2>2 DEF CreateUser
  <2>4. <<u, roles>> \in Usernames \X SUBSET AllowedRoles
    BY <2>3 DEF RolesAllowed
  <2>5. accounts \in Accounts /\ accounts # <<>>
    BY <2>1, <2>4 DEF Accounts
  <2>6. /\ DOMAIN r = {"op", "id", "key", "at", "made", "accounts"} /\ r.op = "user" /\ r.id = t
        /\ r.key = tenants[t].key /\ r.at = "realm" /\ r.accounts = accounts
    BY <2>2
  <2>7. TenantRequest(r) /\ Known(r)
    BY <1>1, <2>3, <2>5, <2>6 DEF TenantRequest, Known
  <2> QED BY <2>3, <2>6, <2>7, TenantBegins
<1>4. ASSUME Deploy(c)
      PROVE  TenantsSound' /\ Only(TenantOps)
  <2>1. PICK order : Is(c, [op |-> "deploy", todo |-> [i \in DOMAIN order |-> tenants[order[i]].key]])
    BY <1>4 DEF Deploy
  <2>2. PICK r : r = [op |-> "deploy", todo |-> [i \in DOMAIN order |-> tenants[order[i]].key]]
    OBVIOUS
  <2>3. Idle(c) /\ Is(c, r) /\ UNCHANGED tenantVars
    BY <1>4, <2>1, <2>2 DEF Deploy
  <2>4. r.op = "deploy" /\ DOMAIN r = {"op", "todo"}
    BY <2>2
  <2>5. TenantRequest(r) /\ Known(r)
    BY <2>4 DEF TenantRequest, Known
  <2> QED BY <2>3, <2>4, <2>5, TenantBegins
<1> QED BY <1>2, <1>3, <1>4

\* upgrade_all_tenants goes on.
LEMMA DeployOneSound ==
    ASSUME TenantsSound, DOMAIN request = Sessions, NEW c \in Sessions, DeployOne(c)
    PROVE  TenantsSound' /\ Only(TenantOps)
<1>1. PICK old : old = request[c]
  OBVIOUS
<1>2. PICK r : r = [old EXCEPT !.todo = Tail(old.todo)]
  OBVIOUS
<1>3. /\ ~Idle(c) /\ old.op = "deploy"
      /\ Started(Head(old.todo)) \/ Upgraded(Head(old.todo))
      /\ Close(c) \/ Is(c, r)
      /\ UNCHANGED <<tenants, realms, links, crashes, blamed>>
  BY <1>1, <1>2 DEF DeployOne, Does
<1>4. Busy(c, TenantOps) /\ TenantRequest(old)
  <2>1. Busy(c, TenantOps)
    BY <1>1, <1>3 DEF Busy, TenantOps
  <2> QED BY <1>1, <2>1, TenantFacts
<1>5. /\ schemas' \in [Keys -> {"none", "empty", "ready"}]
      /\ \A k \in Keys : schemas[k] = "ready" => schemas'[k] = "ready"
  BY <1>3, SchemaGrows
<1>6. TenantsTypeOK'
  BY <1>3, <1>5, TenantsTyped DEF TenantsSound, TenantsTypeOK
<1>7. tenants' = tenants /\ blamed' = blamed /\ realms' = realms
  BY <1>3
<1>8. \A k \in Keys : RealmReady(k) => RealmReady(k)'
  BY <1>7 DEF RealmReady
<1>9. \A t, part : ~Mends(c, t, part)
  BY <1>1, <1>3, <1>4, TenantFacts
<1>10. CASE Close(c)
  BY <1>1, <1>4, <1>5, <1>6, <1>7, <1>8, <1>9, <1>10, TenantEnds
<1>11. CASE Is(c, r)
  <2>1. request' = [request EXCEPT ![c] = r]
    BY <1>11 DEF Is
  <2>2. r.op = "deploy" /\ DOMAIN r = {"op", "todo"}
    BY <1>2, <1>3, <1>4 DEF TenantRequest
  <2>3. TenantRequest(r) /\ Known(r) /\ Undone(r) /\ SetUp(r)'
    BY <2>2 DEF TenantRequest, Known, Undone, SetUp
  <2>4. \A t : ~Creates(c, t)'
    BY <2>1, <2>2, MendsNext
  <2>5. TenantsSound'
    BY <1>5, <1>6, <1>7, <1>8, <1>9, <2>1, <2>3, <2>4, TenantGrows
  <2>6. r.op \in TenantOps
    BY <2>2 DEF TenantOps
  <2> QED BY <1>4, <2>1, <2>5, <2>6, IsOnly
<1> QED BY <1>3, <1>10, <1>11

\* A tenant begins as a row that its creation looks after.
LEMMA RegisterSound ==
    ASSUME TenantsSound, DOMAIN request = Sessions, NEW c \in Sessions,
           NEW t \in TenantIds, NEW k \in Keys, Register(c, t, k)
    PROVE  TenantsSound' /\ Only(TenantOps)
<1>1. PICK r : r = [op |-> "create", id |-> t, key |-> k, at |-> "schema", made |-> FALSE,
                    exposed |-> FALSE, accounts |-> BootstrapUsers]
  OBVIOUS
<1>2. PICK row : row = [key |-> k, active |-> TRUE, client |-> FALSE]
  OBVIOUS
<1>3. /\ Idle(c) /\ tenants[t] = None /\ tenants' = [tenants EXCEPT ![t] = row]
      /\ request' = [request EXCEPT ![c] = r] /\ UNCHANGED <<schemas, realms, links, crashes, blamed>>
  BY <1>1, <1>2 DEF Register, Is
<1>4. row \in TenantRow /\ row.key = k
  BY <1>2 DEF TenantRow
<1>5. tenants \in [TenantIds -> TenantRow \cup {None, Deleted}]
  BY DEF TenantsSound, TenantsTypeOK
<1>6. tenants'[t] = row /\ \A u \in TenantIds : u # t => tenants'[u] = tenants[u]
  BY <1>3, <1>5
<1>7. TenantsTypeOK'
  BY <1>3, <1>4, <1>5 DEF TenantsSound, TenantsTypeOK
<1>8. /\ r \in Creation /\ r.op = "create" /\ r.id = t /\ r.key = k /\ r.at = "schema"
  BY <1>1, TenantsOK DEF TenantsOK, Creation
<1>9. TenantRequest(r) /\ Known(r)' /\ Undone(r)' /\ SetUp(r)' /\ r # None
  <2>1. TenantRequest(r)
    BY <1>8 DEF TenantRequest
  <2>2. tenants'[t] # None
    BY <1>4, <1>6, TenantMarkers
  <2>3. Known(r)'
    BY <1>4, <1>6, <1>8, <2>2 DEF Known
  <2>4. Undone(r)' /\ SetUp(r)'
    BY <1>8 DEF Undone, SetUp
  <2>5. r # None
    BY <1>8, TenantsOK DEF TenantsOK
  <2> QED BY <2>1, <2>3, <2>4, <2>5
<1>10. \A u : Creates(c, u)' => u = t
  <2>1. request' = [request EXCEPT ![c] = r]
    BY <1>3
  <2>2. \A u : Creates(c, u)' => r.id = u
    BY <2>1, CreatesNext
  <2> QED BY <1>8, <2>2
<1>11. Keeps(c)
  BY <1>3, <1>6 DEF Keeps, Open, RealmReady
<1>12. Continues(c)
  <2>1. \A part : Mends(c, t, part)'
    <3>1. \A part : Makes(r, part)
      BY <1>8 DEF Makes
    <3> QED BY <1>3, <1>8, <1>9, <3>1, MendsNext
  <2>2. \A u \in TenantIds, part \in Parts : u # t => (Lacks(u, part)' <=> Lacks(u, part))
    BY <1>3, <1>6 DEF Lacks, Open, Needs, Has
  <2>3. \A u, part : ~Mends(c, u, part)
    BY <1>3 DEF Mends
  <2> QED BY <2>1, <2>2, <2>3 DEF Continues
<1>13. TenantsSound'
  BY <1>3, <1>7, <1>8, <1>9, <1>10, <1>11, <1>12, TenantStep
<1>14. r.op \in TenantOps
  BY <1>8 DEF TenantOps
<1> QED BY <1>3, <1>13, <1>14, IsOnly

\* The end of a creation whose realm is set up.
LEMMA SaveClientSound ==
    ASSUME TenantsSound, DOMAIN request = Sessions, NEW c \in Sessions, SaveClient(c)
    PROVE  TenantsSound' /\ Only(TenantOps)
<1>1. PICK old : old = request[c]
  OBVIOUS
<1>2. PICK r : r = IF old.accounts = <<>> THEN None ELSE [old EXCEPT !.at = "account"]
  OBVIOUS
<1>3. /\ At(c, "save") /\ Lives(tenants[For(c)]) /\ tenants' = [tenants EXCEPT ![For(c)].client = TRUE]
      /\ request' = [request EXCEPT ![c] = r] /\ UNCHANGED <<schemas, realms, links, crashes, blamed>>
  BY <1>1, <1>2 DEF SaveClient, Close, GoesTo, Is
<1>4. PICK t \in TenantIds : t = old.id
  BY <1>1, <1>3, AtFacts
<1>5. /\ Busy(c, TenantOps) /\ TenantRequest(old) /\ Known(old) /\ SetUp(old) /\ old.op = "create"
      /\ old.at = "save" /\ For(c) = t /\ old.key \in Keys
  BY <1>1, <1>3, <1>4, AtFacts
<1>6. tenants \in [TenantIds -> TenantRow \cup {None, Deleted}] /\ tenants[t] \in TenantRow
  BY <1>3, <1>5 DEF TenantsSound, TenantsTypeOK, Lives
<1>7. PICK row : row = [tenants[t] EXCEPT !.client = TRUE]
  OBVIOUS
<1>8. row \in TenantRow /\ row.key = tenants[t].key /\ row.active = tenants[t].active
  BY <1>6, <1>7 DEF TenantRow
<1>9. tenants'[t] = row /\ \A u \in TenantIds : u # t => tenants'[u] = tenants[u]
  BY <1>3, <1>5, <1>6, <1>7
<1>10. TenantsTypeOK'
  <2>1. tenants' = [tenants EXCEPT ![t] = row]
    BY <1>3, <1>5, <1>7
  <2> QED BY <1>3, <1>6, <1>8, <2>1 DEF TenantsSound, TenantsTypeOK
<1>11. tenants[t].key = old.key /\ Lives(row) /\ row # None
  BY <1>3, <1>4, <1>5, <1>8, TenantMarkers DEF Known
<1>12. r = None \/ (TenantRequest(r) /\ r.op = "create" /\ r.id = t /\ r.key = old.key /\ r.at = "account")
  <2>1. CASE old.accounts = <<>>
    BY <1>2, <2>1
  <2>2. CASE old.accounts # <<>>
    <3>1. r = [old EXCEPT !.at = "account"]
      BY <1>2, <2>2
    <3>2. MayBeAt(old, "account")
      BY <1>5, <2>2 DEF MayBeAt
    <3> QED BY <1>4, <1>5, <3>1, <3>2, Staged
  <2> QED BY <2>1, <2>2
<1>13. r = None \/ (TenantRequest(r) /\ Known(r)' /\ Undone(r)' /\ SetUp(r)')
  <2> SUFFICES ASSUME r # None
               PROVE  TenantRequest(r) /\ Known(r)' /\ Undone(r)' /\ SetUp(r)'
    OBVIOUS
  <2>1. TenantRequest(r) /\ r.op = "create" /\ r.id = t /\ r.key = old.key /\ r.at = "account"
    BY <1>12
  <2>2. Known(r)'
    BY <1>8, <1>9, <1>11, <2>1 DEF Known
  <2>3. Undone(r)' /\ SetUp(r)'
    BY <2>1 DEF Undone, SetUp
  <2> QED BY <2>1, <2>2, <2>3
<1>14. r # None /\ r.op = "create" => r.id \in TenantIds
  BY <1>12
<1>15. \A u : Creates(c, u)' => Creates(c, u)
  <2>1. \A u : Creates(c, u)' => r # None /\ r.id = u
    BY <1>3, CreatesNext
  <2>2. Creates(c, t)
    BY <1>1, <1>4, <1>5, TenantFacts
  <2> QED BY <1>12, <2>1, <2>2
<1>16. Keeps(c)
  BY <1>3, <1>6, <1>8, <1>9, <1>11 DEF Keeps, Open, RealmReady
<1>17. Continues(c)
  <2>1. ASSUME NEW part \in Parts, Lacks(t, part)', t \notin blamed'
        PROVE  Lacks(t, part) /\ part = "schema"
    <3>1. RealmReady(old.key)
      BY <1>3, <1>4, <1>5, <2>1 DEF SetUp
    <3>2. "client" \in Has(t)'
      BY <1>3, <1>7, <1>6, <1>8, <1>9, <1>11, <3>1 DEF Has, RealmReady, TenantRow
    <3>3. part = "schema"
      BY <2>1, <3>2 DEF Lacks, Parts
    <3>4. Lacks(t, "schema")
      BY <1>3, <1>8, <1>9, <1>11, <2>1, <3>3 DEF Lacks, Open, Needs, Has
    <3> QED BY <3>3, <3>4
  <2>2. \A u \in TenantIds, part \in Parts : u # t => (Lacks(u, part)' <=> Lacks(u, part))
    BY <1>3, <1>9 DEF Lacks, Open, Needs, Has
  <2>3. \A u, part : Mends(c, u, part) => u = t /\ part = "client"
    BY <1>1, <1>4, <1>5, TenantFacts DEF Makes
  <2> QED BY <2>1, <2>2, <2>3 DEF Continues
<1>18. TenantsSound'
  BY <1>3, <1>10, <1>13, <1>14, <1>15, <1>16, <1>17, TenantStep
<1>19. r = None \/ r.op \in TenantOps
  BY <1>12 DEF TenantOps
<1> QED BY <1>3, <1>5, <1>18, <1>19, IsOnly

\* delete_realm, in the undoing of a creation: by the key, whoever has it.
LEMMA UnmakeSound ==
    ASSUME TenantsSound, DOMAIN request = Sessions, NEW c \in Sessions, Unmake(c)
    PROVE  TenantsSound' /\ Only(TenantOps)
<1>1. PICK old : old = request[c]
  OBVIOUS
<1>2. PICK r : r = [old EXCEPT !.at = "deactivate"]
  OBVIOUS
<1>3. /\ At(c, "unmake") /\ request' = [request EXCEPT ![c] = r]
      /\ tenants' = tenants /\ schemas' = schemas /\ links' = links
      /\ \/ /\ realms' = [realms EXCEPT ![Key(c)] = None]
            /\ blamed' = blamed \cup (OfKey(Key(c)) \ {For(c)})
         \/ realms' = realms /\ blamed' = blamed
  BY <1>1, <1>2 DEF Unmake, GoesTo, Is
<1>4. PICK t \in TenantIds : t = old.id
  BY <1>1, <1>3, AtFacts
<1>5. /\ Busy(c, TenantOps) /\ TenantRequest(old) /\ Known(old) /\ old.op = "create" /\ old.at = "unmake"
      /\ For(c) = t /\ Key(c) = old.key /\ old.key \in Keys
  BY <1>1, <1>3, <1>4, AtFacts
<1>6. TenantRequest(r) /\ r.op = "create" /\ r.id = t /\ r.key = old.key /\ r.at = "deactivate"
  <2>1. MayBeAt(old, "deactivate")
    BY <1>5 DEF MayBeAt
  <2> QED BY <1>2, <1>4, <1>5, <2>1, Staged
<1>7. r # None
  BY <1>6, TenantsOK DEF TenantsOK, TenantRequest
<1>8. Known(r)' /\ Undone(r)' /\ SetUp(r)'
  BY <1>3, <1>4, <1>5, <1>6 DEF Known, Undone, SetUp
<1>9. TenantsTypeOK'
  BY <1>3 DEF TenantsSound, TenantsTypeOK, OfKey
<1>10. /\ blamed \subseteq blamed'
       /\ \A u \in TenantIds : u # t /\ u \notin blamed' /\ Lives(tenants[u])
              => realms'[tenants[u].key] = realms[tenants[u].key]
  <2>1. realms \in [Keys -> Realm \cup {None}] /\ tenants \in [TenantIds -> TenantRow \cup {None, Deleted}]
    BY DEF TenantsSound, TenantsTypeOK
  <2>2. \A u \in TenantIds : Lives(tenants[u]) => tenants[u].key \in Keys
    BY <2>1 DEF Lives, TenantRow
  <2>3. CASE realms' = realms /\ blamed' = blamed
    BY <2>3
  <2>4. CASE /\ realms' = [realms EXCEPT ![Key(c)] = None]
             /\ blamed' = blamed \cup (OfKey(Key(c)) \ {For(c)})
    <3>1. \A u \in TenantIds : u # t /\ u \notin blamed' /\ Lives(tenants[u]) => tenants[u].key # Key(c)
      BY <1>5, <2>4 DEF OfKey
    <3> QED BY <2>1, <2>2, <2>4, <3>1
  <2> QED BY <1>3, <2>3, <2>4
<1>11. \A u : Creates(c, u) <=> u = t
  BY <1>1, <1>4, <1>5, TenantFacts
<1>12. Keeps(c)
  BY <1>3, <1>10, <1>11 DEF Keeps, Open, RealmReady
<1>13. Continues(c)
  <2>1. \A part : Mends(c, t, part)'
    <3>1. \A part : Makes(r, part)
      BY <1>6 DEF Makes
    <3> QED BY <1>3, <1>6, <1>7, <3>1, MendsNext
  <2>2. \A u \in TenantIds, part \in Parts :
            u # t /\ u \notin blamed' /\ Lacks(u, part)' => Lacks(u, part)
    BY <1>3, <1>10 DEF Lacks, Open, Needs, Has
  <2>3. \A u, part : Mends(c, u, part) => u = t
    BY <1>1, <1>4, <1>5, TenantFacts
  <2> QED BY <2>1, <2>2, <2>3 DEF Continues
<1>14. \A u : Creates(c, u)' => u = t
  <2>1. request' = [request EXCEPT ![c] = r]
    BY <1>3
  <2>2. \A u : Creates(c, u)' => r.id = u
    BY <2>1, CreatesNext
  <2> QED BY <1>6, <2>2
<1>15. TenantsSound'
  BY <1>3, <1>6, <1>8, <1>9, <1>11, <1>12, <1>13, <1>14, TenantStep
<1>16. r.op \in TenantOps
  BY <1>6 DEF TenantOps
<1> QED BY <1>3, <1>5, <1>15, <1>16, IsOnly

\* A creation that gives up lets nobody in, or minds that it could not see to it.
LEMMA DeactivateSound ==
    ASSUME TenantsSound, DOMAIN request = Sessions, NEW c \in Sessions, Deactivate(c)
    PROVE  TenantsSound' /\ Only(TenantOps)
<1>1. PICK old : old = request[c]
  OBVIOUS
<1>2. /\ At(c, "deactivate")
      /\ schemas' = schemas /\ realms' = realms /\ links' = links /\ blamed' = blamed
      /\ \/ /\ Lives(tenants[For(c)]) /\ tenants' = [tenants EXCEPT ![For(c)].active = FALSE]
            /\ Is(c, [old EXCEPT !.at = "drop"])
         \/ tenants' = tenants /\ Is(c, [old EXCEPT !.at = "drop", !.exposed = TRUE])
  BY <1>1 DEF Deactivate, GoesTo
<1>3. PICK t \in TenantIds : t = old.id
  BY <1>1, <1>2, AtFacts
<1>4. /\ Busy(c, TenantOps) /\ TenantRequest(old) /\ Known(old) /\ old.op = "create" /\ old.at = "deactivate"
      /\ For(c) = t /\ old.key \in Keys
  BY <1>1, <1>2, <1>3, AtFacts
<1>5. PICK r : \/ /\ Lives(tenants[t]) /\ tenants' = [tenants EXCEPT ![t].active = FALSE]
                  /\ r = [old EXCEPT !.at = "drop"] /\ Is(c, r)
               \/ /\ tenants' = tenants
                  /\ r = [old EXCEPT !.at = "drop", !.exposed = TRUE] /\ Is(c, r)
  BY <1>2, <1>4
<1>6. request' = [request EXCEPT ![c] = r]
  BY <1>5 DEF Is
<1>7. old \in Creation
  BY <1>4 DEF TenantRequest
<1>8. r \in Creation /\ r.op = "create" /\ r.id = t /\ r.key = old.key /\ r.at = "drop"
  <2>1. CASE r = [old EXCEPT !.at = "drop"]
    BY <1>3, <1>7, <2>1 DEF Creation
  <2>2. CASE r = [old EXCEPT !.at = "drop", !.exposed = TRUE]
    BY <1>3, <1>7, <2>2 DEF Creation
  <2> QED BY <1>5, <2>1, <2>2
<1>9. TenantRequest(r) /\ r # None
  BY <1>8, TenantsOK DEF TenantRequest, TenantsOK
<1>10. tenants \in [TenantIds -> TenantRow \cup {None, Deleted}]
  BY DEF TenantsSound, TenantsTypeOK
<1>11. /\ tenants' \in [TenantIds -> TenantRow \cup {None, Deleted}]
       /\ \A u \in TenantIds : u # t => tenants'[u] = tenants[u]
       /\ tenants[t] # None => tenants'[t] # None
       /\ Lives(tenants'[t]) => Lives(tenants[t]) /\ tenants'[t].key = tenants[t].key
       /\ Open(t)' => Open(t)
       /\ \/ ~Open(t)'
          \/ tenants' = tenants /\ r.exposed
  <2>1. CASE tenants' = tenants /\ r = [old EXCEPT !.at = "drop", !.exposed = TRUE]
    <3>1. r.exposed
      BY <1>7, <2>1 DEF Creation
    <3> QED BY <1>10, <2>1, <3>1 DEF Open
  <2>2. CASE Lives(tenants[t]) /\ tenants' = [tenants EXCEPT ![t].active = FALSE]
    <3>1. PICK row : row = [tenants[t] EXCEPT !.active = FALSE]
      OBVIOUS
    <3>2. tenants[t] \in TenantRow
      BY <1>10, <2>2 DEF Lives
    <3>3. row \in TenantRow /\ row.key = tenants[t].key /\ row.active = FALSE
      BY <3>1, <3>2 DEF TenantRow
    <3>4. tenants'[t] = row /\ tenants' = [tenants EXCEPT ![t] = row]
      BY <1>10, <2>2, <3>1
    <3>5. ~Open(t)'
      BY <3>3, <3>4 DEF Open
    <3> QED BY <1>10, <2>2, <3>3, <3>4, <3>5, TenantMarkers
  <2> QED BY <1>5, <2>1, <2>2
<1>12. Known(r)' /\ Undone(r)' /\ SetUp(r)'
  <2>1. Known(r)'
    BY <1>3, <1>4, <1>8, <1>11 DEF Known
  <2>2. Undone(r)'
    BY <1>8, <1>11 DEF Undone
  <2>3. SetUp(r)'
    BY <1>8 DEF SetUp
  <2> QED BY <2>1, <2>2, <2>3
<1>13. TenantsTypeOK'
  BY <1>2, <1>11 DEF TenantsSound, TenantsTypeOK
<1>14. Keeps(c)
  <2>1. \A u \in TenantIds : u # t => (Open(u)' <=> Open(u))
    BY <1>11 DEF Open
  <2> QED BY <1>2, <1>11, <2>1 DEF Keeps, RealmReady
<1>15. Continues(c)
  <2>1. ASSUME NEW part, Lacks(t, part)'
        PROVE  Mends(c, t, part)'
    <3>1. r.exposed
      BY <1>11, <2>1 DEF Lacks
    <3>2. Makes(r, part)
      BY <1>8, <3>1 DEF Makes
    <3> QED BY <1>6, <1>8, <1>9, <3>2, MendsNext
  <2>2. \A u \in TenantIds, part \in Parts : u # t => (Lacks(u, part)' <=> Lacks(u, part))
    BY <1>2, <1>11 DEF Lacks, Open, Needs, Has
  <2>3. \A u, part : Mends(c, u, part) => u = t
    BY <1>1, <1>3, <1>4, TenantFacts
  <2> QED BY <2>1, <2>2, <2>3 DEF Continues
<1>16. \A u : Creates(c, u)' => Creates(c, u)
  <2>1. \A u : Creates(c, u)' => r.id = u
    BY <1>6, CreatesNext
  <2>2. Creates(c, t)
    BY <1>1, <1>3, <1>4, TenantFacts
  <2> QED BY <1>8, <2>1, <2>2
<1>17. TenantsSound'
  BY <1>6, <1>8, <1>9, <1>12, <1>13, <1>14, <1>15, <1>16, TenantStep
<1>18. r.op \in TenantOps
  BY <1>8 DEF TenantOps
<1> QED BY <1>4, <1>6, <1>17, <1>18, IsOnly

\* drop_tenant_schema, of a creation that gave up or a tenant that is removed.
LEMMA DropSound ==
    ASSUME TenantsSound, DOMAIN request = Sessions, NEW c \in Sessions, Drop(c)
    PROVE  TenantsSound' /\ Only(TenantOps)
<1>1. PICK old : old = request[c]
  OBVIOUS
<1>2. PICK next : next = [old EXCEPT !.at = "erase"]
  OBVIOUS
<1>3. /\ At(c, "drop") /\ tenants' = tenants /\ realms' = realms /\ links' = links
      /\ \/ /\ schemas' = [schemas EXCEPT ![Key(c)] = "none"] /\ Is(c, next)
            /\ blamed' = blamed \cup (OfKey(Key(c)) \ {For(c)})
         \/ /\ schemas' = schemas /\ blamed' = blamed
            /\ IF old.op = "remove" THEN Close(c) ELSE Is(c, next)
  BY <1>1, <1>2 DEF Drop, GoesTo
<1>4. PICK t \in TenantIds : t = old.id
  BY <1>1, <1>3, AtFacts
<1>5. /\ Busy(c, TenantOps) /\ TenantRequest(old) /\ Known(old) /\ Undone(old)
      /\ old.op \in {"create", "remove"} /\ old.at = "drop"
      /\ For(c) = t /\ Key(c) = old.key /\ old.key \in Keys
  BY <1>1, <1>3, <1>4, AtFacts
<1>6. /\ TenantRequest(next) /\ next.op = old.op /\ next.id = t /\ next.key = old.key
      /\ next.at = "erase" /\ next.exposed = old.exposed /\ next # None
  <2>1. CASE old.op = "create"
    <3>1. old \in Creation
      BY <1>5, <2>1 DEF TenantRequest
    <3>2. next \in Creation /\ next.op = "create" /\ next.id = t /\ next.key = old.key
          /\ next.at = "erase" /\ next.exposed = old.exposed
      BY <1>2, <1>4, <3>1 DEF Creation
    <3> QED BY <2>1, <3>2, TenantsOK DEF TenantRequest, TenantsOK
  <2>2. CASE old.op = "remove"
    <3>1. old \in Removal
      BY <1>5, <2>2 DEF TenantRequest
    <3>2. next \in Removal /\ next.op = "remove" /\ next.id = t /\ next.key = old.key
          /\ next.at = "erase" /\ next.exposed = old.exposed
      BY <1>2, <1>4, <3>1 DEF Removal
    <3> QED BY <2>2, <3>2, TenantsOK DEF TenantRequest, TenantsOK
  <2> QED BY <1>5, <2>1, <2>2
<1>7. PICK r : r = (IF request' = [request EXCEPT ![c] = next] THEN next ELSE None)
  OBVIOUS
<1>8. /\ request' = [request EXCEPT ![c] = r]
      /\ r = next \/ (r = None /\ old.op = "remove")
  BY <1>3, <1>7 DEF Is, Close
<1>9. /\ TenantsTypeOK' /\ blamed \subseteq blamed'
      /\ \A u \in TenantIds : u # t /\ u \notin blamed' /\ Lives(tenants[u])
             => schemas'[tenants[u].key] = schemas[tenants[u].key]
  <2>1. TenantsTypeOK
    BY DEF TenantsSound
  <2>2. \A u \in TenantIds : Lives(tenants[u]) => tenants[u].key \in Keys
    BY <2>1 DEF TenantsTypeOK, Lives, TenantRow
  <2>3. CASE schemas' = schemas /\ blamed' = blamed
    BY <1>3, <2>1, <2>3 DEF TenantsTypeOK
  <2>4. CASE /\ schemas' = [schemas EXCEPT ![Key(c)] = "none"]
             /\ blamed' = blamed \cup (OfKey(Key(c)) \ {For(c)})
    <3>1. \A u \in TenantIds : u # t /\ u \notin blamed' /\ Lives(tenants[u]) => tenants[u].key # Key(c)
      BY <1>5, <2>4 DEF OfKey
    <3>2. blamed' \subseteq TenantIds
      BY <2>1, <2>4 DEF OfKey, TenantsTypeOK
    <3>3. schemas' \in [Keys -> {"none", "empty", "ready"}]
      BY <2>1, <2>4 DEF TenantsTypeOK
    <3>4. TenantsTypeOK'
      BY <1>3, <2>1, <3>2, <3>3 DEF TenantsTypeOK
    <3>5. \A u \in TenantIds : u # t /\ u \notin blamed' /\ Lives(tenants[u])
              => schemas'[tenants[u].key] = schemas[tenants[u].key]
      BY <2>1, <2>2, <2>4, <3>1 DEF TenantsTypeOK
    <3> QED BY <2>4, <3>4, <3>5
  <2> QED BY <1>3, <2>3, <2>4
<1>10. Known(next)' /\ Undone(next)' /\ SetUp(next)'
  <2>1. Known(next)'
    BY <1>3, <1>4, <1>5, <1>6 DEF Known
  <2>2. Undone(next)'
    BY <1>3, <1>4, <1>5, <1>6, <1>9 DEF Undone, Open
  <2>3. SetUp(next)'
    BY <1>6 DEF SetUp
  <2> QED BY <2>1, <2>2, <2>3
<1>11. r = None \/ (TenantRequest(r) /\ Known(r)' /\ Undone(r)' /\ SetUp(r)')
  BY <1>6, <1>8, <1>10
<1>12. Keeps(c)
  BY <1>3, <1>9 DEF Keeps, Open, RealmReady
<1>13. \A u, part : Mends(c, u, part) <=>
           u = t /\ (IF old.op = "create" THEN Makes(old, part) ELSE old.at = "erase")
  BY <1>1, <1>4, <1>5, TenantFacts
<1>14. ASSUME r = next
       PROVE  \A part : Mends(c, t, part)' <=> IF old.op = "create" THEN next.exposed ELSE TRUE
  <2>1. request' = [request EXCEPT ![c] = next]
    BY <1>8, <1>14
  <2>2. \A part : Makes(next, part) <=> next.exposed
    BY <1>6 DEF Makes
  <2>3. CASE old.op = "create"
    BY <1>6, <2>1, <2>2, <2>3, MendsNext
  <2>4. CASE old.op = "remove"
    BY <1>6, <2>1, <2>4, MendsNext
  <2> QED BY <1>5, <2>3, <2>4
<1>15. Continues(c)
  <2>1. ASSUME NEW part \in Parts, Lacks(t, part)', t \notin blamed',
               Lacks(t, part) => Mends(c, t, part)
        PROVE  Mends(c, t, part)'
    <3>1. CASE r = next /\ old.op = "remove"
      BY <1>14, <3>1
    <3>2. CASE r = next /\ old.op = "create"
      <4>1. t \notin blamed /\ Open(t)
        BY <1>3, <1>9, <2>1 DEF Lacks, Open
      <4>2. old.exposed
        BY <1>4, <1>5, <3>2, <4>1 DEF Undone
      <4> QED BY <1>6, <1>14, <3>2, <4>2
    <3>3. CASE r = None /\ old.op = "remove"
      <4>1. schemas' = schemas
        <5>1. request'[c] = None
          BY <1>8, <3>3
        <5>2. ~Is(c, next)
          BY <1>6, <5>1 DEF Is
        <5> QED BY <1>3, <5>2
      <4>2. Lacks(t, part)
        BY <1>3, <2>1, <4>1 DEF Lacks, Open, Needs, Has
      <4>3. ~Mends(c, t, part)
        BY <1>5, <1>13, <3>3
      <4> QED BY <2>1, <4>2, <4>3
    <3> QED BY <1>5, <1>8, <3>1, <3>2, <3>3
  <2>2. \A u \in TenantIds, part \in Parts :
            u # t /\ u \notin blamed' /\ Lacks(u, part)' => Lacks(u, part)
    BY <1>3, <1>9 DEF Lacks, Open, Needs, Has
  <2>3. \A u, part : Mends(c, u, part) => u = t
    BY <1>13
  <2> QED BY <2>1, <2>2, <2>3 DEF Continues
<1>16. \A u : Creates(c, u)' => Creates(c, u)
  <2>1. \A u : Creates(c, u)' => r = next /\ next.op = "create" /\ next.id = u
    BY <1>8, MendsNext
  <2>2. \A u : Creates(c, u) <=> old.op = "create" /\ u = t
    BY <1>1, <1>4, <1>5, TenantFacts
  <2> QED BY <1>6, <2>1, <2>2
<1>17. r # None /\ r.op = "create" => r.id \in TenantIds
  BY <1>6, <1>8
<1>18. TenantsSound'
  BY <1>8, <1>9, <1>11, <1>12, <1>15, <1>16, <1>17, TenantStep
<1>19. r = None \/ r.op \in TenantOps
  BY <1>5, <1>6, <1>8 DEF TenantOps
<1> QED BY <1>5, <1>8, <1>18, <1>19, IsOnly

\* The end of a creation that gave up, and of a removal.
LEMMA EraseSound ==
    ASSUME TenantsSound, DOMAIN request = Sessions, NEW c \in Sessions, Erase(c)
    PROVE  TenantsSound' /\ Only(TenantOps)
<1>1. PICK old : old = request[c]
  OBVIOUS
<1>2. /\ At(c, "erase") /\ request' = [request EXCEPT ![c] = None]
      /\ schemas' = schemas /\ realms' = realms /\ links' = links
      /\ \/ tenants' = [tenants EXCEPT ![For(c)] = Deleted] /\ blamed' = blamed
         \/ /\ tenants' = tenants
            /\ blamed' = IF old.exposed THEN blamed \cup {For(c)} ELSE blamed
  BY <1>1 DEF Erase, Close, Is
<1>3. PICK t \in TenantIds : t = old.id
  BY <1>1, <1>2, AtFacts
<1>4. /\ Busy(c, TenantOps) /\ TenantRequest(old) /\ Known(old) /\ Undone(old)
      /\ old.op \in {"create", "remove"} /\ old.at = "erase" /\ For(c) = t
  BY <1>1, <1>2, <1>3, AtFacts
<1>5. TenantsTypeOK /\ tenants \in [TenantIds -> TenantRow \cup {None, Deleted}]
  BY DEF TenantsSound, TenantsTypeOK
<1>6. /\ TenantsTypeOK' /\ blamed \subseteq blamed'
      /\ \A u \in TenantIds : u # t => tenants'[u] = tenants[u]
      /\ \/ tenants'[t] = Deleted
         \/ tenants'[t] = tenants[t] /\ (old.exposed => t \in blamed')
  <2>1. CASE tenants' = [tenants EXCEPT ![For(c)] = Deleted] /\ blamed' = blamed
    <3>1. tenants' \in [TenantIds -> TenantRow \cup {None, Deleted}]
      BY <1>5, <2>1
    <3>2. TenantsTypeOK'
      BY <1>2, <1>5, <2>1, <3>1 DEF TenantsTypeOK
    <3> QED BY <1>4, <1>5, <2>1, <3>2
  <2>2. CASE tenants' = tenants /\ blamed' = IF old.exposed THEN blamed \cup {For(c)} ELSE blamed
    <3>1. TenantsTypeOK'
      BY <1>2, <1>4, <1>5, <2>2 DEF TenantsTypeOK
    <3> QED BY <1>4, <2>2, <3>1
  <2> QED BY <1>2, <2>1, <2>2
<1>7. Keeps(c)
  BY <1>2, <1>6, TenantMarkers DEF Keeps, Open, RealmReady
<1>8. Continues(c)
  <2>1. \A part \in Parts : Lacks(t, part)' /\ t \notin blamed' => Lacks(t, part) /\ ~Mends(c, t, part)
    <3> SUFFICES ASSUME NEW part \in Parts, Lacks(t, part)', t \notin blamed'
                 PROVE  Lacks(t, part) /\ ~Mends(c, t, part)
      OBVIOUS
    <3>1. tenants'[t] # Deleted
      BY <1>6, TenantMarkers DEF Lacks, Open
    <3>2. tenants'[t] = tenants[t] /\ ~old.exposed
      BY <1>6, <3>1
    <3>3. Lacks(t, part)
      BY <1>2, <3>2 DEF Lacks, Open, Needs, Has
    <3>4. old.op = "create"
      BY <1>4, <3>2 DEF TenantRequest, Removal
    <3>5. ~Makes(old, part)
      BY <1>4, <3>2 DEF Makes
    <3>6. ~Mends(c, t, part)
      BY <1>1, <1>4, <3>4, <3>5, TenantFacts
    <3> QED BY <3>3, <3>6
  <2>2. \A u \in TenantIds, part \in Parts : u # t => (Lacks(u, part)' <=> Lacks(u, part))
    BY <1>2, <1>6 DEF Lacks, Open, Needs, Has
  <2>3. \A u, part : Mends(c, u, part) => u = t
    BY <1>1, <1>3, <1>4, TenantFacts
  <2> QED BY <2>1, <2>2, <2>3 DEF Continues
<1>9. \A u : ~Creates(c, u)'
  BY <1>2, MendsNext
<1>10. TenantsSound'
  BY <1>2, <1>6, <1>7, <1>8, <1>9, TenantStep
<1> QED BY <1>2, <1>4, <1>10, IsOnly

\* The process goes.
LEMMA CrashSound ==
    ASSUME TenantsSound, DOMAIN request = Sessions, NEW c \in Sessions, Crash(c)
    PROVE  TenantsSound' /\ Only(TenantOps)
<1>1. PICK old : old = request[c]
  OBVIOUS
<1>2. /\ ~Idle(c) /\ old.op \in {"create", "remove"} /\ request' = [request EXCEPT ![c] = None]
      /\ blamed' = blamed \cup {old.id}
      /\ tenants' = tenants /\ schemas' = schemas /\ realms' = realms /\ links' = links
  BY <1>1 DEF Crash, Close, Is, For
<1>3. Busy(c, TenantOps)
  BY <1>1, <1>2 DEF Busy, TenantOps
<1>4. TenantRequest(old) /\ \A t, part : Mends(c, t, part) => t = old.id
  BY <1>1, <1>3, TenantFacts
<1>5. old.id \in TenantIds
  BY <1>2, <1>4 DEF TenantRequest, Creation, Removal
<1>6. TenantsTypeOK'
  BY <1>2, <1>5 DEF TenantsSound, TenantsTypeOK
<1>7. Keeps(c)
  BY <1>2 DEF Keeps, Open, RealmReady
<1>8. Continues(c)
  <2>1. \A u \in TenantIds, part \in Parts : Lacks(u, part)' <=> Lacks(u, part)
    BY <1>2 DEF Lacks, Open, Needs, Has
  <2> QED BY <1>2, <1>4, <2>1 DEF Continues
<1>9. \A u : ~Creates(c, u)'
  BY <1>2, MendsNext
<1>10. TenantsSound'
  BY <1>2, <1>6, <1>7, <1>8, <1>9, TenantStep
<1> QED BY <1>2, <1>3, <1>10, IsOnly

\* A tenant that lacks a part is halfway.
LEMMA HalfwayLacks ==
    ASSUME NEW t \in TenantIds
    PROVE  Halfway(t) <=> \E part \in Parts : Lacks(t, part)
BY DEF Halfway, Lacks, Open, Needs, Parts

\* update_tenant: by hand, and it is minded if the tenant is not ready or is on its way.
LEMMA UpdateTenantSound ==
    ASSUME TenantsSound, DOMAIN request = Sessions,
           NEW t \in TenantIds, NEW active \in BOOLEAN, UpdateTenant(t, active)
    PROVE  TenantsSound' /\ Only(TenantOps)
<1>1. /\ Lives(tenants[t]) /\ tenants' = [tenants EXCEPT ![t].active = active]
      /\ schemas' = schemas /\ realms' = realms /\ links' = links /\ request' = request
      /\ blamed' = IF active /\ (Halfway(t)' \/ Attended(t)) THEN blamed \cup {t} ELSE blamed
  BY DEF UpdateTenant
<1>2. TenantsTypeOK /\ tenants \in [TenantIds -> TenantRow \cup {None, Deleted}]
  BY DEF TenantsSound, TenantsTypeOK
<1>3. PICK row : row = [tenants[t] EXCEPT !.active = active]
  OBVIOUS
<1>4. row \in TenantRow /\ row.key = tenants[t].key /\ row.client = tenants[t].client
      /\ row.active = active
  <2>1. tenants[t] \in TenantRow
    BY <1>1, <1>2 DEF Lives
  <2> QED BY <1>3, <2>1 DEF TenantRow
<1>5. tenants' = [tenants EXCEPT ![t] = row]
  BY <1>1, <1>3
<1>6. /\ tenants'[t] = row /\ Lives(row) /\ row # None
      /\ \A u \in TenantIds : u # t => tenants'[u] = tenants[u]
  BY <1>2, <1>4, <1>5, TenantMarkers
<1>7. blamed \subseteq blamed' /\ TenantsTypeOK'
  BY <1>1, <1>2, <1>4, <1>5 DEF TenantsTypeOK
<1>8. active => t \in blamed' \/ (~Halfway(t)' /\ ~Attended(t))
  BY <1>1
<1>9. ~active => ~Open(t)'
  BY <1>4, <1>6 DEF Open
<1>10. ASSUME NEW c \in Sessions, Busy(c, TenantOps)'
       PROVE  (TenantRequest(request[c]) /\ Known(request[c]) /\ Undone(request[c]) /\ SetUp(request[c]))'
  <2>1. PICK r : r = request[c]
    OBVIOUS
  <2>2. request'[c] = r /\ Busy(c, TenantOps)
    BY <1>1, <1>10, <2>1 DEF Busy, Idle
  <2>3. TenantRequest(r) /\ Known(r) /\ Undone(r) /\ SetUp(r)
    BY <2>1, <2>2, TenantFacts
  <2>4. r.op \in {"create", "remove", "user"} => r.id \in TenantIds
    BY <2>3 DEF TenantRequest, Creation, Removal
  <2>5. Known(r)'
    BY <1>1, <1>4, <1>6, <2>3, <2>4 DEF Known
  <2>6. r.op = "create" /\ r.id = t => Attended(t)
    BY <2>1, <2>2 DEF Attended, Busy
  <2>7. Undone(r)'
    BY <1>6, <1>7, <1>8, <1>9, <2>3, <2>4, <2>6 DEF Undone, Open
  <2>8. SetUp(r)'
    BY <1>1, <1>6, <1>7, <2>3, <2>4 DEF SetUp, RealmReady
  <2> QED BY <2>2, <2>3, <2>5, <2>7, <2>8
<1>11. \A c \in Sessions, u \in TenantIds : Creates(c, u)' <=> Creates(c, u)
  BY <1>1 DEF Creates, Idle
<1>12. ASSUME NEW u \in TenantIds, NEW part \in Parts
       PROVE  Mended(u, part)'
  <2> SUFFICES ASSUME Lacks(u, part)', u \notin blamed'
               PROVE  \E c \in Sessions : Mends(c, u, part)'
    BY DEF Mended
  <2>1. u # t
    <3> SUFFICES ASSUME u = t
                 PROVE  FALSE
      OBVIOUS
    <3>1. active
      BY <1>9 DEF Lacks
    <3>2. Halfway(t)'
      BY DEF Halfway, Lacks, Open
    <3> QED BY <1>8, <3>1, <3>2
  <2>2. Lacks(u, part)
    BY <1>1, <1>6, <2>1 DEF Lacks, Open, Needs, Has
  <2>3. PICK c \in Sessions : Mends(c, u, part)
    BY <1>7, <2>2 DEF TenantsSound, Mended
  <2>4. Mends(c, u, part)'
    BY <1>1, <2>3 DEF Mends, Makes, Idle
  <2> QED BY <2>4
<1> QED BY <1>1, <1>7, <1>10, <1>11, <1>12 DEF TenantsSound, Only

\* The steps of tenants (tenants/tenant.py).
LEMMA TenantsNextSound ==
    ASSUME TenantsSound, DOMAIN request = Sessions, TenantsNext
    PROVE  TenantsSound' /\ Only(TenantOps)
<1>1. CASE \E t \in TenantIds, active \in BOOLEAN : UpdateTenant(t, active)
  BY <1>1, UpdateTenantSound
<1>2. ASSUME NEW c \in Sessions,
             \/ \E t \in TenantIds :
                    \/ \E k \in Keys : Register(c, t, k)
                    \/ HardDelete(c, t)
                    \/ \E u \in Usernames, roles \in RoleSets : CreateUser(c, t, u, roles)
             \/ MakeSchema(c) \/ Migrate(c) \/ EnsureRealm(c) \/ EnsureRoles(c) \/ EnsureClient(c)
             \/ SaveClient(c) \/ EnsureUser(c) \/ AssignRoles(c) \/ Fails(c)
             \/ Unmake(c) \/ Deactivate(c) \/ Drop(c) \/ Erase(c) \/ Link(c)
             \/ Deploy(c) \/ DeployOne(c) \/ Crash(c)
      PROVE  TenantsSound' /\ Only(TenantOps)
  <2>1. CASE \E t \in TenantIds, k \in Keys : Register(c, t, k)
    BY <2>1, RegisterSound
  <2>2. CASE \/ \E t \in TenantIds :
                    \/ HardDelete(c, t)
                    \/ \E u \in Usernames, roles \in RoleSets : CreateUser(c, t, u, roles)
             \/ Deploy(c)
    BY <2>2, TenantBeginSound
  <2>3. CASE MakeSchema(c) \/ Migrate(c) \/ EnsureRealm(c) \/ EnsureRoles(c) \/ EnsureClient(c)
    BY <2>3, MakeSchemaSound, MigrateSound, EnsureRealmSound, EnsureRolesSound, EnsureClientSound
  <2>4. CASE SaveClient(c) \/ EnsureUser(c) \/ AssignRoles(c) \/ Fails(c) \/ Link(c)
    BY <2>4, SaveClientSound, EnsureUserSound, AssignRolesSound, FailsSound, LinkSound
  <2>5. CASE Unmake(c) \/ Deactivate(c) \/ Drop(c) \/ Erase(c)
    BY <2>5, UnmakeSound, DeactivateSound, DropSound, EraseSound
  <2>6. CASE DeployOne(c) \/ Crash(c)
    BY <2>6, DeployOneSound, CrashSound
  <2> QED BY <1>2, <2>1, <2>2, <2>3, <2>4, <2>5, <2>6
<1> QED BY <1>1, <1>2 DEF TenantsNext

-----------------------------------------------------------------------------
(* All of it.                                                              *)

\* Nothing is there and nobody asks for anything.
LEMMA InitSound == Init => IInv
<1> SUFFICES ASSUME Init
             PROVE  IInv
  OBVIOUS
<1> USE DEF Init, TenantsInit, BaselineInit, ProductsInit
<1>1. DOMAIN request = Sessions /\ \A c \in Sessions : Idle(c)
  BY DEF Idle
<1>2. \A ops : \A c \in Sessions : ~Busy(c, ops)
  BY <1>1 DEF Busy
<1>3. TenantsSound
  <2>1. TenantsTypeOK
    BY DEF TenantsTypeOK
  <2>2. \A t \in TenantIds, part \in Parts : Mended(t, part)
    BY TenantMarkers DEF Mended, Lacks, Open
  <2>3. \A c \in Sessions, t \in TenantIds : ~Creates(c, t)
    BY <1>1 DEF Creates
  <2> QED BY <1>2, <2>1, <2>2, <2>3 DEF TenantsSound
<1>4. BaselineSound
  <2>1. BaselineTypeOK
    BY DEF BaselineTypeOK
  <2>2. \A i : \A c \in Sessions : ~NewDefinition(c, i) /\ ~NewCopy(c, i)
    BY <1>1 DEF NewDefinition, NewCopy
  <2> QED BY <1>2, <2>1, <2>2, BaselineMarkers DEF BaselineSound
<1>5. ProductsSound
  <2>1. ProductsTypeOK
    BY DEF ProductsTypeOK
  <2> QED BY <1>2, <2>1, ProductMarkers DEF ProductsSound
<1> QED BY <1>1, <1>3, <1>4, <1>5 DEF IInv

\* A request whose commit is refused leaves nothing.
LEMMA GivesUpSound ==
    ASSUME IInv, NEW c \in Sessions, GivesUp(c)
    PROVE  IInv'
<1>1. PICK op : op = request[c].op
  OBVIOUS
<1>2. /\ ~Idle(c) /\ op \notin TenantOps /\ request' = [request EXCEPT ![c] = None] /\ Close(c)
      /\ UNCHANGED tenantVars /\ UNCHANGED baselineVars /\ UNCHANGED productVars
  BY <1>1 DEF GivesUp, Close, Is, TenantOps
<1>3. DOMAIN request = Sessions /\ TenantsSound /\ BaselineSound /\ ProductsSound
  BY DEF IInv
<1>4. Only({op})
  <2>1. Busy(c, {op})
    BY <1>1, <1>2 DEF Busy
  <2> QED BY <1>2, <1>3, <2>1, IsOnly
<1>5. TenantsSound'
  BY <1>2, <1>3, <1>4, TenantsStay
<1>6. BaselineSound'
  <2>1. CASE op \notin BaselineOps
    BY <1>2, <1>3, <1>4, <2>1, BaselineStays
  <2>2. CASE op \in BaselineOps
    <3>1. Busy(c, BaselineOps)
      BY <1>1, <1>2, <2>2 DEF Busy
    <3>2. baseline' = baseline /\ bdefs' = bdefs /\ basks' = basks /\ tdefs' = tdefs
      BY <1>2 DEF baselineVars
    <3>3. BaselineTypeOK'
      BY <1>3, <3>2 DEF BaselineSound, BaselineTypeOK
    <3>4. /\ \A b \in BDefs : ~Lives(baseline') => ~Lives(bdefs'[b])
          /\ baseline' = None => \A b \in BDefs : bdefs'[b] = None
          /\ \A d \in TDefs : tdefs'[d] # None /\ tdefs'[d].from # None => Lives(bdefs'[tdefs'[d].from])
      BY <1>3, <3>2 DEF BaselineSound
    <3> QED BY <1>2, <1>3, <3>1, <3>2, <3>3, <3>4, BaselineEnds
  <2> QED BY <2>1, <2>2
<1>7. ProductsSound'
  <2>1. products' = products /\ templates' = templates
    BY <1>2 DEF productVars
  <2>2. ProductsTypeOK'
    BY <1>3, <2>1 DEF ProductsSound, ProductsTypeOK
  <2>3. \A p \in ProductIds : Lives(products'[p]) /\ products'[p].template # None
                                  => Lives(templates'[products'[p].template])
    BY <1>3, <2>1 DEF ProductsSound
  <2> QED BY <1>2, <1>3, <2>2, <2>3, ProductsStep
<1>8. DOMAIN request' = Sessions
  BY <1>4 DEF Only
<1> QED BY <1>5, <1>6, <1>7, <1>8 DEF IInv

\* A step is one of a single part, and the others stay as they are.
LEMMA NextSound == IInv /\ [Next]_vars => IInv'
<1> SUFFICES ASSUME IInv, [Next]_vars
             PROVE  IInv'
  OBVIOUS
<1>1. DOMAIN request = Sessions /\ TenantsSound /\ BaselineSound /\ ProductsSound
  BY DEF IInv
<1>2. \A ops : Only(ops) => DOMAIN request' = Sessions
  BY DEF Only
<1>3. /\ TenantOps \cap BaselineOps = {} /\ TenantOps \cap ProductOps = {}
      /\ BaselineOps \cap TenantOps = {} /\ BaselineOps \cap ProductOps = {}
      /\ ProductOps \cap TenantOps = {} /\ ProductOps \cap BaselineOps = {}
  BY DEF TenantOps, BaselineOps, ProductOps
<1>4. CASE TenantsNext /\ UNCHANGED <<baselineVars, productVars>>
  <2>1. TenantsSound' /\ Only(TenantOps)
    BY <1>1, <1>4, TenantsNextSound
  <2>2. BaselineSound' /\ ProductsSound'
    BY <1>1, <1>3, <1>4, <2>1, BaselineStays, ProductsStay
  <2> QED BY <1>2, <2>1, <2>2 DEF IInv
<1>5. CASE BaselineNext /\ UNCHANGED <<tenantVars, productVars>>
  <2>1. BaselineSound' /\ Only(BaselineOps)
    BY <1>1, <1>5, BaselineNextSound
  <2>2. TenantsSound' /\ ProductsSound'
    BY <1>1, <1>3, <1>5, <2>1, TenantsStay, ProductsStay
  <2> QED BY <1>2, <2>1, <2>2 DEF IInv
<1>6. CASE ProductsNext /\ UNCHANGED <<tenantVars, baselineVars>>
  <2>1. ProductsSound' /\ Only(ProductOps)
    BY <1>1, <1>6, ProductsNextSound
  <2>2. TenantsSound' /\ BaselineSound'
    BY <1>1, <1>3, <1>6, <2>1, TenantsStay, BaselineStays
  <2> QED BY <1>2, <2>1, <2>2 DEF IInv
<1>7. CASE \E c \in Sessions : GivesUp(c)
  BY <1>7, GivesUpSound
<1>8. CASE UNCHANGED vars
  <2>1. /\ request' = request /\ UNCHANGED tenantVars /\ UNCHANGED baselineVars /\ UNCHANGED productVars
    BY <1>8 DEF vars
  <2>2. Only({})
    BY <1>1, <2>1 DEF Only
  <2>3. TenantsSound' /\ BaselineSound' /\ ProductsSound'
    BY <1>1, <2>1, <2>2, TenantsStay, BaselineStays, ProductsStay
  <2> QED BY <1>2, <2>2, <2>3 DEF IInv
<1> QED BY <1>4, <1>5, <1>6, <1>7, <1>8 DEF Next

\* What the three parts know holds throughout.
THEOREM Invariance == Spec => []IInv
BY InitSound, NextSound, PTL DEF Spec

\* Tables and requests hold what they are for: TypeOK.
THEOREM TypeCorrect == Spec => []TypeOK
<1>1. IInv => TypeOK
  BY DEF IInv, TenantsSound, BaselineSound, ProductsSound, TypeOK
<1> QED BY <1>1, Invariance, PTL

\* A tenant that is let in and lacks what it needs is being made or removed, or more than one
\* thing has gone wrong with it (create_tenant, delete_tenant).
THEOREM NobodyHalfway == Spec => []NoTenantHalfway
<1>1. IInv => NoTenantHalfway
  <2> SUFFICES ASSUME IInv, NEW t \in TenantIds, Halfway(t), t \notin blamed
               PROVE  Attended(t)
    BY DEF NoTenantHalfway
  <2>1. PICK part \in Parts : Lacks(t, part)
    BY HalfwayLacks
  <2>2. PICK c \in Sessions : Mends(c, t, part)
    BY <2>1 DEF IInv, TenantsSound, Mended
  <2> QED BY <2>2 DEF Mends, Attended
<1> QED BY <1>1, Invariance, PTL

\* The rules of a copy are those of what it was copied from, under its own.
LEMMA SameRules ==
    ASSUME NEW d, tdefs'[d].from = tdefs[d].from, tdefs'[d].rules = tdefs[d].rules,
           tdefs[d].from # None => bdefs'[tdefs[d].from].rules = bdefs[tdefs[d].from].rules
    PROVE  RulesConfig(d)' = RulesConfig(d)
<1>1. (IF tdefs[d].from = None THEN <<>> ELSE bdefs[tdefs[d].from].rules)'
          = IF tdefs[d].from = None THEN <<>> ELSE bdefs[tdefs[d].from].rules
  OBVIOUS
<1> QED BY <1>1 DEF RulesConfig

\* What a step does to a published copy and to the definition that it was taken from.
LEMMA SourceFacts ==
    ASSUME BaselineSound, DOMAIN request = Sessions, BaselineNext, NEW d \in TDefs, tdefs[d] # None, ~tdefs[d].draft,
           tdefs[d].from # None => bdefs'[tdefs[d].from] # Deleted
    PROVE  /\ tdefs'[d] = tdefs[d] \/ EditOf("adapt", d)
           /\ tdefs[d].from # None =>
                  \/ bdefs'[tdefs[d].from].rules = bdefs[tdefs[d].from].rules
                  \/ EditOf("rewrite", tdefs[d].from)
<1>1. /\ bdefs \in [BDefs -> Definition \cup {None, Deleted}]
      /\ tdefs \in [TDefs -> Copy \cup {None}]
      /\ tdefs[d].from # None => Lives(bdefs[tdefs[d].from])
      /\ tdefs[d].from \in BDefs \cup {None}
  BY DEF BaselineSound, BaselineTypeOK, Copy
<1>2. CASE bdefs' = bdefs /\ tdefs' = tdefs
  BY <1>2
<1>3. ASSUME NEW rules \in Configs, NEW asks \in {{}, Questions}, CreateBaseline(rules, asks)
      PROVE  tdefs' = tdefs /\ tdefs[d].from = None
  BY <1>1, <1>3, BaselineMarkers DEF CreateBaseline, BaselineSound
<1>4. ASSUME NEW t \in TDefs, PublishCopy(t)
      PROVE  tdefs'[d] = tdefs[d] /\ bdefs' = bdefs
  BY <1>1, <1>4 DEF PublishCopy
<1>5. ASSUME NEW gone \in SUBSET BDefs, Without(gone)
      PROVE  tdefs'[d] = tdefs[d] /\ (tdefs[d].from # None => bdefs'[tdefs[d].from] = bdefs[tdefs[d].from])
  <2>1. tdefs[d].from \notin gone
    <3> SUFFICES ASSUME tdefs[d].from \in gone
                 PROVE  FALSE
      OBVIOUS
    <3>1. tdefs[d].from # None /\ Lives(bdefs[tdefs[d].from])
      BY <1>1, BaselinesOK DEF BaselinesOK
    <3>2. bdefs'[tdefs[d].from] = Deleted
      BY <3>1, <1>5 DEF Without
    <3> QED BY <3>1, <3>2
  <2>2. tdefs'[d] = tdefs[d]
    BY <1>5, <2>1 DEF Without
  <2>3. \A b \in BDefs : b \notin gone => bdefs'[b] = bdefs[b]
    BY <1>5 DEF Without
  <2> QED BY <1>1, <2>1, <2>2, <2>3
<1>6. ASSUME NEW c \in Sessions, DropCommit(c)
      PROVE  tdefs'[d] = tdefs[d] /\ (tdefs[d].from # None => bdefs'[tdefs[d].from] = bdefs[tdefs[d].from])
  BY <1>1, <1>5, <1>6 DEF DropCommit
<1>7. ASSUME NEW c \in Sessions, EraseCommit(c)
      PROVE  tdefs'[d] = tdefs[d] /\ (tdefs[d].from # None => bdefs'[tdefs[d].from] = bdefs[tdefs[d].from])
  <2>1. PICK b : b = request[c].id
    OBVIOUS
  <2>2. Without({b}) /\ Lives(bdefs[b]) /\ Does(c, "erase")
    BY <1>7, <2>1 DEF EraseCommit
  <2>3. b \in BDefs
    BY <2>1, <2>2 DEF Does, BaselineSound, BaselineRequest, Busy, BaselineOps
  <2> QED BY <1>5, <2>2, <2>3
<1>8. ASSUME NEW c \in Sessions, DefineCommit(c)
      PROVE  tdefs' = tdefs /\ (tdefs[d].from # None => bdefs'[tdefs[d].from] = bdefs[tdefs[d].from])
  <2>1. PICK r : r = request[c]
    OBVIOUS
  <2>2. /\ ~Idle(c) /\ r.op = "define" /\ tdefs' = tdefs
        /\ bdefs' = [bdefs EXCEPT ![r.id] = [draft |-> TRUE, rules |-> r.rules]]
    BY <1>8, <2>1 DEF DefineCommit, Does
  <2>3. NewDefinition(c, r.id) /\ r.id \in BDefs
    BY <2>1, <2>2 DEF NewDefinition, BaselineSound, BaselineRequest, Busy, BaselineOps
  <2>4. bdefs[r.id] = None
    BY <2>3 DEF BaselineSound
  <2>5. tdefs[d].from # None => tdefs[d].from # r.id
    BY <1>1, <2>4, BaselineMarkers
  <2> QED BY <1>1, <2>2, <2>5
<1>9. ASSUME NEW c \in Sessions, RewriteCommit(c)
      PROVE  /\ tdefs' = tdefs
             /\ tdefs[d].from # None =>
                    \/ bdefs'[tdefs[d].from] = bdefs[tdefs[d].from]
                    \/ EditOf("rewrite", tdefs[d].from)
  <2>1. PICK r : r = request[c]
    OBVIOUS
  <2>2. /\ Does(c, "rewrite") /\ ~Idle(c) /\ r.op = "rewrite" /\ tdefs' = tdefs /\ Close(c)
        /\ bdefs' = [bdefs EXCEPT ![r.id] = Flush(bdefs[r.id], r.base, r.mine)]
    BY <1>9, <2>1 DEF RewriteCommit, Does
  <2>3. r.base.draft
    BY <2>1, <2>2 DEF BaselineSound, BaselineRequest, Busy, BaselineOps
  <2>4. Idle(c)'
    BY <2>2 DEF Idle, Close, Is
  <2>5. tdefs[d].from # None /\ tdefs[d].from # r.id => bdefs'[tdefs[d].from] = bdefs[tdefs[d].from]
    BY <1>1, <2>2
  <2> QED BY <2>1, <2>2, <2>3, <2>4, <2>5 DEF EditOf
<1>10. ASSUME NEW c \in Sessions, IssueCommit(c)
       PROVE  tdefs' = tdefs /\ (tdefs[d].from # None =>
                                     bdefs'[tdefs[d].from].rules = bdefs[tdefs[d].from].rules)
  <2>1. PICK r : r = request[c]
    OBVIOUS
  <2>2. tdefs' = tdefs /\ bdefs' = [bdefs EXCEPT ![r.id].draft = FALSE]
    BY <1>10, <2>1 DEF IssueCommit
  <2>3. \A row \in Definition : [row EXCEPT !.draft = FALSE].rules = row.rules
    BY DEF Definition
  <2>4. tdefs[d].from # None => bdefs[tdefs[d].from] \in Definition
    BY <1>1 DEF Lives
  <2> QED BY <1>1, <2>2, <2>3, <2>4
<1>11. ASSUME NEW c \in Sessions, CopyCommit(c)
       PROVE  tdefs'[d] = tdefs[d] /\ bdefs' = bdefs
  <2>1. PICK r : r = request[c]
    OBVIOUS
  <2>2. ~Idle(c) /\ r.op = "copy" /\ tdefs' = [tdefs EXCEPT ![r.id] = r.row] /\ bdefs' = bdefs
    BY <1>11, <2>1 DEF CopyCommit, Does
  <2>3. NewCopy(c, r.id)
    BY <2>1, <2>2 DEF NewCopy
  <2>4. d # r.id
    BY <2>3 DEF BaselineSound
  <2> QED BY <2>2, <2>4
<1>12. ASSUME NEW c \in Sessions, HeaderCommit(c) \/ AskCommit(c)
       PROVE  bdefs' = bdefs /\ tdefs' = tdefs
  BY <1>12 DEF HeaderCommit, AskCommit
<1>13. ASSUME NEW c \in Sessions,
              \/ \E to \in BOOLEAN, column \in {"active", "locked"} : HeaderBegin(c, column, to)
              \/ \E b \in BDefs \cup {None} : HeaderBegin(c, "current", b)
              \/ DropBegin(c)
              \/ \E b \in BDefs :
                     \/ \E rules \in Configs, asks \in SUBSET Questions : DefineBegin(c, b, rules, asks)
                     \/ \E rules \in Configs : RewriteBegin(c, b, rules)
                     \/ EraseBegin(c, b)
                     \/ \E set_as_active \in BOOLEAN : IssueBegin(c, b, set_as_active)
                     \/ \E asks \in (SUBSET Questions) \ {{}}, adds \in BOOLEAN : AskBegin(c, b, asks, adds)
              \/ \E e \in TDefs, own \in OwnConfigs : CopyBegin(c, e, own) \/ AdaptBegin(c, e, own)
       PROVE  bdefs' = bdefs /\ tdefs' = tdefs
  <2>1. UNCHANGED baselineVars
    BY <1>13 DEF HeaderBegin, DropBegin, DefineBegin, RewriteBegin, EraseBegin, IssueBegin, AskBegin, CopyBegin,
                AdaptBegin
  <2> QED BY <2>1 DEF baselineVars
<1>14. ASSUME NEW c \in Sessions, AdaptCommit(c)
       PROVE  bdefs' = bdefs /\ (tdefs'[d] = tdefs[d] \/ EditOf("adapt", d))
  <2>1. PICK r : r = request[c]
    OBVIOUS
  <2>2. /\ Does(c, "adapt") /\ ~Idle(c) /\ r.op = "adapt" /\ bdefs' = bdefs /\ Close(c)
        /\ tdefs' = [tdefs EXCEPT ![r.id] = Flush(tdefs[r.id], r.base, r.mine)]
    BY <1>14, <2>1 DEF AdaptCommit, Does
  <2>3. r.base.draft
    BY <2>1, <2>2 DEF BaselineSound, BaselineRequest, Busy, BaselineOps
  <2>4. Idle(c)'
    BY <2>2 DEF Idle, Close, Is
  <2>5. d # r.id => tdefs'[d] = tdefs[d]
    BY <2>2
  <2> QED BY <2>1, <2>2, <2>3, <2>4, <2>5 DEF EditOf
<1>15. CASE \E rules \in Configs, asks \in {{}, Questions} : CreateBaseline(rules, asks)
  BY <1>3, <1>15
<1>16. CASE \E t \in TDefs : PublishCopy(t)
  BY <1>4, <1>16
<1>17. CASE \E c \in Sessions : HeaderCommit(c) \/ AskCommit(c)
  BY <1>2, <1>12, <1>17
<1>18. CASE \E c \in Sessions : DropCommit(c) \/ EraseCommit(c) \/ DefineCommit(c)
  BY <1>6, <1>7, <1>8, <1>18
<1>19. CASE \E c \in Sessions : RewriteCommit(c) \/ IssueCommit(c) \/ CopyCommit(c)
  BY <1>9, <1>10, <1>11, <1>19
<1>20. CASE \E c \in Sessions : AdaptCommit(c)
  BY <1>14, <1>20
<1> QED BY <1>2, <1>13, <1>15, <1>16, <1>17, <1>18, <1>19, <1>20 DEF BaselineNext

\* The rules a published definition is run by stay what they are, short of a source that
\* goes and of edits, of the one or the other, that read a draft
\* (get_tenant_template_definition_with_config).
THEOREM RulesStay == Spec => PublishedRulesStay
<1>1. ASSUME IInv, [Next]_vars
      PROVE  [\A d \in TDefs :
                 /\ tdefs[d] # None /\ ~tdefs[d].draft
                 /\ RulesConfig(d)' # RulesConfig(d)
                 => \/ EditOf("adapt", d)
                    \/ bdefs'[tdefs[d].from] = Deleted
                    \/ EditOf("rewrite", tdefs[d].from)]_baselineVars
  <2> SUFFICES ASSUME ~UNCHANGED baselineVars, NEW d \in TDefs, tdefs[d] # None, ~tdefs[d].draft,
                      RulesConfig(d)' # RulesConfig(d), ~EditOf("adapt", d),
                      bdefs'[tdefs[d].from] # Deleted, ~EditOf("rewrite", tdefs[d].from)
               PROVE  FALSE
    OBVIOUS
  <2>1. BaselineNext
    BY <1>1 DEF Next, vars, GivesUp
  <2>2. BaselineSound /\ DOMAIN request = Sessions
    BY <1>1 DEF IInv
  <2>3. /\ tdefs'[d] = tdefs[d]
        /\ tdefs[d].from # None => bdefs'[tdefs[d].from].rules = bdefs[tdefs[d].from].rules
    BY <2>1, <2>2, SourceFacts
  <2> QED BY <2>3, SameRules
<1> QED BY <1>1, Invariance, PTL DEF Spec, PublishedRulesStay

\* What one step makes of an active product without a template.
LEMMA TemplateFacts ==
    ASSUME ProductsSound, DOMAIN request = Sessions, ProductsNext, NEW p \in ProductIds,
           IsActive(p)', ~HasTemplate(p)'
    PROVE  \/ IsActive(p) /\ ~HasTemplate(p)
           \/ IsActive(p) /\ templates'[products[p].template] = Deleted
           \/ \E c \in Sessions : /\ Does(c, "write") /\ Idle(c)'
                                  /\ request[c].id = p
                                  /\ request[c].base # products[p]
<1>1. /\ products \in [ProductIds -> ProductRow \cup {None, Deleted}]
      /\ templates \in [Templates -> TemplateRow \cup {None, Deleted}]
  BY DEF ProductsSound, ProductsTypeOK
<1>2. Lives(products[p]) => products[p].template \in Templates \cup {None}
  BY <1>1 DEF Lives, ProductRow
<1>3. CASE products' = products /\ \A t \in Templates : Lives(templates[t]) => Lives(templates'[t])
  BY <1>2, <1>3 DEF IsActive, HasTemplate
<1>4. ASSUME NEW t \in Templates, NewTemplate(t) \/ \E active \in BOOLEAN : SetActive(t, active)
      PROVE  products' = products /\ \A u \in Templates : Lives(templates[u]) => Lives(templates'[u])
  <2>1. CASE NewTemplate(t)
    <3>1. [active |-> TRUE] \in TemplateRow
      BY DEF TemplateRow
    <3> QED BY <1>1, <2>1, <3>1, ProductMarkers DEF NewTemplate
  <2>2. ASSUME NEW active \in BOOLEAN, SetActive(t, active)
        PROVE  products' = products /\ \A u \in Templates : Lives(templates[u]) => Lives(templates'[u])
    <3>1. /\ templates' = [templates EXCEPT ![t].active = active] /\ products' = products
          /\ templates[t] \in TemplateRow
      BY <1>1, <2>2 DEF SetActive, Lives
    <3>2. [templates[t] EXCEPT !.active = active] \in TemplateRow
      BY <3>1 DEF TemplateRow
    <3> QED BY <1>1, <3>1, <3>2, ProductMarkers
  <2> QED BY <1>4, <2>1, <2>2
<1>5. ASSUME NEW t \in Templates, DeleteTemplate(t)
      PROVE  \/ IsActive(p) /\ ~HasTemplate(p)
             \/ IsActive(p) /\ templates'[products[p].template] = Deleted
  <2>1. /\ templates' = [templates EXCEPT ![t] = Deleted]
        /\ products' = [q \in ProductIds |->
                           IF Lives(products[q]) /\ products[q].template = t
                           THEN [products[q] EXCEPT !.template = None] ELSE products[q]]
    BY <1>5 DEF DeleteTemplate
  <2>2. CASE Lives(products[p]) /\ products[p].template = t
    <3>1. products[p] \in ProductRow /\ products'[p] = [products[p] EXCEPT !.template = None]
      BY <1>1, <2>1, <2>2 DEF Lives
    <3>2. products'[p].status = products[p].status
      BY <3>1 DEF ProductRow
    <3>3. IsActive(p)
      BY <2>2, <3>2 DEF IsActive
    <3>4. templates'[t] = Deleted
      BY <1>1, <2>1
    <3> QED BY <2>2, <3>3, <3>4
  <2>3. CASE ~(Lives(products[p]) /\ products[p].template = t)
    <3>1. products'[p] = products[p]
      BY <2>1, <2>3
    <3>2. IsActive(p) /\ products[p].template # t
      BY <2>3, <3>1 DEF IsActive
    <3>3. HasTemplate(p) => HasTemplate(p)'
      BY <1>1, <1>2, <2>1, <3>1, <3>2 DEF HasTemplate, IsActive
    <3> QED BY <3>2, <3>3
  <2> QED BY <2>2, <2>3
<1>6. ASSUME products'[p] = products[p], templates' = templates
      PROVE  IsActive(p) /\ ~HasTemplate(p)
  BY <1>6 DEF IsActive, HasTemplate
<1>7. ASSUME NEW c \in Sessions, CreateCommit(c)
      PROVE  products'[p] = products[p] /\ templates' = templates
  <2>1. PICK r : r = request[c]
    OBVIOUS
  <2>2. /\ ~Idle(c) /\ r.op = "offer" /\ templates' = templates
        /\ products' = [products EXCEPT ![r.id] = r.mine]
    BY <1>7, <2>1 DEF CreateCommit, Does
  <2>3. ProductRequest(r)
    BY <2>1, <2>2 DEF ProductsSound, Busy, ProductOps
  <2>4. r.mine.status = "draft" /\ r.id \in ProductIds
    BY <2>2, <2>3 DEF ProductRequest
  <2>5. p # r.id
    BY <1>1, <2>2, <2>4 DEF IsActive
  <2> QED BY <2>2, <2>5
<1>8. ASSUME NEW c \in Sessions, DeleteCommit(c)
      PROVE  products'[p] = products[p] /\ templates' = templates
  <2>1. products' = [products EXCEPT ![request[c].id] = Deleted] /\ templates' = templates
    BY <1>8 DEF DeleteCommit
  <2>2. p # request[c].id
    BY <1>1, <2>1, ProductMarkers DEF IsActive
  <2> QED BY <2>1, <2>2
<1>9. ASSUME NEW c \in Sessions, WriteCommit(c), request[c].id # p
      PROVE  products'[p] = products[p] /\ templates' = templates
  BY <1>9 DEF WriteCommit
<1>10. ASSUME NEW c \in Sessions, WriteCommit(c), request[c].id = p, request[c].base = products[p]
       PROVE  IsActive(p) /\ ~HasTemplate(p)
  <2>1. PICK r : r = request[c]
    OBVIOUS
  <2>2. /\ r.id = p /\ r.base = products[p] /\ ProductRequest(r) /\ r.op = "write" /\ products[p] \in ProductRow
        /\ products' = [products EXCEPT ![p] = Flush(products[p], r.base, r.mine)] /\ templates' = templates
    BY <1>10, <2>1, CommittedProduct
  <2>3. r.mine \in ProductRow
    BY <2>2 DEF ProductRequest
  <2>4. products'[p] = Flush(products[p], products[p], r.mine)
    BY <1>1, <2>2
  <2>5. products'[p].template = r.mine.template /\ products'[p].status = r.mine.status
    BY <2>2, <2>3, <2>4, ProductFlush
  <2>6. r.mine.status = "active"
    BY <2>5 DEF IsActive
  <2>7. CASE Changeable(products[p], r.mine) /\ r.mine.status = products[p].status
    <3>1. products[p].status = "active" /\ r.mine.template = products[p].template
      BY <2>6, <2>7 DEF Changeable
    <3>2. Lives(products[p])
      BY <2>2, ProductMarkers
    <3> QED BY <2>2, <2>5, <3>1, <3>2 DEF IsActive, HasTemplate
  <2>8. CASE r.mine.template = products[p].template /\ products[p].template # None
    <3>1. Lives(templates[products[p].template])
      BY <2>2, <2>8, ProductMarkers DEF ProductsSound
    <3>2. HasTemplate(p)'
      BY <2>2, <2>5, <2>8, <3>1 DEF HasTemplate
    <3> QED BY <3>2
  <2> QED BY <2>2, <2>6, <2>7, <2>8 DEF ProductRequest
<1>11. ASSUME NEW c \in Sessions, WriteCommit(c)
       PROVE  Does(c, "write") /\ Idle(c)'
  BY <1>11 DEF WriteCommit, Close, Is, Idle
<1>12. ASSUME NEW c \in Sessions, NEW q \in ProductIds,
              \/ \E code \in Codes, t \in Templates \cup {None} :
                     CreateBegin(c, q, code, t) \/ UpdateBegin(c, q, code, t)
              \/ ActivateBegin(c, q) \/ DeactivateBegin(c, q) \/ DeleteBegin(c, q)
       PROVE  products'[p] = products[p] /\ templates' = templates
  <2>1. UNCHANGED productVars
    BY <1>12 DEF CreateBegin, UpdateBegin, ActivateBegin, DeactivateBegin, DeleteBegin, Writes
  <2> QED BY <2>1 DEF productVars
<1>13. CASE \E t \in Templates : NewTemplate(t) \/ DeleteTemplate(t) \/ \E a \in BOOLEAN : SetActive(t, a)
  BY <1>3, <1>4, <1>5, <1>13
<1>14. CASE \E c \in Sessions : WriteCommit(c)
  BY <1>6, <1>9, <1>10, <1>11, <1>14
<1>15. CASE \E c \in Sessions : CreateCommit(c) \/ DeleteCommit(c)
  BY <1>6, <1>7, <1>8, <1>15
<1> QED BY <1>6, <1>12, <1>13, <1>14, <1>15 DEF ProductsNext

\* A product is active without a template only when the template went or when a request
\* wrote what it had read before another changed it (activate_product, update_product,
\* delete_tenant_template).
THEOREM ActiveProductsHaveTemplates == Spec => ActiveHasTemplateUnlessRaced
<1>1. ASSUME IInv, [Next]_vars
      PROVE  [\A p \in ProductIds :
                 IsActive(p)' /\ ~HasTemplate(p)' =>
                     \/ IsActive(p) /\ ~HasTemplate(p)
                     \/ IsActive(p) /\ templates'[products[p].template] = Deleted
                     \/ \E c \in Sessions : /\ Does(c, "write") /\ Idle(c)'
                                            /\ request[c].id = p
                                            /\ request[c].base # products[p]]_productVars
  <2> SUFFICES ASSUME ~UNCHANGED productVars, NEW p \in ProductIds, IsActive(p)', ~HasTemplate(p)'
               PROVE  \/ IsActive(p) /\ ~HasTemplate(p)
                      \/ IsActive(p) /\ templates'[products[p].template] = Deleted
                      \/ \E c \in Sessions : /\ Does(c, "write") /\ Idle(c)'
                                             /\ request[c].id = p
                                             /\ request[c].base # products[p]
    OBVIOUS
  <2>1. ProductsNext
    BY <1>1 DEF Next, vars, GivesUp
  <2>2. ProductsSound /\ DOMAIN request = Sessions
    BY <1>1 DEF IInv
  <2> QED BY <2>1, <2>2, TemplateFacts
<1> QED BY <1>1, Invariance, PTL DEF Spec, ActiveHasTemplateUnlessRaced
=============================================================================
