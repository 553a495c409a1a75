------------------------------- MODULE Products -------------------------------
(***************************************************************************)
(* The products of a tenant and the templates they need                    *)
(* (app/services/products/service.py).                                     *)
(***************************************************************************)
EXTENDS Requests

CONSTANTS
    ProductIds, Codes, Templates

VARIABLES
    products,       \* ProductIds -> row of products, None or Deleted
    templates       \* Templates -> row of tenant_templates, None or Deleted

productVars == <<products, templates>>

Statuses == {"draft", "active", "inactive"}
ProductRow == [status : Statuses, code : Codes, template : Templates \cup {None}]

TemplateRow == [active : BOOLEAN]

ProductsOK == {None, Deleted} \cap (ProductRow \cup TemplateRow) = {} /\ None \notin Templates
ASSUME ProductsOK

ProductsTypeOK ==
    /\ products \in [ProductIds -> ProductRow \cup {None, Deleted}]
    /\ templates \in [Templates -> TemplateRow \cup {None, Deleted}]

ProductsInit ==
    /\ products = [p \in ProductIds |-> None]
    /\ templates = [t \in Templates |-> None]

\* create_tenant_template, and update_tenant_template as far as products look at it.
NewTemplate(t) ==
    /\ templates[t] = None
    /\ templates' = [templates EXCEPT ![t] = [active |-> TRUE]]
    /\ UNCHANGED <<products, request>>

SetActive(t, active) ==
    /\ Lives(templates[t]) /\ templates[t].active # active
    /\ templates' = [templates EXCEPT ![t].active = active]
    /\ UNCHANGED <<products, request>>

\* delete_tenant_template: the products that need it are left without.
DeleteTemplate(t) ==
    /\ Lives(templates[t])
    /\ templates' = [templates EXCEPT ![t] = Deleted]
    /\ products' = [p \in ProductIds |->
                       IF Lives(products[p]) /\ products[p].template = t
                       THEN [products[p] EXCEPT !.template = None] ELSE products[p]]
    /\ UNCHANGED request

\* _validate_template_active.
TemplateUsable(t) == t # None => Lives(templates[t]) /\ templates[t].active

\* The constraints of the table.
RowFits(p, row) ==
    /\ row.template # None => Lives(templates[row.template])
    /\ \A q \in ProductIds \ {p} : Lives(products[q]) => products[q].code # row.code

CreateBegin(c, p, code, template) ==
    /\ Idle(c) /\ products[p] = None
    /\ \A d \in Sessions : Does(d, "offer") => request[d].id # p
    /\ TemplateUsable(template)
    /\ Is(c, [op |-> "offer", id |-> p,
              mine |-> [status |-> "draft", code |-> code, template |-> template]])
    /\ UNCHANGED productVars

CreateCommit(c) ==
    /\ Does(c, "offer")
    /\ LET r == request[c]
       IN  /\ RowFits(r.id, r.mine)
           /\ products' = [products EXCEPT ![r.id] = r.mine]
    /\ Close(c)
    /\ UNCHANGED templates

Writes(c, p, mine) ==
    /\ Is(c, [op |-> "write", id |-> p, base |-> products[p], mine |-> mine])
    /\ UNCHANGED productVars

\* update_product: what an active product may not have changed; the first form looks at its
\* code alone.
Changeable_Code(row, mine) == row.status = "active" => mine.code = row.code
Changeable(row, mine) ==
    row.status = "active" => mine.code = row.code /\ mine.template = row.template

UpdateBegin(c, p, code, template) ==
    /\ Idle(c) /\ Lives(products[p])
    /\ LET mine == [products[p] EXCEPT !.code = code, !.template = template]
       IN  /\ Changeable(products[p], mine)
           /\ template # products[p].template => TemplateUsable(template)
           /\ Writes(c, p, mine)

\* activate_product and deactivate_product.
ActivateBegin(c, p) ==
    /\ Idle(c) /\ Lives(products[p])
    /\ products[p].status # "active" /\ products[p].template # None
    /\ Writes(c, p, [products[p] EXCEPT !.status = "active"])

DeactivateBegin(c, p) ==
    /\ Idle(c) /\ Lives(products[p])
    /\ products[p].status = "active"
    /\ Writes(c, p, [products[p] EXCEPT !.status = "inactive"])

WriteCommit(c) ==
    /\ Does(c, "write")
    /\ LET r == request[c]
       IN  /\ Lives(products[r.id])
           /\ products' = [products EXCEPT ![r.id] = Flush(@, r.base, r.mine)]
           /\ RowFits(r.id, [products'[r.id] EXCEPT
                                !.template = IF r.mine.template = r.base.template THEN None ELSE @])
    /\ Close(c)
    /\ UNCHANGED templates

\* delete_product.
DeleteBegin(c, p) ==
    /\ Idle(c) /\ Lives(products[p])
    /\ products[p].status # "active"
    /\ Is(c, [op |-> "delete", id |-> p])
    /\ UNCHANGED productVars

DeleteCommit(c) ==
    /\ Does(c, "delete")
    /\ Lives(products[request[c].id])
    /\ products' = [products EXCEPT ![request[c].id] = Deleted]
    /\ Close(c)
    /\ UNCHANGED templates

ProductsNext ==
    \/ \E t \in Templates : NewTemplate(t) \/ DeleteTemplate(t) \/ \E a \in BOOLEAN : SetActive(t, a)
    \/ \E c \in Sessions :
           \/ \E p \in ProductIds :
                  \/ \E code \in Codes, t \in Templates \cup {None} :
                         CreateBegin(c, p, code, t) \/ UpdateBegin(c, p, code, t)
                  \/ ActivateBegin(c, p) \/ DeactivateBegin(c, p) \/ DeleteBegin(c, p)
           \/ CreateCommit(c) \/ WriteCommit(c) \/ DeleteCommit(c)

\* get_product_kyc_config: an active product hands out what it is onboarded by, if its
\* template is there.
IsActive(p) == Lives(products[p]) /\ products[p].status = "active"
HasTemplate(p) == products[p].template # None /\ Lives(templates[products[p].template])

\* A product comes to be active without a template only when the template is deleted while
\* the product is active, or when it is written by a request that had read it before
\* another changed it (activate_product, update_product, delete_tenant_template).
ActiveHasTemplateUnlessRaced ==
    [][\A p \in ProductIds :
           IsActive(p)' /\ ~HasTemplate(p)' =>
               \/ IsActive(p) /\ ~HasTemplate(p)
               \/ IsActive(p) /\ templates'[products[p].template] = Deleted
               \/ \E c \in Sessions : /\ Does(c, "write") /\ Idle(c)'
                                      /\ request[c].id = p
                                      /\ request[c].base # products[p]]_productVars
=============================================================================
