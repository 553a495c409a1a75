-------------------------- MODULE SubmissionSearch --------------------------
(***************************************************************************)
(* The search of submissions: which filters the templates of a tenant      *)
(* offer, and what a search with them finds                                *)
(* (app/services/submissions/service.py, 81-457 and 584-703).              *)
(*                                                                         *)
(* A submission is [status, template, created_by, created_at, columns,     *)
(* runs]: columns has its documents, source -> path -> value, and runs its *)
(* verification runs in the order of their creation, each of them the      *)
(* document that filters look into.                                        *)
(***************************************************************************)
EXTENDS Collections, SequencesExt

CONSTANTS
    Number,         \* the values that float() takes -> what it makes of them
    Within,         \* pairs of values, the first in the second whatever the case
    Falsy,          \* the values that bool() takes for false
    NoValue         \* what is not there

Sources == {"form_data", "computed_data", "validation_results", "submission", "verification"}
Operators == {"eq", "ne", "in", "contains", "gte", "lte", "exists"}
ElevatedRoles == {"checker", "platform_admin", "tenant_admin"}
SortColumns == {"created_at", "updated_at", "submitted_at", "reviewed_at", "completed_at"}

-----------------------------------------------------------------------------
(* The catalogue of filters.  A template with an active version lists raw  *)
(* filters, [key, source, path, operators, about], NoValue for what is     *)
(* left out; about stands for value_type and description.                  *)

\* _normalize_configured_filter, for a filter it does not refuse.
Wellformed(raw) ==
    /\ raw.key # NoValue
    /\ raw.source \in Sources \cup {NoValue}
    /\ raw.operators # NoValue => raw.operators \subseteq Operators

Normalized(raw) ==
    [key |-> raw.key,
     source |-> IF raw.source = NoValue THEN "form_data" ELSE raw.source,
     path |-> IF raw.path = NoValue THEN raw.key ELSE raw.path,
     operators |-> IF raw.operators = NoValue THEN {"eq"} ELSE raw.operators,
     about |-> raw.about,
     ambiguous |-> FALSE]

Signature(item) == <<item.source, item.path, item.about>>

\* _merge_configured_filters; the first form takes the path of the newcomer for granted.
MergeFilters_SourceOnly(existing, incoming) ==
    IF existing.source # incoming.source THEN [existing EXCEPT !.ambiguous = TRUE]
    ELSE [existing EXCEPT !.operators = @ \cup incoming.operators]
MergeFilters(existing, incoming) ==
    IF Signature(existing) # Signature(incoming) THEN [existing EXCEPT !.ambiguous = TRUE]
    ELSE [existing EXCEPT !.operators = @ \cup incoming.operators]

AddFilter(catalog, raw) ==
    LET item == Normalized(raw)
    IN  IF ~Wellformed(raw) THEN catalog
        ELSE IF item.key \in DOMAIN catalog
        THEN [catalog EXCEPT ![item.key] = MergeFilters(@, item)]
        ELSE Put(catalog, item.key, item)

\* get_submission_search_config; templates is the order the rows happen to come in.
SearchConfig(templates) == FoldLeft(AddFilter, <<>>, FlattenSeq(templates))

-----------------------------------------------------------------------------
(* The rows.                                                               *)

\* _is_maker_only.
MakerOnly(roles) == "maker" \in roles /\ roles \cap ElevatedRoles = {}

\* _build_submission_query; a filter that is NoValue is not applied.
Selected(user, roles, filters, s) ==
    /\ MakerOnly(roles) => s.created_by = user
    /\ filters.status \in {NoValue, s.status}
    /\ filters.template \in {NoValue, s.template}
    /\ filters.created_after # NoValue => s.created_at >= filters.created_after

\* _enforce_maker_ownership, for a single submission.
MayAccess(user, roles, super_admin, s) ==
    super_admin \/ (MakerOnly(roles) => s.created_by = user)

\* _load_latest_verification_data.
LatestRun(s) == IF s.runs = <<>> THEN <<>> ELSE Last(s.runs)

Lookup(document, path) == IF path \in DOMAIN document THEN document[path] ELSE NoValue

\* _resolve_search_value.
SearchValue(s, definition) ==
    IF definition.source = "verification" THEN Lookup(LatestRun(s), definition.path)
    ELSE Lookup(s.columns[definition.source], definition.path)

\* _matches_search_operator; expected is a set, of one value except for "in".
MatchesOperator(actual, op, expected) ==
    CASE op = "eq" -> expected = {actual}
      [] op = "ne" -> expected # {actual}
      [] op = "in" -> actual \in expected
      [] op = "contains" -> \E part \in expected : <<part, actual>> \in Within
      [] op = "gte" -> \E bound \in expected : {actual, bound} \subseteq DOMAIN Number
                                              /\ Number[actual] >= Number[bound]
      [] op = "lte" -> \E bound \in expected : {actual, bound} \subseteq DOMAIN Number
                                              /\ Number[actual] <= Number[bound]
      [] op = "exists" -> (actual \notin {NoValue, ""}) = (expected \cap Falsy = {})

\* The checks search_submissions makes on a request before it reads any row.
RequestValid(catalog, request) ==
    /\ \A criterion \in request.criteria :
           /\ criterion.key \in DOMAIN catalog
           /\ ~catalog[criterion.key].ambiguous
           /\ criterion.op \in catalog[criterion.key].operators
    /\ request.sort_by \in SortColumns

\* A row passes the filters on its latest verification and every criterion.
Found(catalog, request, s) ==
    /\ request.verification_status # NoValue =>
           Lookup(LatestRun(s), "status") = request.verification_status
    /\ \A criterion \in request.criteria :
           MatchesOperator(SearchValue(s, catalog[criterion.key]), criterion.op,
                           criterion.value)

\* By created_at, the newest first unless asked otherwise; those of one moment stay in
\* the order the database has them in.
Sorted(rows, order) ==
    LET places == DOMAIN rows
        earlier(i, j) == IF order = "asc" THEN rows[i].created_at < rows[j].created_at
                         ELSE rows[i].created_at > rows[j].created_at
    IN  Arranged(rows, places,
                 {p \in places \X places :
                     earlier(p[1], p[2]) \/ (~earlier(p[2], p[1]) /\ p[1] < p[2])})

Page(rows, skip, limit) ==
    SubSeq(rows, skip + 1, IF skip + limit < Len(rows) THEN skip + limit ELSE Len(rows))

\* The rows that the query finds, in the order that it asks for.
Listing(user, request, rows) ==
    Sorted(Picked(rows, {i \in DOMAIN rows :
                            Selected(user, request.roles, request.filters, rows[i])}),
           request.order)

\* search_submissions, of a valid request; the first form cuts the page out of the rows
\* before it looks at the criteria.
Search_PageFirst(user, catalog, request, rows) ==
    LET page == Page(Listing(user, request, rows), request.skip, request.limit)
    IN  Picked(page, {i \in DOMAIN page : Found(catalog, request, page[i])})
Search(user, catalog, request, rows) ==
    LET listed == Listing(user, request, rows)
        found == Picked(listed, {i \in DOMAIN listed : Found(catalog, request, listed[i])})
    IN  Page(found, request.skip, request.limit)
=============================================================================
