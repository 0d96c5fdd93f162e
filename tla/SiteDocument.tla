---------------------------- MODULE SiteDocument ----------------------------
(***************************************************************************)
(* What the linter, the classifier and the composer say of a site's        *)
(* documents (tools/bundle_lint, tools/compose_fastapi_sqlite_v1).  A      *)
(* document has passed its JSON schema: the linter stops at schema         *)
(* findings, and the other rules rely on the shape.                        *)
(*                                                                         *)
(* A document is a record of the sections of site.json, sequences of       *)
(* records, with the manifest's files, the tables the seed really holds,   *)
(* the test suite, the population and a choreography beside them.  Text    *)
(* caps and JSON pointers are left out; a finding is its code.             *)
(***************************************************************************)
EXTENDS Naturals, Sequences, Functions, SequencesExt

Kinds == {"routes", "templates", "queries", "forms", "mutations", "search"}

Has(x, field) == field \in DOMAIN x

\* _collect_ids
Ids(D, kind) == {x.id : x \in ToSet(D[kind])}
Tables(D)    == {t.name : t \in ToSet(D.tables)}

\* A finding with this code, if the rule is broken anywhere
Code(code, broken) == IF broken THEN {code} ELSE {}

Repeats(items) == ~IsInjective([i \in DOMAIN items |-> items[i].id])

\* _tier_findings
TierFramework == [A |-> "fastapi-sqlite-v1", B |-> "static-v1"]
TierFindings(D) == Code("LINT-SCHEMA-03", D.framework # TierFramework[D.tier])

\* _duplicate_findings
DuplicateFindings(D) == Code("LINT-REF-04", \E kind \in Kinds : Repeats(D[kind]))

\* _internal_ref_findings: the section each field of a route refers to
RouteFields == [template |-> "templates", search |-> "search", form |-> "forms",
                mutation |-> "mutations", redirect_to |-> "routes"]
Dangles(x, fields, D) == \E f \in DOMAIN x \cap DOMAIN fields : x[f] \notin Ids(D, fields[f])

InternalRefFindings(D) ==
    Code("LINT-REF-03",
      \/ \E r \in ToSet(D.routes) : \/ Dangles(r, RouteFields, D)
                                    \/ ~(ToSet(r.queries) \subseteq Ids(D, "queries"))
      \/ \E q \in ToSet(D.queries) : \/ q.table \notin Tables(D)
                                     \/ Has(q, "join") /\ q.join \notin Tables(D)
      \/ \E f \in ToSet(D.forms) : \E x \in ToSet(f.fields) :
            Dangles(x, [options_query |-> "queries"], D)
      \/ \E m \in ToSet(D.mutations) : \/ m.table \notin Tables(D)
                                       \/ m.from_form \notin Ids(D, "forms")
      \/ \E s \in ToSet(D.search) : ~(ToSet(s.tables) \subseteq Tables(D)))

\* _slot_roles: every blob a site document refers to and the role it must have
SlotRoles(D) ==
         {<<t.blob, "template">>  : t \in ToSet(D.templates)}
    \cup {<<a.blob, "asset">>     : a \in ToSet(D.assets)}
    \cup {<<D.seed, "db_seed">>}
    \cup UNION {{<<b, "bm25_shard">> : b \in ToSet(s.shards)} : s \in ToSet(D.search)}

\* _blob_ref_findings, with a manifest
BlobRefFindings(D, slots) ==
         Code("LINT-REF-01", \E s \in slots : s[1] \notin DOMAIN D.files)
    \cup Code("LINT-REF-02", \E s \in slots : s[1] \in DOMAIN D.files /\ D.files[s[1]] # s[2])

\* lint_spec
LintSpec(D) ==
    TierFindings(D) \cup DuplicateFindings(D) \cup InternalRefFindings(D)
        \cup BlobRefFindings(D, SlotRoles(D))

\* lint_suite, beside its spec
TestFields == [route |-> "routes", form |-> "forms", search |-> "search", verify_query |-> "queries"]
LintSuite(D) ==
         Code("LINT-REF-04", Repeats(D.suite.tests))
    \cup Code("LINT-XREF-02", \E t \in ToSet(D.suite.tests) : Dangles(t, TestFields, D))
    \cup BlobRefFindings(D, {<<D.suite.fixture, "fixtures">>})

\* population._pool_findings
PoolFindings(D, doc) ==
         Code("LINT-REF-04", Repeats(doc.pools))
    \cup BlobRefFindings(D, {<<p.blob, "page_text">> : p \in ToSet(doc.pools)})

\* population._action_findings: a behaviour or a step of a script
ActionFindings(D, doc, steps) ==
         Code("LINT-REF-03", \E s \in steps : s.pool \notin {p.id : p \in ToSet(doc.pools)})
    \cup Code("LINT-XREF-02", \E s \in steps : Dangles(s, [form |-> "forms", route |-> "routes", target_selector |-> "queries"], D))

\* lint_population, beside its spec
Behaviours(doc) == UNION {ToSet(c.behaviours) : c \in ToSet(doc.cohorts)}
LintPopulation(D, doc) ==
    PoolFindings(D, doc)
        \cup Code("LINT-XREF-01", doc.site_id # D.site_id)
        \cup Code("LINT-REF-04", Repeats(doc.cohorts)
                                 \/ Repeats(FoldSeq(LAMBDA c, b : b \o c.behaviours, <<>>, doc.cohorts)))
        \cup ActionFindings(D, doc, Behaviours(doc))

\* lint_choreography, beside its spec
ScriptSteps(doc) == UNION {ToSet(a.script) : a \in ToSet(doc.actors)}
LintChoreography(D, doc) ==
    PoolFindings(D, doc)
        \cup Code("LINT-XREF-01", doc.site_id # D.site_id)
        \cup Code("LINT-REF-04", Repeats(doc.actors))
        \cup ActionFindings(D, doc, ScriptSteps(doc))
        \cup Code("LINT-REF-03",
               \E s \in ScriptSteps(doc), p \in ToSet(doc.pools) :
                  p.id = s.pool /\ s.pool_row >= p.row_count)

\* lint_bundle, for a site; the choreography is linted with its own bundle and
\* again against the live site.
Findings(D) ==
    LintSpec(D) \cup LintPopulation(D, D.population) \cup LintSuite(D)
        \cup Code("LINT-XREF-01", D.suite.suite_id # D.revision)
        \cup LintChoreography(D, D.choreography)

-----------------------------------------------------------------------------
\* Mutant: only unbound deletions are called unsupported.
UnsupportedMutationUnbound(m) ==
    \/ m.op \notin {"insert", "update", "delete"}
    \/ m.op = "delete" /\ DOMAIN m.bind = {}

\* classify_spec: each rule for the elements of one section
UnsupportedRoute(r) ==
    \/ Has(r, "redirect_to")
    \/ r.method = "GET" /\ ~Has(r, "template")
    \/ r.method = "POST" /\ ~Has(r, "mutation")
    \/ r.method \notin {"GET", "POST"}
UnsupportedMutation(m) ==
    \/ m.op \notin {"insert", "update", "delete"}
    \/ m.op \in {"update", "delete"} /\ DOMAIN m.bind = {}
UnsupportedSearch(s) == s.kind # "bm25" \/ Len(s.shards) # 1

\* Classification.supported
Supported(D) ==
    /\ D.framework = "fastapi-sqlite-v1"
    /\ \A r \in ToSet(D.routes) : ~UnsupportedRoute(r)
    /\ \A t \in ToSet(D.templates) : t.engine = "jinja2"
    /\ \A q \in ToSet(D.queries) : ~Has(q, "join")
    /\ \A m \in ToSet(D.mutations) : ~UnsupportedMutation(m)
    /\ \A s \in ToSet(D.search) : ~UnsupportedSearch(s)
    /\ D.interactions \subseteq {"none", "dead_end"}

-----------------------------------------------------------------------------
\* compose_app: dict(...) keeps the last of several items with one id
ById(D, kind, id) == LET i == Max({j \in DOMAIN D[kind] : D[kind][j].id = id}) IN D[kind][i]

\* _load_templates, Bm25Shard: the file is there and what it is opened as
Opens(D, blob, role) == blob \in DOMAIN D.files /\ D.files[blob] = role

\* _register_route: what raises while a route is registered
RouteRaises(D, r) ==
    \/ r.method = "GET" /\ ~Has(r, "template")
    \/ /\ r.method # "GET"
       /\ \/ ~Has(r, "mutation")
          \/ r.mutation \notin Ids(D, "mutations")
          \/ LET m == ById(D, "mutations", r.mutation)
             IN  \/ m.op \notin {"insert", "update", "delete"}
                 \/ m.from_form \notin Ids(D, "forms")
                 \/ m.op # "insert" /\ DOMAIN m.bind = {}

\* compose_app
ComposeRaises(D) ==
    \/ D.framework # "fastapi-sqlite-v1"
    \/ \E t \in ToSet(D.templates) : ~Opens(D, t.blob, "template")
    \/ \E s \in ToSet(D.search) : s.shards = <<>> \/ ~Opens(D, s.shards[1], "bm25_shard")
    \/ \E m \in ToSet(D.mutations) : m.table \notin D.seedTables   \* _ensure_writer_column
    \/ \E r \in ToSet(D.routes) : RouteRaises(D, r)

\* What the receiver's linter and the worker's classifier both let pass composes,
\* if the seed holds the tables it declares: the checks on the documents cover
\* every ComposeError that is about the documents (lint_spec, classify_spec,
\* compose_app, each written apart from the others).
Accepted(D) == Findings(D) = {} /\ Supported(D)
AcceptedComposes(D) == Accepted(D) /\ Tables(D) \subseteq D.seedTables => ~ComposeRaises(D)
=============================================================================
