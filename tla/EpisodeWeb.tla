----------------------------- MODULE EpisodeWeb -----------------------------
(***************************************************************************)
(* A site from its documents to the end of an episode: linted, classified, *)
(* composed, then browsed by the agent through the environment broker      *)
(* (env_broker.py) while its population acts on it after every step        *)
(* (solver.py).  The episode moves between hostnames; a site is            *)
(* materialised when a hostname is first reached (task.py), and the        *)
(* registry may give a hostname to a site in the middle of the episode.    *)
(*                                                                         *)
(* One site, Home, has a table, a population and a choreography; the       *)
(* others are pages.  Templates are content: a page may hold a form for    *)
(* the id in its path and, if the form changes a row, for a row it lists.  *)
(***************************************************************************)
EXTENDS PopulationDriver

CONSTANTS Documents,   \* name -> documents of the home site
          Table,       \* the table its mutations change
          Hosts, HomeHost, Home, OtherSite, NoSite,
          LiveAtFirst, \* the registry when the episode opens: hostname -> site
          Seed,        \* the rows the seed holds
          MaxSteps,    \* question.max_steps
          MaxMoves     \* bound: changes of the registry during the episode

\* The sections of a document are JSON arrays, as its schema says.
Array(x) == Len(x) \in Nat /\ DOMAIN x = 1 .. Len(x)

ASSUME DocumentAssumption ==
    \A name \in DOMAIN Documents : LET d == Documents[name] IN
        /\ \A kind \in Kinds : Array(d[kind])
        /\ \A s \in ToSet(d.search) : Array(s.shards)
        /\ Array(d.choreography.actors) /\ \A a \in ToSet(d.choreography.actors) : Array(a.script)
        /\ Array(d.population.cohorts) /\ \A c \in ToSet(d.population.cohorts) : Array(c.behaviours)

ASSUME WebAssumption ==
    /\ HomeHost \in Hosts /\ LiveAtFirst \in [Hosts -> {Home, OtherSite, NoSite}]
    /\ LiveAtFirst[HomeHost] = Home /\ MaxSteps \in Nat /\ MaxMoves \in Nat
    /\ IsFiniteSet(DOMAIN Seed) /\ DOMAIN Seed \subseteq Nat \ {0}
    /\ \A i \in DOMAIN Seed : Seed[i].thread \in Nat

VARIABLES doc,      \* the site's documents, by name
          phase,    \* received -> refused | unbuilt | deployed -> open -> closed | raised
          step,     \* the solver's loop variable
          live,     \* the registry: hostname -> live site
          moves,    \* history: changes of the registry
          rows,     \* the episode's copy of the home site's table
          driver,   \* drivers[Home]
          host,     \* EnvBroker.hostname
          clients,  \* EnvBroker._clients: the hostnames reached, with their sites
          at,       \* current_path: a route of the home site and the id in its path
          typed,    \* _form_state: the POST routes whose form was filled in
          forms,    \* the forms on the page the agent saw (_last_body)
          todo      \* posts left of this step's tick

broker == <<host, clients, at, typed, forms>>
vars == <<doc, phase, step, live, moves, rows, driver, host, clients, at, typed, forms, todo>>

D == Documents[doc]

NoRoute == "none"       \* a path no GET route answers
Results == "results"    \* the broker's own page of search results

Posts == {r \in ToSet(D.routes) : r.method = "POST"}
Pages == ToSet(D.routes) \ Posts

\* The GET route that answers a path
PageAt(segments) ==
    LET found == {p \in Pages : p.path.segments = segments}
    IN  IF found = {} THEN NoRoute ELSE (CHOOSE p \in found : TRUE).id

\* rsplit("/", 1)[0], once for an insert and twice for the others: where the POST
\* handler sends the browser
Parent(r) ==
    LET cut == IF ById(D, "mutations", r.mutation).op = "insert" THEN 1 ELSE 2
    IN  PageAt(SubSeq(r.path.segments, 1, Len(r.path.segments) - cut))

\* The GET handler: a query needs a parameter the path has not, or a column the
\* table has not
QueriesOf(place) == IF place.route \in {NoRoute, Results} THEN {}
                    ELSE {ById(D, "queries", q) : q \in ToSet(ById(D, "routes", place.route).queries)}
PageRaises(place) ==
    \E q \in QueriesOf(place) :
        \/ ~(Range(q.where) \subseteq ParamNames(ById(D, "routes", place.route).path))
        \/ ~(DOMAIN q.where \subseteq Columns)

\* The rows a page lists, and the forms it may hold: [POST route, id]
Listed(place, table) ==
    UNION {{i \in DOMAIN table : \A c \in DOMAIN q.where : Cell(table, i, c) = place.id}
             : q \in {q \in QueriesOf(place) : q.table = Table}}
FormsOn(place, table) ==
    IF place.route \in {NoRoute, Results} THEN {}
    ELSE UNION {{r.id} \X (IF ById(D, "mutations", r.mutation).op # "insert" THEN Listed(place, table)
                           ELSE IF r.path.params = {} \/ place.id # 0 THEN {place.id} ELSE {}) : r \in Posts}

TypeOK ==
    /\ doc \in DOMAIN Documents
    /\ phase \in {"received", "refused", "unbuilt", "deployed", "open", "closed", "raised"}
    /\ step \in 0 .. MaxSteps /\ moves \in 0 .. MaxMoves
    /\ live \in [Hosts -> {Home, OtherSite, NoSite}]
    /\ DOMAIN rows \subseteq Nat \ {0}
    /\ \A i \in DOMAIN rows : rows[i].thread \in Nat
    /\ driver.performed \in 0 .. MaxActions
    /\ \A a \in DOMAIN driver.owned : driver.owned[a] \in Seq(Nat)
    /\ host \in DOMAIN clients
    /\ \A h \in DOMAIN clients : h \in Hosts /\ clients[h] \in {Home, OtherSite}
    /\ at.route \in {p.id : p \in Pages} \cup {NoRoute, Results}
    /\ typed \subseteq {r.id : r \in Posts} /\ forms \subseteq {r.id : r \in Posts} \X Nat

Init ==
    /\ doc \in DOMAIN Documents
    /\ phase = "received"
    /\ step = 0 /\ live = LiveAtFirst /\ moves = 0
    /\ rows = Seed /\ driver = NewDriver
    /\ host = HomeHost /\ clients = [h \in {HomeHost} |-> Home]
    /\ at = [route |-> NoRoute, id |-> 0]
    /\ typed = {} /\ forms = {} /\ todo = <<>>

\* The receiver's linter, and the worker's classifier
Refuse ==
    /\ phase = "received" /\ ~Accepted(D)
    /\ phase' = "refused"
    /\ UNCHANGED <<doc, step, live, moves, rows, driver, broker, todo>>

\* Go-live composes the site.
GoLive ==
    /\ phase = "received" /\ Accepted(D)
    /\ phase' = IF ComposeRaises(D) THEN "unbuilt" ELSE "deployed"
    /\ UNCHANGED <<doc, step, live, moves, rows, driver, broker, todo>>

\* _parse of the page the browser is on now: it may raise, and the solver with it
Observe ==
    /\ forms' = IF clients'[host'] = Home THEN FormsOn(at', rows') ELSE {}
    /\ phase' = IF clients'[host'] = Home /\ PageRaises(at') THEN "raised" ELSE "open"

\* MultiSiteEnvFactory.episode: the home site is materialised.
Open ==
    /\ phase = "deployed"
    /\ rows' = Seed /\ driver' = NewDriver
    /\ at' = [route |-> PageAt(<<>>), id |-> 0]
    /\ UNCHANGED <<doc, step, live, moves, host, clients, typed, todo>>
    /\ Observe

-----------------------------------------------------------------------------
\* The end of an iteration: the page the broker shows now, then the tick.
Acting == phase = "open" /\ todo = <<>> /\ step < MaxSteps
ThenTick ==
    /\ Observe
    /\ step' = step + 1
    /\ todo' \in IF phase' = "open" THEN Ticks(D, step) ELSE {<<>>}
    /\ UNCHANGED <<doc, live, moves>>

Places == {<<NoRoute, 0>>} \cup UNION {{p.id} \X (IF p.path.params = {} THEN {0} ELSE Threads) : p \in Pages}

\* materialise: the site's seed is copied, and a driver made for it
Materialise(site) ==
    IF site = Home THEN rows' = Seed /\ driver' = NewDriver ELSE UNCHANGED <<rows, driver>>

\* _go to a URL: of this host, or of one that was reached before or is live now
Go(h, place) ==
    /\ Acting
    /\ h \in DOMAIN clients \/ live[h] # NoSite
    /\ IF h \in DOMAIN clients THEN UNCHANGED <<clients, rows, driver>>
       ELSE /\ clients' = [k \in DOMAIN clients \cup {h} |-> IF k = h THEN live[h] ELSE clients[k]]
            /\ Materialise(live[h])
    /\ host' = h
    /\ at' = [route |-> IF clients'[h] = Home THEN place[1] ELSE NoRoute, id |-> place[2]]
    /\ typed' = IF h = host THEN typed ELSE {}
    /\ ThenTick

\* What is refused, and NOOP: the page is read again.
Stay == Acting /\ UNCHANGED <<host, clients, at, typed, rows, driver>> /\ ThenTick

\* SEARCH: a page of results the broker renders itself
Search ==
    /\ Acting
    /\ at' = [route |-> Results, id |-> 0]
    /\ UNCHANGED <<host, clients, typed, rows, driver>>
    /\ ThenTick

\* TYPE, into a form of the page the agent saw; what was typed outlives the page
Type(form) ==
    /\ Acting /\ form \in forms
    /\ typed' = typed \cup {form[1]}
    /\ UNCHANGED <<host, clients, at, rows, driver>>
    /\ ThenTick

\* _submit a form of the page the agent saw, whose rows may have changed since
SubmitForm(form) ==
    /\ Acting /\ form \in forms
    /\ UNCHANGED <<host, clients, driver>>
    /\ LET route == ById(D, "routes", form[1])
           shown == ById(D, "forms", ById(D, "mutations", route.mutation).from_form)
           args  == [p \in ParamNames(route.path) |-> form[2]]
       IN  \E body \in Bodies(shown, form[1] \in typed) :
              LET answer == Post(D, rows, route, args, "agent", body)
              IN  /\ rows' = answer.rows
                  /\ IF answer.status = "raised"
                     THEN phase' = "raised" /\ UNCHANGED <<doc, step, live, moves, at, typed, forms, todo>>
                     ELSE /\ at' = IF Accepts(answer)
                                   THEN [route |-> Parent(route),
                                         id |-> IF Parent(route) = NoRoute THEN 0 ELSE form[2]]
                                   ELSE at
                          /\ typed' = {}
                          /\ ThenTick

\* ANSWER and STOP, and the loop's last step
Close ==
    /\ phase = "open" /\ todo = <<>>
    /\ phase' = "closed"
    /\ UNCHANGED <<doc, step, live, moves, rows, driver, broker, todo>>

\* One post of the tick; what raises leaves the solver.
DriverPosts ==
    /\ phase = "open" /\ todo # <<>>
    /\ \E s \in Submissions(D, driver, rows, Head(todo)) :
          /\ driver' = s.driver /\ rows' = s.rows
          /\ phase' = IF s.raised THEN "raised" ELSE "open"
    /\ todo' = Tail(todo)
    /\ UNCHANGED <<doc, step, live, moves, broker>>

\* set_live, retire or register, while the episode is open: a hostname goes to
\* another revision, or to none
RegistryMoves(h, site) ==
    /\ phase = "open" /\ moves < MaxMoves /\ live[h] # site
    /\ live' = [live EXCEPT ![h] = site]
    /\ moves' = moves + 1
    /\ UNCHANGED <<doc, phase, step, rows, driver, broker, todo>>

Next ==
    \/ Refuse \/ GoLive \/ Open
    \/ \E h \in Hosts, place \in Places : Go(h, place)
    \/ Stay \/ Search \/ Close \/ DriverPosts
    \/ \E form \in forms : Type(form) \/ SubmitForm(form)
    \/ \E h \in Hosts, site \in {Home, OtherSite, NoSite} : RegistryMoves(h, site)

Spec == Init /\ [][Next]_vars

-----------------------------------------------------------------------------
\* Go-live never fails over the documents of a site that the linter and the
\* classifier let pass, if the seed holds the tables it declares: two sets of
\* checks, written apart from compose_app, cover every ComposeError about them.
AcceptedDocumentsCompose == phase = "unbuilt" => ~(Tables(D) \subseteq D.seedTables)

\* A population whose deletions name a row by its id and are its own, which edits no
\* row's id or writer, and whose actors are not called as the agent is
PostsOf(docs) == UNION {ScriptSteps(docs.choreography), Behaviours(docs.population)}
Deletes(docs, route) ==
    \E r \in ToSet(docs.routes), m \in ToSet(docs.mutations) :
        r.id = route /\ Has(r, "mutation") /\ r.mutation = m.id /\ m.op = "delete"
Reassigns(docs, route) ==
    \E r \in ToSet(docs.routes), m \in ToSet(docs.mutations), f \in ToSet(docs.forms) :
        /\ r.id = route /\ Has(r, "mutation") /\ r.mutation = m.id
        /\ m.op = "update" /\ m.from_form = f.id
        /\ \E x \in ToSet(f.fields) : x.name \in {"id", "writer"}
Tame(docs) ==
    /\ \A m \in ToSet(docs.mutations) : m.op = "delete" => Has(m.bind, "id")
    /\ \A p \in PostsOf(docs) : /\ Deletes(docs, p.route) => p.action \in OwnActions
                                /\ ~Reassigns(docs, p.route)
    /\ "agent" \notin Ids(docs.choreography, "actors") \cup Ids(docs.population, "cohorts")

\* The driver has no database to look in: what it believes an actor wrote is still
\* there and still that actor's, whatever the agent deletes, edits, hands to another
\* writer or moves to another id, however often the ids of deleted rows are given
\* again, and when the site is materialised again.
OwnedRowsExist ==
    phase \in {"open", "closed"} /\ Tame(D) =>
        \A a \in DOMAIN driver.owned : \A i \in ToSet(driver.owned[a]) :
            i \in DOMAIN rows /\ rows[i].writer = a
=============================================================================
