-------------------------- MODULE PopulationDriver --------------------------
(***************************************************************************)
(* The population of a site during an episode (population/driver.py): a    *)
(* user of the site among others.  It learns which rows are its own from   *)
(* the ids the site returns to it, and acts on nothing else.               *)
(*                                                                         *)
(* The driver is a record.  A post is [actor, action, form, route, pool],  *)
(* of a script or of a cohort; its content is a choice.                    *)
(***************************************************************************)
EXTENDS SiteApp

CONSTANTS MaxActions,  \* MAX_ACTIONS_PER_EPISODE, one at least
          Threads,     \* the ids with data-thread-id on the site's first page
          MaxAmbient   \* bound: posts of one behaviour in one tick

ASSUME DriverAssumption == MaxActions \in Nat \ {0} /\ MaxAmbient \in Nat /\ Threads \subseteq Nat

OwnActions == {"edit_own", "delete_own"}

NewDriver == [performed |-> 0, owned |-> << >>]

\* _owned.get((actor, table), []), of the one table
OwnedBy(driver, actor) == IF Has(driver.owned, actor) THEN driver.owned[actor] ELSE <<>>
SetOwned(driver, actor, ids) ==
    [driver EXCEPT !.owned = [a \in DOMAIN @ \cup {actor} |-> IF a = actor THEN ids ELSE @[a]]]

\* _pool_row: a pool that was loaded and has rows
PoolSize(docs, pool) == \E d \in docs : \E p \in ToSet(d.pools) : p.id = pool /\ p.row_count > 0

\* A step of a script, or a behaviour, as a post; skipped if its pool is missing
Posting(D, actor, s) ==
    IF ~PoolSize({D.choreography, D.population}, s.pool) THEN <<>>
    ELSE <<[actor |-> actor.id, action |-> s.action, form |-> s.form, route |-> s.route, pool |-> s.pool]>>

\* _run_choreography: what the scripts have for a step, actor by actor
Scripted(D, step) ==
    LET actors == D.choreography.actors
    IN  FlattenSeq([a \in DOMAIN actors |-> FlattenSeq([i \in DOMAIN actors[a].script |->
            IF actors[a].script[i].at_step = step THEN Posting(D, actors[a], actors[a].script[i]) ELSE <<>>])])

\* _run_ambient: every behaviour any number of times, as _sample draws
Ambient(D) ==
    LET cohorts == D.population.cohorts
        all == FlattenSeq([c \in DOMAIN cohorts |-> FlattenSeq([b \in DOMAIN cohorts[c].behaviours |->
                   Posting(D, cohorts[c], cohorts[c].behaviours[b])])])
    IN  {FlattenSeq([i \in DOMAIN all |-> [n \in 1 .. count[i] |-> all[i]]])
            : count \in [DOMAIN all -> 0 .. MaxAmbient]}

\* tick: the scripts before the ambient posts
Ticks(D, step) ==
    {Scripted(D, step) \o a : a \in IF D.choreography.ambient = "suppress_all" THEN {<<>>} ELSE Ambient(D)}

-----------------------------------------------------------------------------
\* Mutant: clamped one action late.
ClampedLate(driver) == driver.performed > MaxActions

\* The driver's cap, not the specification's
Clamped(driver) == driver.performed >= MaxActions

\* _resolve_own, _resolve: the ids that may take the place of every parameter of
\* the path, 0 for a path without one that needs no target
Targets(driver, route, post) ==
    LET writes == Has(route, "mutation")
    IN  IF post.action \in OwnActions
        THEN IF writes THEN ToSet(OwnedBy(driver, post.actor)) ELSE {}
        ELSE IF route.path.params = {} THEN {0} ELSE Threads

\* int(path.rstrip("/").split("/")[-2]) of an own delete: the segment before the
\* last one must be a parameter
LastButOne(path) == Len(path.segments) - 1

\* _owned after an accepted post
Remembers(driver, post, route, m, target, answer) ==
    IF answer.id # 0 THEN SetOwned(driver, post.actor, Append(OwnedBy(driver, post.actor), answer.id))
    ELSE IF post.action \in OwnActions /\ m.op = "delete"
    THEN SetOwned(driver, post.actor, RemoveFirst(OwnedBy(driver, post.actor), target))
    ELSE driver

\* _submit, once the route, the form and the target are known: what the driver,
\* the rows and the call become
Submit(D, driver, rows, post, route, target, body) ==
    LET answer == Post(D, rows, route, [p \in ParamNames(route.path) |-> target], post.actor, body)
        m      == ById(D, "mutations", route.mutation)
        loses  == /\ post.action \in OwnActions /\ m.op = "delete"
                  /\ LastButOne(route.path) \notin route.path.params
    IN  IF ~Accepts(answer)
        THEN [driver |-> driver, rows |-> rows, raised |-> answer.status = "raised"]
        ELSE IF loses THEN [driver |-> driver, rows |-> answer.rows, raised |-> TRUE]
        ELSE [driver |-> [Remembers(driver, post, route, m, target, answer) EXCEPT !.performed = @ + 1],
              rows |-> answer.rows, raised |-> FALSE]

\* All that may come of one post
Submissions(D, driver, rows, post) ==
    LET nothing == [driver |-> driver, rows |-> rows, raised |-> FALSE]
    IN  IF Clamped(driver) \/ post.route \notin Ids(D, "routes") \/ post.form \notin Ids(D, "forms")
        THEN {nothing}
        ELSE LET route   == ById(D, "routes", post.route)
                 targets == Targets(driver, route, post)
             IN  IF targets = {} THEN {nothing}
                 ELSE {Submit(D, driver, rows, post, route, t, body) : t \in targets,
                          body \in UNION {Bodies(ById(D, "forms", post.form), f) : f \in BOOLEAN}}
=============================================================================
