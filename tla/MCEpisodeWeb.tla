---------------------------- MODULE MCEpisodeWeb ----------------------------
(***************************************************************************)
(* A forum with edit and delete routes for its replies, and documents that *)
(* differ from it in one place: some that the linter or the classifier     *)
(* must refuse, some that pass and mean trouble at run time.               *)
(***************************************************************************)
EXTENDS EpisodeWeb

Route(id, method, segments, params) ==
    [id |-> id, method |-> method, path |-> [segments |-> segments, params |-> params], queries |-> <<>>]

Forum == [
  site_id |-> "forum", revision |-> "forum-r1", framework |-> "fastapi-sqlite-v1", tier |-> "A",
  routes |-> <<
    Route("r_home", "GET", <<>>, {}) @@ [template |-> "t_home"],
    [Route("r_thread", "GET", <<"thread", "thread_id">>, {2}) EXCEPT !.queries = <<"q_thread", "q_replies">>]
        @@ [template |-> "t_thread"],
    Route("r_reply", "POST", <<"thread", "thread_id", "reply">>, {2}) @@ [form |-> "f_reply", mutation |-> "m_insert"],
    Route("r_edit", "POST", <<"reply", "reply_id", "edit">>, {2}) @@ [form |-> "f_reply", mutation |-> "m_update"],
    Route("r_delete", "POST", <<"reply", "reply_id", "delete">>, {2}) @@ [form |-> "f_delete", mutation |-> "m_delete"] >>,
  templates |-> <<[id |-> "t_home", blob |-> "home", engine |-> "jinja2"],
                  [id |-> "t_thread", blob |-> "thread", engine |-> "jinja2"]>>,
  queries |-> <<[id |-> "q_thread", table |-> "threads", where |-> [id |-> "thread_id"]],
                [id |-> "q_replies", table |-> "replies", where |-> [thread_id |-> "thread_id"]]>>,
  forms |-> <<[id |-> "f_reply", fields |-> <<[name |-> "body", required |-> TRUE]>>],
              [id |-> "f_delete", fields |-> <<[name |-> "confirm", required |-> FALSE]>>]>>,
  mutations |-> <<
    [id |-> "m_insert", table |-> "replies", op |-> "insert", from_form |-> "f_reply",
     bind |-> [thread_id |-> "thread_id"]],
    [id |-> "m_update", table |-> "replies", op |-> "update", from_form |-> "f_reply", bind |-> [id |-> "reply_id"]],
    [id |-> "m_delete", table |-> "replies", op |-> "delete", from_form |-> "f_delete", bind |-> [id |-> "reply_id"]]>>,
  search |-> <<[id |-> "s_main", kind |-> "bm25", tables |-> <<"threads">>, shards |-> <<"shard">>]>>,
  assets |-> <<>>, tables |-> <<[name |-> "threads"], [name |-> "replies"]>>,
  seed |-> "seed", seedTables |-> {"threads", "replies"}, interactions |-> {"none"},
  files |-> [home |-> "template", thread |-> "template", shard |-> "bm25_shard", seed |-> "db_seed",
             pool |-> "page_text", fixture |-> "fixtures"],
  suite |-> [suite_id |-> "forum-r1", tests |-> <<[id |-> "te_reply", route |-> "r_reply", form |-> "f_reply"]>>,
             fixture |-> "fixture"],
  population |-> [site_id |-> "forum", pools |-> <<[id |-> "p_ambient", blob |-> "pool", row_count |-> 5]>>,
    cohorts |-> <<[id |-> "c_regulars", behaviours |-> <<
      [id |-> "b_reply", action |-> "form_submit", form |-> "f_reply", route |-> "r_reply", pool |-> "p_ambient"]>>]>>],
  choreography |-> [site_id |-> "forum", ambient |-> "suppress_for_actors",
    pools |-> <<[id |-> "p_script", blob |-> "pool", row_count |-> 5]>>,
    actors |-> <<[id |-> "u_1", script |-> <<
      [at_step |-> 0, action |-> "form_submit", form |-> "f_reply", route |-> "r_reply", pool |-> "p_script", pool_row |-> 0],
      [at_step |-> 1, action |-> "delete_own", form |-> "f_delete", route |-> "r_delete", pool |-> "p_script", pool_row |-> 1],
      [at_step |-> 2, action |-> "form_submit", form |-> "f_reply", route |-> "r_reply", pool |-> "p_script", pool_row |-> 2],
      [at_step |-> 2, action |-> "edit_own", form |-> "f_reply", route |-> "r_edit", pool |-> "p_script", pool_row |-> 2]>>]>>]]

Refused ==
  [ wrong_tier     |-> [Forum EXCEPT !.tier = "B"],
    static         |-> [Forum EXCEPT !.tier = "B", !.framework = "static-v1"],
    two_ids        |-> [Forum EXCEPT !.forms[2].id = "f_reply"],
    no_mutation    |-> [Forum EXCEPT !.routes[3] = Route("r_reply", "POST", <<"thread">>, {})],
    other_mutation |-> [Forum EXCEPT !.routes[5].mutation = "m_drop"],
    no_template    |-> [Forum EXCEPT !.routes[1] = Route("r_home", "GET", <<>>, {})],
    no_blob        |-> [Forum EXCEPT !.templates[1].blob = "absent"],
    wrong_role     |-> [Forum EXCEPT !.search[1].shards = <<"seed">>],
    no_table       |-> [Forum EXCEPT !.mutations[1].table = "posts"],
    no_form        |-> [Forum EXCEPT !.mutations[3].from_form = "f_gone"],
    unbound_update |-> [Forum EXCEPT !.mutations[2].bind = << >>],
    unbound_delete |-> [Forum EXCEPT !.mutations[3].bind = << >>],
    two_shards     |-> [Forum EXCEPT !.search[1].shards = <<"shard", "shard">>],
    upsert         |-> [Forum EXCEPT !.mutations[1].op = "upsert"],
    joined         |-> [Forum EXCEPT !.queries[2] = @ @@ [join |-> "threads"]],
    moved          |-> [Forum EXCEPT !.routes[2] = @ @@ [redirect_to |-> "r_home"]],
    websocket      |-> [Forum EXCEPT !.interactions = {"websocket"}],
    no_test_route  |-> [Forum EXCEPT !.suite.tests[1].route = "r_gone"],
    other_suite    |-> [Forum EXCEPT !.suite.suite_id = "forum-r0"],
    no_pool        |-> [Forum EXCEPT !.population.cohorts[1].behaviours[1].pool = "p_gone"],
    short_pool     |-> [Forum EXCEPT !.choreography.actors[1].script[1].pool_row = 5],
    other_site     |-> [Forum EXCEPT !.choreography.site_id = "wiki"] ]

\* An edit form of its own, with fields named after the row's id and writer, and no
\* required field before it: the agent replies and edits its reply within MaxSteps.
Script == Forum.choreography.actors[1].script
Edited(script) ==
    [Forum EXCEPT !.forms = Append([@ EXCEPT ![1].fields[1].required = FALSE], [id |-> "f_edit",
                    fields |-> <<[name |-> "id", required |-> FALSE], [name |-> "writer", required |-> FALSE]>>]),
                  !.mutations[2].from_form = "f_edit", !.routes[4].form = "f_edit",
                  !.choreography.actors[1].script = script]

Served ==
  [ forum       |-> Forum,
    suppressed  |-> [Forum EXCEPT !.choreography.ambient = "suppress_all"],
    empty_seed  |-> [Forum EXCEPT !.seedTables = {"threads"}],
    other_path  |-> [Forum EXCEPT !.routes[5].path = [segments |-> <<"delete", "reply_id">>, params |-> {2}]],
    other_param |-> [Forum EXCEPT !.routes[4].path.segments[2] = "id"],
    no_param    |-> [Forum EXCEPT !.queries[2].where = [thread_id |-> "forum_id"]],
    other_field |-> [Forum EXCEPT !.forms[1].fields[1].name = "text"],
    handed_over |-> Edited(SubSeq(Script, 1, 3)),
    reassigned  |-> Edited([Script EXCEPT ![4].form = "f_edit"]),
    by_thread   |-> [Forum EXCEPT !.mutations[3].bind = [thread_id |-> "reply_id"]],
    namesake    |-> [Forum EXCEPT !.choreography.actors[1].id = "agent"] ]

MCDocuments == Refused @@ Served
MCLive == ("h1" :> "forum") @@ ("h2" :> "wiki")
MCValues == {[id |-> 1, thread |-> 1, writer |-> "agent"], [id |-> 3, thread |-> 2, writer |-> "u_1"]}
MCSeed == 1 :> [writer |-> "nobody", thread |-> 1]
=============================================================================
