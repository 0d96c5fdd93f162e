------------------------------ MODULE SiteApp ------------------------------
(***************************************************************************)
(* A composed site at run time (compose.py, post_handler): one table of    *)
(* rows, each with its writer, behind the POST routes of the document.     *)
(* Every operator is a function of the rows: the database is opened and    *)
(* closed in every request, and requests to one site do not overlap.       *)
(***************************************************************************)
EXTENDS SiteDocument

CONSTANTS Columns,     \* the columns of the table, as the seed has them
          Values       \* what a form may say of a row: [id, thread, writer]

ASSUME ValuesAssumption == \A v \in Values : v.id \in Nat /\ v.thread \in Nat

\* What a row holds of a column that a path may bind
Cell(rows, id, column) == IF column = "id" THEN id ELSE rows[id].thread

\* An integer primary key: one more than the largest in use, so the id of the
\* last row is given again once that row is deleted.
NewId(rows) == IF DOMAIN rows = {} THEN 1 ELSE Max(DOMAIN rows) + 1

\* A path is [segments, params], params the positions a request fills in.
ParamNames(path) == {path.segments[i] : i \in path.params}

\* A body is [names, filled, value]: the fields it has, whether they are filled in,
\* and what it says if a field is named as the columns id, thread_id or writer are.  No
\* number is in an empty field: an id of 0 stands for what SQLite does not take for one.
Blank == [id |-> 0, thread |-> 0, writer |-> ""]
Bodies(form, filled) ==
    {[names |-> {f.name : f \in ToSet(form.fields)}, filled |-> filled, value |-> v]
        : v \in IF filled THEN Values ELSE {Blank}}

\* _read_fields: the columns a body gives to a form
Given(form, body) == {f.name : f \in ToSet(form.fields)} \cap body.names
Incomplete(form, body) ==
    \E f \in ToSet(form.fields) : f.required /\ ~(body.filled /\ f.name \in body.names)

\* request.path_params[param], and the statement names columns the table lacks
HandlerRaises(m, given, args) ==
    \/ \E c \in DOMAIN m.bind : m.bind[c] \notin DOMAIN args
    \/ ~(DOMAIN m.bind \subseteq Columns)
    \/ m.op # "delete" /\ ~(given \subseteq Columns)
    \/ m.op = "insert" /\ "created_at" \notin Columns

\* Mutant: whose row it is does not matter.
MatchingAnyWriter(rows, m, args, writer) ==
    {id \in DOMAIN rows : \A c \in DOMAIN m.bind : Cell(rows, id, c) = args[m.bind[c]]}

\* WHERE bind AND writer = ?
Matching(rows, m, args, writer) ==
    {id \in DOMAIN rows :
        /\ rows[id].writer = writer
        /\ \A c \in DOMAIN m.bind : Cell(rows, id, c) = args[m.bind[c]]}

Answer(status, rows, id) == [status |-> status, rows |-> rows, id |-> id]

\* The columns of an insert are the writer, the form's fields and the path's bindings,
\* and of a column that is named twice SQLite takes the first.
Inserted(m, given, args, column, sent, otherwise) ==
    IF column \in given THEN sent
    ELSE IF Has(m.bind, column) THEN args[m.bind[column]] ELSE otherwise

\* post_handler's insert: the row's id goes back to the writer.  An id that is taken,
\* or is no number, raises.
Insert(rows, m, given, args, writer, value) ==
    LET id  == Inserted(m, given, args, "id", value.id, NewId(rows))
        row == [writer |-> writer,
                thread |-> Inserted(m, given, args, "thread_id", value.thread, 0)]
    IN  IF id = 0 \/ id \in DOMAIN rows THEN Answer("raised", rows, 0)
        ELSE Answer("303", [i \in DOMAIN rows \cup {id} |-> IF i = id THEN row ELSE rows[i]], id)

\* UPDATE ... SET: every column that a field of the form is named after, the row's id
\* and its writer among them.  Two rows cannot be given one id.
Update(rows, hit, given, value) ==
    LET rest   == DOMAIN rows \ hit
        one    == CHOOSE i \in hit : TRUE
        new(i) == [writer |-> IF "writer" \in given THEN value.writer ELSE rows[i].writer,
                   thread |-> IF "thread_id" \in given THEN value.thread ELSE rows[i].thread]
    IN  IF "id" \notin given
        THEN Answer("303", [i \in DOMAIN rows |-> IF i \in hit THEN new(i) ELSE rows[i]], 0)
        ELSE IF value.id \in rest \cup {0} \/ hit # {one} THEN Answer("raised", rows, 0)
        ELSE Answer("303", [i \in rest \cup {value.id} |-> IF i \in rest THEN rows[i] ELSE new(one)], 0)

\* post_handler's update and delete
Change(rows, m, given, args, writer, value) ==
    LET hit == Matching(rows, m, args, writer)
    IN  IF hit = {} THEN Answer("404", rows, 0)
        ELSE IF m.op = "delete" THEN Answer("303", [i \in DOMAIN rows \ hit |-> rows[i]], 0)
        ELSE Update(rows, hit, given, value)

\* post_handler, for a writer that is named; a GET route does not answer a POST.
Post(D, rows, route, args, writer, body) ==
    IF route.method # "POST" THEN Answer("405", rows, 0)
    ELSE LET m     == ById(D, "mutations", route.mutation)
             form  == ById(D, "forms", m.from_form)
             given == Given(form, body)
         IN  IF m.op = "insert" /\ Incomplete(form, body) THEN Answer("400", rows, 0)
             ELSE IF m.op = "update" /\ given = {} THEN Answer("400", rows, 0)
             ELSE IF HandlerRaises(m, given, args) THEN Answer("raised", rows, 0)
             ELSE IF m.op = "insert" THEN Insert(rows, m, given, args, writer, body.value)
             ELSE Change(rows, m, given, args, writer, body.value)

Accepts(answer) == answer.status = "303"
=============================================================================
