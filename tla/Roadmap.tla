------------------------------- MODULE Roadmap -------------------------------
(***************************************************************************)
(* Road maps: a roadmaps row for a business object, nodes that stand for   *)
(* questions, question sets and the like, and edges between nodes.  Edges  *)
(* used to name business objects (table roadmap_edges); SanitizeData, run  *)
(* by an administrator, creates for each map the nodes its old edges name  *)
(* and the edges between these nodes (roadmap_edges_v1), in two inserts.   *)
(* All the while administrators edit nodes and edges, delete maps, and     *)
(* readers open them in three queries.  The titles of the business objects *)
(* are asked of their modules, of all kinds side by side.                  *)
(*                                                                         *)
(* Left out: attributes, the titles of links and texts, which are among    *)
(* them, and the order of lists; nodes of no map.                          *)
(***************************************************************************)
EXTENDS Integers, Sequences, FiniteSets, SequencesExt, TLC

CONSTANTS
    Procs,       \* administrators, readers and the goroutines of SanitizeData
    Maps,        \* ids of road maps
    BizOf,       \* the business object each of them is made for
    SetQuestions,\* the questions of each question set
    Legacy,      \* the old edges of each map: pairs of business objects
    Existing,    \* the maps that exist at first
    Known,       \* the business objects that are there, and published
    MaxCalls,    \* bound: calls
    MaxNodes,    \* bound: nodes ever created
    MaxFaults    \* bound: failing inserts

VARIABLES
    maps,      \* ids in table roadmaps
    nodes,     \* table roadmap_nodes: id -> rid and business object
    edges,     \* table roadmap_edges_v1: id -> rid, source and destination
    nodeIds, edgeIds,   \* ids given out
    call, calls, faults,
    migrated,  \* history: how often each map was migrated
    edited,    \* history: maps an administrator has edited, or deleted
    gone,      \* history: nodes that were deleted
    blank      \* history: nodes a reader was shown an edge of, but not the node

vars == <<maps, nodes, edges, nodeIds, edgeIds, call, calls, faults, migrated, edited, gone, blank>>

tables == <<maps, nodes, edges, nodeIds, edgeIds>>
history == <<migrated, edited, gone, blank>>

Kinds == {"question", "questionSet", "tourGuide"}
Ref(biz, id) == [biz |-> biz, id |-> id]
Idle == [op |-> "idle"]

Init ==
    /\ maps = Existing
    /\ nodes = <<>>
    /\ edges = <<>>
    /\ nodeIds = 0
    /\ edgeIds = 0
    /\ call = [p \in Procs |-> Idle]
    /\ calls = 0
    /\ faults = 0
    /\ migrated = [r \in Maps |-> 0]
    /\ edited = {}
    /\ gone = {}
    /\ blank = {}

Begin(p) == call[p] = Idle /\ calls < MaxCalls /\ calls' = calls + 1
Goto(p, c) == call' = [call EXCEPT ![p] = c]
Return(p) == Goto(p, Idle)

\* What INSERT adds to a table whose last id is last: a row for each member.
Inserted(last, rows) ==
    LET list == SetToSeq(rows)
    IN  [i \in last + 1 .. last + Len(list) |-> list[i - last]]

Without(table, ids) == [i \in DOMAIN table \ ids |-> table[i]]
RowsOf(table, r) == {i \in DOMAIN table : table[i].rid = r}

-----------------------------------------------------------------------------
(* Saving a map. *)

\* The row is created, or the one with the same business object updated; with
\* the id of a map that was deleted meanwhile it is created again.  A new map
\* of a question set gets its nodes next.
Save(p) ==
    /\ Begin(p)
    /\ \E r \in Maps, new \in BOOLEAN :
         /\ maps' = maps \cup {r}
         /\ IF new /\ BizOf[r].biz = "questionSet"
            THEN Goto(p, [op |-> "saveNodes", rid |-> r])
            ELSE Return(p)
    /\ UNCHANGED <<nodes, edges, nodeIds, edgeIds, faults, history>>

\* One node for every question of the set; a set without any is an error.
SaveNodes(p) ==
    /\ call[p].op = "saveNodes"
    /\ LET r == call[p].rid
           new == Inserted(nodeIds, {[rid |-> r, ref |-> Ref("question", q)] : q \in SetQuestions[BizOf[r].id]})
       IN  /\ nodeIds + Cardinality(DOMAIN new) <= MaxNodes
           /\ nodes' = nodes @@ new
           /\ nodeIds' = nodeIds + Cardinality(DOMAIN new)
    /\ Return(p)
    /\ UNCHANGED <<maps, edges, edgeIds, calls, faults, history>>

-----------------------------------------------------------------------------
(* Editing nodes and edges: single statements. *)

Edited(rids) == edited' = edited \cup rids

\* A new node, a changed one, or one deleted since the form was opened, which
\* comes back with its id.
SaveNode(p) ==
    /\ Begin(p)
    /\ \E r \in maps, ref \in {e[1] : e \in UNION {Legacy[m] : m \in Maps}},
          id \in 1 .. nodeIds + 1 :
         /\ id <= MaxNodes
         /\ Edited({r} \cup {nodes[i].rid : i \in {id} \cap DOMAIN nodes})
         /\ nodes' = (id :> [rid |-> r, ref |-> ref]) @@ nodes
         /\ nodeIds' = IF id > nodeIds THEN id ELSE nodeIds
    /\ UNCHANGED <<maps, edges, edgeIds, call, faults, migrated, gone, blank>>

DeleteNode(p) ==
    /\ Begin(p)
    /\ \E id \in DOMAIN nodes :
         /\ nodes' = Without(nodes, {id})
         /\ gone' = gone \cup {id}
         /\ Edited({nodes[id].rid})
    /\ UNCHANGED <<maps, edges, nodeIds, edgeIds, call, faults, migrated, blank>>

\* An edge keeps the map it was made in when it is changed.
SaveEdge(p) ==
    /\ Begin(p)
    /\ \E r \in maps : \E src, dst \in RowsOf(nodes, r) :
         \E id \in RowsOf(edges, r) \cup {edgeIds + 1} :
           /\ src # dst
           /\ edges' = (id :> [rid |-> r, src |-> src, dst |-> dst]) @@ edges
           /\ edgeIds' = IF id > edgeIds THEN id ELSE edgeIds
           /\ Edited({r})
    /\ UNCHANGED <<maps, nodes, nodeIds, call, faults, migrated, gone, blank>>

DeleteEdge(p) ==
    /\ Begin(p)
    /\ \E id \in DOMAIN edges :
         /\ edges' = Without(edges, {id})
         /\ Edited({edges[id].rid})
    /\ UNCHANGED <<maps, nodes, nodeIds, edgeIds, call, faults, migrated, gone, blank>>

\* The map, its edges and its nodes in one transaction.
Delete(p) ==
    /\ Begin(p)
    /\ \E r \in maps :
         /\ maps' = maps \ {r}
         /\ edges' = Without(edges, RowsOf(edges, r))
         /\ nodes' = Without(nodes, RowsOf(nodes, r))
         /\ gone' = gone \cup RowsOf(nodes, r)
         /\ Edited({r})
    /\ UNCHANGED <<nodeIds, edgeIds, call, faults, migrated, blank>>

-----------------------------------------------------------------------------
(* The migration. *)

\* All maps are read at once, the latest first.
SanitizeData(p) ==
    /\ Begin(p)
    /\ Goto(p, [op |-> "createNodes", todo |-> SetToSortSeq(maps, >)])
    /\ UNCHANGED <<tables, faults, history>>

\* The next map of the list, after one that is done or has failed.
NextMap(p, todo) ==
    IF todo = <<>> THEN Return(p) ELSE Goto(p, [op |-> "createNodes", todo |-> todo])

\* Mutant: business objects are told apart by their ids alone.
keyOfId(ref) == ref.id

getkey(ref) == ref

Ends(r) == UNION {{e[1], e[2]} : e \in Legacy[r]}

\* One node for each key; a map without edges fails, since there is nothing to
\* insert.
CreateNodes(p) ==
    /\ call[p].op = "createNodes"
    /\ LET todo == call[p].todo
       IN  IF todo = <<>> THEN Return(p) /\ UNCHANGED <<nodes, nodeIds>>
           ELSE IF Legacy[Head(todo)] = {}
           THEN NextMap(p, Tail(todo)) /\ UNCHANGED <<nodes, nodeIds>>
           ELSE LET r == Head(todo)
                    refs == {CHOOSE x \in Ends(r) : getkey(x) = k : k \in {getkey(x) : x \in Ends(r)}}
                    new == Inserted(nodeIds, {[rid |-> r, ref |-> x] : x \in refs})
                IN  /\ nodeIds + Cardinality(refs) <= MaxNodes
                    /\ nodes' = nodes @@ new
                    /\ nodeIds' = nodeIds + Cardinality(refs)
                    /\ Goto(p, [op |-> "createEdges", todo |-> todo, made |-> new])
    /\ UNCHANGED <<maps, edges, edgeIds, calls, faults, history>>

\* Mutant: the nodes are not asked for their ids again.
UnknownId(made, ref) == 0

\* The id of the node that was made for a business object.
IdOf(made, ref) == CHOOSE i \in DOMAIN made : getkey(made[i].ref) = getkey(ref)

CreateEdgeV1s(p) ==
    /\ call[p].op = "createEdges"
    /\ LET r == Head(call[p].todo)
           made == call[p].made
           new == Inserted(edgeIds, {[rid |-> r, src |-> IdOf(made, e[1]), dst |-> IdOf(made, e[2])] : e \in Legacy[r]})
       IN  /\ edges' = edges @@ new
           /\ edgeIds' = edgeIds + Cardinality(DOMAIN new)
           /\ migrated' = [migrated EXCEPT ![r] = @ + 1]
    /\ NextMap(p, Tail(call[p].todo))
    /\ UNCHANGED <<maps, nodes, nodeIds, calls, faults, edited, gone, blank>>

\* An insert fails: SaveNodes is an error for the administrator, the migration
\* logs it and goes on with the next map.
InsertFails(p) ==
    /\ faults < MaxFaults
    /\ faults' = faults + 1
    /\ \/ call[p].op = "saveNodes" /\ Return(p)
       \/ /\ call[p].op \in {"createNodes", "createEdges"}
          /\ call[p].todo # <<>>
          /\ NextMap(p, Tail(call[p].todo))
    /\ UNCHANGED <<tables, calls, history>>

-----------------------------------------------------------------------------
(* Reading. *)

\* The row of a business object, or nothing.
GetByBiz(p) ==
    /\ Begin(p)
    /\ \E r \in maps : Goto(p, [op |-> "edges", rid |-> r])
    /\ UNCHANGED <<tables, faults, history>>

GetEdgesByRid(p) ==
    /\ call[p].op = "edges"
    /\ LET r == call[p].rid
       IN  Goto(p, [op |-> "nodes", rid |-> r, ids |-> UNION {{edges[i].src, edges[i].dst} : i \in RowsOf(edges, r)}])
    /\ UNCHANGED <<tables, calls, faults, history>>

\* Asking for titles: the goroutine of every kind has its list of ids.
Titles(refs, own) ==
    [op |-> "titles", refs |-> refs, own |-> own, todo |-> {ref.biz : ref \in refs},
     failed |-> {}, found |-> {}]

RefsOf(ids) == {nodes[i].ref : i \in ids \cap DOMAIN nodes}

\* An edge whose node is not found is shown with an empty one.
EdgesToDomain(p) ==
    /\ call[p].op = "nodes"
    /\ blank' = blank \cup (call[p].ids \ DOMAIN nodes)
    /\ LET own == BizOf[call[p].rid]
       IN  Goto(p, Titles(RefsOf(call[p].ids) \cup {own}, {own}))
    /\ UNCHANGED <<tables, calls, faults, migrated, edited, gone>>

\* The lists of administrators: the nodes of a map, and the maps.
NodeList(p) ==
    /\ Begin(p)
    /\ \E r \in maps : Goto(p, Titles(RefsOf(RowsOf(nodes, r)), {}))
    /\ UNCHANGED <<tables, faults, history>>

List(p) ==
    /\ Begin(p)
    /\ LET own == {BizOf[r] : r \in maps} IN Goto(p, Titles(own, own))
    /\ UNCHANGED <<tables, faults, history>>

\* The guide of the first page has one, whatever is asked for.
Found(refs, biz) ==
    IF biz = "tourGuide" THEN {Ref("tourGuide", 1)}
    ELSE {ref \in refs : ref.biz = biz} \cap Known

\* Mutant: the goroutines share the variable of the loop, and all ask for the
\* kind it has at last.
GetBizsOfLast(p, biz) ==
    /\ call[p].op = "titles"
    /\ biz \in call[p].todo
    /\ \E last \in {ref.biz : ref \in call[p].refs} :
         Goto(p, [call[p] EXCEPT !.todo = @ \ {biz}, !.found = @ \cup Found(call[p].refs, last)])
    /\ UNCHANGED <<tables, calls, faults, history>>

\* An error, or a kind without a strategy, leaves out the titles of the kind.
GetBizs(p, biz) ==
    /\ call[p].op = "titles"
    /\ biz \in call[p].todo
    /\ \/ /\ Goto(p, [call[p] EXCEPT !.todo = @ \ {biz}, !.found = @ \cup Found(call[p].refs, biz)])
          /\ UNCHANGED faults
       \/ /\ faults < MaxFaults
          /\ faults' = faults + 1
          /\ Goto(p, [call[p] EXCEPT !.todo = @ \ {biz}, !.failed = @ \cup {biz}])
    /\ UNCHANGED <<tables, calls, history>>

\* The map is shown with its own title; of the nodes, questions and sets have
\* titles of this kind.
Shown(c) ==
    (c.own \cap c.found) \cup
    {ref \in c.refs \cap c.found : ref.biz \in {"question", "questionSet"}}

Show(p) ==
    /\ call[p].op = "titles"
    /\ call[p].todo = {}
    /\ Return(p)
    /\ UNCHANGED <<tables, calls, faults, history>>

-----------------------------------------------------------------------------
Next == \E p \in Procs :
    \/ Save(p) \/ SaveNodes(p) \/ SaveNode(p) \/ DeleteNode(p) \/ SaveEdge(p) \/ DeleteEdge(p)
    \/ Delete(p) \/ SanitizeData(p) \/ CreateNodes(p) \/ CreateEdgeV1s(p) \/ InsertFails(p)
    \/ GetByBiz(p) \/ GetEdgesByRid(p) \/ EdgesToDomain(p)
    \/ NodeList(p) \/ List(p) \/ Show(p)
    \/ \E biz \in Kinds : GetBizs(p, biz)

Spec == Init /\ [][Next]_vars

-----------------------------------------------------------------------------
(* Properties. *)

\* Rows name maps and ids that were given out.
TypeOK ==
    /\ maps \subseteq Maps
    /\ DOMAIN nodes \subseteq 1 .. nodeIds
    /\ DOMAIN edges \subseteq 1 .. edgeIds
    /\ \A i \in DOMAIN nodes : nodes[i].rid \in Maps
    /\ \A i \in DOMAIN edges : edges[i].rid \in Maps
    /\ nodeIds <= MaxNodes

\* The new graph of a map that nobody has edited is the old one, once for each
\* time it was migrated, whatever failed and however often it was tried.
MigrationKeepsTheGraph ==
    \A r \in Maps \ edited :
        \A old \in Legacy[r] :
            Cardinality({i \in RowsOf(edges, r) :
                nodes[edges[i].src].ref = old[1] /\ nodes[edges[i].dst].ref = old[2]}) = migrated[r]

\* The nodes of an edge are there, or somebody has deleted them, and no reader
\* is shown an edge without its nodes otherwise: they are created before their
\* edges and read after them.
EdgesHaveNodes ==
    /\ \A i \in DOMAIN edges : {edges[i].src, edges[i].dst} \subseteq DOMAIN nodes \cup gone
    /\ blank \subseteq gone

\* Whoever opens a map or a list of them is shown the title of each business
\* object that is there, of its own kind and id, unless the query of that very
\* kind has failed: one module that is down does not take away the titles of
\* the others (roadmap/internal/service/biz/biz.go:24).
TitlesAreShown ==
    \A p \in Procs : call[p].op = "titles" /\ call[p].todo = {} =>
        Shown(call[p]) = {ref \in call[p].refs \cap Known : ref.biz \notin call[p].failed}
=============================================================================
