------------------------------- MODULE Search -------------------------------
(***************************************************************************)
(* The search index (internal/search): a consumer of the sync topic writes *)
(* each event's document under its biz and id, whatever is there already.  *)
(* The documents of drafts and those of published ("live") content are two *)
(* indexes.  There is no event that takes a document out of an index.      *)
(*                                                                         *)
(* The producers are other components, which take the messages in the      *)
(* order they were sent.  Left out: the queries, which are expressions     *)
(* handed to Elasticsearch.                                                *)
(***************************************************************************)
EXTENDS Sequences

CONSTANTS Docs, NoDoc

VARIABLES
    topic,   \* the sync topic: [live, id, data]
    index    \* a document for each index and id, or NoDoc

getIndexName(live) == IF live THEN "pub" ELSE "draft"

SearchInit ==
    /\ topic = <<>>
    /\ index = [n \in {"pub", "draft"} |-> [d \in Docs |-> NoDoc]]

SyncEvent(live, id, data) == [live |-> live, id |-> id, data |-> data]

Produce(evt) == topic' = Append(topic, evt)

\* The document replaces the one of the same id: PUT index/_doc/id.
Input(evt) ==
    index' = [index EXCEPT ![getIndexName(evt.live)][evt.id] = evt.data]

Consume ==
    /\ topic # <<>>
    /\ Input(Head(topic))
    /\ topic' = Tail(topic)

\* An event whose Input fails is logged, and not consumed again.
ConsumeFails ==
    /\ topic # <<>>
    /\ topic' = Tail(topic)
    /\ UNCHANGED index
=============================================================================
