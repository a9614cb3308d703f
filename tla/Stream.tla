-------------------------------- MODULE Stream --------------------------------
(***************************************************************************)
(* A streamed answer of a large language model (internal/ai): goroutine    *)
(* recv takes chunks from the platform and sends them as events over a     *)
(* buffered channel, keeps a record of the call and closes the channel;    *)
(* the web handler shows the events until one ends the answer, the channel *)
(* is closed or the client has gone.  Nobody tells recv that it has.       *)
(*                                                                         *)
(* The answers of a mock interview come from another service, message by   *)
(* message, and their handler passes them on itself: there is no recv, and *)
(* no record.                                                              *)
(*                                                                         *)
(* Left out: contents, and chunks that bring nothing (recv skips them).    *)
(***************************************************************************)
EXTENDS Integers, Sequences

CONSTANTS
    Cap,           \* the buffer of the channel: 10 in the code
    MaxChunks      \* bound: chunks the platform sends

VARIABLES
    recvPc,        \* recv: next a chunk, an event to send, the record; or no recv
    event,         \* the event recv has to send, or the handler passes on
    record,        \* the status the call's row of llm_records gets
    eventCh,       \* the channel
    closed,        \* it is closed
    connected,     \* the client is there
    ending,        \* how the handler ended
    taken,         \* chunks recv took
    shown          \* chunks the client was shown

streamVars == <<recvPc, event, record, eventCh, closed, connected, ending, taken, shown>>

Endings == {"none", "end", "error", "gone"}

Init ==
    /\ recvPc \in {"next", "absent"} /\ event = "none" /\ record = "none"
    /\ eventCh = <<>> /\ closed = FALSE
    /\ connected = TRUE /\ ending = "none"
    /\ taken = 0 /\ shown = 0

----------------------------------------------------------------------------
(* Goroutine recv *)

\* A chunk of the answer, well formed or not; or the stream is over, because
\* the answer is complete, the platform failed or ten minutes have passed.
NextChunk ==
    /\ recvPc = "next"
    /\ recvPc' = "send"
    /\ \/ taken < MaxChunks /\ taken' = taken + 1 /\ event' \in {"delta", "error"}
          /\ UNCHANGED record
       \/ event' = "done" /\ record' \in {"success", "failed"} /\ UNCHANGED taken
    /\ UNCHANGED <<eventCh, closed, connected, ending, shown>>

\* Mutant: an event that finds the buffer full is dropped.
SendOrDrop ==
    /\ recvPc = "send"
    /\ eventCh' = IF Len(eventCh) < Cap THEN Append(eventCh, event) ELSE eventCh
    /\ recvPc' = IF event = "delta" THEN "next" ELSE "record"
    /\ UNCHANGED <<event, record, closed, connected, ending, taken, shown>>

\* eventCh <- event waits while the buffer is full.
Send ==
    /\ recvPc = "send"
    /\ Len(eventCh) < Cap
    /\ eventCh' = Append(eventCh, event)
    /\ recvPc' = IF event = "delta" THEN "next" ELSE "record"
    /\ UNCHANGED <<event, record, closed, connected, ending, taken, shown>>

\* Mutant: nobody closes the channel.
SaveRecordUnclosed ==
    /\ recvPc = "record"
    /\ record' = IF event = "error" THEN "failed" ELSE record
    /\ recvPc' = "done"
    /\ UNCHANGED <<event, eventCh, closed, connected, ending, taken, shown>>

\* The record; that it is not saved is logged only.  Then close(eventCh).
SaveRecord ==
    /\ recvPc = "record"
    /\ record' = IF event = "error" THEN "failed" ELSE record
    /\ closed' = TRUE
    /\ recvPc' = "done"
    /\ UNCHANGED <<event, eventCh, connected, ending, taken, shown>>

----------------------------------------------------------------------------
(* The web handler *)

\* Mutant: every event but a delta ends the answer.
EndOfAny(e) == IF e = "delta" THEN "none" ELSE "end"

EndOf(e) == CASE e = "done" -> "end" [] e = "error" -> "error" [] OTHER -> "none"

\* case event, ok := <-ch
HandlerReads ==
    /\ recvPc # "absent"
    /\ ending = "none"
    /\ \/ /\ eventCh # <<>>
          /\ eventCh' = Tail(eventCh)
          /\ ending' = EndOf(Head(eventCh))
          /\ shown' = IF Head(eventCh) = "delta" THEN shown + 1 ELSE shown
       \/ /\ eventCh = <<>> /\ closed
          /\ ending' = "end"
          /\ UNCHANGED <<eventCh, shown>>
    /\ UNCHANGED <<recvPc, event, record, closed, connected, taken>>

\* case <-ctx.Request.Context().Done()
HandlerLeaves ==
    /\ recvPc # "absent"
    /\ ending = "none"
    /\ ~connected
    /\ ending' = "gone"
    /\ UNCHANGED <<recvPc, event, record, eventCh, closed, connected, taken, shown>>

Disconnect ==
    /\ connected
    /\ connected' = FALSE
    /\ UNCHANGED <<recvPc, event, record, eventCh, closed, ending, taken, shown>>

----------------------------------------------------------------------------
(* The handler of a mock interview *)

\* A message that is written, unless the client has gone.
RelayMessage ==
    /\ taken < MaxChunks
    /\ taken' = taken + 1
    /\ event' = "delta"
    /\ \/ shown' = shown + 1 /\ UNCHANGED ending
       \/ ~connected /\ ending' = "gone" /\ UNCHANGED shown

\* Mutant: whatever Recv returns beside a message is taken for EOF.
RelayToTheEnd ==
    /\ recvPc = "absent"
    /\ ending = "none"
    /\ \/ RelayMessage
       \/ event' \in {"done", "error"} /\ ending' = "end" /\ UNCHANGED <<taken, shown>>
    /\ UNCHANGED <<recvPc, record, eventCh, closed, connected>>

\* EOF and an error are told apart, and either ends the answer; so does a
\* write that fails.  Nothing but a write, or the error its own context brings
\* about, tells that the client has gone.
Relay ==
    /\ recvPc = "absent"
    /\ ending = "none"
    /\ \/ RelayMessage
       \/ /\ event' \in {"done", "error"}
          /\ \/ ending' = EndOf(event')
             \/ ~connected /\ ending' = "gone"
          /\ UNCHANGED <<taken, shown>>
    /\ UNCHANGED <<recvPc, record, eventCh, closed, connected>>

recv == NextChunk \/ Send \/ SaveRecord
handler == HandlerReads \/ HandlerLeaves \/ Relay
Next == recv \/ handler \/ Disconnect

Spec == Init /\ [][Next]_streamVars /\ WF_streamVars(recv) /\ WF_streamVars(handler)

----------------------------------------------------------------------------
TypeOK ==
    /\ recvPc \in {"next", "send", "record", "done", "absent"}
    /\ record \in {"none", "success", "failed"}
    /\ eventCh \in Seq({"delta", "error", "done"}) /\ Len(eventCh) <= Cap
    /\ closed \in BOOLEAN /\ connected \in BOOLEAN
    /\ ending \in Endings
    /\ taken \in 0..MaxChunks /\ shown \in 0..taken

\* A client that is told the end has been shown every chunk that came from
\* the platform, however full the buffer was (ali_deepseek/handler.go:108).
EndShowsAll == ending = "end" => shown = taken

\* A malformed chunk ends the answer as an error and fails the record; no
\* client is told the end of it (ali_deepseek/handler.go:92).  In a mock
\* interview a service that fails in the middle is told as well
\* (mock_interview_handler.go:131).
ErrorsAreTold ==
    event = "error" => ending # "end" /\ (recvPc = "done" => record = "failed")

\* recv ends, with its record and the channel closed, except for one case: the
\* handler has left because the client has gone, and the buffer is full
\* (web/handler.go:161).  Then the goroutine stays for ever.  A mock
\* interview has no goroutine that could.
RecvEnds == <>(\/ recvPc = "done" /\ closed
               \/ recvPc = "absent" /\ ending # "none"
               \/ ending = "gone" /\ Len(eventCh) = Cap)
=============================================================================
