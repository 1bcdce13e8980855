---------------------------- MODULE RemoteStream ----------------------------
(***************************************************************************)
(* The response streams of one remote conversation in hermes_bridge.py:    *)
(* every request handler that may attach a reader to a WebUI run           *)
(* (start_remote_stream), stop one (stop_remote_stream) or wait for the    *)
(* WebUI, and the reader tasks themselves (_remote_stream_loop,            *)
(* _consume_remote_sse, _handle_remote_sse_event, _complete_remote_stream).*)
(*                                                                         *)
(* The bridge is one asyncio loop: an action is the code between two       *)
(* awaits.  The WebUI is external: it keeps a journal per run, serves a    *)
(* reader from the event id it asks for, and runs one turn at a time.      *)
(* Event ids are positions in the journal of their run.                    *)
(***************************************************************************)
EXTENDS Naturals, Sequences, FiniteSets, SequencesExt

CONSTANTS
    Handlers,   \* bridge tasks serving requests, list refreshes and observer events
    Ops,        \* the operations they may begin
    MaxOps,     \* bound: operations begun
    MaxRun,     \* bound: turns the WebUI begins
    MaxReader,  \* bound: reader tasks started
    Recorded,   \* the kinds of events the WebUI records
    MaxToken,   \* bound: text, tool, question and title events recorded
    MaxDrop,    \* bound: connections and answers lost
    GiveUp      \* failures in a row after which a reader gives up (8)

Runs == 1 .. MaxRun
Readers == 1 .. MaxReader
Over == {"end", "cancel", "error"}
Events == {"token", "tool", "ask", "done", "title"} \cup Over
Statuses == {"idle", "working", "waiting", "reconnecting", "error"}

ASSUME BoundsAssumption ==
    /\ {MaxOps, MaxRun, MaxReader, MaxToken, MaxDrop} \subseteq Nat
    /\ GiveUp \in Nat \ {0} /\ Recorded \subseteq Events

VARIABLES
    journal,    \* [Runs -> Seq(Events)]: what the WebUI has recorded
    begun,      \* runs begun
    connected,  \* remote_auth.status is connected
    gone,       \* the WebUI has deleted the session
    listed,     \* the conversation is in the registry
    status,     \* conversation["status"]
    attached,   \* remote_stream_by_conversation, 0 without an entry
    task,       \* remote_stream_tasks, 0 without an entry
    resp,       \* remote_stream_responses: the reader that registered it
    cursor,     \* remote_stream_event_ids
    text,       \* remote_stream_text: the token events it is made of
    completed,  \* remote_stream_completed
    reader,     \* the reader tasks
    handler,    \* the request tasks
    ops, drops, \* counters
    overlap     \* history: a reader was attached over a live one

maps == <<attached, task, resp, cursor, text, completed>>
server == <<journal, begun, gone>>
vars == <<journal, begun, gone, connected, listed, status, attached, task, resp,
          cursor, text, completed, reader, handler, ops, drops, overlap>>

NoReader == [pc |-> "none", run |-> 0, pos |-> 0, why |-> "", saw |-> FALSE,
             last |-> FALSE, fails |-> 0, cancel |-> FALSE, told |-> 0]
Idle == [pc |-> "idle", op |-> "", reply |-> 0, row |-> FALSE, busy |-> FALSE,
         old |-> 0, want |-> 0]

Init ==
    /\ journal = [r \in Runs |-> <<>>] /\ begun = 0 /\ gone = FALSE
    /\ connected = TRUE /\ listed = TRUE /\ status = "idle"
    /\ attached = 0 /\ task = 0 /\ resp = 0
    /\ cursor = 0 /\ text = <<>> /\ completed = 0
    /\ reader = [k \in Readers |-> NoReader]
    /\ handler = [h \in Handlers |-> Idle]
    /\ ops = 0 /\ drops = 0 /\ overlap = FALSE

-----------------------------------------------------------------------------
(* The WebUI. *)

IsOver(r) == journal[r] # <<>> /\ Last(journal[r]) \in Over
Finished(r) == \E i \in DOMAIN journal[r] : journal[r][i] = "done"

(* active_stream_id of the session: the newest run until its journal ends. *)
Active == IF begun > 0 /\ ~IsOver(begun) THEN begun ELSE 0

Asides == {"token", "tool", "ask", "title"}
Recording == Cardinality({at \in Runs \X (1 .. MaxToken + 2) :
    at[2] \in DOMAIN journal[at[1]] /\ journal[at[1]][at[2]] \in Asides})

(* What a run may record next: text, tools and questions, the end of the   *)
(* turn (done), a title after it, and the end of the journal.              *)
MayEmit(r, e) ==
    /\ ~IsOver(r)
    /\ e \in Asides => Recording < MaxToken
    /\ CASE e \in {"token", "tool", "ask"} -> ~Finished(r)
         [] e = "done"  -> ~Finished(r)
         [] e = "title" -> Finished(r)
         [] e = "error" -> ~Finished(r)
         [] e = "end"   -> TRUE
         [] OTHER       -> FALSE

Emit(e) ==
    /\ begun > 0 /\ MayEmit(begun, e)
    /\ journal' = [journal EXCEPT ![begun] = Append(@, e)]
    /\ UNCHANGED <<begun, gone, connected, listed, status, maps, reader, handler, ops, drops, overlap>>

(* The WebUI starts a turn of its own (a background task, another client). *)
ServerTurn ==
    /\ Active = 0 /\ begun < MaxRun /\ ~gone
    /\ begun' = begun + 1
    /\ UNCHANGED <<journal, gone, connected, listed, status, maps, reader, handler, ops, drops, overlap>>

(* The WebUI session ends: the next request is challenged. *)
Expire ==
    /\ connected /\ drops < MaxDrop
    /\ connected' = FALSE /\ drops' = drops + 1
    /\ UNCHANGED <<server, listed, status, maps, reader, handler, ops, overlap>>

-----------------------------------------------------------------------------
(* Attaching and stopping a reader. *)

Alive(k) == k # 0 /\ reader[k].pc # "over"
Living == {k \in Readers : reader[k].pc \notin {"none", "over"}}
Fresh == {k \in Readers : reader[k].pc = "none"}

(* The tail of start_remote_stream: the entries of a new stream, its task. *)
attach(s) ==
    LET k == CHOOSE j \in Fresh : \A i \in Fresh : j <= i
    IN /\ attached' = s /\ task' = k /\ resp' = resp
       /\ cursor' = 0 /\ text' = <<>> /\ completed' = 0
       /\ reader' = [reader EXCEPT ![k] = [NoReader EXCEPT !.pc = "start", !.run = s]]
       /\ overlap' = (overlap \/ Living # {})

(* stop_remote_stream up to its first await: the entries are removed and   *)
(* the reader is cancelled, but it has not run yet.                        *)
detach ==
    /\ attached' = 0 /\ task' = 0 /\ resp' = 0
    /\ UNCHANGED <<cursor, text, completed, overlap>>
    /\ reader' = IF Alive(task) THEN [reader EXCEPT ![task].cancel = TRUE] ELSE reader

Ask(h, op) == handler' = [handler EXCEPT ![h] = [Idle EXCEPT !.pc = "ask", !.op = op]]

(* What the caller of start_remote_stream does next: remote_session_status *)
(* reports what it was told, remote_regenerate loads the history.          *)
returned(h, hd, st) ==
    /\ status' = IF hd.op # "status" THEN st ELSE IF hd.busy THEN "working" ELSE "idle"
    /\ IF hd.op = "regenerate" THEN Ask(h, "history")
                               ELSE handler' = [handler EXCEPT ![h] = Idle]

(* start_remote_stream: nothing for the stream that is being read, wait    *)
(* for the reader of another one to stop, attach at once otherwise.  hd is *)
(* the caller's frame, st the status it has set before the call.           *)
start_remote_stream(h, hd, s, st) ==
    \/ /\ s = 0 \/ (attached = s /\ Alive(task))
       /\ returned(h, hd, st)
       /\ UNCHANGED <<maps, reader, overlap>>
    \/ /\ s # 0 /\ ~(attached = s /\ Alive(task))
       /\ task # 0 \/ attached # 0
       /\ detach
       /\ status' = st
       /\ handler' = [handler EXCEPT ![h] = [hd EXCEPT !.pc = "stop", !.old = task, !.want = s]]
    \/ /\ s # 0 /\ task = 0 /\ attached = 0
       /\ Fresh # {}
       /\ attach(s)
       /\ returned(h, hd, st)

(* stop_remote_stream and what called it, up to the await: delete, logout. *)
stop_remote_stream(h) ==
    /\ detach
    /\ handler' = [handler EXCEPT ![h] = [@ EXCEPT !.pc = "stop", !.old = task]]

(* The rest of stop_remote_stream, once the old reader has ended: the      *)
(* entries of the stream go unless a newer one is attached.  A start that  *)
(* was waiting attaches its stream without looking again.                  *)
StopEnd(h) ==
    /\ handler[h].pc = "stop" /\ ~Alive(handler[h].old)
    /\ IF handler[h].want # 0
         THEN /\ Fresh # {}
              /\ attach(handler[h].want)
              /\ returned(h, handler[h], status)
         ELSE /\ IF attached = 0
                   THEN cursor' = 0 /\ text' = <<>> /\ completed' = 0
                   ELSE UNCHANGED <<cursor, text, completed>>
              /\ IF handler[h].op = "logout" THEN Ask(h, "sign out")
                                             ELSE handler' = [handler EXCEPT ![h] = Idle]
              /\ UNCHANGED <<attached, task, resp, reader, overlap, status>>
    /\ listed' = (listed /\ handler[h].op # "delete")
    /\ UNCHANGED <<server, connected, ops, drops>>

-----------------------------------------------------------------------------
(* The request handlers. *)

Quiet == UNCHANGED <<status, maps, reader, overlap>>

(* remote_prompt_submit up to its first request: attachments go first.     *)
remote_prompt_submit(h, op) ==
    /\ op \in {"upload", "submit"}
    /\ status' = "working"
    /\ Ask(h, op)
    /\ UNCHANGED <<maps, reader, overlap>>

session_compress(h) ==
    /\ status' = "working"
    /\ Ask(h, "compress")
    /\ UNCHANGED <<maps, reader, overlap>>

(* remote_interrupt: the attached stream is cancelled; without one, the    *)
(* WebUI is asked which stream is active.                                  *)
remote_interrupt(h) == Ask(h, IF attached = 0 THEN "which" ELSE "cancel") /\ Quiet

(* remote_respond_to_request: the user answers a question of the agent.    *)
remote_respond_to_request(h) == status = "waiting" /\ Ask(h, "respond") /\ Quiet

(* Operations that only ask before they do anything: remote_regenerate for *)
(* the revision, remote_edit_message for the truncation, and the others.   *)
Reading == {"revision", "truncate", "status", "history", "refresh", "delete"}

(* server_turn_started on the session's event stream: read the run.        *)
ObservedTurn(h) ==
    /\ begun # 0
    /\ start_remote_stream(h, [Idle EXCEPT !.op = "turn"], begun, "working")

(* remote.auth.logout: the readers are stopped before the session ends.    *)
logout(h) ==
    /\ detach
    /\ handler' = [handler EXCEPT ![h] = [Idle EXCEPT !.pc = "stop", !.op = "logout", !.old = task]]
    /\ UNCHANGED status

(* A request arrives, an observer sees a turn start, or an invalidation of *)
(* the list is served, up to its first request to the WebUI.               *)
Begin(h, op) ==
    /\ handler[h] = Idle /\ ops < MaxOps /\ listed
    /\ connected \/ op = "logout"
    /\ ops' = ops + 1
    /\ UNCHANGED <<server, connected, listed, drops>>
    /\ \/ remote_prompt_submit(h, op)
       \/ op = "compress" /\ session_compress(h)
       \/ op = "interrupt" /\ remote_interrupt(h)
       \/ op = "respond" /\ remote_respond_to_request(h)
       \/ op \in Reading /\ Ask(h, op) /\ Quiet
       \/ op = "turn" /\ ObservedTurn(h)
       \/ op = "logout" /\ logout(h)

Turns == {"submit", "regenerate"}
Accepts(op) == op \in Turns /\ Active = 0 /\ begun < MaxRun

(* What the WebUI records for a request it executes.                       *)
Executed(op) ==
    /\ begun' = IF Accepts(op) THEN begun + 1 ELSE begun
    /\ journal' = IF op \in {"cancel", "delete"} /\ Active # 0 /\ ~Finished(Active)
                    THEN [journal EXCEPT ![Active] = Append(@, "cancel")] ELSE journal
    /\ gone' = (gone \/ op = "delete")

(* The WebUI answers.  A turn is accepted when none is active; otherwise   *)
(* the refusal names the active stream.  reply is the stream it names.     *)
Serve(h) ==
    LET op == handler[h].op IN
    /\ handler[h].pc = "ask" /\ connected
    /\ gone => op \in {"refresh", "sign out"}
    /\ Executed(op)
    /\ handler' = [handler EXCEPT ![h] =
         [@ EXCEPT !.pc = IF op \in Turns /\ ~Accepts(op) THEN "refused" ELSE "told",
                   !.reply = IF Accepts(op) THEN begun + 1 ELSE Active,
                   !.row = ~gone]]
    /\ UNCHANGED <<connected, listed, status, maps, reader, ops, drops, overlap>>

(* A turn whose delivery is in doubt is checked later, a refused one and   *)
(* what else began the turn is an error.                                   *)
FaultStatus(op, lost) ==
    CASE op \in Turns /\ lost -> "reconnecting"
      [] op \in Turns \cup {"upload", "compress"} -> "error"
      [] OTHER -> status

(* The request fails: it or its answer is lost (it may have been executed, *)
(* and a turn in doubt is never asked for again), the session is gone, or  *)
(* the sign-in has expired.                                                *)
Lose(h) ==
    LET op   == handler[h].op
        lost == connected /\ ~gone
    IN
    /\ handler[h].pc = "ask"
    /\ lost => drops < MaxDrop
    /\ ~lost => (op \in {"refresh", "sign out"} => ~connected)
    /\ drops' = IF lost THEN drops + 1 ELSE drops
    /\ \/ lost /\ Executed(op)
       \/ UNCHANGED server
    /\ status' = FaultStatus(op, lost)
    /\ connected' = (connected /\ op # "sign out")
    /\ handler' = [handler EXCEPT ![h] = Idle]
    /\ UNCHANGED <<listed, maps, reader, ops, overlap>>

Told(h, op) == handler[h].pc = "told" /\ handler[h].op = op
Answered == UNCHANGED <<server, connected, listed, ops, drops>>

TurnRefused(h) ==
    /\ status' = "error"
    /\ handler' = [handler EXCEPT ![h] = Idle]
    /\ UNCHANGED <<maps, reader, overlap>>

(* remote_prompt_submit after the answer: the stream of the turn is read;  *)
(* a refusal that names the active stream follows that one.                *)
PromptAnswered(h) ==
    /\ handler[h].op = "submit"
    /\ \/ /\ handler[h].pc = "told"
          /\ start_remote_stream(h, handler[h], handler[h].reply, status)
       \/ /\ handler[h].pc = "refused" /\ handler[h].reply # 0
          /\ start_remote_stream(h, handler[h], handler[h].reply, "working")
       \/ /\ handler[h].pc = "refused" /\ handler[h].reply = 0
          /\ TurnRefused(h)
    /\ Answered

(* remote_regenerate after the answer.                                     *)
RegenerateAnswered(h) ==
    /\ handler[h].op = "regenerate"
    /\ \/ /\ handler[h].pc = "told"
          /\ start_remote_stream(h, handler[h], handler[h].reply, status)
       \/ handler[h].pc = "refused" /\ TurnRefused(h)
    /\ Answered

(* The turn itself is requested, once the attachments are uploaded ...     *)
AskTurn(h, op) ==
    /\ status' = "working"
    /\ Ask(h, op)
    /\ Answered /\ UNCHANGED <<maps, reader, overlap>>

Uploaded(h) == Told(h, "upload") /\ AskTurn(h, "submit")

(* ... once the transcript is cut before the edited message ...            *)
EditTruncated(h) == Told(h, "truncate") /\ AskTurn(h, "submit")

(* ... or once the revision to regenerate is known.                        *)
RevisionRead(h) == Told(h, "revision") /\ AskTurn(h, "regenerate")

(* remote_session_status: the active stream is attached; one whose done    *)
(* was seen does not count as running.                                     *)
StatusRead(h) ==
    /\ Told(h, "status")
    /\ start_remote_stream(h,
         [handler[h] EXCEPT !.busy = handler[h].reply # 0 /\ completed # handler[h].reply],
         handler[h].reply, status)
    /\ Answered

(* remote_history: the snapshot is published, its active stream attached.  *)
HistoryRead(h) ==
    /\ Told(h, "history")
    /\ start_remote_stream(h, handler[h], handler[h].reply, status)
    /\ Answered

(* remote_conversation_record: attention, an active stream, or neither.    *)
ListedStatus(r) ==
    IF r = 0 THEN "idle"
    ELSE IF journal[r] # <<>> /\ Last(journal[r]) = "ask" THEN "waiting" ELSE "working"

(* refresh_remote_conversations: the row of the list replaces the one in   *)
(* the registry; a busy selected row that the list lacks is kept.          *)
ListApplied(h) ==
    /\ handler[h].pc = "told" /\ handler[h].op = "refresh"
    /\ IF handler[h].row
         THEN /\ listed' = TRUE
              /\ start_remote_stream(h, handler[h], handler[h].reply,
                                     ListedStatus(handler[h].reply))
         ELSE /\ listed' = (listed /\ status \in {"working", "waiting"})
              /\ handler' = [handler EXCEPT ![h] = Idle]
              /\ UNCHANGED <<status, maps, reader, overlap>>
    /\ UNCHANGED <<server, connected, ops, drops>>

(* remote_interrupt once the WebUI named a stream, or cancelled one.       *)
InterruptAnswered(h) ==
    /\ \/ /\ Told(h, "which") /\ handler[h].reply # 0
          /\ Ask(h, "cancel")
          /\ UNCHANGED status
       \/ /\ Told(h, "cancel") \/ (Told(h, "which") /\ handler[h].reply = 0)
          /\ status' = "idle"
          /\ handler' = [handler EXCEPT ![h] = Idle]
    /\ Answered /\ UNCHANGED <<maps, reader, overlap>>

(* The question is answered, or the context is compressed.                 *)
RequestSettled(h) ==
    /\ \/ Told(h, "respond") /\ status' = "working"
       \/ Told(h, "compress") /\ status' = "idle"
    /\ handler' = [handler EXCEPT ![h] = Idle]
    /\ Answered /\ UNCHANGED <<maps, reader, overlap>>

SignedOut(h) ==
    /\ Told(h, "sign out")
    /\ connected' = FALSE
    /\ handler' = [handler EXCEPT ![h] = Idle]
    /\ Quiet /\ UNCHANGED <<server, listed, ops, drops>>

(* delete_conversation once the WebUI has deleted the session.             *)
Deleted(h) ==
    /\ Told(h, "delete")
    /\ stop_remote_stream(h)
    /\ Answered /\ UNCHANGED status

-----------------------------------------------------------------------------
(* The reader tasks. *)

At(k, pc) == reader[k].pc = pc /\ ~reader[k].cancel
Go(k, pc) == reader' = [reader EXCEPT ![k].pc = pc]

(* The outer finally of _remote_stream_loop: its own task entry, the       *)
(* entries of its stream if that is still attached, and any response.      *)
finish(k) ==
    /\ reader' = [reader EXCEPT ![k] = [NoReader EXCEPT !.pc = "over"]]
    /\ task' = IF task = k THEN 0 ELSE task
    /\ resp' = 0
    /\ IF attached = reader[k].run
         THEN attached' = 0 /\ cursor' = 0 /\ text' = <<>> /\ completed' = 0
         ELSE UNCHANGED <<attached, cursor, text, completed>>

Frame == UNCHANGED <<server, handler, ops, overlap, listed>>

(* Mutant: a reopened stream does not name the last event it has. *)
Loop_FromStart(k) ==
    /\ At(k, "start") \/ At(k, "sleep")
    /\ IF attached = reader[k].run /\ listed
         THEN /\ reader' = [reader EXCEPT ![k] = [@ EXCEPT !.pc = "open", !.pos = 0,
                                                          !.saw = FALSE]]
              /\ UNCHANGED maps
         ELSE finish(k)
    /\ Frame /\ UNCHANGED <<status, connected, drops>>

(* The head of the loop: the connection is opened from the last event id.  *)
Loop(k) ==
    /\ At(k, "start") \/ At(k, "sleep")
    /\ IF attached = reader[k].run /\ listed
         THEN /\ reader' = [reader EXCEPT ![k] = [@ EXCEPT !.pc = "open", !.pos = cursor,
                                                          !.saw = FALSE]]
              /\ UNCHANGED maps
         ELSE finish(k)
    /\ Frame /\ UNCHANGED <<status, connected, drops>>

(* The response is open: registered, unless the stream was replaced.       *)
Opened(k) ==
    /\ At(k, "open") /\ connected
    /\ IF attached = reader[k].run
         THEN resp' = k /\ Go(k, "read")
         ELSE reader' = [reader EXCEPT ![k] = [@ EXCEPT !.pc = "close", !.last = TRUE]]
              /\ UNCHANGED resp
    /\ Frame /\ UNCHANGED <<status, connected, drops, attached, task, cursor, text, completed>>

(* The connection cannot be opened: ask for the state of the run.          *)
OpenFails(k) ==
    /\ At(k, "open") /\ connected /\ drops < MaxDrop
    /\ drops' = drops + 1
    /\ IF attached = reader[k].run
         THEN Go(k, "status") /\ UNCHANGED maps
         ELSE finish(k)
    /\ Frame /\ UNCHANGED <<status, connected>>

(* RemoteLoginFault, while opening or while asking for the run's state.    *)
SignInRequired(k) ==
    /\ At(k, "open") \/ At(k, "status")
    /\ ~connected
    /\ status' = "error"
    /\ finish(k)
    /\ Frame /\ UNCHANGED <<connected, drops>>

(* Leaving the connection: the inner finally, then the check that follows. *)
leave(k, rd, last) ==
    /\ reader' = [reader EXCEPT ![k] = [rd EXCEPT !.pc = "close", !.last = last]]
    /\ resp' = IF resp = k THEN 0 ELSE resp

(* Text, streamed or interim, is kept until the end of the turn.           *)
_append_remote_stream_text(e, i) == IF e = "token" THEN Append(text, i) ELSE text

(* What an event says of the conversation: tools and compression run, an   *)
(* approval or a clarification is asked for, the turn fails.               *)
EventStatus(e) ==
    CASE e = "tool"  -> "working"
      [] e = "ask"   -> "waiting"
      [] e = "error" -> "error"
      [] OTHER       -> status

(* The events that complete the turn; done and stream_end do so once.      *)
Completes(e, r) == (e \in {"done", "end"} /\ completed # r) \/ e = "cancel"

(* One event of the stream: the cursor moves before it is handled, then    *)
(* _handle_remote_sse_event; the reader goes on while its stream is the    *)
(* attached one.                                                           *)
ReadEvent(k) ==
    LET r  == reader[k].run
        i  == reader[k].pos + 1
        e  == journal[r][i]
        rd == [reader[k] EXCEPT !.pos = i, !.saw = TRUE]
    IN
    /\ At(k, "read") /\ i <= Len(journal[r])
    /\ cursor' = i
    /\ text' = _append_remote_stream_text(e, i)
    /\ status' = EventStatus(e)
    /\ IF Completes(e, r)
         THEN /\ reader' = [reader EXCEPT ![k] = [rd EXCEPT !.pc = "reconcile", !.why = e,
                                                                !.told = reader[k].told + 1]]
              /\ UNCHANGED resp
         ELSE IF e \in {"error", "end"} \/ attached # r
                THEN leave(k, rd, e \in {"error", "end"})
                ELSE reader' = [reader EXCEPT ![k] = rd] /\ UNCHANGED resp
    /\ UNCHANGED <<attached, task, completed>>
    /\ Frame /\ UNCHANGED <<connected, drops>>

(* The connection ends without a terminal event: end of file, a reset, or  *)
(* 45 seconds of silence.                                                  *)
ReadEnds(k) ==
    /\ At(k, "read") /\ drops < MaxDrop
    /\ drops' = drops + 1
    /\ leave(k, reader[k], FALSE)
    /\ UNCHANGED <<attached, task, cursor, text, completed>>
    /\ Frame /\ UNCHANGED <<status, connected>>

(* _complete_remote_stream: message.complete is published, the session is  *)
(* read (or was in the event, or cannot be read), the status settles.      *)
Complete(k) ==
    LET why == reader[k].why IN
    /\ At(k, "reconcile")
    /\ status' = "idle"
    /\ \/ /\ why = "done"
          /\ completed' = reader[k].run
          /\ IF attached = reader[k].run
               THEN /\ reader' = [reader EXCEPT ![k] = [@ EXCEPT !.pc = "read"]]
                    /\ UNCHANGED resp
               ELSE leave(k, reader[k], FALSE)
          /\ UNCHANGED <<attached, task, cursor, text>>
       \/ /\ why \in {"end", "cancel"}
          /\ leave(k, reader[k], TRUE)
          /\ UNCHANGED <<attached, task, cursor, text, completed>>
       \/ /\ why = "eof"
          /\ finish(k)
    /\ Frame /\ UNCHANGED <<connected, drops>>

(* After the connection is closed: done, or ask for the state of the run.  *)
Closed(k) ==
    /\ At(k, "close")
    /\ IF reader[k].last \/ attached # reader[k].run
         THEN finish(k)
         ELSE Go(k, "status") /\ UNCHANGED maps
    /\ Frame /\ UNCHANGED <<status, connected, drops>>

(* Mutant: an ended run is completed whether or not its done was seen. *)
RunStatus_Again(k) ==
    LET r == reader[k].run IN
    /\ At(k, "status") /\ connected
    /\ \/ /\ IsOver(r)
          /\ reader' = [reader EXCEPT ![k] = [@ EXCEPT !.pc = "reconcile", !.why = "eof",
                                                             !.told = reader[k].told + 1]]
          /\ UNCHANGED <<status, maps>>
       \/ /\ FALSE
          /\ finish(k)
          /\ UNCHANGED status
       \/ /\ ~IsOver(r)
          /\ reader' = [reader EXCEPT ![k] =
                          [@ EXCEPT !.pc = "sleep",
                                    !.fails = IF reader[k].saw THEN 0 ELSE reader[k].fails + 1]]
          /\ status' = IF completed = r THEN status ELSE "reconnecting"
          /\ UNCHANGED maps
    /\ Frame /\ UNCHANGED <<connected, drops>>

(* Mutant: a lost transport is reported although the turn is complete. *)
RunStatus_Unfenced(k) ==
    LET r == reader[k].run IN
    /\ At(k, "status") /\ connected
    /\ \/ /\ IsOver(r) /\ completed # r
          /\ reader' = [reader EXCEPT ![k] = [@ EXCEPT !.pc = "reconcile", !.why = "eof",
                                                             !.told = reader[k].told + 1]]
          /\ UNCHANGED <<status, maps>>
       \/ /\ IsOver(r) /\ completed = r
          /\ finish(k)
          /\ UNCHANGED status
       \/ /\ ~IsOver(r)
          /\ reader' = [reader EXCEPT ![k] =
                          [@ EXCEPT !.pc = "sleep",
                                    !.fails = IF reader[k].saw THEN 0 ELSE reader[k].fails + 1]]
          /\ status' = "reconnecting"
          /\ UNCHANGED maps
    /\ Frame /\ UNCHANGED <<connected, drops>>

(* The stream-status answer: the run has ended and is completed unless its *)
(* done was seen, or it is active and the reader tries again.              *)
RunStatus(k) ==
    LET r == reader[k].run IN
    /\ At(k, "status") /\ connected
    /\ \/ /\ IsOver(r) /\ completed # r
          /\ reader' = [reader EXCEPT ![k] = [@ EXCEPT !.pc = "reconcile", !.why = "eof",
                                                             !.told = reader[k].told + 1]]
          /\ UNCHANGED <<status, maps>>
       \/ /\ IsOver(r) /\ completed = r
          /\ finish(k)
          /\ UNCHANGED status
       \/ /\ ~IsOver(r)
          /\ reader' = [reader EXCEPT ![k] =
                          [@ EXCEPT !.pc = "sleep",
                                    !.fails = IF reader[k].saw THEN 0 ELSE reader[k].fails + 1]]
          /\ status' = IF completed = r THEN status ELSE "reconnecting"
          /\ UNCHANGED maps
    /\ Frame /\ UNCHANGED <<connected, drops>>

(* No answer about the run: try again, up to GiveUp failures in a row.     *)
RunStatusFails(k) ==
    LET r == reader[k].run
        n == IF reader[k].saw THEN 0 ELSE reader[k].fails + 1
    IN
    /\ At(k, "status") /\ connected
    /\ IF n >= GiveUp
         THEN status' = "error" /\ finish(k)
         ELSE /\ reader' = [reader EXCEPT ![k] = [@ EXCEPT !.pc = "sleep", !.fails = n]]
              /\ status' = IF completed = r THEN status ELSE "reconnecting"
              /\ UNCHANGED maps
    /\ Frame /\ UNCHANGED <<connected, drops>>

(* The cancellation of stop_remote_stream reaches the task at its await.   *)
(* A task that has not started ends without running its finally blocks.    *)
Cancelled(k) ==
    /\ reader[k].cancel
    /\ \/ /\ reader[k].pc = "start"
          /\ reader' = [reader EXCEPT ![k] = [NoReader EXCEPT !.pc = "over"]]
          /\ UNCHANGED maps
       \/ /\ reader[k].pc = "read" \/ (reader[k].pc = "reconcile" /\ reader[k].why # "eof")
          /\ leave(k, [reader[k] EXCEPT !.cancel = FALSE], TRUE)
          /\ UNCHANGED <<attached, task, cursor, text, completed>>
       \/ /\ reader[k].pc \in {"open", "close", "status", "sleep"}
               \/ (reader[k].pc = "reconcile" /\ reader[k].why = "eof")
          /\ finish(k)
    /\ Frame /\ UNCHANGED <<status, connected, drops>>

-----------------------------------------------------------------------------

HandlerStep(h) ==
    StopEnd(h) \/ Serve(h) \/ Lose(h) \/ PromptAnswered(h) \/ RegenerateAnswered(h)
    \/ Uploaded(h) \/ EditTruncated(h) \/ RevisionRead(h) \/ StatusRead(h)
    \/ HistoryRead(h) \/ ListApplied(h) \/ InterruptAnswered(h)
    \/ RequestSettled(h) \/ SignedOut(h) \/ Deleted(h)

ReaderStep(k) ==
    Loop(k) \/ Opened(k) \/ SignInRequired(k) \/ ReadEvent(k) \/ Complete(k)
    \/ Closed(k) \/ RunStatus(k) \/ Cancelled(k)

Next ==
    \/ \E e \in Recorded : Emit(e)
    \/ ServerTurn
    \/ Expire
    \/ \E h \in Handlers, op \in Ops : Begin(h, op)
    \/ \E h \in Handlers : StopEnd(h)
    \/ \E h \in Handlers : Serve(h)
    \/ \E h \in Handlers : Lose(h)
    \/ \E h \in Handlers : PromptAnswered(h)
    \/ \E h \in Handlers : RegenerateAnswered(h)
    \/ \E h \in Handlers : Uploaded(h)
    \/ \E h \in Handlers : EditTruncated(h)
    \/ \E h \in Handlers : RevisionRead(h)
    \/ \E h \in Handlers : StatusRead(h)
    \/ \E h \in Handlers : HistoryRead(h)
    \/ \E h \in Handlers : ListApplied(h)
    \/ \E h \in Handlers : InterruptAnswered(h)
    \/ \E h \in Handlers : RequestSettled(h)
    \/ \E h \in Handlers : SignedOut(h)
    \/ \E h \in Handlers : Deleted(h)
    \/ \E k \in Readers : Loop(k)
    \/ \E k \in Readers : Opened(k)
    \/ \E k \in Readers : OpenFails(k)
    \/ \E k \in Readers : SignInRequired(k)
    \/ \E k \in Readers : ReadEvent(k)
    \/ \E k \in Readers : ReadEnds(k)
    \/ \E k \in Readers : Complete(k)
    \/ \E k \in Readers : Closed(k)
    \/ \E k \in Readers : RunStatus(k)
    \/ \E k \in Readers : RunStatusFails(k)
    \/ \E k \in Readers : Cancelled(k)

Spec == Init /\ [][Next]_vars

-----------------------------------------------------------------------------
(* Properties. *)

TypeOK ==
    /\ journal \in [Runs -> Seq(Events)] /\ begun \in 0 .. MaxRun
    /\ {gone, connected, listed, overlap} \subseteq BOOLEAN
    /\ status \in Statuses
    /\ attached \in 0 .. MaxRun /\ completed \in 0 .. MaxRun
    /\ task \in 0 .. MaxReader /\ resp \in 0 .. MaxReader
    /\ cursor \in Nat /\ text \in Seq(Nat)
    /\ \A k \in Readers : reader[k].run \in 0 .. MaxRun /\ reader[k].told \in Nat
    /\ \A h \in Handlers : handler[h].pc \in {"idle", "ask", "told", "refused", "stop"}

(* The token events of a run up to an event id.                            *)
Tokens(r, n) == {i \in 1 .. n : journal[r][i] = "token"}

(* remote_stream_text is the text of the attached run up to the event the  *)
(* reader would resume from, in its order: nothing is lost or shown twice  *)
(* by a drop, a replay or a replaced stream.  It rests on the readers      *)
(* following one another, which start_remote_stream does not enforce       *)
(* (overlap).                                                              *)
TextIsJournal ==
    (attached # 0 /\ ~overlap)
    => /\ cursor <= Len(journal[attached])
       /\ Range(text) = Tokens(attached, cursor)
       /\ \A i, j \in DOMAIN text : i < j => text[i] < text[j]

(* A turn is reported complete once by the reader that follows it, however *)
(* done, a lost connection, the stream-status answer and stream_end fall.  *)
OneCompletion ==
    ~overlap => \A k \in Readers : reader[k].told <= 1

(* Once the done of the attached run was handled, its transport does not   *)
(* move the conversation back to working or reconnecting (the comment on   *)
(* the fence in _handle_remote_sse_event).                                 *)
FinishedTurnStays ==
    [][(/\ ~overlap /\ handler' = handler
        /\ \E k \in Living : reader'[k] # reader[k] /\ reader[k].run = completed)
       => (status' # status => status' \in {"idle", "error"})]_vars

=============================================================================
