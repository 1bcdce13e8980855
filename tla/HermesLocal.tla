---------------------------- MODULE HermesLocal ----------------------------
(***************************************************************************)
(* The Hermes bridge with its local backend, hermes_bridge.py: the         *)
(* reconnecting JSON-RPC client (HermesGateway), the runtime sessions the  *)
(* bridge binds to its conversations, the reconciliation after a           *)
(* reconnect, prompts whose delivery is in doubt, and the registry on disk.*)
(*                                                                         *)
(* The bridge is one asyncio loop: an action is what a task does between   *)
(* two awaits.  A task is a client's request, the reconciliation of one    *)
(* connection, or its restoration of one conversation.  A call to the      *)
(* gateway is the control state of the task that awaits it and a state in  *)
(* `req`.  Frames arrive when they are sent: one that is lost on the way    *)
(* is a call the server performed, or an event it logged, while the socket  *)
(* was already closing.                                                    *)
(*                                                                         *)
(* The Hermes server is external.  A session is durable once a prompt of   *)
(* it was accepted; any other is forgotten when the server restarts.  A    *)
(* runtime is a session in one life of the server, <<session, epoch>>.     *)
(***************************************************************************)
EXTENDS Naturals, Sequences, FiniteSets

CONSTANTS
    Conversations,
    Clients,      \* requests of local clients being served at once
    MaxConn,      \* bound: connections opened
    MaxEpoch,     \* bound: lives of the Hermes server
    MaxSession,   \* bound: sessions the server creates
    MaxSubmit,    \* bound: prompts submitted
    MaxRequest,   \* bound: other requests of clients, provider checks among them
    MaxEvent,     \* bound: events the server sends for one runtime
    MaxFault,     \* bound: restarts of the server, bridge crashes, calls that time out
    Restores,     \* conversations restored at once (a semaphore of 3)
    None

Sessions == 1 .. MaxSession
Epochs == 1 .. MaxEpoch
Runtimes == Sessions \X Epochs

Client(k) == <<"client", k>>
Main(g) == <<"main", g>>
One(g, c) == <<"one", g, c>>
ClientTasks == {Client(k) : k \in Clients}
Tasks == ClientTasks \cup {Main(g) : g \in 1 .. MaxConn}
             \cup {One(g, c) : g \in 1 .. MaxConn, c \in Conversations}

ASSUME LocalAssumption ==
    /\ \A n \in {MaxConn, MaxEpoch, MaxSession, MaxSubmit, MaxRequest, MaxEvent,
                 MaxFault} : n \in Nat
    /\ MaxEpoch > 0
    /\ Restores \in Nat \ {0}
    /\ None \notin Sessions \cup Runtimes \cup Conversations \cup Tasks

\* Events by the status they lead to: work (message.start, a delta, a tool, a
\* request for approval), the end of a turn, an error.
Events == {"start", "complete", "error"}

VARIABLES
    \* the Hermes server (external)
    epoch,       \* its current life
    made,        \* sessions ever created
    known,       \* sessions with a runtime in this life
    durable,     \* sessions with an accepted prompt
    running,     \* sessions whose agent is running
    log,         \* events sent for each runtime; the index is `seq`
    \* the socket
    link,        \* "down", "up" (gateway.ready seen)
    conn,        \* connections opened so far
    \* the bridge's memory
    runtime,     \* runtime_by_conversation
    owner,       \* conversation_by_runtime
    watermark,   \* watermarks: last seq seen
    replay_epoch,\* 0 before the first reconciliation
    ready,       \* provider_state["ready"]
    lock,        \* conversation_locks: the task holding each
    present,     \* conversations in the registry
    stored,      \* stored_session_id
    has,         \* has_messages
    status,
    disk,        \* the registry file, but for the status
    \* tasks
    pc, cv, op, prev, req, ans, num, todo,
    \* bounds and history
    submits, requests, faults,
    sent,        \* events of each runtime forwarded to the clients
    twice,       \* runtimes of which one was forwarded again
    lapsed       \* runtimes whose watermark went while a replay was awaited

serverVars == <<epoch, made, known, durable, running, log>>
routeVars == <<runtime, owner, watermark, replay_epoch>>
rowVars == <<present, stored, has, status>>
taskVars == <<pc, cv, op, prev, req, ans, num, todo>>
boundVars == <<submits, requests, faults>>
historyVars == <<sent, twice, lapsed>>
vars == <<serverVars, link, conn, routeVars, ready, lock, rowVars,
          disk, taskVars, boundVars, historyVars>>

\* "done" counts as idle and "waiting" as working: they differ in the text.
Statuses == {"idle", "working", "error", "reconnecting"}
Waits == {"resume", "create", "prompt", "call", "close", "since", "restore"}
Answers == {"ok", "yes", "fault", "notfound", "unavailable", "ambiguous"}

\* Between the return of ensure_runtime and what its caller does next, and
\* after a close that needs no call, there is no await: nothing else happens
\* while a task is there.
Quiet == \A p \in Tasks : pc[p] \notin {"got", "failed", "closed"}

Rows(there, ids, marks) == [present |-> there, stored |-> ids, has |-> marks]

\* async_main on a fresh machine, with conversations that were created but
\* never used; the registry is saved before clients are accepted
Init ==
    /\ epoch = 1 /\ made = 0
    /\ known = {} /\ durable = {} /\ running = {}
    /\ log = [r \in Runtimes |-> <<>>]
    /\ link = "down" /\ conn = 0
    /\ runtime = [c \in Conversations |-> None]
    /\ owner = [r \in Runtimes |-> None]
    /\ watermark = [r \in Runtimes |-> 0]
    /\ replay_epoch = 0
    /\ ready = FALSE
    /\ lock = [c \in Conversations |-> None]
    /\ present = Conversations
    /\ stored = [c \in Conversations |-> None]
    /\ has = [c \in Conversations |-> FALSE]
    /\ status = [c \in Conversations |-> "idle"]
    /\ disk = Rows(present, stored, has)
    /\ pc = [p \in Tasks |-> "idle"]
    /\ cv = [p \in Tasks |-> IF p[1] = "one" THEN p[3] ELSE None]
    /\ op = [p \in Tasks |-> "none"]
    /\ prev = [p \in Tasks |-> FALSE]
    /\ req = [p \in Tasks |-> "none"]
    /\ ans = [p \in Tasks |-> None]
    /\ num = [p \in Tasks |-> 0]
    /\ todo = [p \in Tasks |-> {}]
    /\ submits = 0 /\ requests = 0 /\ faults = 0
    /\ sent = [r \in Runtimes |-> {}]
    /\ twice = {} /\ lapsed = {}

-----------------------------------------------------------------------------
(* The registry *)

\* ConversationRegistry.save: the whole registry, atomically
save == disk' = Rows(present', stored', has')

\* HermesBridge.set_conversation_status: the status alone is saved later, by a
\* coalesced save (save_later) that any other save includes
set_conversation_status(c, s) == status' = [status EXCEPT ![c] = s]

-----------------------------------------------------------------------------
(* HermesGateway: calls *)

\* HermesGateway.request up to its first await: refused without a connection
request(p, m, r, n) ==
    /\ pc' = [pc EXCEPT ![p] = m]
    /\ req' = [req EXCEPT ![p] = IF link = "up" THEN "sent" ELSE "unavailable"]
    /\ ans' = [ans EXCEPT ![p] = r]
    /\ num' = [num EXCEPT ![p] = n]

\* The task goes on at control state s with no call outstanding.
Continue(p, s, r) ==
    /\ pc' = [pc EXCEPT ![p] = s]
    /\ req' = [req EXCEPT ![p] = "none"]
    /\ ans' = [ans EXCEPT ![p] = r]
    /\ num' = [num EXCEPT ![p] = 0]

\* The client's request is answered, with a result or a fault.
Respond(p) ==
    /\ Continue(p, "idle", None)
    /\ op' = [op EXCEPT ![p] = "none"]
    /\ cv' = [cv EXCEPT ![p] = None]
    /\ prev' = [prev EXCEPT ![p] = FALSE]

Live(r) == r[2] = epoch /\ r[1] \in known

\* What the server does with the prompts it accepts.
Accept(rs) ==
    /\ durable' = durable \cup {r[1] : r \in rs}
    /\ running' = running \cup {r[1] : r \in rs}

\* The answer arrives (HermesGateway._receive): the future of the call is set.
Answered(p, a, r, n) ==
    /\ req' = [req EXCEPT ![p] = a]
    /\ ans' = [ans EXCEPT ![p] = r]
    /\ num' = [num EXCEPT ![p] = n]

\* Hermes answers a call; any call can be refused with an error.
Serve(p) ==
    /\ link = "up" /\ req[p] = "sent"
    /\ Quiet
    /\ LET r == ans[p]
       IN \/ /\ pc[p] = "create" /\ made < MaxSession
             /\ made' = made + 1
             /\ known' = known \cup {made + 1}
             /\ Answered(p, "ok", <<made + 1, epoch>>, 0)
             /\ UNCHANGED <<durable, running>>
          \/ /\ pc[p] = "resume"
             /\ IF num[p] \in known \cup durable
                THEN /\ known' = known \cup {num[p]}
                     /\ Answered(p, "ok", <<num[p], epoch>>, 0)
                ELSE /\ Answered(p, "notfound", None, 0)
                     /\ UNCHANGED known
             /\ UNCHANGED <<made, durable, running>>
          \/ /\ pc[p] = "prompt" /\ Live(r)
             /\ Accept({r})
             /\ Answered(p, "ok", r, 0)
             /\ UNCHANGED <<made, known>>
          \/ /\ pc[p] = "restore" /\ Live(r)
             /\ Answered(p, IF r[1] \in running THEN "yes" ELSE "ok", r, 0)
             /\ UNCHANGED <<made, known, durable, running>>
          \/ /\ pc[p] = "call" /\ Live(r)
             /\ running' = IF op[p] = "interrupt" THEN running \ {r[1]} ELSE running
             /\ Answered(p, IF op[p] = "history" /\ r[1] \in durable THEN "yes"
                            ELSE "ok", r, 0)
             /\ UNCHANGED <<made, known, durable>>
          \/ /\ pc[p] = "close" /\ Live(r)
             /\ known' = known \ {r[1]}
             /\ running' = running \ {r[1]}
             /\ Answered(p, "ok", None, 0)
             /\ UNCHANGED <<made, durable>>
          \/ /\ pc[p] = "since" /\ r[2] = epoch
             /\ Answered(p, "ok", r, Len(log[<<r[1], r[2]>>]))
             /\ UNCHANGED <<made, known, durable, running>>
          \/ /\ Answered(p, "fault", None, 0)
             /\ UNCHANGED <<made, known, durable, running>>
    /\ UNCHANGED <<epoch, log, link, conn, routeVars, ready, lock, rowVars, disk,
                   pc, cv, op, prev, todo, boundVars, historyVars>>

EventStatus == [start |-> "working", complete |-> "idle", error |-> "error"]

\* The conversation an event of runtime r is routed to, None without one.
Routed(r) == IF owner[r] # None /\ owner[r] \in present THEN owner[r] ELSE None

\* The events of r in `news` are put on the wire to the clients.
Forward(r, news) ==
    /\ sent' = [sent EXCEPT ![r] = @ \cup news]
    /\ twice' = IF news \cap sent[r] = {} THEN twice ELSE twice \cup {r}

(* Mutant: the last event seen is accepted again. *)
handle_upstream_event_Again(r, n, t, after) ==
    IF n < watermark[r]
    THEN UNCHANGED <<watermark, sent, twice, status>>
    ELSE /\ watermark' = [watermark EXCEPT ![r] = n]
         /\ IF Routed(r) = None
            THEN UNCHANGED <<sent, twice, status>>
            ELSE /\ Forward(r, {i \in after + 1 .. n : i >= watermark[r]})
                 /\ set_conversation_status(Routed(r), EventStatus[t])

\* handle_upstream_event for the events after + 1 .. n, the last of them t: one
\* live event, or all that a replay holds.  A seq that is not newer than the
\* watermark is dropped; one that is moves it, and is forwarded when the
\* runtime is bound.
handle_upstream_event(r, n, t, after) ==
    IF n <= watermark[r]
    THEN UNCHANGED <<watermark, sent, twice, status>>
    ELSE /\ watermark' = [watermark EXCEPT ![r] = n]
         /\ IF Routed(r) = None
            THEN UNCHANGED <<sent, twice, status>>
            ELSE /\ Forward(r, {i \in after + 1 .. n : i > watermark[r]})
                 /\ set_conversation_status(Routed(r), EventStatus[t])

\* The agent of a session reports progress, completes its turn or fails; the
\* event is kept for a replay, and arrives when the socket is up.
Report(s, t) ==
    LET r == <<s, epoch>>
    IN /\ s \in running /\ s \in known
       /\ Quiet
       /\ Len(log[r]) < MaxEvent
       /\ log' = [log EXCEPT ![r] = Append(@, t)]
       /\ running' = IF t = "start" THEN running ELSE running \ {s}
       /\ IF link = "up"
          THEN handle_upstream_event(r, Len(log[r]) + 1, t, Len(log[r]))
          ELSE UNCHANGED <<watermark, sent, twice, status>>
       /\ UNCHANGED <<epoch, made, known, durable, link, conn, runtime, owner,
                      replay_epoch, ready, lock, present, stored, has, disk, taskVars,
                      boundVars, lapsed>>

-----------------------------------------------------------------------------
(* HermesGateway: the connection *)

Awaiting(p) == req[p] = "sent"

\* Everything a task can do without the network is over well within the half
\* second before the next attempt; only the provider check outlasts it.
Settled == \A p \in Tasks : pc[p] \in {"idle", "done", "provider"}

\* HermesGateway._run: a new socket and its gateway.ready; clients are told
\* (handle_upstream_state) and the reconciliation starts (on_ready)
Connect ==
    /\ link = "down" /\ conn < MaxConn /\ Settled
    /\ Quiet
    /\ link' = "up"
    /\ conn' = conn + 1
    /\ pc' = [pc EXCEPT ![Main(conn + 1)] = "provider"]
    /\ num' = [num EXCEPT ![Main(conn + 1)] = epoch]
    /\ UNCHANGED <<serverVars, routeVars, ready, lock, rowVars, disk, cv, op, prev, req,
                   ans, todo, boundVars, historyVars>>

\* _reject_pending, and the ConnectionClosed of a send: a frame not written
\* (`unsent`) never reached the server, a written one may have been accepted
reject_pending(unsent) ==
    req' = [p \in Tasks |->
               CASE p \in unsent -> "unavailable"
                 [] p \notin unsent /\ Awaiting(p) -> "ambiguous"
                 [] OTHER -> req[p]]

\* handle_upstream_state("reconnecting")
Interrupted(s) == IF s = "working" THEN "reconnecting" ELSE s

\* The socket closes, the heartbeat's own close included, or an attempt to
\* connect fails; the server goes with it when `restart`.  Prompts in `late`
\* reached the server before that, calls in `unsent` were never written.
Disconnect(restart, late, unsent) ==
    /\ conn < MaxConn
    /\ Quiet
    /\ restart => epoch < MaxEpoch /\ faults < MaxFault
    /\ faults' = IF restart THEN faults + 1 ELSE faults
    /\ unsent \subseteq {p \in Tasks : req[p] = "sent"}
    /\ late \subseteq {p \in Tasks : pc[p] = "prompt" /\ req[p] = "sent"
                                     /\ Live(ans[p])} \ unsent
    /\ durable' = durable \cup {ans[p][1] : p \in late}
    /\ running' = IF restart THEN {} ELSE running \cup {ans[p][1] : p \in late}
    /\ epoch' = IF restart THEN epoch + 1 ELSE epoch
    /\ known' = IF restart THEN {} ELSE known
    /\ link' = "down"
    /\ reject_pending(unsent)
    /\ status' = [c \in Conversations |->
                     IF c \in present THEN Interrupted(status[c]) ELSE status[c]]
    /\ UNCHANGED <<present, stored, has>>
    /\ save
    /\ UNCHANGED <<made, log, conn, routeVars, ready, lock, pc, cv, op, prev, ans, num,
                   todo, submits, requests, historyVars>>

\* A task stops waiting for its answer; the server may see the frame or not.
Forget(p) ==
    \/ UNCHANGED <<durable, running>>
    \/ pc[p] = "prompt" /\ req[p] = "sent" /\ Live(ans[p]) /\ Accept({ans[p]})

\* HermesGateway.request: asyncio.wait_for gives up on a live connection
Timeout(p) ==
    /\ link = "up" /\ faults < MaxFault
    /\ Quiet
    /\ req[p] = "sent"
    /\ faults' = faults + 1
    /\ req' = [req EXCEPT ![p] = IF pc[p] = "prompt" THEN "ambiguous" ELSE "fault"]
    /\ Forget(p)
    /\ UNCHANGED <<epoch, made, known, log, link, conn, routeVars, ready, lock, rowVars,
                   disk, pc, cv, op, prev, ans, num, todo, submits, requests, historyVars>>

-----------------------------------------------------------------------------
(* Runtimes *)

\* ensure_runtime up to its first await, with the runtime bound by then
EnsureFrom(r) ==
    IF ~ready THEN "failed" ELSE IF r # None THEN "got" ELSE "locking"

\* HermesBridge._bind_runtime
bind_runtime(c, r) ==
    LET old == runtime[c]
        gone == old # None /\ old # r
    IN /\ runtime' = [runtime EXCEPT ![c] = r]
       /\ owner' = [[q \in Runtimes |-> IF gone /\ q = old THEN None ELSE owner[q]]
                       EXCEPT ![r] = c]
       /\ watermark' = [q \in Runtimes |-> IF gone /\ q = old THEN 0 ELSE watermark[q]]
       /\ stored' = [stored EXCEPT ![c] = r[1]]
       /\ save

\* ensure_runtime under the conversation's lock: look again, then resume the
\* stored session or create one
EnsureLocked(p) ==
    LET c == cv[p]
    IN /\ pc[p] = "locking" /\ lock[c] = None
       /\ Quiet
       /\ IF runtime[c] # None
          THEN /\ Continue(p, "got", runtime[c])
               /\ UNCHANGED lock
          ELSE /\ lock' = [lock EXCEPT ![c] = p]
               /\ IF stored[c] # None
                  THEN request(p, "resume", None, stored[c])
                  ELSE request(p, "create", None, 0)
       /\ UNCHANGED <<serverVars, link, conn, routeVars, ready, rowVars, disk, cv, op, prev, todo, boundVars, historyVars>>

(* Mutant: every refused resume counts as a session that is gone. *)
MayRecreate_AnyFault(p) == req[p] \in {"notfound", "fault"}

\* ensure_runtime: a known-empty conversation whose session Hermes does not
\* know (4001, 4007) gets a new one
MayRecreate(p) == req[p] = "notfound" /\ ~has[cv[p]]

Recreate(p) ==
    /\ pc[p] = "resume" /\ MayRecreate(p)
    /\ Quiet
    /\ stored' = [stored EXCEPT ![cv[p]] = None]
    /\ UNCHANGED <<present, has, status>>
    /\ save
    /\ request(p, "create", None, 0)
    /\ UNCHANGED <<serverVars, link, conn, routeVars, ready, lock, cv, op, prev,
                   todo, boundVars, historyVars>>

\* ensure_runtime: the answer to session.resume or session.create
EnsureAnswered(p) ==
    LET c == cv[p]
    IN /\ pc[p] \in {"resume", "create"} /\ req[p] \in Answers
       /\ Quiet
       /\ ~(pc[p] = "resume" /\ MayRecreate(p))
       /\ lock' = [lock EXCEPT ![c] = None]
       /\ IF req[p] = "ok"
          THEN /\ UNCHANGED <<replay_epoch, present, has, status>>
               /\ bind_runtime(c, ans[p])
               /\ Continue(p, "got", ans[p])
          ELSE /\ Continue(p, "failed", None)
               /\ UNCHANGED <<routeVars, rowVars, disk>>
       /\ UNCHANGED <<serverVars, link, conn, ready, cv, op, prev, todo,
                      boundVars, historyVars>>

-----------------------------------------------------------------------------
(* Requests of local clients *)

\* dispatch: prompt.submit, session.interrupt, the responses to requests
\* (respond_to_request), and session.history, which stands for everything that
\* only passes a call through (proxy, session.status, select_conversation)
Begin(p, o, c) ==
    /\ pc[p] = "idle" /\ c \in present
    /\ Quiet
    /\ o \in {"submit", "call"}
    /\ IF o = "submit"
       THEN /\ submits < MaxSubmit /\ submits' = submits + 1
            /\ UNCHANGED requests
       ELSE /\ requests < MaxRequest /\ requests' = requests + 1
            /\ UNCHANGED submits
    /\ op' = [op EXCEPT ![p] = o]
    /\ cv' = [cv EXCEPT ![p] = c]
    /\ Continue(p, EnsureFrom(runtime[c]), runtime[c])
    /\ UNCHANGED <<serverVars, link, conn, routeVars, ready, lock, rowVars,
                   disk, prev, todo, faults, historyVars>>

\* dispatch, prompt.submit: working, and the marker on disk, before the call
SubmitSend(p) ==
    LET c == cv[p]
    IN /\ p \in ClientTasks /\ pc[p] = "got" /\ op[p] = "submit"
       /\ status' = [status EXCEPT ![c] = "working"]
       /\ prev' = [prev EXCEPT ![p] = has[c]]
       /\ has' = [has EXCEPT ![c] = TRUE]
       /\ UNCHANGED <<present, stored>>
       /\ save
       /\ request(p, "prompt", ans[p], 0)
       /\ UNCHANGED <<serverVars, link, conn, routeVars, ready, lock, cv, op,
                      todo, boundVars, historyVars>>

\* dispatch, prompt.submit: accepted, in doubt, or refused for certain
SubmitAnswered(p) ==
    LET c == cv[p]
    IN /\ pc[p] = "prompt" /\ req[p] \in Answers
       /\ Quiet
       /\ CASE req[p] = "ok" -> UNCHANGED <<rowVars, disk>>
            [] req[p] = "ambiguous" ->
                 /\ set_conversation_status(c, "reconnecting")
                 /\ UNCHANGED <<present, stored, has, disk>>
            [] OTHER ->
                 /\ has' = [has EXCEPT ![c] = prev[p]]
                 /\ UNCHANGED <<present, stored, status>>
                 /\ save
       /\ Respond(p)
       /\ UNCHANGED <<serverVars, link, conn, routeVars, ready, lock, todo, boundVars, historyVars>>

\* dispatch: the one call of every other routed method
CallSend(p) ==
    /\ p \in ClientTasks /\ pc[p] = "got" /\ op[p] = "call"
    /\ \E o \in {"interrupt", "respond", "history"} : op' = [op EXCEPT ![p] = o]
    /\ request(p, "call", ans[p], 0)
    /\ UNCHANGED <<serverVars, link, conn, routeVars, ready, lock, rowVars,
                   disk, cv, prev, todo, boundVars, historyVars>>

\* ... and what follows it: an interrupt is idle, a response is working, a
\* history with messages marks the conversation
CallAnswered(p) ==
    LET c == cv[p]
    IN /\ pc[p] = "call" /\ req[p] \in Answers
       /\ Quiet
       /\ \/ /\ req[p] \in {"ok", "yes"} /\ op[p] = "interrupt"
             /\ set_conversation_status(c, "idle")
             /\ UNCHANGED <<present, stored, has, disk>>
          \/ /\ req[p] \in {"ok", "yes"} /\ op[p] = "respond"
             /\ set_conversation_status(c, "working")
             /\ UNCHANGED <<present, stored, has, disk>>
          \/ /\ req[p] = "yes" /\ op[p] = "history" /\ ~has[c]
             /\ has' = [has EXCEPT ![c] = TRUE]
             /\ UNCHANGED <<present, stored, status>>
             /\ save
          \/ /\ \/ req[p] \notin {"ok", "yes"}
                \/ op[p] = "history" /\ (req[p] = "ok" \/ has[c])
             /\ UNCHANGED <<rowVars, disk>>
       /\ Respond(p)
       /\ UNCHANGED <<serverVars, link, conn, routeVars, ready, lock, todo, boundVars, historyVars>>

\* ensure_runtime raised: the request ends with its fault; a reset suppresses it
ClientFailed(p) ==
    /\ p \in ClientTasks
    /\ pc[p] = "failed" \/ (pc[p] = "got" /\ op[p] = "configure")
    /\ Respond(p)
    /\ UNCHANGED <<serverVars, link, conn, routeVars, ready, lock, rowVars, disk, todo, boundVars, historyVars>>

\* The route goes first, then Hermes is asked to close the runtime, if any.
Unbind(p, o, c) ==
    LET r == runtime[c]
    IN /\ pc[p] = "idle" /\ c \in present
       /\ Quiet
       /\ requests < MaxRequest /\ requests' = requests + 1
       /\ op' = [op EXCEPT ![p] = o]
       /\ cv' = [cv EXCEPT ![p] = c]
       /\ runtime' = [runtime EXCEPT ![c] = None]
       /\ owner' = [q \in Runtimes |-> IF q = r THEN None ELSE owner[q]]
       /\ IF r = None
          THEN Continue(p, "closed", None)
          ELSE request(p, "close", r, 0)
       /\ UNCHANGED <<serverVars, link, conn, watermark, replay_epoch, lock, rowVars,
                      disk, prev, todo, submits, faults, historyVars>>

\* delete_conversation
DeleteBegin(p, c) == Unbind(p, "delete", c) /\ UNCHANGED ready

\* configure_custom_provider: the endpoint is saved and the provider is ready,
\* so an empty conversation that failed is reset (reset_conversation)
ConfigureBegin(p, c) ==
    /\ status[c] = "error" /\ ~has[c]
    /\ Unbind(p, "configure", c)
    /\ ready' = TRUE

Closed(p) == pc[p] = "closed" \/ (Quiet /\ pc[p] = "close" /\ req[p] \in Answers)

\* delete_conversation: the row goes; deleting it twice is an internal error
DeleteEnd(p) ==
    /\ Closed(p) /\ op[p] = "delete"
    /\ IF cv[p] \in present
       THEN /\ present' = present \ {cv[p]}
            /\ UNCHANGED <<stored, has, status>>
            /\ save
       ELSE UNCHANGED <<rowVars, disk>>
    /\ Respond(p)
    /\ UNCHANGED <<serverVars, link, conn, routeVars, ready, lock, todo, boundVars, historyVars>>

\* reset_conversation: forget the session, then ask for a new runtime
ResetEnd(p) ==
    LET c == cv[p]
    IN /\ Closed(p) /\ op[p] = "configure"
       /\ stored' = [stored EXCEPT ![c] = None]
       /\ has' = [has EXCEPT ![c] = FALSE]
       /\ status' = [status EXCEPT ![c] = "idle"]
       /\ UNCHANGED present
       /\ save
       /\ Continue(p, IF link = "up" THEN EnsureFrom(runtime[c]) ELSE "failed",
                   runtime[c])
       /\ UNCHANGED <<serverVars, link, conn, routeVars, ready, lock, cv, op,
                      prev, todo, boundVars, historyVars>>

\* client_handler: the client disconnects and its requests are cancelled
\* wherever they are; `async with` gives the lock back
Cancel(p) ==
    /\ p \in ClientTasks /\ pc[p] # "idle"
    /\ Quiet
    /\ Forget(p)
    /\ Respond(p)
    /\ lock' = [c \in Conversations |-> IF lock[c] = p THEN None ELSE lock[c]]
    /\ UNCHANGED <<epoch, made, known, log, link, conn, routeVars, ready, rowVars, disk, todo, boundVars, historyVars>>

\* refresh_provider_status, asked for by a client or after a connect
RefreshProvider ==
    /\ requests < MaxRequest
    /\ Quiet
    /\ requests' = requests + 1
    /\ ready' \in BOOLEAN
    /\ UNCHANGED <<serverVars, link, conn, routeVars, lock, rowVars, disk,
                   taskVars, submits, faults, historyVars>>

-----------------------------------------------------------------------------
(* Reconciliation *)

\* reconcile: no provider, so nothing is restored and errors are cleared
ReconcileUnready(g) ==
    LET p == Main(g)
        cleared == {c \in present : status[c] \in {"error", "reconnecting"}}
    IN /\ pc[p] = "provider" /\ \A h \in 1 .. g - 1 : pc[Main(h)] # "provider"
       /\ Quiet
       /\ ready' = FALSE
       /\ status' = [c \in Conversations |-> IF c \in cleared THEN "idle" ELSE status[c]]
       /\ UNCHANGED <<present, stored, has>>
       /\ IF cleared # {} THEN save ELSE UNCHANGED <<disk>>
       /\ Continue(p, "done", None)
       /\ UNCHANGED <<serverVars, link, conn, routeVars, lock, cv, op, prev, todo,
                      boundVars, historyVars>>

\* Runtimes whose missed events are awaited, or answered and not yet handled.
Awaited == {<<ans[p][1], ans[p][2]>> : p \in {q \in Tasks : pc[q] = "since" /\ req[q] \in {"sent", "ok"}}}

\* reconcile: a new life of the server drops every route; the same life is
\* asked for the events missed.  The checks of two connections are in order.
ReconcileReady(g) ==
    LET p == Main(g)
        e == num[p]
        changed == replay_epoch # 0 /\ replay_epoch # e
    IN /\ pc[p] = "provider" /\ \A h \in 1 .. g - 1 : pc[Main(h)] # "provider"
       /\ Quiet
       /\ ready' = TRUE
       /\ replay_epoch' = e
       /\ runtime' = IF changed THEN [c \in Conversations |-> None] ELSE runtime
       /\ owner' = IF changed THEN [r \in Runtimes |-> None] ELSE owner
       /\ watermark' = IF changed THEN [r \in Runtimes |-> 0] ELSE watermark
       /\ lapsed' = IF changed THEN lapsed \cup Awaited ELSE lapsed
       /\ todo' = [todo EXCEPT ![p] =
                      IF replay_epoch = e
                      THEN {runtime[c] : c \in {d \in Conversations : runtime[d] # None}}
                      ELSE {}]
       /\ Continue(p, "replay", None)
       /\ UNCHANGED <<serverVars, link, conn, lock, rowVars, disk, cv, op,
                      prev, boundVars, sent, twice>>

\* reconcile: session.events.since for the next runtime, if anything of it
\* was seen: the events after the watermark
ReplayNext(g) ==
    LET p == Main(g)
    IN /\ pc[p] = "replay"
       /\ Quiet
       /\ \E r \in todo[p] :
             /\ todo' = [todo EXCEPT ![p] = @ \ {r}]
             /\ IF watermark[r] = 0
                THEN UNCHANGED <<pc, req, ans, num>>
                ELSE request(p, "since", <<r[1], r[2], watermark[r]>>, 0)
       /\ UNCHANGED <<serverVars, link, conn, routeVars, ready, lock, rowVars,
                      disk, cv, op, prev, boundVars, historyVars>>

\* reconcile: the events missed, through the same handler as the live ones; the
\* last one decides the status
ReplayAnswered(g) ==
    LET p == Main(g)
    IN /\ pc[p] = "since" /\ req[p] \in Answers
       /\ Quiet
       /\ IF req[p] = "ok" /\ num[p] > ans[p][3]
          THEN LET r == <<ans[p][1], ans[p][2]>>
               IN handle_upstream_event(r, num[p], log[r][num[p]], ans[p][3])
          ELSE UNCHANGED <<watermark, sent, twice, status>>
       /\ Continue(p, "replay", None)
       /\ UNCHANGED <<serverVars, link, conn, runtime, owner, replay_epoch, ready,
                      lock, present, stored, has, disk, cv, op, prev, todo, boundVars,
                      lapsed>>

\* reconcile: restore every conversation of the registry
Spread(g) ==
    /\ pc[Main(g)] = "replay" /\ todo[Main(g)] = {}
    /\ Quiet
    /\ pc' = [p \in Tasks |->
                 CASE p = Main(g) -> "done"
                   [] p[1] = "one" /\ p[2] = g /\ p[3] \in present -> "queued"
                   [] OTHER -> pc[p]]
    /\ UNCHANGED <<serverVars, link, conn, routeVars, ready, lock, rowVars, disk, cv, op, prev, req, ans, num, todo, boundVars, historyVars>>

(* Mutant: only one of the two routing tables forgets the runtime. *)
RestoreBegin_HalfPopped(g, c) ==
    LET p == One(g, c)
        r == runtime[c]
    IN /\ pc[p] = "queued"
       /\ Quiet
       /\ Cardinality({d \in Conversations : pc[One(g, d)] \notin {"idle", "queued", "done"}})
             < Restores
       /\ runtime' = [runtime EXCEPT ![c] = None]
       /\ UNCHANGED owner
       /\ Continue(p, EnsureFrom(None), None)
       /\ UNCHANGED <<serverVars, link, conn, watermark, replay_epoch, ready,
                      lock, rowVars, disk, cv, op, prev, todo, boundVars,
                      historyVars>>

\* reconcile.one: forget the route and claim the session again
RestoreBegin(g, c) ==
    LET p == One(g, c)
        r == runtime[c]
    IN /\ pc[p] = "queued"
       /\ Quiet
       /\ Cardinality({d \in Conversations : pc[One(g, d)] \notin {"idle", "queued", "done"}})
             < Restores
       /\ runtime' = [runtime EXCEPT ![c] = None]
       /\ owner' = [q \in Runtimes |-> IF q = r THEN None ELSE owner[q]]
       /\ Continue(p, EnsureFrom(None), None)
       /\ UNCHANGED <<serverVars, link, conn, watermark, replay_epoch, ready,
                      lock, rowVars, disk, cv, op, prev, todo, boundVars,
                      historyVars>>

\* reconcile.one: history and status of the restored session
RestoreAsk(g, c) ==
    LET p == One(g, c)
    IN /\ pc[p] = "got"
       /\ request(p, "restore", ans[p], 0)
       /\ UNCHANGED <<serverVars, link, conn, routeVars, ready, lock, rowVars,
                      disk, cv, op, prev, todo, boundVars, historyVars>>

\* reconcile.one: a failed status counts as an agent that is not running
RestoreEnd(g, c) ==
    LET p == One(g, c)
    IN /\ pc[p] = "restore" /\ req[p] \in Answers
       /\ Quiet
       /\ IF req[p] = "yes"
          THEN set_conversation_status(c, "working")
          ELSE IF status[c] = "reconnecting"
          THEN set_conversation_status(c, "idle")
          ELSE UNCHANGED status
       /\ Continue(p, "done", None)
       /\ UNCHANGED <<serverVars, link, conn, routeVars, ready, lock, present,
                      stored, has, disk, cv, op, prev, todo, boundVars, historyVars>>

\* reconcile.one: the conversation could not be restored
RestoreFailed(g, c) ==
    LET p == One(g, c)
    IN /\ pc[p] = "failed"
       /\ status' = [status EXCEPT ![c] = "error"]
       /\ UNCHANGED <<present, stored, has>>
       /\ save
       /\ Continue(p, "done", None)
       /\ UNCHANGED <<serverVars, link, conn, routeVars, ready, lock, cv, op,
                      prev, todo, boundVars, historyVars>>

-----------------------------------------------------------------------------
\* The bridge is killed and started again by systemd: what the registry file
\* holds is what it knows, and of a status whatever the last save held.
Crash ==
    /\ faults < MaxFault /\ conn < MaxConn
    /\ Quiet
    /\ faults' = faults + 1
    /\ link' = "down"
    /\ runtime' = [c \in Conversations |-> None]
    /\ owner' = [r \in Runtimes |-> None]
    /\ watermark' = [r \in Runtimes |-> 0]
    /\ sent' = [r \in Runtimes |-> {}]
    /\ twice' = {} /\ lapsed' = {}
    /\ replay_epoch' = 0 /\ ready' = FALSE
    /\ lock' = [c \in Conversations |-> None]
    /\ present' = disk.present /\ stored' = disk.stored
    /\ has' = disk.has /\ status' \in [Conversations -> Statuses]
    /\ pc' = [p \in Tasks |-> "idle"]
    /\ req' = [p \in Tasks |-> "none"]
    /\ ans' = [p \in Tasks |-> None]
    /\ num' = [p \in Tasks |-> 0]
    /\ todo' = [p \in Tasks |-> {}]
    /\ cv' = [p \in Tasks |-> IF p[1] = "one" THEN p[3] ELSE None]
    /\ op' = [p \in Tasks |-> "none"]
    /\ prev' = [p \in Tasks |-> FALSE]
    /\ UNCHANGED <<serverVars, conn, disk, submits, requests>>

TaskStep(p) ==
    \/ SubmitSend(p) \/ CallSend(p) \/ ClientFailed(p)
    \/ EnsureLocked(p) \/ Recreate(p) \/ EnsureAnswered(p)
    \/ SubmitAnswered(p) \/ CallAnswered(p) \/ DeleteEnd(p) \/ ResetEnd(p)

Reconcile(g) ==
    \/ ReconcileUnready(g) \/ ReconcileReady(g)
    \/ ReplayNext(g) \/ ReplayAnswered(g) \/ Spread(g)

Restore(g, c) ==
    RestoreBegin(g, c) \/ RestoreAsk(g, c) \/ RestoreEnd(g, c) \/ RestoreFailed(g, c)

\* What the bridge and a reachable server do by themselves.
Progress ==
    \/ Connect
    \/ \E p \in Tasks : Serve(p) \/ TaskStep(p)
    \/ \E g \in 1 .. MaxConn : Reconcile(g)
    \/ \E g \in 1 .. MaxConn, c \in Conversations : Restore(g, c)

Next ==
    \/ Progress
    \/ RefreshProvider \/ Crash
    \/ \E restart \in BOOLEAN, late \in SUBSET ClientTasks, unsent \in SUBSET ClientTasks :
          Disconnect(restart, late, unsent)
    \/ \E p \in Tasks : Timeout(p)
    \/ \E s \in Sessions, t \in Events : Report(s, t)
    \/ \E p \in ClientTasks : Cancel(p)
    \/ \E p \in ClientTasks, c \in Conversations :
          \/ \E o \in {"submit", "call"} : Begin(p, o, c)
          \/ DeleteBegin(p, c) \/ ConfigureBegin(p, c)

Spec == Init /\ [][Next]_vars

-----------------------------------------------------------------------------
ServerType ==
    /\ epoch \in Epochs /\ made \in 0 .. MaxSession
    /\ known \subseteq Sessions /\ durable \subseteq Sessions /\ running \subseteq Sessions
    /\ log \in [Runtimes -> Seq(Events)]

RouteType ==
    /\ link \in {"down", "up"} /\ conn \in 0 .. MaxConn
    /\ runtime \in [Conversations -> Runtimes \cup {None}]
    /\ owner \in [Runtimes -> Conversations \cup {None}]
    /\ watermark \in [Runtimes -> Nat] /\ sent \in [Runtimes -> SUBSET Nat]
    /\ twice \subseteq Runtimes /\ lapsed \subseteq Runtimes
    /\ replay_epoch \in Nat /\ ready \in BOOLEAN
    /\ lock \in [Conversations -> Tasks \cup {None}]

RowType ==
    /\ present \subseteq Conversations
    /\ stored \in [Conversations -> Sessions \cup {None}]
    /\ has \in [Conversations -> BOOLEAN]
    /\ status \in [Conversations -> Statuses]
    /\ disk \in [present : SUBSET Conversations,
                 stored : [Conversations -> Sessions \cup {None}],
                 has : [Conversations -> BOOLEAN]]
    /\ submits \in Nat /\ requests \in Nat /\ faults \in Nat

Controls == Waits \cup {"idle", "done", "locking", "got", "failed", "closed",
                       "provider", "replay", "queued"}
Held == Runtimes \cup (Sessions \X Epochs \X Nat) \cup {None}

CallType ==
    /\ pc \in [Tasks -> Controls] /\ req \in [Tasks -> Answers \cup {"none", "sent"}]
    /\ ans \in [Tasks -> Held] /\ num \in [Tasks -> Nat]

TaskType ==
    /\ cv \in [Tasks -> Conversations \cup {None}]
    /\ op \in [Tasks -> {"none", "submit", "call", "interrupt", "respond", "history",
                         "delete", "configure"}]
    /\ prev \in [Tasks -> BOOLEAN] /\ todo \in [Tasks -> SUBSET Runtimes]

TypeOK == ServerType /\ RouteType /\ RowType /\ CallType /\ TaskType

\* The two routing tables stay inverse to each other through rebinding,
\* reconnects, new lives of the server, deletes and resets: an event is never
\* routed to a conversation that talks to another runtime.
RoutesAgree ==
    /\ \A c \in Conversations : runtime[c] # None => owner[runtime[c]] = c
    /\ \A r \in Runtimes : owner[r] # None => runtime[owner[r]] = r

\* Live events and the replays after reconnects forward no event of a runtime
\* twice (handle_upstream_event, lines 6365-6369), however many connections
\* overlap.  The exception is that of section 5 of the README: the watermarks
\* are cleared (6275) while missed events of the runtime are awaited.
ForwardedOnce == twice \subseteq lapsed

\* The session dropped by the fallback of ensure_runtime holds no messages.
FallbackKeepsMessages ==
    [][\A p \in Tasks : (pc[p] = "resume" /\ pc'[p] = "create")
                            => stored[cv[p]] \notin durable]_vars

=============================================================================
