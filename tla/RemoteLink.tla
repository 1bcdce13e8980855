----------------------------- MODULE RemoteLink -----------------------------
(***************************************************************************)
(* The remote conversation list of hermes_bridge.py and what keeps it      *)
(* true: the observer of the WebUI's list invalidations, the coalescing    *)
(* refresh worker, the observer of the selected conversation, and the      *)
(* requests that sign in and out, list, select, create, branch and delete. *)
(*                                                                         *)
(* The bridge is one asyncio loop: an action is the code between two       *)
(* awaits.  The session (RemoteAuth) is reduced to whether its status is   *)
(* connected, the readers of responses (RemoteStream) are left out, and    *)
(* the WebUI is external: it keeps the list, numbers its versions and      *)
(* announces every change on the streams that are open then.               *)
(***************************************************************************)
EXTENDS Naturals, FiniteSets

CONSTANTS
    Handlers,    \* tasks serving client requests
    Workers,     \* refresh worker tasks, by number
    Observers,   \* observer tasks, by number
    Convs,       \* conversations
    None,        \* no conversation
    Saved,       \* the rows of the registry file
    Ops,         \* the requests that may come
    MaxOps,      \* bound: requests served
    MaxVersion,  \* bound: the version other clients stop at
    MaxDrop      \* bound: streams and answers lost

Actors == Handlers \cup Workers

ASSUME TasksAssumption ==
    /\ Workers \subseteq Nat \ {0} /\ Observers \subseteq Nat \ {0}
    /\ Handlers # {} /\ Handlers \cap Workers = {} /\ None \notin Convs /\ Saved \subseteq Convs
    /\ {MaxOps, MaxVersion, MaxDrop} \subseteq Nat

VARIABLES
    members,   \* the conversations the WebUI has
    version,   \* of its list
    ok,        \* the WebUI honours the session in use
    on,        \* remote_auth.status["state"] is connected
    known,     \* conversation_by_remote_session
    rows,      \* registry.conversations
    applied,   \* history: the version of the list applied last
    selected,  \* registry.selected_conversation_id
    observed,  \* remote_observed_conversation_id
    global,    \* remote_observer_tasks["global"], 0 without one
    session,   \* remote_observer_tasks["session"], 0 without one
    worker,    \* remote_refresh_task, 0 without one
    pending,   \* remote_refresh_pending
    obs,       \* the observer tasks
    act,       \* the request and refresh tasks
    heard,     \* history: the newest version whose event was handled
    lost,      \* history: a list request was lost, cancelled or overtaken
    ops, drops

webui == <<members, version, ok>>
list == <<rows, known, applied, selected, lost>>
tasks == <<observed, global, session, obs>>
refresh == <<worker, pending, heard>>
vars == <<members, version, ok, on, rows, known, applied, selected, observed, global, session,
          worker, pending, obs, act, heard, lost, ops, drops>>

NoList == [v |-> 0, rows |-> {}]
Idle == [pc |-> "idle", op |-> "none", conv |-> None, got |-> NoList, old |-> 0,
         want |-> None, then |-> "none", left |-> {}, cancel |-> FALSE]
NoObserver == [pc |-> "none", conv |-> None, inbox |-> 0, cancel |-> FALSE, deaf |-> FALSE]

(* One of the interchangeable request tasks.                               *)
SignIn == CHOOSE h \in Handlers : TRUE

(* The bridge has just started, or the first sign-in has just applied the  *)
(* list and goes on with the contract.                                     *)
Init ==
    /\ members = Saved /\ version = 1
    /\ ok = TRUE /\ rows = Saved /\ selected = None
    /\ \/ /\ on = FALSE /\ known = {} /\ applied = 0
          /\ act = [a \in Actors |-> Idle]
       \/ /\ on = TRUE /\ known = Saved /\ applied = version
          /\ act = [a \in Actors |->
                      IF a = SignIn THEN [Idle EXCEPT !.pc = "ask", !.op = "contract"] ELSE Idle]
    /\ observed = None /\ global = 0 /\ session = 0
    /\ worker = 0 /\ pending = FALSE
    /\ obs = [k \in Observers |-> NoObserver]
    /\ heard = 0 /\ lost = FALSE /\ ops = 0 /\ drops = 0

(* A new task takes any number that is free.                               *)
OneOf(S) == CHOOSE k \in S : TRUE
Alive(k) == k # 0 /\ obs[k].pc # "none"
Working(w) == w # 0 /\ act[w].pc # "idle"

(* Task numbers nobody holds or waits for.                                 *)
Held == {act[a].old : a \in Actors}
FreshObservers == {k \in Observers \ Held : ~Alive(k)}
FreshWorkers == {w \in Workers \ Held : ~Working(w)}

-----------------------------------------------------------------------------
(* The WebUI. *)

(* The list changes and every open list stream is told.                    *)
Announce(o) ==
    [k \in Observers |->
       IF o[k].pc = "read" /\ o[k].conv = None THEN [o[k] EXCEPT !.inbox = version + 1] ELSE o[k]]

Changed(m) ==
    /\ members' = m /\ version' = version + 1 /\ UNCHANGED ok
    /\ obs' = Announce(obs)

(* Another client adds or removes a conversation.                          *)
OtherClient(c) ==
    /\ version < MaxVersion
    /\ Changed(IF c \in members THEN members \ {c} ELSE members \cup {c})
    /\ UNCHANGED <<on, list, observed, global, session, refresh, act, ops, drops>>

(* The WebUI ends the session: the next request is challenged.             *)
Expire ==
    /\ ok /\ drops < MaxDrop /\ drops' = drops + 1
    /\ ok' = FALSE
    /\ UNCHANGED <<members, version, on, list, tasks, refresh, act, ops>>

-----------------------------------------------------------------------------
(* Observers. *)

(* create_task of an observer loop; conv is None for the global one.       *)
Start(o, k, c) == [o EXCEPT ![k] = [NoObserver EXCEPT !.pc = "loop", !.conv = c]]

Cancel(o, k) == IF k # 0 /\ o[k].pc # "none" THEN [o EXCEPT ![k].cancel = TRUE] ELSE o

Ask(a, op, c) == act' = [act EXCEPT ![a] = [Idle EXCEPT !.pc = "ask", !.op = op, !.conv = c]]

(* What an actor does after observe_remote_conversation: r and s are the   *)
(* rows and the selection by then.  A deletion drops the row, a sign-in    *)
(* goes on with the contract, a refresh worker sleeps.                     *)
Continue(a, then, c, r, s) ==
    /\ rows' = IF then = "drop" THEN r \ {c} ELSE r
    /\ selected' = IF then = "drop" /\ s = c THEN None ELSE s
    /\ CASE then = "contract" -> Ask(a, "contract", None)
         [] then = "rest" -> act' = [act EXCEPT ![a] = [Idle EXCEPT !.pc = "rest"]]
         [] OTHER -> act' = [act EXCEPT ![a] = Idle]

(* The tail of observe_remote_conversation: a new observer if signed in    *)
(* and the conversation is listed.                                         *)
Observe(c, o, r) ==
    /\ observed' = c
    /\ IF c = None \/ ~on \/ c \notin r
         THEN obs' = o /\ session' = 0
         ELSE /\ FreshObservers # {}
              /\ session' = OneOf(FreshObservers)
              /\ obs' = Start(o, OneOf(FreshObservers), c)

(* observe_remote_conversation: nothing to do, or the present observer is  *)
(* stopped first (stop_remote_observer), which waits for it.               *)
observe_remote_conversation(a, c, then, r, s, o) ==
    \/ /\ c = observed /\ (c = None \/ Alive(session))
       /\ Continue(a, then, act[a].conv, r, s)
       /\ obs' = o /\ UNCHANGED <<observed, session>>
    \/ /\ ~(c = observed /\ (c = None \/ Alive(session))) /\ session = 0
       /\ Observe(c, o, r)
       /\ Continue(a, then, act[a].conv, r, s)
    \/ /\ ~(c = observed /\ (c = None \/ Alive(session))) /\ session # 0
       /\ session' = 0 /\ UNCHANGED observed
       /\ obs' = Cancel(o, session)
       /\ act' = [act EXCEPT ![a] = [@ EXCEPT !.pc = "observe", !.old = session,
                                              !.want = c, !.then = then]]
       /\ rows' = r /\ selected' = s

(* The stopped observer has ended: observe what was asked for.  A refresh  *)
(* goes on with the sessions it knows: those of the rows, which are its    *)
(* own unless another list has replaced them meanwhile.                    *)
ObserverStopped(a) ==
    /\ act[a].pc = "observe" /\ ~act[a].cancel /\ ~Alive(act[a].old)
    /\ Observe(act[a].want, obs, rows)
    /\ Continue(a, act[a].then, act[a].conv, rows, selected)
    /\ known' = CASE act[a].op # "list"        -> known
                  [] act[a].got.v = applied   -> rows
                  [] OTHER                    -> act[a].got.rows
    /\ UNCHANGED <<webui, on, applied, lost, global, refresh, ops, drops>>

(* start_remote_observers: the list observer unless it runs, then the one  *)
(* of the selected conversation.                                           *)
start_remote_observers(a) ==
    \/ /\ ~on
       /\ act' = [act EXCEPT ![a] = Idle]
       /\ UNCHANGED <<rows, selected, tasks>>
    \/ /\ on /\ Alive(global)
       /\ observe_remote_conversation(a, selected, "end", rows, selected, obs)
       /\ UNCHANGED global
    \/ /\ on /\ ~Alive(global) /\ FreshObservers # {}
       /\ global' = OneOf(FreshObservers)
       /\ LET o == Start(obs, OneOf(FreshObservers), None)
              more == FreshObservers \ {OneOf(FreshObservers)}
          IN IF session = 0 /\ selected \in rows
               THEN /\ more # {}
                    /\ observed' = selected /\ session' = OneOf(more)
                    /\ obs' = Start(o, OneOf(more), selected)
                    /\ Continue(a, "end", None, rows, selected)
               ELSE observe_remote_conversation(a, selected, "end", rows, selected, o)

At(k, pc) == obs[k].pc = pc /\ ~obs[k].cancel
Over(k) ==
    /\ obs' = [obs EXCEPT ![k] = NoObserver]
    /\ global' = IF global = k THEN 0 ELSE global
    /\ session' = IF session = k THEN 0 ELSE session

(* The head of _remote_global_events_loop and _remote_session_events_loop. *)
ObserverLoop(k) ==
    /\ At(k, "loop")
    /\ IF on /\ (obs[k].conv # None => observed = obs[k].conv /\ obs[k].conv \in rows)
         THEN obs' = [obs EXCEPT ![k].pc = "open"] /\ UNCHANGED <<global, session>>
         ELSE Over(k)
    /\ UNCHANGED <<webui, on, list, observed, refresh, act, ops, drops>>

(* open_sse: the stream is open, or the challenge has ended the session.   *)
ObserverOpen(k) ==
    /\ At(k, "open")
    /\ \/ /\ ok
          /\ obs' = [obs EXCEPT ![k].pc = "read"] /\ UNCHANGED <<on, global, session>>
       \/ /\ ~ok
          /\ on' = FALSE
          /\ Over(k)
    /\ UNCHANGED <<webui, list, observed, refresh, act, ops, drops>>

(* The endpoint does not exist: an older WebUI is not observed.            *)
ObserverUnavailable(k) ==
    /\ At(k, "open") /\ ok /\ drops < MaxDrop /\ drops' = drops + 1
    /\ Over(k)
    /\ UNCHANGED <<webui, on, list, observed, refresh, act, ops>>

(* The stream ends: end of file, a reset, a timeout; back off and reopen.  *)
(* What was announced and not read is gone.                                *)
ObserverDrop(k) ==
    /\ At(k, "read")
    /\ ok => drops < MaxDrop
    /\ drops' = IF ok THEN drops + 1 ELSE drops
    /\ obs' = [obs EXCEPT ![k] = [@ EXCEPT !.pc = "loop", !.inbox = 0]]
    /\ UNCHANGED <<webui, on, list, observed, global, session, refresh, act, ops>>

(* A cancelled observer ends at its await; one that never ran leaves no    *)
(* trace, and its entry was popped by the canceller.  One that is in       *)
(* start_remote_stream for a turn of its conversation may be waiting there *)
(* for the reader it replaces: stop_remote_stream suppresses the           *)
(* cancellation, the closed stream ends and the loop goes on.              *)
ObserverCancelled(k) ==
    /\ obs[k].cancel
    /\ \/ Over(k)
       \/ /\ obs[k].pc = "read" /\ obs[k].conv # None
          /\ obs' = [obs EXCEPT ![k] = [@ EXCEPT !.pc = "loop", !.inbox = 0,
                                                 !.cancel = FALSE, !.deaf = TRUE]]
          /\ UNCHANGED <<global, session>>
    /\ UNCHANGED <<webui, on, list, observed, refresh, act, ops, drops>>

-----------------------------------------------------------------------------
(* The refresh worker. *)

(* The stream hands over what was announced.                               *)
_consume_observer_sse(k) ==
    /\ At(k, "read") /\ obs[k].inbox # 0
    /\ obs' = [obs EXCEPT ![k].inbox = 0]
    /\ heard' = obs[k].inbox

(* Mutant: an invalidation that meets a running worker is left to it *)
request_remote_refresh_Idle(k) ==
    /\ _consume_observer_sse(k)
    /\ IF Working(worker)
         THEN UNCHANGED <<worker, act, pending>>
         ELSE /\ pending' = TRUE /\ FreshWorkers # {}
              /\ worker' = OneOf(FreshWorkers)
              /\ act' = [act EXCEPT ![OneOf(FreshWorkers)] = [Idle EXCEPT !.pc = "rest"]]
    /\ UNCHANGED <<webui, on, list, observed, global, session, ops, drops>>

(* sessions_changed marks the list dirty and starts a worker without one.  *)
request_remote_refresh(k) ==
    /\ _consume_observer_sse(k)
    /\ pending' = TRUE
    /\ IF Working(worker)
         THEN UNCHANGED <<worker, act>>
         ELSE /\ FreshWorkers # {}
              /\ worker' = OneOf(FreshWorkers)
              /\ act' = [act EXCEPT ![OneOf(FreshWorkers)] = [Idle EXCEPT !.pc = "rest"]]
    /\ UNCHANGED <<webui, on, list, observed, global, session, ops, drops>>

(* _remote_refresh_worker: while the list is dirty, clear the mark and ask *)
(* for the list; otherwise end, with no await between the two.             *)
_remote_refresh_worker(w) ==
    /\ act[w].pc = "rest" /\ ~act[w].cancel
    /\ \/ /\ pending /\ on
          /\ pending' = FALSE
          /\ Ask(w, "list", None)
          /\ UNCHANGED <<worker, lost>>
       \/ /\ pending /\ ~on
          /\ pending' = FALSE /\ lost' = TRUE
          /\ act' = [act EXCEPT ![w] = [Idle EXCEPT !.pc = "rest"]]
          /\ UNCHANGED worker
       \/ /\ ~pending
          /\ worker' = IF worker = w THEN 0 ELSE worker
          /\ act' = [act EXCEPT ![w] = Idle]
          /\ UNCHANGED <<pending, lost>>
    /\ UNCHANGED <<webui, on, rows, known, applied, selected, tasks, heard, ops, drops>>

(* Mutant: the worker does not react to its cancellation while it waits for an answer *)
WorkerCancelled_Deaf(w) ==
    /\ act[w].cancel /\ act[w].pc # "told"
    /\ act' = [act EXCEPT ![w] = Idle]
    /\ worker' = IF worker = w THEN 0 ELSE worker
    /\ lost' = TRUE
    /\ UNCHANGED <<webui, on, rows, known, applied, selected, tasks, pending, heard, ops, drops>>

(* The cancellation of stop_remote_observers reaches the worker; or it is  *)
(* suppressed where the worker waits for a task it has cancelled itself:   *)
(* the observer in stop_remote_observer, which is cancelled once more, or  *)
(* a reader after it has applied the list.                                 *)
WorkerCancelled(w) ==
    /\ act[w].cancel
    /\ \/ /\ act[w].pc # "observe"
          /\ act' = [act EXCEPT ![w] = Idle]
          /\ worker' = IF worker = w THEN 0 ELSE worker
          /\ lost' = TRUE
          /\ UNCHANGED obs
       \/ /\ act[w].pc \in {"observe", "rest"}
          /\ act' = [act EXCEPT ![w].cancel = FALSE]
          /\ obs' = IF act[w].pc = "observe" THEN Cancel(obs, act[w].old) ELSE obs
          /\ UNCHANGED <<worker, lost>>
    /\ UNCHANGED <<webui, on, rows, known, applied, selected, observed, global, session, pending,
                   heard, ops, drops>>

(* refresh_remote_conversations with its answer: the list replaces the     *)
(* rows, except that a selected row which is working or waiting is kept    *)
(* (busy); a selection that is gone is dropped and no longer observed,     *)
(* which the sessions it knows wait for.                                   *)
refresh_remote_conversations(a, busy, then) ==
    LET got == act[a].got
        in  == got.rows \cup {c \in rows : c = selected /\ busy}
    IN /\ act[a].pc = "told" /\ act[a].op = "list" /\ ~act[a].cancel
       /\ applied' = got.v
       /\ lost' = (got.v < applied \/ (lost /\ got.v < heard))
       /\ IF selected \in in \cup {None}
            THEN /\ Continue(a, then, None, in, selected)
                 /\ UNCHANGED <<obs, observed, session>>
            ELSE observe_remote_conversation(a, None, then, in, None, obs)
       /\ known' = IF act'[a].pc = "observe" THEN known ELSE in
       /\ UNCHANGED <<webui, on, global, refresh, ops, drops>>

-----------------------------------------------------------------------------
(* Requests. *)

(* A request comes in and runs to its first await.                         *)
Begin(h, op, c) ==
    /\ act[h] = Idle /\ ops < MaxOps /\ ops' = ops + 1
    /\ \/ /\ op = "login" /\ c = None           \* connecting_status, then the sign-in
          /\ on' = FALSE
          /\ Ask(h, "login", None)
          /\ UNCHANGED <<list, tasks>>
       \/ /\ op \in {"status", "list"} /\ c = None
          /\ op = "list" => on
          /\ Ask(h, op, None)
          /\ UNCHANGED <<on, list, tasks>>
       \/ /\ op = "select" /\ c = None          \* nothing is selected any more
          /\ observe_remote_conversation(h, None, "end", rows, None, obs)
          /\ UNCHANGED <<on, known, applied, lost, global>>
       \/ /\ op = "select" /\ c \in rows /\ (c \in known \/ ~on)
          /\ observe_remote_conversation(h, c, "end", rows, c, obs)
          /\ UNCHANGED <<on, known, applied, lost, global>>
       \/ /\ op = "select" /\ c \in rows \ known /\ on   \* ensure_remote_session asks
          /\ selected' = c
          /\ Ask(h, "ensure", c)
          /\ UNCHANGED <<on, rows, known, applied, lost, tasks>>
       \/ /\ op \in {"create", "branch"} /\ c \in Convs \ (rows \cup members) /\ on
          /\ Ask(h, IF op = "create" THEN op ELSE "duplicate", c)
          /\ UNCHANGED <<on, list, tasks>>
       \/ /\ op = "delete" /\ c \in rows
          /\ Ask(h, op, c)
          /\ UNCHANGED <<on, list, tasks>>
    /\ UNCHANGED <<webui, refresh, drops>>

Session == {"login", "status", "logout"}

(* The WebUI answers: sessions are created, copied and deleted, the list   *)
(* is what it is now.                                                      *)
Serve(a) ==
    LET op == act[a].op
        c  == act[a].conv
        m  == CASE op \in {"create", "duplicate"} -> members \cup {c}
                [] op \in {"delete", "undo"} -> members \ {c}
                [] OTHER -> members
    IN /\ act[a].pc = "ask" /\ (ok \/ op \in Session)
       /\ op \in {"snapshot", "truncate", "ensure"} => c \in members
       /\ IF m # members THEN Changed(m) ELSE UNCHANGED <<webui, obs>>
       /\ act' = [act EXCEPT ![a] =
                     [@ EXCEPT !.pc = "told",
                               !.got = IF op = "list" THEN [v |-> version, rows |-> members]
                                                      ELSE NoList]]
       /\ UNCHANGED <<on, list, observed, global, session, refresh, ops, drops>>

(* The request fails: the connection is lost, the conversation is gone, or *)
(* the session is and its status says so.  Only what is suppressed goes    *)
(* on: a worker rests, a selection is observed, a contract stays unknown,  *)
(* and a branch that cannot be cut is taken back.                          *)
Fails(a) ==
    LET op   == act[a].op
        gone == op \in {"snapshot", "truncate", "ensure"} /\ act[a].conv \notin members
    IN /\ act[a].pc = "ask"
       /\ ok /\ ~gone => drops < MaxDrop
       /\ drops' = IF ok /\ ~gone THEN drops + 1 ELSE drops
       /\ lost' = (lost \/ op = "list")
       /\ on' = (on /\ ok /\ op \notin {"logout", "status"})
       /\ ok' = (ok /\ op # "logout")
       /\ act' = CASE op = "list" /\ a \in Workers -> [act EXCEPT ![a] = [Idle EXCEPT !.pc = "rest"]]
                   [] op = "contract" -> [act EXCEPT ![a].pc = "told"]
                   [] op = "ensure" -> [act EXCEPT ![a] = [@ EXCEPT !.pc = "told", !.then = "unknown"]]
                   [] op = "truncate" -> [act EXCEPT ![a].op = "undo"]
                   [] OTHER -> [act EXCEPT ![a] = Idle]
       /\ UNCHANGED <<members, version, rows, known, applied, selected, tasks, refresh, ops>>

Told(h, op) == act[h].pc = "told" /\ act[h].op = op

(* remote.login once the session is committed: the list, then the stream   *)
(* contract, then the observers.                                           *)
SignedIn(h) ==
    /\ Told(h, "login")
    /\ on' = TRUE /\ ok' = TRUE
    /\ act' = [act EXCEPT ![h] = [Idle EXCEPT !.pc = "ask", !.op = "list", !.then = "contract"]]
    /\ UNCHANGED <<members, version, list, tasks, refresh, ops, drops>>

(* remote.status: a connected session is negotiated and observed.          *)
Probed(h) ==
    /\ Told(h, "status")
    /\ on' = ok
    /\ IF ok THEN Ask(h, "contract", None) ELSE act' = [act EXCEPT ![h] = Idle]
    /\ UNCHANGED <<webui, list, tasks, refresh, ops, drops>>

(* probe_remote_contract has settled, one way or the other.                *)
ContractRead(h) ==
    /\ Told(h, "contract")
    /\ start_remote_observers(h)
    /\ UNCHANGED <<webui, on, known, applied, lost, refresh, ops, drops>>

(* select_conversation once ensure_remote_session has returned or failed.  *)
Selected(h) ==
    /\ Told(h, "ensure")
    /\ known' = IF act[h].then = "unknown" THEN known ELSE known \cup {act[h].conv}
    /\ observe_remote_conversation(h, act[h].conv, "end", rows, selected, obs)
    /\ UNCHANGED <<webui, on, applied, lost, global, refresh, ops, drops>>

(* create_conversation: the row is added and selected.                     *)
Created(h) ==
    /\ Told(h, "create")
    /\ rows' = rows \cup {act[h].conv} /\ known' = known \cup {act[h].conv}
    /\ selected' = act[h].conv
    /\ act' = [act EXCEPT ![h] = Idle]
    /\ UNCHANGED <<webui, on, applied, lost, tasks, refresh, ops, drops>>

(* remote_branch_conversation without a native branch: the copy is cut to  *)
(* length and renamed, read, listed and selected.  A cut that fails        *)
(* deletes the copy.                                                       *)
Branched(h) ==
    LET c == act[h].conv
    IN /\ \/ /\ Told(h, "duplicate") /\ Ask(h, "truncate", c)
             /\ UNCHANGED <<rows, known, selected, tasks>>
          \/ /\ Told(h, "truncate") /\ Ask(h, "snapshot", c)
             /\ UNCHANGED <<rows, known, selected, tasks>>
          \/ /\ Told(h, "snapshot")
             /\ known' = known \cup {c}
             /\ observe_remote_conversation(h, c, "end", rows \cup {c}, c, obs)
             /\ UNCHANGED global
          \/ /\ Told(h, "undo") /\ act' = [act EXCEPT ![h] = Idle]
             /\ UNCHANGED <<rows, known, selected, tasks>>
       /\ UNCHANGED <<webui, on, applied, lost, refresh, ops, drops>>

(* delete_conversation: no longer observed, then the row is dropped.       *)
Deleted(h) ==
    /\ Told(h, "delete")
    /\ known' = known \ {act[h].conv}
    /\ IF observed = act[h].conv
         THEN observe_remote_conversation(h, None, "drop", rows, selected, obs)
         ELSE /\ Continue(h, "drop", act[h].conv, rows, selected)
              /\ UNCHANGED <<obs, observed, session>>
    /\ UNCHANGED <<webui, on, applied, lost, global, refresh, ops, drops>>

(* stop_remote_observer: the observer is popped and cancelled.             *)
stop_remote_observer(h, left, key) ==
    LET k == IF key = "global" THEN global ELSE session
    IN /\ act' = [act EXCEPT ![h] = [Idle EXCEPT !.pc = "stop", !.left = left \ {key}, !.old = k]]
       /\ obs' = Cancel(obs, k)
       /\ global' = IF key = "global" THEN 0 ELSE global
       /\ session' = IF key = "session" THEN 0 ELSE session
       /\ UNCHANGED <<observed, worker, pending, lost>>

(* The rest of stop_remote_observers: nothing is observed, the worker is   *)
(* cancelled and awaited.                                                  *)
DropWorker(h) ==
    /\ observed' = None /\ worker' = 0 /\ pending' = FALSE
    /\ lost' = (lost \/ pending \/ Working(worker))
    /\ act' = [a \in Actors |->
                 IF a = h THEN [Idle EXCEPT !.pc = "drain", !.old = worker]
                 ELSE IF a = worker /\ Working(worker) THEN [act[a] EXCEPT !.cancel = TRUE]
                 ELSE act[a]]
    /\ UNCHANGED <<global, session, obs>>

(* remote.logout: the observers registered now are stopped one by one, in  *)
(* no particular order, each awaited ...                                   *)
logout(h) ==
    LET keys == (IF global # 0 THEN {"global"} ELSE {}) \cup (IF session # 0 THEN {"session"} ELSE {})
    IN /\ act[h] = Idle /\ ops < MaxOps /\ ops' = ops + 1
       /\ IF keys = {} THEN DropWorker(h) ELSE \E key \in keys : stop_remote_observer(h, keys, key)
       /\ UNCHANGED <<webui, on, rows, known, applied, selected, heard, drops>>

(* ... then the worker ...                                                 *)
stop_remote_observers(h) ==
    /\ act[h].pc = "stop" /\ ~Alive(act[h].old)
    /\ IF act[h].left = {}
         THEN DropWorker(h)
         ELSE \E key \in act[h].left : stop_remote_observer(h, act[h].left, key)
    /\ UNCHANGED <<webui, on, rows, known, applied, selected, heard, ops, drops>>

(* ... and the session is ended, here whatever the WebUI answers.          *)
SignOut(h) ==
    /\ act[h].pc = "drain" /\ ~Working(act[h].old)
    /\ Ask(h, "logout", None)
    /\ UNCHANGED <<webui, on, list, tasks, refresh, ops, drops>>

SignedOut(h) ==
    /\ Told(h, "logout")
    /\ on' = FALSE /\ ok' = FALSE
    /\ act' = [act EXCEPT ![h] = Idle]
    /\ UNCHANGED <<members, version, list, tasks, refresh, ops, drops>>

-----------------------------------------------------------------------------

Listed(a) ==
    \E busy \in BOOLEAN :
        refresh_remote_conversations(a, busy, IF a \in Workers THEN "rest" ELSE act[a].then)

ObserverStep(k) ==
    \/ ObserverLoop(k) \/ ObserverOpen(k) \/ ObserverCancelled(k)
    \/ request_remote_refresh(k) \/ (~ok /\ ObserverDrop(k))

ActorStep(a) == Serve(a) \/ ObserverStopped(a) \/ Listed(a) \/ Fails(a)

HandlerStep(h) ==
    \/ SignedIn(h) \/ Probed(h) \/ ContractRead(h) \/ Selected(h) \/ Created(h)
    \/ Branched(h) \/ Deleted(h) \/ stop_remote_observers(h) \/ SignOut(h) \/ SignedOut(h)

WorkerStep(w) == _remote_refresh_worker(w) \/ WorkerCancelled(w)

Next ==
    \/ \E c \in Convs : OtherClient(c)
    \/ Expire
    \/ \E a \in Actors : ObserverStopped(a)
    \/ \E k \in Observers : ObserverLoop(k)
    \/ \E k \in Observers : ObserverOpen(k)
    \/ \E k \in Observers : ObserverUnavailable(k)
    \/ \E k \in Observers : ObserverDrop(k)
    \/ \E k \in Observers : ObserverCancelled(k)
    \/ \E k \in Observers : request_remote_refresh(k)
    \/ \E w \in Workers : _remote_refresh_worker(w)
    \/ \E w \in Workers : WorkerCancelled(w)
    \/ \E a \in Actors : Listed(a)
    \/ \E h \in Handlers, op \in Ops, c \in Convs \cup {None} : Begin(h, op, c)
    \/ \E a \in Actors : Serve(a)
    \/ \E a \in Actors : Fails(a)
    \/ \E h \in Handlers : SignedIn(h)
    \/ \E h \in Handlers : Probed(h)
    \/ \E h \in Handlers : ContractRead(h)
    \/ \E h \in Handlers : Selected(h)
    \/ \E h \in Handlers : Created(h)
    \/ \E h \in Handlers : Branched(h)
    \/ \E h \in Handlers : Deleted(h)
    \/ \E h \in Handlers : logout(h)
    \/ \E h \in Handlers : stop_remote_observers(h)
    \/ \E h \in Handlers : SignOut(h)
    \/ \E h \in Handlers : SignedOut(h)

Spec == Init /\ [][Next]_vars

(* The event loop runs the tasks that can run, the WebUI answers or the    *)
(* request times out, and it closes the streams of a session it has ended. *)
Progress ==
    \/ \E k \in Observers : ObserverStep(k)
    \/ \E a \in Actors : ActorStep(a)
    \/ \E h \in Handlers : HandlerStep(h)
    \/ \E w \in Workers : WorkerStep(w)

FairSpec == Spec /\ WF_vars(Progress)

-----------------------------------------------------------------------------
(* Properties. *)

Operations == {"none", "login", "status", "logout", "list", "contract", "ensure", "create",
               "duplicate", "truncate", "snapshot", "undo", "delete"}
Tasks ==
    [pc : {"idle", "ask", "told", "observe", "stop", "drain", "rest"}, op : Operations,
     conv : Convs \cup {None}, got : [v : Nat, rows : SUBSET Convs], old : Nat,
     want : Convs \cup {None}, then : {"none", "end", "drop", "contract", "rest", "unknown"},
     left : SUBSET {"global", "session"}, cancel : BOOLEAN]
Watches ==
    [pc : {"none", "loop", "open", "read"}, conv : Convs \cup {None}, inbox : Nat,
     cancel : BOOLEAN, deaf : BOOLEAN]

TypeOK ==
    /\ members \subseteq Convs /\ version \in Nat
    /\ {ok, on, pending, lost} \subseteq BOOLEAN
    /\ rows \subseteq Convs /\ known \subseteq Convs
    /\ selected \in Convs \cup {None} /\ observed \in Convs \cup {None}
    /\ global \in Observers \cup {0} /\ session \in Observers \cup {0}
    /\ worker \in Workers \cup {0}
    /\ applied \in Nat /\ heard \in Nat /\ ops \in Nat /\ drops \in Nat
    /\ obs \in [Observers -> Watches] /\ act \in [Actors -> Tasks]

(* No invalidation is lost by coalescing: while the rows are older than a  *)
(* change the bridge was told of, the list is marked dirty with a worker   *)
(* to serve it, or a request that will bring the change is under way.      *)
(* Excused are a request that failed, was cancelled or was overtaken by    *)
(* the answer to an older one, until a newer list is applied.              *)
NoInvalidationLost ==
    (on /\ ~lost /\ applied < heard)
    => \/ pending /\ worker # 0 /\ act[worker].pc \in {"ask", "told", "observe", "rest"}
       \/ \E a \in Actors : /\ ~act[a].cancel /\ act[a].op = "list"
                            /\ act[a].pc = "ask" \/ (act[a].pc = "told" /\ act[a].got.v >= heard)

(* Everyone comes to rest: a request never waits for ever on the observer  *)
(* or the worker it has stopped, the worker ends once the list is clean,   *)
(* and a cancelled observer ends.  Excused is who waits for an observer    *)
(* that suppressed its cancellation, as long as that one runs; nobody else *)
(* is held up by it, a sign-out that waits for the worker included.        *)
Settles ==
    LET Rests(a) ==
            \/ act[a].pc = "idle"
            \/ act[a].pc \in {"observe", "stop"} /\ Alive(act[a].old) /\ obs[act[a].old].deaf
    IN []<>((\A a \in Actors : Rests(a)) /\ (\A k \in Observers : ~obs[k].cancel))

=============================================================================
