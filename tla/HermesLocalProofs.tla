------------------------- MODULE HermesLocalProofs -------------------------
(***************************************************************************)
(* Proofs about HermesLocal, for every number of conversations, clients,   *)
(* connections, lives of the server, sessions and faults.                  *)
(*                                                                         *)
(* RoutesAgree is not inductive: an answer that binds a runtime overwrites *)
(* the owner of that runtime.  IInv says why nobody owns it: a session     *)
(* belongs to one conversation, wherever it is named (the registry, its    *)
(* file, a route, a call under way), and the calls that lead to a binding  *)
(* are made by the holder of the conversation's lock while the             *)
(* conversation has no route.                                              *)
(*                                                                         *)
(* ForwardedOnce needs Replays: of a runtime whose watermark was not       *)
(* cleared while a replay of it was awaited, no more was forwarded than    *)
(* the watermark says, and a replay asks for what follows an event seen.   *)
(***************************************************************************)
EXTENDS HermesLocal, TLAPS

USE DEF historyVars

Asking == {"resume", "create"}

(* The kind of a task tells which control states it visits and which       *)
(* conversation it works on.                                               *)
Kind(p) ==
    /\ p[1] = "main" => pc[p] \in {"idle", "provider", "replay", "since", "done"}
    /\ p[1] = "one" => /\ cv[p] = p[3]
                       /\ pc[p] \in {"idle", "queued", "locking", "resume", "create",
                                     "got", "failed", "restore", "done"}
    /\ p[1] = "client" =>
          /\ pc[p] \in {"idle", "locking", "resume", "create", "got", "failed",
                        "prompt", "call", "close", "closed"}
          /\ pc[p] # "idle" => cv[p] \in Conversations

(* A reconciliation runs once per connection, and starts its restorations  *)
(* when it ends.                                                           *)
Spawned(p) ==
    /\ p[1] = "main" /\ p[2] > conn => pc[p] = "idle"
    /\ p[1] = "one" /\ pc[p] # "idle" => pc[Main(p[2])] = "done"

(* What an answer holds. *)
Fits(p) ==
    /\ pc[p] \in Asking /\ req[p] = "ok" => ans[p] \in Runtimes
    /\ pc[p] = "since" /\ req[p] \in {"sent", "ok"} =>
          ans[p] \in Sessions \X Epochs \X Nat
    /\ pc[p] = "since" /\ req[p] = "ok" =>
          num[p] <= Len(log[<<ans[p][1], ans[p][2]>>])

Control == \A p \in Tasks : Kind(p) /\ Spawned(p) /\ Fits(p)

(* A session is asked for by the holder of the conversation's lock, while  *)
(* the conversation has no route.                                          *)
LockHeld ==
    \A p \in Tasks : pc[p] \in Asking => /\ lock[cv[p]] = p
                                         /\ runtime[cv[p]] = None

(* The places that name session s for conversation c. *)
Names(p, s) ==
    \/ pc[p] = "resume" /\ num[p] = s
    \/ pc[p] \in Asking /\ req[p] = "ok" /\ ans[p][1] = s

Refers(s, c) ==
    \/ stored[c] = s \/ disk.stored[c] = s
    \/ runtime[c] # None /\ runtime[c][1] = s
    \/ \E p \in Tasks : cv[p] = c /\ Names(p, s)

SessionsApart ==
    \A s \in Sessions, c \in Conversations :
        Refers(s, c) => /\ s <= made
                        /\ \A d \in Conversations : Refers(s, d) => d = c

(* A session is known or durable only once it was created. *)
ServerOK == \A s \in known \cup durable \cup running : s <= made

(* A resume asks for the stored session, unless a reset forgot that one;   *)
(* the session that Hermes did not find stays unknown.                     *)
Missing ==
    \A p \in Tasks : pc[p] = "resume" =>
        /\ req[p] = "sent" => stored[cv[p]] \in {num[p], None}
        /\ req[p] = "notfound" => stored[cv[p]] \notin known \cup durable

IInv ==
    /\ TypeOK /\ Control /\ LockHeld /\ RoutesAgree
    /\ SessionsApart /\ ServerOK /\ Missing

-----------------------------------------------------------------------------
(* Tasks. *)

LEMMA ClientFacts ==
    ASSUME NEW k \in Clients
    PROVE  Client(k) \in Tasks /\ Client(k) \in ClientTasks /\ Client(k)[1] = "client"
  BY DEF Client, ClientTasks, Tasks

LEMMA MainFacts ==
    ASSUME NEW g \in 1 .. MaxConn
    PROVE  Main(g) \in Tasks /\ Main(g)[1] = "main" /\ Main(g)[2] = g
  BY DEF Main, Tasks

LEMMA OneFacts ==
    ASSUME NEW g \in 1 .. MaxConn, NEW c \in Conversations
    PROVE  One(g, c) \in Tasks /\ One(g, c)[1] = "one"
           /\ One(g, c)[2] = g /\ One(g, c)[3] = c
  BY DEF One, Tasks

(* Three kinds of tasks, told apart by their first component.              *)
LEMMA TaskFacts ==
    ASSUME NEW p \in Tasks
    PROVE  /\ p[1] \in {"client", "main", "one"} /\ p # None
           /\ p \in ClientTasks <=> p[1] = "client"
           /\ p[1] = "main" => p[2] \in 1 .. MaxConn /\ p = Main(p[2])
           /\ p[1] = "one" => /\ p[2] \in 1 .. MaxConn /\ p[3] \in Conversations
                              /\ p = One(p[2], p[3])
<1>1. p # None
  BY LocalAssumption
<1>2. CASE p \in ClientTasks
  BY <1>1, <1>2 DEF ClientTasks, Client
<1>3. CASE \E g \in 1 .. MaxConn : p = Main(g)
  BY <1>1, <1>3 DEF ClientTasks, Client, Main
<1>4. CASE \E g \in 1 .. MaxConn, c \in Conversations : p = One(g, c)
  BY <1>1, <1>4 DEF ClientTasks, Client, One
<1> QED
  BY <1>2, <1>3, <1>4 DEF Tasks

(* The other tasks are left alone.                                         *)
Same(q) ==
    /\ pc'[q] = pc[q] /\ req'[q] = req[q] /\ ans'[q] = ans[q]
    /\ num'[q] = num[q] /\ cv'[q] = cv[q]

Moves(p) == \A q \in Tasks \ {p} : Same(q)

(* The step of one task that leaves it in order keeps Control.             *)
LEMMA ControlKept ==
    ASSUME TypeOK, Control, NEW p \in Tasks, Moves(p), Kind(p)', Fits(p)',
           conn' = conn, log' = log,
           \/ pc'[p] = pc[p]
           \/ /\ pc[p] # "done"
              /\ pc'[p] = "idle" \/ pc[p] # "idle" \/ p[1] = "client"
    PROVE  Control'
<1>1. ASSUME NEW q \in Tasks PROVE Kind(q)' /\ Fits(q)'
  BY DEF Control, Moves, Same, Kind, Fits
<1> QED
  BY <1>1, TaskFacts, MainFacts DEF Control, Moves, Same, Spawned

-----------------------------------------------------------------------------
(* Steps that have nothing to do with sessions. *)

(* No place names a session that it did not name before.                   *)
Fewer == \A s \in Sessions, c \in Conversations : Refers(s, c)' => Refers(s, c)

LEMMA FewerApart ==
    ASSUME SessionsApart, Fewer, made' = made
    PROVE  SessionsApart'
  BY DEF SessionsApart, Fewer

(* Nobody begins or ends a call for a session, no session and no route     *)
(* changes.                                                                *)
Calm ==
    /\ UNCHANGED <<made, known, durable, runtime, owner, lock, stored>>
    /\ running' \subseteq running
    /\ disk'.stored \in {disk.stored, stored}
    /\ \A q \in Tasks : Same(q) \/ (pc[q] \notin Asking /\ pc'[q] \notin Asking)

LEMMA CalmKept ==
    ASSUME IInv, Calm, TypeOK', Control'
    PROVE  IInv'
<1>1. LockHeld'
  BY DEF IInv, Calm, LockHeld, Same
<1>2. RoutesAgree'
  BY DEF IInv, Calm, RoutesAgree
<1>3. Fewer
  <2> SUFFICES ASSUME NEW s \in Sessions, NEW c \in Conversations, Refers(s, c)'
               PROVE  Refers(s, c)
    BY DEF Fewer
  <2>1. ASSUME NEW p \in Tasks, cv'[p] = c, Names(p, s)'
        PROVE  cv[p] = c /\ Names(p, s)
    BY <2>1 DEF Calm, Same, Names, Asking
  <2>2. disk'.stored[c] = s => disk.stored[c] = s \/ stored[c] = s
    BY DEF Calm
  <2> QED
    BY <2>1, <2>2 DEF Refers, Calm
<1>4. SessionsApart' /\ ServerOK'
  BY <1>3, FewerApart DEF IInv, Calm, ServerOK
<1>5. Missing'
  BY DEF IInv, Calm, Missing, Same, Asking
<1> QED
  BY <1>1, <1>2, <1>4, <1>5 DEF IInv

(* What a step of task p needs to be one of those.                         *)
LEMMA CalmStep ==
    ASSUME IInv, TypeOK', NEW p \in Tasks, Moves(p), Kind(p)', Fits(p)',
           conn' = conn, log' = log,
           pc[p] # "done", pc'[p] = "idle" \/ pc[p] # "idle" \/ p[1] = "client",
           pc[p] \notin Asking, pc'[p] \notin Asking,
           UNCHANGED <<made, known, durable, runtime, owner, lock, stored>>,
           running' \subseteq running, disk'.stored \in {disk.stored, stored}
    PROVE  IInv'
<1>1. Control'
  BY ControlKept DEF IInv
<1>2. Calm
  BY DEF Calm, Moves
<1> QED
  BY <1>1, <1>2, CalmKept

-----------------------------------------------------------------------------
(* The calls of a task and what follows them. *)

LEMMA RequestEffect ==
    ASSUME CallType, NEW p \in Tasks, NEW m \in Waits, NEW r \in Held, NEW n \in Nat,
           request(p, m, r, n), \A q \in Tasks \ {p} : cv'[q] = cv[q]
    PROVE  /\ CallType' /\ Moves(p) /\ pc'[p] = m /\ ans'[p] = r /\ num'[p] = n
           /\ req'[p] \in {"sent", "unavailable"}
  BY DEF CallType, request, Moves, Same, Controls, Answers

LEMMA ContinueEffect ==
    ASSUME CallType, NEW p \in Tasks, NEW m \in Controls, NEW r \in Held,
           Continue(p, m, r), \A q \in Tasks \ {p} : cv'[q] = cv[q]
    PROVE  /\ CallType' /\ Moves(p) /\ pc'[p] = m /\ ans'[p] = r /\ num'[p] = 0
           /\ req'[p] = "none"
  BY DEF CallType, Continue, Moves, Same

LEMMA RespondEffect ==
    ASSUME CallType, TaskType, NEW p \in Tasks, Respond(p), todo' = todo
    PROVE  CallType' /\ TaskType' /\ Moves(p) /\ pc'[p] = "idle"
<1>1. \A q \in Tasks \ {p} : cv'[q] = cv[q]
  BY DEF TaskType, Respond
<1>2. Continue(p, "idle", None) /\ "idle" \in Controls /\ None \in Held
  BY DEF Respond, Controls, Held
<1>3. TaskType'
  BY DEF TaskType, Respond
<1> QED
  BY <1>1, <1>2, <1>3, ContinueEffect

(* A client that is answered rests, whatever it was doing outside the      *)
(* calls for a session.                                                    *)
LEMMA RespondSafe ==
    ASSUME IInv, NEW p \in Tasks, p[1] = "client", pc[p] \notin Asking, Respond(p),
           todo' = todo, conn' = conn, ServerType', RouteType', RowType', log' = log,
           UNCHANGED <<made, known, durable, runtime, owner, lock, stored>>,
           running' \subseteq running, disk'.stored \in {disk.stored, stored}
    PROVE  IInv'
<1>1. CallType' /\ TaskType' /\ Moves(p) /\ pc'[p] = "idle"
  BY RespondEffect DEF IInv, TypeOK
<1>2. Kind(p)' /\ Fits(p)' /\ pc[p] # "done" /\ "idle" \notin Asking
  BY <1>1 DEF IInv, Control, Kind, Fits, Asking
<1> QED
  BY <1>1, <1>2, CalmStep DEF TypeOK

(* prompt.submit: working, and the marker on disk, before the call.        *)
LEMMA SubmitSendSafe ==
    ASSUME IInv, NEW p \in Tasks, SubmitSend(p)
    PROVE  IInv'
<1>1. p[1] = "client" /\ cv[p] \in Conversations /\ pc[p] = "got" /\ ans[p] \in Held
  BY TaskFacts DEF IInv, TypeOK, CallType, Control, Kind, SubmitSend
<1>2. /\ CallType' /\ Moves(p) /\ pc'[p] = "prompt" /\ req'[p] \in {"sent", "unavailable"}
  BY <1>1, RequestEffect DEF IInv, TypeOK, SubmitSend, Waits
<1>3. ServerType' /\ RouteType'
  BY DEF IInv, TypeOK, ServerType, RouteType, SubmitSend, serverVars, routeVars
<1>7. TaskType'
  <2>1. prev \in [Tasks -> BOOLEAN] /\ has[cv[p]] \in BOOLEAN
    BY <1>1 DEF IInv, TypeOK, TaskType, RowType
  <2>2. prev' = [prev EXCEPT ![p] = has[cv[p]]]
    BY DEF SubmitSend
  <2>3. prev' \in [Tasks -> BOOLEAN]
    BY <2>1, <2>2, Zenon
  <2> QED
    BY <2>3 DEF IInv, TypeOK, TaskType, SubmitSend
<1>4. RowType'
  BY <1>1 DEF IInv, TypeOK, RowType, SubmitSend, save, Rows, boundVars, Statuses
<1>5. Kind(p)' /\ Fits(p)'
  BY <1>1, <1>2 DEF Kind, Fits, SubmitSend, Asking
<1>6. disk'.stored = stored
  BY DEF SubmitSend, save, Rows
<1> QED
  BY <1>1, <1>2, <1>3, <1>4, <1>5, <1>6, <1>7, CalmStep
     DEF TypeOK, SubmitSend, Asking, serverVars, routeVars

(* The answer to prompt.submit. *)
LEMMA SubmitAnsweredSafe ==
    ASSUME IInv, NEW p \in Tasks, SubmitAnswered(p)
    PROVE  IInv'
<1>1. p[1] = "client" /\ cv[p] \in Conversations /\ pc[p] = "prompt"
  BY TaskFacts DEF IInv, Control, Kind, SubmitAnswered
<1>2. ServerType' /\ RouteType'
  BY DEF IInv, TypeOK, ServerType, RouteType, SubmitAnswered, serverVars, routeVars
<1>3. RowType' /\ disk'.stored \in {disk.stored, stored} /\ stored' = stored
  BY <1>1 DEF IInv, TypeOK, RowType, TaskType, SubmitAnswered, save, Rows, boundVars, rowVars,
         Statuses, set_conversation_status
<1> QED
  BY <1>1, <1>2, <1>3, RespondSafe DEF SubmitAnswered, Asking, serverVars, routeVars

(* The one call of every other routed method.                              *)
LEMMA CallSendSafe ==
    ASSUME IInv, NEW p \in Tasks, CallSend(p)
    PROVE  IInv'
<1>1. p[1] = "client" /\ cv[p] \in Conversations /\ pc[p] = "got" /\ ans[p] \in Held
  BY TaskFacts DEF IInv, TypeOK, CallType, Control, Kind, CallSend
<1>2. CallType' /\ Moves(p) /\ pc'[p] = "call"
  BY <1>1, RequestEffect DEF IInv, TypeOK, CallSend, Waits
<1>3. ServerType' /\ RouteType' /\ RowType'
  BY DEF IInv, TypeOK, ServerType, RouteType, RowType, CallSend, serverVars, routeVars,
         rowVars, boundVars
<1>4. TaskType'
  BY DEF IInv, TypeOK, TaskType, CallSend
<1>5. Kind(p)' /\ Fits(p)'
  BY <1>1, <1>2 DEF Kind, Fits, CallSend, Asking
<1> QED
  BY <1>1, <1>2, <1>3, <1>4, <1>5, CalmStep
     DEF TypeOK, CallSend, Asking, serverVars, routeVars, rowVars

(* The answer to that call. *)
LEMMA CallAnsweredSafe ==
    ASSUME IInv, NEW p \in Tasks, CallAnswered(p)
    PROVE  IInv'
<1>1. p[1] = "client" /\ cv[p] \in Conversations /\ pc[p] = "call"
  BY TaskFacts DEF IInv, Control, Kind, CallAnswered
<1>2. ServerType' /\ RouteType'
  BY DEF IInv, TypeOK, ServerType, RouteType, CallAnswered, serverVars, routeVars
<1>3. RowType' /\ disk'.stored \in {disk.stored, stored} /\ stored' = stored
  <2>1. CASE UNCHANGED <<present, stored, has, disk>> /\ status' \in [Conversations -> Statuses]
    BY <2>1 DEF IInv, TypeOK, RowType, CallAnswered, boundVars
  <2>2. CASE has' = [has EXCEPT ![cv[p]] = TRUE] /\ UNCHANGED <<present, stored, status>> /\ save
    BY <2>2 DEF IInv, TypeOK, RowType, CallAnswered, save, Rows, boundVars
  <2>3. \A t \in {"idle", "working"} :
           set_conversation_status(cv[p], t) => status' \in [Conversations -> Statuses]
    BY DEF IInv, TypeOK, RowType, Statuses, set_conversation_status
  <2>4. status \in [Conversations -> Statuses]
    BY DEF IInv, TypeOK, RowType
  <2> QED
    BY <2>1, <2>2, <2>3, <2>4 DEF CallAnswered, rowVars
<1> QED
  BY <1>1, <1>2, <1>3, RespondSafe DEF CallAnswered, Asking, serverVars, routeVars

(* ensure_runtime raised. *)
LEMMA ClientFailedSafe ==
    ASSUME IInv, NEW p \in Tasks, ClientFailed(p)
    PROVE  IInv'
<1>1. p[1] = "client" /\ pc[p] \notin Asking
  BY TaskFacts DEF ClientFailed, Asking
<1>2. ServerType' /\ RouteType' /\ RowType'
  BY DEF IInv, TypeOK, ServerType, RouteType, RowType, ClientFailed, serverVars, routeVars,
         rowVars, boundVars
<1> QED
  BY <1>1, <1>2, RespondSafe DEF ClientFailed, serverVars, routeVars, rowVars

(* delete_conversation: the row goes.                                      *)
LEMMA DeleteEndSafe ==
    ASSUME IInv, NEW p \in Tasks, DeleteEnd(p)
    PROVE  IInv'
<1>1. p[1] = "client" /\ cv[p] \in Conversations /\ pc[p] \in {"close", "closed"}
  BY TaskFacts DEF IInv, Control, Kind, DeleteEnd, Closed
<1>2. ServerType' /\ RouteType'
  BY DEF IInv, TypeOK, ServerType, RouteType, DeleteEnd, serverVars, routeVars
<1>3. RowType' /\ disk'.stored \in {disk.stored, stored} /\ stored' = stored
  BY <1>1 DEF IInv, TypeOK, RowType, DeleteEnd, save, Rows, boundVars, rowVars
<1> QED
  BY <1>1, <1>2, <1>3, RespondSafe DEF DeleteEnd, Asking, serverVars, routeVars

(* A request of a client begins with ensure_runtime.                       *)
LEMMA BeginSafe ==
    ASSUME IInv, NEW p \in ClientTasks, NEW o \in {"submit", "call"}, NEW c \in Conversations,
           Begin(p, o, c)
    PROVE  IInv'
<1>1. p \in Tasks /\ p[1] = "client" /\ pc[p] = "idle"
  BY TaskFacts DEF Begin, Tasks
<1>2. EnsureFrom(runtime[c]) \in {"failed", "got", "locking"} /\ runtime[c] \in Held
  BY DEF EnsureFrom, IInv, TypeOK, RouteType, Held
<1>3. TaskType' /\ cv'[p] = c /\ \A q \in Tasks \ {p} : cv'[q] = cv[q]
  BY <1>1 DEF IInv, TypeOK, TaskType, Begin
<1>4. CallType' /\ Moves(p) /\ pc'[p] \in {"failed", "got", "locking"}
  <2>1. EnsureFrom(runtime[c]) \in Controls
    BY <1>2 DEF Controls
  <2> QED
    BY <1>1, <1>2, <1>3, <2>1, ContinueEffect DEF IInv, TypeOK, Begin
<1>5. ServerType' /\ RouteType' /\ RowType'
  BY DEF IInv, TypeOK, ServerType, RouteType, RowType, Begin, serverVars, routeVars, rowVars
<1>6. Kind(p)' /\ Fits(p)'
  BY <1>1, <1>3, <1>4 DEF Kind, Fits, Asking
<1> QED
  BY <1>1, <1>3, <1>4, <1>5, <1>6, CalmStep
     DEF TypeOK, Begin, Asking, serverVars, routeVars, rowVars

(* reconcile.one: history and status of the restored session.              *)
LEMMA RestoreAskSafe ==
    ASSUME IInv, NEW g \in 1 .. MaxConn, NEW c \in Conversations, RestoreAsk(g, c)
    PROVE  IInv'
<1> DEFINE p == One(g, c)
<1>1. p \in Tasks /\ p[1] = "one" /\ pc[p] = "got" /\ ans[p] \in Held /\ cv[p] = p[3]
  BY OneFacts DEF IInv, TypeOK, CallType, Control, Kind, RestoreAsk
<1>2. CallType' /\ Moves(p) /\ pc'[p] = "restore"
  BY <1>1, RequestEffect DEF IInv, TypeOK, RestoreAsk, Waits
<1>3. ServerType' /\ RouteType' /\ RowType' /\ TaskType'
  BY DEF IInv, TypeOK, ServerType, RouteType, RowType, TaskType, RestoreAsk, serverVars,
         routeVars, rowVars, boundVars
<1>4. Kind(p)' /\ Fits(p)'
  BY <1>1, <1>2 DEF Kind, Fits, RestoreAsk, Asking
<1> QED
  BY <1>1, <1>2, <1>3, <1>4, CalmStep
     DEF TypeOK, RestoreAsk, Asking, serverVars, routeVars, rowVars

(* reconcile.one: the end of a restoration.                                *)
LEMMA RestoreEndSafe ==
    ASSUME IInv, NEW g \in 1 .. MaxConn, NEW c \in Conversations,
           RestoreEnd(g, c) \/ RestoreFailed(g, c)
    PROVE  IInv'
<1> DEFINE p == One(g, c)
<1>1. p \in Tasks /\ p[1] = "one" /\ pc[p] \in {"restore", "failed"} /\ cv[p] = p[3]
  BY OneFacts DEF IInv, Control, Kind, RestoreEnd, RestoreFailed
<1>2. cv' = cv /\ "done" \in Controls /\ None \in Held
  BY DEF RestoreEnd, RestoreFailed, Controls, Held
<1>3. CallType' /\ Moves(p) /\ pc'[p] = "done"
  BY <1>1, <1>2, ContinueEffect DEF IInv, TypeOK, RestoreEnd, RestoreFailed
<1>4. ServerType' /\ RouteType' /\ TaskType'
  BY DEF IInv, TypeOK, ServerType, RouteType, TaskType, RestoreEnd, RestoreFailed,
         serverVars, routeVars
<1>5. RowType' /\ disk'.stored \in {disk.stored, stored} /\ stored' = stored
  BY DEF IInv, TypeOK, RowType, RestoreEnd, RestoreFailed, save, Rows, boundVars, Statuses,
         set_conversation_status
<1>6. Kind(p)' /\ Fits(p)'
  BY <1>1, <1>2, <1>3 DEF Kind, Fits, Asking
<1> QED
  BY <1>1, <1>3, <1>4, <1>5, <1>6, CalmStep
     DEF TypeOK, RestoreEnd, RestoreFailed, Asking, serverVars, routeVars

(* refresh_provider_status. *)
LEMMA RefreshProviderSafe ==
    ASSUME IInv, RefreshProvider
    PROVE  IInv'
<1>1. TypeOK'
  BY DEF IInv, TypeOK, ServerType, RouteType, RowType, CallType, TaskType, RefreshProvider,
         serverVars, routeVars, rowVars, taskVars
<1>2. Control' /\ Calm
  BY DEF IInv, Control, Kind, Spawned, Fits, Calm, Same, RefreshProvider, serverVars,
         routeVars, rowVars, taskVars
<1> QED
  BY <1>1, <1>2, CalmKept

(* A new connection, and its reconciliation.                               *)
LEMMA ConnectSafe ==
    ASSUME IInv, Connect
    PROVE  IInv'
<1> DEFINE m == Main(conn + 1)
<1>1. conn + 1 \in 1 .. MaxConn /\ conn < MaxConn
  BY LocalAssumption DEF IInv, TypeOK, RouteType, Connect
<1>2. m \in Tasks /\ m[1] = "main" /\ m[2] = conn + 1 /\ pc[m] = "idle"
  BY <1>1, MainFacts DEF IInv, TypeOK, RouteType, Control, Spawned
<1>3. /\ CallType' /\ pc' = [pc EXCEPT ![m] = "provider"]
      /\ UNCHANGED <<req, ans, cv, log>> /\ \A q \in Tasks \ {m} : Same(q)
  BY <1>2 DEF IInv, TypeOK, CallType, ServerType, Epochs, Connect, Controls, Same, serverVars
<1>4. TypeOK'
  BY <1>1, <1>3 DEF IInv, TypeOK, ServerType, RouteType, RowType, TaskType, Connect,
         serverVars, routeVars, rowVars, boundVars
<1>5. Control'
  <2> SUFFICES ASSUME NEW q \in Tasks
               PROVE  Kind(q)' /\ Spawned(q)' /\ Fits(q)'
    BY DEF Control
  <2>1. Kind(q)' /\ Fits(q)'
    BY <1>2, <1>3 DEF IInv, TypeOK, CallType, Control, Kind, Fits, Same, Asking
  <2>2. pc'[m] = "provider"
    BY <1>2, <1>3 DEF IInv, TypeOK, CallType
  <2>3. q[1] = "main" /\ q[2] > conn' => pc'[q] = "idle"
    <3>1. conn' = conn + 1 /\ conn \in Nat
      BY DEF Connect, IInv, TypeOK, RouteType
    <3> QED
      BY <1>2, <1>3, <3>1, TaskFacts DEF IInv, Control, Spawned, Same
  <2>4. q[1] = "one" /\ pc'[q] # "idle" => pc'[Main(q[2])] = "done"
    <3> SUFFICES ASSUME q[1] = "one", pc'[q] # "idle"
                 PROVE  pc'[Main(q[2])] = "done"
      OBVIOUS
    <3>1. pc[q] # "idle" /\ pc[Main(q[2])] = "done" /\ Main(q[2]) \in Tasks
      BY <1>2, <1>3, TaskFacts, MainFacts DEF IInv, Control, Spawned, Same
    <3> QED
      BY <1>2, <1>3, <3>1 DEF Same
  <2> QED
    BY <2>1, <2>3, <2>4 DEF Spawned
<1>6. Calm
  BY <1>2, <1>3 DEF Calm, Asking, Connect, IInv, TypeOK, CallType, serverVars, routeVars, rowVars
<1> QED
  BY <1>4, <1>5, <1>6, CalmKept

(* reconcile: restore every conversation of the registry.                  *)
LEMMA SpreadSafe ==
    ASSUME IInv, NEW g \in 1 .. MaxConn, Spread(g)
    PROVE  IInv'
<1> DEFINE m == Main(g)
<1>1. m \in Tasks /\ m[1] = "main" /\ m[2] = g /\ pc[m] = "replay"
  BY MainFacts DEF Spread
<1>2. ASSUME NEW q \in Tasks, q[1] = "one", q[2] = g  PROVE pc[q] = "idle"
  BY <1>1, <1>2 DEF IInv, Control, Spawned
<1>3. UNCHANGED <<req, ans, cv, num, log, conn>> /\ pc' \in [Tasks -> Controls]
  BY DEF Spread, IInv, TypeOK, CallType, Controls, serverVars
<1>4. ASSUME NEW q \in Tasks
      PROVE  \/ q = m /\ pc'[q] = "done"
             \/ q[1] = "one" /\ q[2] = g /\ pc[q] = "idle" /\ pc'[q] \in {"idle", "queued"}
             \/ q # m /\ pc'[q] = pc[q]
  BY <1>1, <1>2 DEF Spread
<1>5. TypeOK'
  BY <1>3 DEF IInv, TypeOK, ServerType, RouteType, RowType, CallType, TaskType, Spread,
         serverVars, routeVars, rowVars, boundVars
<1>6. Control'
  <2> SUFFICES ASSUME NEW q \in Tasks
               PROVE  Kind(q)' /\ Spawned(q)' /\ Fits(q)'
    BY DEF Control
  <2>1. Kind(q)' /\ Fits(q)'
    BY <1>1, <1>3, <1>4 DEF IInv, Control, Kind, Fits, Asking
  <2>2. q[1] = "main" /\ q[2] > conn' => pc'[q] = "idle"
    BY <1>1, <1>3, <1>4 DEF IInv, Control, Spawned
  <2>3. q[1] = "one" /\ pc'[q] # "idle" => pc'[Main(q[2])] = "done"
    <3> SUFFICES ASSUME q[1] = "one", pc'[q] # "idle"
                 PROVE  pc'[Main(q[2])] = "done"
      OBVIOUS
    <3>1. Main(q[2]) \in Tasks /\ Main(q[2])[1] = "main"
      BY TaskFacts, MainFacts
    <3>2. CASE q[2] = g
      BY <1>1, <1>4, <3>2
    <3>3. CASE q[2] # g
      BY <1>1, <1>4, <3>1, <3>3 DEF IInv, Control, Spawned
    <3> QED
      BY <3>2, <3>3
  <2> QED
    BY <2>1, <2>2, <2>3 DEF Spawned
<1>7. Calm
  <2>1. ASSUME NEW q \in Tasks  PROVE Same(q) \/ (pc[q] \notin Asking /\ pc'[q] \notin Asking)
    BY <1>1, <1>3, <1>4 DEF Same, Asking
  <2> QED
    BY <2>1 DEF Calm, Spread, serverVars, routeVars, rowVars
<1> QED
  BY <1>5, <1>6, <1>7, CalmKept

(* reconcile without a provider. *)
LEMMA ReconcileUnreadySafe ==
    ASSUME IInv, NEW g \in 1 .. MaxConn, ReconcileUnready(g)
    PROVE  IInv'
<1> DEFINE m == Main(g)
<1>1. m \in Tasks /\ m[1] = "main" /\ pc[m] = "provider"
  BY MainFacts DEF ReconcileUnready
<1>2. cv' = cv /\ "done" \in Controls /\ None \in Held
  BY DEF ReconcileUnready, Controls, Held
<1>3. CallType' /\ Moves(m) /\ pc'[m] = "done"
  BY <1>1, <1>2, ContinueEffect DEF IInv, TypeOK, ReconcileUnready
<1>4. ServerType' /\ RouteType' /\ TaskType'
  BY DEF IInv, TypeOK, ServerType, RouteType, TaskType, ReconcileUnready, serverVars, routeVars
<1>5. RowType' /\ disk'.stored \in {disk.stored, stored} /\ stored' = stored
  BY DEF IInv, TypeOK, RowType, ReconcileUnready, save, Rows, boundVars, Statuses
<1>6. Kind(m)' /\ Fits(m)'
  BY <1>1, <1>3 DEF Kind, Fits, Asking
<1> QED
  BY <1>1, <1>3, <1>4, <1>5, <1>6, CalmStep
     DEF TypeOK, ReconcileUnready, Asking, serverVars, routeVars

(* reconcile: what was missed of the next runtime.                         *)
LEMMA ReplayNextSafe ==
    ASSUME IInv, NEW g \in 1 .. MaxConn, ReplayNext(g)
    PROVE  IInv'
<1> DEFINE m == Main(g)
<1>1. m \in Tasks /\ m[1] = "main" /\ pc[m] = "replay"
  BY MainFacts DEF ReplayNext
<1>2. PICK r \in todo[m] :
        /\ todo' = [todo EXCEPT ![m] = @ \ {r}]
        /\ IF watermark[r] = 0
           THEN UNCHANGED <<pc, req, ans, num>>
           ELSE request(m, "since", <<r[1], r[2], watermark[r]>>, 0)
  BY DEF ReplayNext
<1>3. r \in Runtimes /\ watermark[r] \in Nat
  BY <1>1 DEF IInv, TypeOK, TaskType, RouteType
<1>4. <<r[1], r[2], watermark[r]>> \in Sessions \X Epochs \X Nat /\ cv' = cv
  BY <1>3 DEF Runtimes, ReplayNext
<1>5. /\ CallType' /\ Moves(m) /\ Fits(m)'
      /\ pc'[m] \in {"replay", "since"}
  <2>1. CASE watermark[r] = 0
    BY <1>1, <1>2, <1>4, <2>1 DEF IInv, TypeOK, CallType, Moves, Same, Fits, Asking
  <2>2. CASE watermark[r] # 0
    <3> DEFINE a == <<r[1], r[2], watermark[r]>>
    <3>1. a \in Held /\ "since" \in Waits
      BY <1>4 DEF Held, Waits
    <3>2. request(m, "since", a, 0)
      BY <1>2, <2>2
    <3>3. a \in Sessions \X Epochs \X Nat
      BY <1>4
    <3> HIDE DEF a
    <3>4. /\ CallType' /\ Moves(m) /\ pc'[m] = "since" /\ ans'[m] = a
          /\ req'[m] \in {"sent", "unavailable"}
      BY <1>1, <1>4, <3>1, <3>2, RequestEffect DEF IInv, TypeOK
    <3> QED
      BY <3>3, <3>4 DEF Fits, Asking
  <2> QED
    BY <2>1, <2>2
<1>6. ServerType' /\ RouteType' /\ RowType'
  BY DEF IInv, TypeOK, ServerType, RouteType, RowType, ReplayNext, serverVars, routeVars,
         rowVars, boundVars
<1>7. TaskType'
  BY <1>2 DEF IInv, TypeOK, TaskType, ReplayNext
<1>8. Kind(m)'
  BY <1>1, <1>5 DEF Kind
<1> QED
  BY <1>1, <1>5, <1>6, <1>7, <1>8, CalmStep
     DEF TypeOK, ReplayNext, Asking, serverVars, routeVars, rowVars

(* What an event changes, live or from a replay.                           *)
LEMMA EventEffect ==
    ASSUME RouteType, RowType, NEW r \in Runtimes, NEW n \in Nat, NEW t \in Events,
           NEW after \in Nat, after < n, handle_upstream_event(r, n, t, after)
    PROVE  /\ watermark' \in [Runtimes -> Nat] /\ sent' \in [Runtimes -> SUBSET Nat]
           /\ twice' \subseteq Runtimes
           /\ status' \in [Conversations -> Statuses]
<1>1. CASE n <= watermark[r]
  BY <1>1 DEF RouteType, RowType, handle_upstream_event
<1>2. CASE ~(n <= watermark[r])
  <2> DEFINE news == {i \in after + 1 .. n : i > watermark[r]}
  <2>1. news \in SUBSET Nat
    OBVIOUS
  <2>2. watermark' = [watermark EXCEPT ![r] = n]
    BY <1>2 DEF handle_upstream_event
  <2>3. \/ sent' = sent /\ twice' = twice
        \/ /\ sent' = [sent EXCEPT ![r] = @ \cup news]
           /\ twice' = twice \/ twice' = twice \cup {r}
    BY <1>2 DEF handle_upstream_event, Forward
  <2>4. EventStatus[t] \in Statuses
    BY DEF Events, EventStatus, Statuses
  <2>5. status' = status \/ \E c \in Conversations : status' = [status EXCEPT ![c] = EventStatus[t]]
    BY <1>2 DEF handle_upstream_event, set_conversation_status, Routed, RouteType, RowType
  <2>6. sent[r] \cup news \in SUBSET Nat
    BY <2>1 DEF RouteType
  <2> HIDE DEF news
  <2>7. sent' \in [Runtimes -> SUBSET Nat]
    BY <2>3, <2>6 DEF RouteType
  <2>8. twice' \subseteq Runtimes
    BY <2>3 DEF RouteType
  <2> QED
    BY <2>2, <2>4, <2>5, <2>7, <2>8 DEF RouteType, RowType
<1> QED
  BY <1>1, <1>2

(* The agent reports progress. *)
LEMMA ReportSafe ==
    ASSUME IInv, NEW s \in Sessions, NEW t \in Events, Report(s, t)
    PROVE  IInv'
<1> DEFINE r == <<s, epoch>>
<1>1. r \in Runtimes /\ log[r] \in Seq(Events) /\ Len(log[r]) \in Nat
  BY DEF IInv, TypeOK, ServerType, Runtimes
<1>2. log' = [log EXCEPT ![r] = Append(@, t)] /\ running' \subseteq running
  BY DEF Report
<1> HIDE DEF r
<1>3. \A q \in Runtimes : Len(log[q]) \in Nat /\ Len(log'[q]) >= Len(log[q])
  BY <1>1, <1>2 DEF IInv, TypeOK, ServerType
<1>4. ServerType'
  <2>1. Append(log[r], t) \in Seq(Events)
    BY <1>1
  <2>2. log' \in [Runtimes -> Seq(Events)]
    BY <1>1, <1>2, <2>1 DEF IInv, TypeOK, ServerType
  <2>3. UNCHANGED <<epoch, made, known, durable>>
    BY DEF Report
  <2> QED
    BY <1>2, <2>2, <2>3 DEF IInv, TypeOK, ServerType
<1>5. RouteType' /\ RowType'
  <2>1. /\ watermark' \in [Runtimes -> Nat] /\ sent' \in [Runtimes -> SUBSET Nat]
        /\ twice' \subseteq Runtimes /\ status' \in [Conversations -> Statuses]
    <3>1. CASE link = "up"
      BY <1>1, <3>1, EventEffect DEF IInv, TypeOK, Report, r
    <3>2. CASE link # "up"
      BY <3>2 DEF IInv, TypeOK, RouteType, RowType, Report
    <3> QED
      BY <3>1, <3>2
  <2> QED
    BY <2>1 DEF IInv, TypeOK, RouteType, RowType, Report, boundVars
<1>6. CallType' /\ TaskType' /\ \A q \in Tasks : Same(q)
  BY DEF IInv, TypeOK, CallType, TaskType, Same, Report, taskVars
<1>7. Control'
  <2> SUFFICES ASSUME NEW q \in Tasks
               PROVE  Kind(q)' /\ Spawned(q)' /\ Fits(q)'
    BY DEF Control
  <2>1. Kind(q)' /\ Spawned(q)'
    BY DEF IInv, Control, Kind, Spawned, Report, taskVars
  <2>2. Fits(q)'
    <3>1. Fits(q) /\ num[q] \in Nat /\ UNCHANGED <<pc, req, ans, num>>
      BY DEF IInv, TypeOK, CallType, Control, Report, taskVars
    <3>2. ans[q] \in Sessions \X Epochs \X Nat => <<ans[q][1], ans[q][2]>> \in Runtimes
      BY DEF Runtimes
    <3> QED
      BY <1>3, <3>1, <3>2 DEF Fits
  <2> QED
    BY <2>1, <2>2
<1>8. Calm
  BY <1>2, <1>6 DEF Calm, Report
<1> QED
  BY <1>4, <1>5, <1>6, <1>7, <1>8, CalmKept DEF TypeOK

(* reconcile: the events missed, through the same handler.                 *)
LEMMA ReplayAnsweredSafe ==
    ASSUME IInv, NEW g \in 1 .. MaxConn, ReplayAnswered(g)
    PROVE  IInv'
<1> DEFINE m == Main(g)
           r == <<ans[m][1], ans[m][2]>>
           news == req[m] = "ok" /\ num[m] > ans[m][3]
<1>1. m \in Tasks /\ m[1] = "main" /\ pc[m] = "since"
  BY MainFacts DEF ReplayAnswered
<1>2. cv' = cv /\ "replay" \in Controls /\ None \in Held
  BY DEF ReplayAnswered, Controls, Waits, Held
<1>3. CallType' /\ Moves(m) /\ pc'[m] = "replay" /\ req'[m] = "none"
  BY <1>1, <1>2, ContinueEffect DEF IInv, TypeOK, ReplayAnswered
<1>4. /\ watermark' \in [Runtimes -> Nat] /\ sent' \in [Runtimes -> SUBSET Nat]
      /\ twice' \subseteq Runtimes /\ status' \in [Conversations -> Statuses]
  <2>1. CASE news
    <3>1. /\ ans[m] \in Sessions \X Epochs \X Nat /\ num[m] <= Len(log[r])
          /\ num[m] \in Nat
      BY <1>1, <2>1 DEF IInv, TypeOK, CallType, Control, Fits
    <3>2. r \in Runtimes /\ ans[m][3] \in Nat
      BY <3>1 DEF Runtimes
    <3>3. log[r][num[m]] \in Events
      <4>1. log[r] \in Seq(Events)
        BY <3>2 DEF IInv, TypeOK, ServerType
      <4>2. num[m] \in 1 .. Len(log[r])
        BY <2>1, <3>1, <3>2, <4>1
      <4> QED
        BY <4>1, <4>2
    <3>4. handle_upstream_event(r, num[m], log[r][num[m]], ans[m][3])
      BY <2>1 DEF ReplayAnswered
    <3> QED
      BY <2>1, <3>1, <3>2, <3>3, <3>4, EventEffect DEF IInv, TypeOK
  <2>2. CASE ~news
    BY <2>2 DEF IInv, TypeOK, RouteType, RowType, ReplayAnswered
  <2> QED
    BY <2>1, <2>2
<1>5. ServerType' /\ TaskType'
  BY DEF IInv, TypeOK, ServerType, TaskType, ReplayAnswered, serverVars
<1>6. RouteType' /\ RowType'
  BY <1>4 DEF IInv, TypeOK, RouteType, RowType, ReplayAnswered, boundVars
<1>7. Kind(m)' /\ Fits(m)'
  BY <1>1, <1>3 DEF Kind, Fits, Asking
<1> QED
  BY <1>1, <1>3, <1>5, <1>6, <1>7, CalmStep DEF TypeOK, ReplayAnswered, Asking, serverVars

-----------------------------------------------------------------------------
(* Calls for a session. *)

(* The calls of a task leave one another alone: the control states are     *)
(* kept, and a call for a session that changes its state fails, finds the  *)
(* session it asked for, or finds it missing.                              *)
Settled1(q) ==
    \/ req'[q] = req[q] /\ ans'[q] = ans[q] /\ num'[q] = num[q]
    \/ pc[q] \notin Asking
    \/ /\ req'[q] \in {"unavailable", "ambiguous", "fault"}
       /\ num'[q] \in {num[q], 0}
    \/ /\ pc[q] = "resume" /\ req[q] = "sent" /\ num'[q] = 0
       /\ \/ req'[q] = "ok" /\ ans'[q][1] = num[q]
          \/ req'[q] = "notfound" /\ num[q] \notin known \cup durable

Settling ==
    /\ UNCHANGED <<made, runtime, owner, lock, stored>>
    /\ known' \cup durable' \subseteq known \cup durable
    /\ running' \subseteq known \cup durable \cup running
    /\ disk'.stored \in {disk.stored, stored}
    /\ \A q \in Tasks : pc'[q] = pc[q] /\ cv'[q] = cv[q] /\ Settled1(q)

LEMMA SettlingKept ==
    ASSUME IInv, Settling, TypeOK', Control'
    PROVE  IInv'
<1>1. LockHeld'
  BY DEF IInv, Settling, LockHeld
<1>2. RoutesAgree'
  BY DEF IInv, Settling, RoutesAgree
<1>3. Fewer
  <2> SUFFICES ASSUME NEW s \in Sessions, NEW c \in Conversations, Refers(s, c)'
               PROVE  Refers(s, c)
    BY DEF Fewer
  <2>1. s # 0
    BY LocalAssumption DEF Sessions
  <2>2. ASSUME NEW p \in Tasks, cv'[p] = c, Names(p, s)'
        PROVE  cv[p] = c /\ Names(p, s)
    BY <2>1, <2>2 DEF Settling, Settled1, Names, Asking
  <2>3. disk'.stored[c] = s => disk.stored[c] = s \/ stored[c] = s
    BY DEF Settling
  <2> QED
    BY <2>2, <2>3 DEF Refers, Settling
<1>4. SessionsApart' /\ ServerOK'
  BY <1>3, FewerApart DEF IInv, Settling, ServerOK
<1>5. Missing'
  <2> SUFFICES ASSUME NEW q \in Tasks, pc'[q] = "resume"
               PROVE  /\ req'[q] = "sent" => stored'[cv'[q]] \in {num'[q], None}
                      /\ req'[q] = "notfound" => stored'[cv'[q]] \notin known' \cup durable'
    BY DEF Missing
  <2>1. None \notin known \cup durable
    BY LocalAssumption DEF IInv, TypeOK, ServerType
  <2> QED
    BY <2>1 DEF IInv, Missing, Settling, Settled1, Asking
<1> QED
  BY <1>1, <1>2, <1>4, <1>5 DEF IInv

LEMMA AnsweredEffect ==
    ASSUME CallType, NEW p \in Tasks, NEW a \in Answers, NEW r \in Held, NEW n \in Nat,
           Answered(p, a, r, n), pc' = pc, cv' = cv
    PROVE  /\ CallType' /\ Moves(p) /\ req'[p] = a /\ ans'[p] = r /\ num'[p] = n
           /\ pc'[p] = pc[p] /\ cv'[p] = cv[p]
  BY DEF CallType, Answered, Moves, Same

(* An answer arrives that does not name a new session.                     *)
LEMMA AnswerSafe ==
    ASSUME IInv, NEW p \in Tasks, NEW a \in Answers, NEW r \in Held, NEW n \in Nat,
           Answered(p, a, r, n), req[p] = "sent",
           UNCHANGED <<pc, cv, op, prev, todo, log, epoch, made, link, conn, routeVars, ready,
                       lock, rowVars, disk, boundVars, historyVars>>,
           ServerType', known' \cup durable' \subseteq known \cup durable,
           running' \subseteq known \cup durable \cup running,
           Fits(p)',
           \/ pc[p] \notin Asking
           \/ a = "fault" /\ n = 0
           \/ pc[p] = "resume" /\ n = 0 /\ a = "ok" /\ r[1] = num[p]
           \/ /\ pc[p] = "resume" /\ n = 0 /\ a = "notfound"
              /\ num[p] \notin known \cup durable
    PROVE  IInv'
<1>1. /\ CallType' /\ Moves(p) /\ req'[p] = a /\ ans'[p] = r /\ num'[p] = n
      /\ pc'[p] = pc[p] /\ cv'[p] = cv[p]
  BY AnsweredEffect DEF IInv, TypeOK
<1>2. TypeOK'
  BY <1>1 DEF IInv, TypeOK, RouteType, RowType, TaskType, routeVars, rowVars, boundVars
<1>3. Control'
  <2>1. Kind(p)'
    BY <1>1 DEF IInv, Control, Kind
  <2> QED
    BY <1>1, <2>1, ControlKept DEF IInv
<1>4. Settling
  <2>1. \A q \in Tasks : pc'[q] = pc[q] /\ cv'[q] = cv[q]
    OBVIOUS
  <2>2. ASSUME NEW q \in Tasks  PROVE Settled1(q)
    <3>1. CASE q = p
      BY <1>1, <3>1 DEF Settled1
    <3>2. CASE q # p
      BY <1>1, <3>2 DEF Settled1, Moves, Same
    <3> QED
      BY <3>1, <3>2
  <2> QED
    BY <2>1, <2>2 DEF Settling, routeVars, rowVars
<1> QED
  BY <1>2, <1>3, <1>4, SettlingKept

(* session.create: the new session belongs to the conversation that asked. *)
LEMMA CreateSafe ==
    ASSUME IInv, NEW p \in Tasks, pc[p] = "create", made < MaxSession,
           made' = made + 1, known' = known \cup {made + 1},
           Answered(p, "ok", <<made + 1, epoch>>, 0),
           UNCHANGED <<durable, running, epoch, log, link, conn, routeVars, ready, lock,
                       rowVars, disk, pc, cv, op, prev, todo, boundVars, historyVars>>
    PROVE  IInv'
<1> DEFINE n == made + 1
           r == <<n, epoch>>
<1>1. made \in Nat /\ n \in Sessions /\ n \in 0 .. MaxSession
  BY LocalAssumption DEF IInv, TypeOK, ServerType, Sessions
<1>2. r \in Runtimes /\ r \in Held /\ r[1] = n
  BY <1>1 DEF IInv, TypeOK, ServerType, Runtimes, Held
<1>3. made' = n /\ known' = known \cup {n} /\ Answered(p, "ok", r, 0)
  OBVIOUS
<1> HIDE DEF r
<1>4. /\ CallType' /\ Moves(p) /\ req'[p] = "ok" /\ ans'[p] = r /\ num'[p] = 0
      /\ pc'[p] = pc[p] /\ cv'[p] = cv[p]
  BY <1>2, <1>3, AnsweredEffect DEF IInv, TypeOK, Answers
<1>5. TypeOK'
  BY <1>1, <1>3, <1>4 DEF IInv, TypeOK, ServerType, RouteType, RowType, TaskType, routeVars,
         rowVars, boundVars
<1>6. Control'
  <2>1. Kind(p)' /\ Fits(p)'
    BY <1>2, <1>4 DEF IInv, Control, Kind, Fits, Asking
  <2> QED
    BY <1>4, <2>1, ControlKept DEF IInv
<1>7. LockHeld' /\ RoutesAgree'
  BY DEF IInv, LockHeld, RoutesAgree, routeVars
<1>8. ServerOK'
  BY <1>1, <1>3 DEF IInv, TypeOK, ServerType, ServerOK, Sessions
<1>9. ASSUME NEW s \in Sessions, NEW c \in Conversations, Refers(s, c)'
      PROVE  Refers(s, c) \/ (s = n /\ c = cv[p])
  <2>1. s # 0
    BY LocalAssumption DEF Sessions
  <2>2. ASSUME NEW q \in Tasks, cv'[q] = c, Names(q, s)'
        PROVE  (cv[q] = c /\ Names(q, s)) \/ (s = n /\ c = cv[p])
    BY <1>2, <1>4, <2>1, <2>2 DEF Names, Asking, Moves, Same
  <2> QED
    BY <1>9, <2>2 DEF Refers, routeVars, rowVars
<1>10. SessionsApart'
  <2>1. ASSUME NEW s \in Sessions, NEW c \in Conversations, Refers(s, c)  PROVE s # n /\ s <= n
    BY <1>1, <2>1 DEF IInv, SessionsApart, Sessions
  <2>2. n <= n
    BY <1>1
  <2> QED
    BY <1>3, <1>9, <2>1, <2>2 DEF IInv, SessionsApart
<1>11. Missing'
  <2> SUFFICES ASSUME NEW q \in Tasks, pc'[q] = "resume"
               PROVE  /\ req'[q] = "sent" => stored'[cv'[q]] \in {num'[q], None}
                      /\ req'[q] = "notfound" => stored'[cv'[q]] \notin known' \cup durable'
    BY DEF Missing
  <2>1. q # p /\ Same(q) /\ pc[q] = "resume"
    BY <1>4 DEF Moves
  <2>2. cv[q] \in Conversations
    BY <2>1, TaskFacts DEF IInv, Control, Kind
  <2>3. stored[cv[q]] # n
    <3>1. stored[cv[q]] = n => Refers(n, cv[q])
      BY DEF Refers
    <3> QED
      BY <1>1, <2>2, <3>1 DEF IInv, SessionsApart
  <2> QED
    BY <1>3, <2>1, <2>3 DEF IInv, Missing, Same, rowVars
<1> QED
  BY <1>5, <1>6, <1>7, <1>8, <1>10, <1>11 DEF IInv

(* Hermes answers a call. *)
LEMMA ServeSafe ==
    ASSUME IInv, NEW p \in Tasks, Serve(p)
    PROVE  IInv'
<1> DEFINE r == ans[p]
<1>1. /\ UNCHANGED <<epoch, log, link, conn, routeVars, ready, lock, rowVars, disk,
                     pc, cv, op, prev, todo, boundVars, historyVars>>
      /\ req[p] = "sent"
  BY DEF Serve
<1>2. r \in Held /\ None \in Held /\ ServerType /\ num[p] \in Nat
  BY DEF IInv, TypeOK, CallType, Held
<1>3. CASE /\ pc[p] = "create" /\ made < MaxSession /\ made' = made + 1
           /\ known' = known \cup {made + 1} /\ Answered(p, "ok", <<made + 1, epoch>>, 0)
           /\ UNCHANGED <<durable, running>>
  BY <1>1, <1>3, CreateSafe
<1>4. CASE /\ pc[p] = "resume" /\ UNCHANGED <<made, durable, running>>
           /\ num[p] \in known \cup durable /\ known' = known \cup {num[p]}
           /\ Answered(p, "ok", <<num[p], epoch>>, 0)
  <2> DEFINE x == <<num[p], epoch>>
  <2>1. x \in Runtimes /\ x \in Held /\ x[1] = num[p] /\ Answered(p, "ok", x, 0)
    BY <1>2, <1>4 DEF ServerType, Runtimes, Held
  <2> HIDE DEF x
  <2>2. ServerType' /\ known' \cup durable' \subseteq known \cup durable
    BY <1>1, <1>2, <1>4 DEF ServerType
  <2>3. req'[p] = "ok" /\ ans'[p] = x
    BY <2>1, <1>1, AnsweredEffect DEF IInv, TypeOK, Answers
  <2>4. Fits(p)'
    BY <1>1, <1>4, <2>1, <2>3 DEF Fits
  <2> QED
    BY <1>1, <1>4, <2>1, <2>2, <2>4, AnswerSafe DEF Answers
<1>5. CASE /\ pc[p] = "resume" /\ UNCHANGED <<made, durable, running, known>>
           /\ num[p] \notin known \cup durable /\ Answered(p, "notfound", None, 0)
  <2>1. ServerType'
    BY <1>1, <1>2, <1>5 DEF ServerType
  <2>2. req'[p] = "notfound"
    BY <1>1, <1>2, <1>5, AnsweredEffect DEF IInv, TypeOK, Answers
  <2>3. Fits(p)'
    BY <1>1, <1>5, <2>2 DEF Fits
  <2> QED
    BY <1>1, <1>2, <1>5, <2>1, <2>3, AnswerSafe DEF Answers
<1>6. CASE /\ pc[p] \in {"prompt", "restore", "call", "close"} /\ made' = made
           /\ known' \subseteq known
           /\ \/ Live(r) /\ Accept({r})
              \/ durable' = durable /\ running' \subseteq running
           /\ \E a \in Answers, x \in {r, None} : Answered(p, a, x, 0)
  <2>1. PICK a \in Answers, x \in Held : Answered(p, a, x, 0)
    BY <1>2, <1>6
  <2>2. /\ durable' \subseteq known \cup durable
        /\ running' \subseteq known \cup durable \cup running
    BY <1>6 DEF Live, Accept
  <2>3. ServerType'
    BY <1>1, <1>2, <1>6, <2>2 DEF ServerType
  <2>4. Fits(p)'
    BY <1>1, <1>6 DEF Fits, Asking
  <2> QED
    BY <1>1, <1>6, <2>1, <2>2, <2>3, <2>4, AnswerSafe DEF Asking
<1>7. CASE /\ pc[p] = "since" /\ UNCHANGED <<made, durable, running, known>>
           /\ Answered(p, "ok", r, Len(log[<<r[1], r[2]>>]))
  <2> DEFINE q == <<r[1], r[2]>>
  <2>1. r \in Sessions \X Epochs \X Nat
    BY <1>1, <1>7 DEF IInv, Control, Fits
  <2>2. q \in Runtimes /\ Len(log[q]) \in Nat
    BY <1>2, <2>1 DEF Runtimes, ServerType
  <2>3. ServerType'
    BY <1>1, <1>2, <1>7 DEF ServerType
  <2>4. req'[p] = "ok" /\ ans'[p] = r /\ num'[p] = Len(log[q])
    BY <1>1, <1>2, <1>7, <2>2, AnsweredEffect DEF IInv, TypeOK, Answers
  <2>5. Fits(p)'
    BY <1>1, <1>7, <2>1, <2>2, <2>4 DEF Fits, Asking
  <2> QED
    BY <1>1, <1>2, <1>7, <2>2, <2>3, <2>5, AnswerSafe DEF Asking, Answers
<1>8. CASE UNCHANGED <<made, known, durable, running>> /\ Answered(p, "fault", None, 0)
  <2>1. ServerType'
    BY <1>1, <1>2, <1>8 DEF ServerType
  <2>2. req'[p] = "fault"
    BY <1>1, <1>2, <1>8, AnsweredEffect DEF IInv, TypeOK, Answers
  <2>3. Fits(p)'
    BY <1>1, <2>2 DEF Fits
  <2> QED
    BY <1>1, <1>2, <1>8, <2>1, <2>3, AnswerSafe DEF Answers
<1> QED
  BY <1>3, <1>4, <1>5, <1>6, <1>7, <1>8 DEF Serve, Answers

(* A task stops waiting. *)
LEMMA TimeoutSafe ==
    ASSUME IInv, NEW p \in Tasks, Timeout(p)
    PROVE  IInv'
<1>1. /\ durable' \subseteq known \cup durable /\ known' = known /\ made' = made
      /\ running' \subseteq known \cup durable \cup running
  BY DEF Timeout, Forget, Accept, Live
<1>2. ServerType'
  BY <1>1 DEF IInv, TypeOK, ServerType, Timeout
<1>3. CallType'
  BY DEF IInv, TypeOK, CallType, Timeout, Answers
<1>4. RouteType' /\ RowType' /\ TaskType'
  BY DEF IInv, TypeOK, RouteType, RowType, TaskType, Timeout, routeVars, rowVars
<1>5. \A q \in Tasks : req'[q] = req[q] \/ req'[q] \in {"ambiguous", "fault"}
  BY DEF IInv, TypeOK, CallType, Timeout
<1>6. Control'
  <2>1. UNCHANGED <<pc, cv, ans, num, log, conn>>
    BY DEF Timeout
  <2> QED
    BY <1>5, <2>1 DEF IInv, Control, Kind, Spawned, Fits
<1>7. Settling
  BY <1>1, <1>5 DEF Settling, Settled1, Timeout, routeVars, rowVars
<1> QED
  BY <1>2, <1>3, <1>4, <1>6, <1>7, SettlingKept DEF TypeOK

(* The socket closes, and the server may go with it.                       *)
LEMMA DisconnectSafe ==
    ASSUME IInv, NEW restart \in BOOLEAN, NEW late \in SUBSET ClientTasks,
           NEW unsent \in SUBSET ClientTasks, Disconnect(restart, late, unsent)
    PROVE  IInv'
<1>1. /\ durable' \subseteq known \cup durable /\ known' \subseteq known /\ made' = made
      /\ running' \subseteq known \cup durable \cup running
  BY DEF Disconnect, Live
<1>2. ServerType'
  BY <1>1, LocalAssumption DEF IInv, TypeOK, ServerType, Disconnect, Epochs
<1>3. req' = [p \in Tasks |->
                 CASE p \in unsent -> "unavailable"
                   [] p \notin unsent /\ Awaiting(p) -> "ambiguous"
                   [] OTHER -> req[p]]
  BY DEF Disconnect, reject_pending
<1>4. \A q \in Tasks : req'[q] = req[q] \/ req'[q] \in {"unavailable", "ambiguous"}
  BY <1>3
<1>5. CallType'
  <2>1. req' \in [Tasks -> Answers \cup {"none", "sent"}]
    BY <1>3 DEF IInv, TypeOK, CallType, Answers
  <2> QED
    BY <2>1 DEF IInv, TypeOK, CallType, Disconnect
<1>6. RouteType' /\ TaskType'
  BY DEF IInv, TypeOK, RouteType, TaskType, Disconnect, routeVars
<1>7. RowType' /\ disk'.stored = stored /\ stored' = stored
  BY DEF IInv, TypeOK, RowType, Disconnect, Interrupted, Statuses, save, Rows
<1>8. Control'
  <2>1. UNCHANGED <<pc, cv, ans, num, log, conn>>
    BY DEF Disconnect
  <2> QED
    BY <1>4, <2>1 DEF IInv, Control, Kind, Spawned, Fits
<1>9. Settling
  BY <1>1, <1>4, <1>7 DEF Settling, Settled1, Disconnect, routeVars
<1> QED
  BY <1>2, <1>5, <1>6, <1>7, <1>8, <1>9, SettlingKept DEF TypeOK

-----------------------------------------------------------------------------
(* The lock of a conversation. *)

(* Whoever asks for a session works on a conversation, and nobody else     *)
(* asks for that conversation.                                             *)
LEMMA AskingAlone ==
    ASSUME IInv, NEW p \in Tasks, pc[p] \in Asking
    PROVE  /\ cv[p] \in Conversations /\ lock[cv[p]] = p /\ runtime[cv[p]] = None
           /\ p[1] \in {"one", "client"}
           /\ \A q \in Tasks \ {p} : pc[q] \in Asking => cv[q] # cv[p]
<1>1. p[1] \in {"one", "client"} /\ cv[p] \in Conversations
  BY TaskFacts DEF IInv, Control, Kind, Asking
<1> QED
  BY <1>1 DEF IInv, LockHeld

(* ensure_runtime under the lock. *)
LEMMA EnsureLockedSafe ==
    ASSUME IInv, NEW p \in Tasks, EnsureLocked(p)
    PROVE  IInv'
<1> DEFINE c == cv[p]
<1>1. pc[p] = "locking" /\ lock[c] = None /\ c \in Conversations /\ p[1] \in {"one", "client"}
  BY TaskFacts DEF IInv, Control, Kind, EnsureLocked
<1>2. ServerType' /\ RowType' /\ TaskType'
  BY DEF IInv, TypeOK, ServerType, RowType, TaskType, EnsureLocked, serverVars, rowVars,
         boundVars
<1>3. CASE runtime[c] # None
  <2>1. Continue(p, "got", runtime[c]) /\ lock' = lock
    BY <1>3 DEF EnsureLocked
  <2>2. "got" \in Controls /\ runtime[c] \in Held /\ cv' = cv
    BY <1>1 DEF Controls, Held, IInv, TypeOK, RouteType, EnsureLocked
  <2>3. CallType' /\ Moves(p) /\ pc'[p] = "got"
    BY <2>1, <2>2, ContinueEffect DEF IInv, TypeOK
  <2>4. RouteType'
    BY <2>1 DEF IInv, TypeOK, RouteType, EnsureLocked, routeVars
  <2>5. Kind(p)' /\ Fits(p)'
    BY <1>1, <2>2, <2>3 DEF IInv, Control, Kind, Fits, Asking
  <2> QED
    BY <1>1, <1>2, <2>1, <2>3, <2>4, <2>5, CalmStep
       DEF TypeOK, EnsureLocked, Asking, serverVars, routeVars, rowVars
<1>4. CASE runtime[c] = None
  <2> DEFINE m == IF stored[c] # None THEN "resume" ELSE "create"
             n == IF stored[c] # None THEN stored[c] ELSE 0
  <2>1. lock' = [lock EXCEPT ![c] = p] /\ request(p, m, None, n) /\ cv' = cv
    BY <1>4 DEF EnsureLocked
  <2>2. m \in Waits /\ None \in Held /\ n \in Nat /\ m \in Asking
    BY <1>1 DEF Waits, Held, Asking, IInv, TypeOK, RowType, Sessions
  <2>3. m = "resume" => stored[c] = n
    OBVIOUS
  <2> HIDE DEF m, n
  <2>4. /\ CallType' /\ Moves(p) /\ pc'[p] = m /\ num'[p] = n
        /\ req'[p] \in {"sent", "unavailable"}
    BY <2>1, <2>2, RequestEffect DEF IInv, TypeOK
  <2>5. TypeOK'
    <3>1. RouteType'
      BY <1>1, <2>1 DEF IInv, TypeOK, RouteType, EnsureLocked, routeVars
    <3> QED
      BY <1>2, <2>4, <3>1 DEF TypeOK
  <2>6. Control'
    <3>1. Kind(p)' /\ Fits(p)'
      BY <1>1, <2>1, <2>2, <2>4 DEF IInv, Control, Kind, Fits, Asking
    <3> QED
      BY <1>1, <2>4, <3>1, ControlKept DEF IInv, EnsureLocked, serverVars
  <2>7. UNCHANGED <<made, known, durable, running, runtime, owner, stored, disk>>
    BY DEF EnsureLocked, serverVars, routeVars, rowVars
  <2>8. LockHeld'
    <3> SUFFICES ASSUME NEW q \in Tasks, pc'[q] \in Asking
                 PROVE  lock'[cv'[q]] = q /\ runtime'[cv'[q]] = None
      BY DEF LockHeld
    <3>1. CASE q = p
      BY <1>1, <1>4, <2>1, <2>7, <3>1 DEF IInv, TypeOK, RouteType
    <3>2. CASE q # p
      <4>1. Same(q)
        BY <2>4, <3>2 DEF Moves
      <4>2. cv[q] # c
        BY <1>1, <4>1, AskingAlone, TaskFacts DEF Same
      <4> QED
        BY <2>1, <2>7, <4>1, <4>2, AskingAlone DEF Same, IInv, TypeOK, RouteType
    <3> QED
      BY <3>1, <3>2
  <2>9. Fewer
    <3> SUFFICES ASSUME NEW s \in Sessions, NEW d \in Conversations, Refers(s, d)'
                 PROVE  Refers(s, d)
      BY DEF Fewer
    <3>1. ASSUME NEW q \in Tasks, cv'[q] = d, Names(q, s)'
          PROVE  (cv[q] = d /\ Names(q, s)) \/ stored[d] = s
      BY <2>1, <2>3, <2>4, <3>1 DEF Names, Moves, Same
    <3> QED
      BY <2>7, <3>1 DEF Refers
  <2>10. RoutesAgree' /\ SessionsApart' /\ ServerOK'
    BY <2>7, <2>9, FewerApart DEF IInv, RoutesAgree, ServerOK
  <2>11. Missing'
    <3> SUFFICES ASSUME NEW q \in Tasks, pc'[q] = "resume"
                 PROVE  /\ req'[q] = "sent" => stored'[cv'[q]] \in {num'[q], None}
                        /\ req'[q] = "notfound" => stored'[cv'[q]] \notin known' \cup durable'
      BY DEF Missing
    <3>1. CASE q = p
      BY <2>1, <2>3, <2>4, <2>7, <3>1
    <3>2. CASE q # p
      BY <2>4, <2>7, <3>2 DEF Moves, Same, IInv, Missing
    <3> QED
      BY <3>1, <3>2
  <2> QED
    BY <2>5, <2>6, <2>8, <2>10, <2>11 DEF IInv
<1> QED
  BY <1>3, <1>4

(* ensure_runtime: a session that is gone is replaced.                     *)
LEMMA RecreateSafe ==
    ASSUME IInv, NEW p \in Tasks, Recreate(p)
    PROVE  IInv'
<1> DEFINE c == cv[p]
<1>1. pc[p] = "resume" /\ pc[p] \in Asking
  BY DEF Recreate, Asking
<1>2. /\ c \in Conversations /\ lock[c] = p /\ runtime[c] = None /\ p[1] \in {"one", "client"}
      /\ \A q \in Tasks \ {p} : pc[q] \in Asking => cv[q] # c
  BY <1>1, AskingAlone
<1>3. /\ stored' = [stored EXCEPT ![c] = None] /\ disk'.stored = stored'
      /\ UNCHANGED <<made, known, durable, running, runtime, owner, lock, cv>>
  BY DEF Recreate, save, Rows, serverVars, routeVars
<1>4. "create" \in Waits /\ None \in Held /\ request(p, "create", None, 0)
  BY DEF Waits, Held, Recreate
<1>5. CallType' /\ Moves(p) /\ pc'[p] = "create" /\ req'[p] \in {"sent", "unavailable"}
  BY <1>3, <1>4, RequestEffect DEF IInv, TypeOK
<1>6. ServerType' /\ RouteType' /\ TaskType'
  BY DEF IInv, TypeOK, ServerType, RouteType, TaskType, Recreate, serverVars, routeVars
<1>7. RowType'
  BY <1>2 DEF IInv, TypeOK, RowType, Recreate, save, Rows, boundVars
<1>8. Control'
  <2>1. Kind(p)' /\ Fits(p)'
    BY <1>1, <1>2, <1>3, <1>5 DEF IInv, Control, Kind, Fits, Asking
  <2> QED
    BY <1>1, <1>5, <2>1, ControlKept DEF IInv, Recreate, serverVars
<1>9. LockHeld' /\ RoutesAgree'
  BY <1>1, <1>3, <1>5 DEF IInv, LockHeld, RoutesAgree, Moves, Same
<1>10. Fewer
  <2> SUFFICES ASSUME NEW s \in Sessions, NEW d \in Conversations, Refers(s, d)'
               PROVE  Refers(s, d)
    BY DEF Fewer
  <2>1. ASSUME NEW q \in Tasks, cv'[q] = d, Names(q, s)'
        PROVE  cv[q] = d /\ Names(q, s)
    BY <1>3, <1>5, <2>1 DEF Names, Moves, Same
  <2>2. stored'[d] = s => stored[d] = s
    BY <1>2, <1>3, LocalAssumption DEF IInv, TypeOK, RowType
  <2> QED
    BY <1>3, <2>1, <2>2 DEF Refers
<1>11. SessionsApart' /\ ServerOK'
  BY <1>3, <1>10, FewerApart DEF IInv, ServerOK
<1>12. Missing'
  <2> SUFFICES ASSUME NEW q \in Tasks, pc'[q] = "resume"
               PROVE  /\ req'[q] = "sent" => stored'[cv'[q]] \in {num'[q], None}
                      /\ req'[q] = "notfound" => stored'[cv'[q]] \notin known' \cup durable'
    BY DEF Missing
  <2>1. q # p /\ Same(q) /\ pc[q] = "resume"
    BY <1>5 DEF Moves, Same
  <2>2. cv[q] # c
    BY <1>2, <2>1 DEF Asking
  <2>3. stored'[cv[q]] = stored[cv[q]]
    BY <1>3, <2>2 DEF IInv, TypeOK, RowType
  <2> QED
    BY <1>3, <2>1, <2>3 DEF Same, IInv, Missing
<1> QED
  BY <1>5, <1>6, <1>7, <1>8, <1>9, <1>11, <1>12 DEF IInv, TypeOK

(* ensure_runtime: the answer binds the session, or the call failed.       *)
LEMMA EnsureAnsweredSafe ==
    ASSUME IInv, NEW p \in Tasks, EnsureAnswered(p)
    PROVE  IInv'
<1> DEFINE c == cv[p]
           r == ans[p]
<1>1. pc[p] \in Asking
  BY DEF EnsureAnswered, Asking
<1>2. /\ c \in Conversations /\ lock[c] = p /\ runtime[c] = None /\ p[1] \in {"one", "client"}
      /\ \A q \in Tasks \ {p} : pc[q] \in Asking => cv[q] # c
  BY <1>1, AskingAlone
<1>3. /\ lock' = [lock EXCEPT ![c] = None]
      /\ UNCHANGED <<epoch, made, known, durable, running, log, link, conn, ready, cv, op, prev,
                     todo, boundVars, historyVars, replay_epoch, present, has, status>>
  BY DEF EnsureAnswered, serverVars, routeVars, rowVars
<1>4. ServerType' /\ TaskType'
  BY <1>3 DEF IInv, TypeOK, ServerType, TaskType
<1>5. \A m \in Controls, x \in Held :
         Continue(p, m, x) => CallType' /\ Moves(p) /\ pc'[p] = m /\ req'[p] = "none"
  BY <1>3, ContinueEffect DEF IInv, TypeOK
<1>6. \A q \in Tasks : lock[cv[q]] = q /\ q # p /\ pc[q] \in Asking => lock'[cv[q]] = q
  BY <1>2, <1>3, AskingAlone DEF IInv, TypeOK, RouteType
<1>7. CASE req[p] = "ok"
  <2>1. r \in Runtimes /\ r[1] \in Sessions
    BY <1>1, <1>7 DEF IInv, Control, Fits, Runtimes
  <2>2. Continue(p, "got", r) /\ bind_runtime(c, r)
    BY <1>7 DEF EnsureAnswered
  <2>3. "got" \in Controls /\ r \in Held
    BY <2>1 DEF Controls, Held
  <2>4. CallType' /\ Moves(p) /\ pc'[p] = "got" /\ req'[p] = "none"
    BY <1>5, <2>2, <2>3
  <2>5. /\ runtime' = [runtime EXCEPT ![c] = r] /\ stored' = [stored EXCEPT ![c] = r[1]]
        /\ owner' = [owner EXCEPT ![r] = c] /\ watermark' = watermark
        /\ disk' = Rows(present', stored', has')
    BY <1>2, <2>2 DEF bind_runtime, save, IInv, TypeOK, RouteType
  <2>6. RouteType' /\ RowType'
    BY <1>2, <1>3, <2>1, <2>5 DEF IInv, TypeOK, RouteType, RowType, Rows, boundVars
  <2>7. Control'
    <3>1. Kind(p)' /\ Fits(p)'
      BY <1>2, <1>3, <2>4 DEF IInv, Control, Kind, Fits, Asking
    <3> QED
      BY <1>1, <1>3, <2>4, <3>1, ControlKept DEF IInv, Asking
  <2>8. LockHeld'
    <3> SUFFICES ASSUME NEW q \in Tasks, pc'[q] \in Asking
                 PROVE  lock'[cv'[q]] = q /\ runtime'[cv'[q]] = None
      BY DEF LockHeld
    <3>1. q # p /\ Same(q) /\ pc[q] \in Asking
      BY <2>4 DEF Moves, Same, Asking
    <3> QED
      BY <1>2, <1>6, <2>5, <3>1, AskingAlone DEF Same, IInv, TypeOK, RouteType
  <2>9. Refers(r[1], c)
    BY <1>1, <1>7 DEF Refers, Names
  <2>10. owner[r] = None /\ \A d \in Conversations : runtime[d] # r
    <3>1. ASSUME NEW d \in Conversations, runtime[d] = r  PROVE FALSE
      <4>1. Refers(r[1], d)
        BY <2>1, <3>1, LocalAssumption DEF Refers
      <4>2. d = c
        BY <1>2, <2>1, <2>9, <4>1 DEF IInv, SessionsApart
      <4> QED
        BY <1>2, <2>1, <3>1, <4>2, LocalAssumption
    <3> QED
      BY <2>1, <3>1 DEF IInv, RoutesAgree, TypeOK, RouteType
  <2>11. RoutesAgree'
    BY <1>2, <2>1, <2>5, <2>10, LocalAssumption DEF IInv, RoutesAgree, TypeOK, RouteType
  <2>12. Fewer
    <3> SUFFICES ASSUME NEW s \in Sessions, NEW d \in Conversations, Refers(s, d)'
                 PROVE  Refers(s, d)
      BY DEF Fewer
    <3>1. ASSUME NEW q \in Tasks, cv'[q] = d, Names(q, s)'
          PROVE  cv[q] = d /\ Names(q, s)
      BY <2>4, <3>1 DEF Names, Moves, Same, Asking
    <3>2. stored'[d] = s => stored[d] = s \/ (d = c /\ r[1] = s)
      BY <1>2, <2>5 DEF IInv, TypeOK, RowType
    <3>3. disk'.stored = stored'
      BY <2>5 DEF Rows
    <3>4. runtime'[d] # None /\ runtime'[d][1] = s
             => (runtime[d] # None /\ runtime[d][1] = s) \/ (d = c /\ r[1] = s)
      BY <1>2, <2>5 DEF IInv, TypeOK, RouteType
    <3> QED
      BY <2>9, <3>1, <3>2, <3>3, <3>4, <1>3 DEF Refers
  <2>13. SessionsApart' /\ ServerOK'
    BY <1>3, <2>12, FewerApart DEF IInv, ServerOK
  <2>14. Missing'
    <3> SUFFICES ASSUME NEW q \in Tasks, pc'[q] = "resume"
                 PROVE  /\ req'[q] = "sent" => stored'[cv'[q]] \in {num'[q], None}
                        /\ req'[q] = "notfound" => stored'[cv'[q]] \notin known' \cup durable'
      BY DEF Missing
    <3>1. q # p /\ Same(q) /\ pc[q] = "resume"
      BY <2>4 DEF Moves, Same
    <3>2. cv[q] # c
      BY <1>2, <3>1 DEF Asking
    <3>3. stored'[cv[q]] = stored[cv[q]]
      BY <2>5, <3>2 DEF IInv, TypeOK, RowType
    <3> QED
      BY <1>3, <3>1, <3>3 DEF Same, IInv, Missing
  <2> QED
    BY <1>4, <2>4, <2>6, <2>7, <2>8, <2>11, <2>13, <2>14 DEF IInv, TypeOK
<1>8. CASE req[p] # "ok"
  <2>1. Continue(p, "failed", None) /\ UNCHANGED <<routeVars, rowVars, disk>>
    BY <1>8 DEF EnsureAnswered
  <2>2. "failed" \in Controls /\ None \in Held
    BY DEF Controls, Held
  <2>3. CallType' /\ Moves(p) /\ pc'[p] = "failed" /\ req'[p] = "none"
    BY <1>5, <2>1, <2>2
  <2>4. RouteType' /\ RowType'
    BY <1>2, <1>3, <2>1 DEF IInv, TypeOK, RouteType, RowType, routeVars, rowVars, boundVars
  <2>5. Control'
    <3>1. Kind(p)' /\ Fits(p)'
      BY <1>2, <1>3, <2>3 DEF IInv, Control, Kind, Fits, Asking
    <3> QED
      BY <1>1, <1>3, <2>3, <3>1, ControlKept DEF IInv, Asking
  <2>6. LockHeld'
    <3> SUFFICES ASSUME NEW q \in Tasks, pc'[q] \in Asking
                 PROVE  lock'[cv'[q]] = q /\ runtime'[cv'[q]] = None
      BY DEF LockHeld
    <3>1. q # p /\ Same(q) /\ pc[q] \in Asking
      BY <2>3 DEF Moves, Same, Asking
    <3> QED
      BY <1>6, <2>1, <3>1, AskingAlone DEF Same, routeVars
  <2>7. Fewer
    <3>1. ASSUME NEW q \in Tasks, NEW s \in Sessions, Names(q, s)'  PROVE Names(q, s)
      BY <2>3, <3>1 DEF Names, Moves, Same, Asking
    <3> QED
      BY <1>3, <2>1, <3>1 DEF Fewer, Refers, routeVars, rowVars
  <2>8. RoutesAgree' /\ SessionsApart' /\ ServerOK'
    BY <1>3, <2>1, <2>7, FewerApart DEF IInv, RoutesAgree, ServerOK, routeVars
  <2>9. Missing'
    BY <1>3, <2>1, <2>3 DEF IInv, Missing, Moves, Same, rowVars
  <2> QED
    BY <1>4, <2>3, <2>4, <2>5, <2>6, <2>8, <2>9 DEF IInv, TypeOK
<1> QED
  BY <1>7, <1>8

-----------------------------------------------------------------------------
(* Routes that are dropped. *)

(* The route of a conversation goes from both tables.                      *)
LEMMA UnrouteAgree ==
    ASSUME TypeOK, RoutesAgree, NEW c \in Conversations,
           runtime' = [runtime EXCEPT ![c] = None],
           owner' = [q \in Runtimes |-> IF q = runtime[c] THEN None ELSE owner[q]]
    PROVE  /\ RoutesAgree'
           /\ runtime' \in [Conversations -> Runtimes \cup {None}]
           /\ owner' \in [Runtimes -> Conversations \cup {None}]
           /\ \A d \in Conversations : runtime'[d] \in {runtime[d], None}
<1>1. \A d \in Conversations : runtime'[d] = IF d = c THEN None ELSE runtime[d]
  BY DEF TypeOK, RouteType
<1>2. \A q \in Runtimes : owner'[q] = IF q = runtime[c] THEN None ELSE owner[q]
  OBVIOUS
<1>3. ASSUME NEW d \in Conversations, runtime'[d] # None
      PROVE  owner'[runtime'[d]] = d
  <2>1. d # c /\ runtime'[d] = runtime[d] /\ runtime[d] \in Runtimes
    BY <1>1, <1>3 DEF TypeOK, RouteType
  <2>2. owner[runtime[d]] = d
    BY <2>1, <1>3 DEF RoutesAgree
  <2>3. runtime[d] # runtime[c]
    <3> SUFFICES ASSUME runtime[d] = runtime[c]  PROVE FALSE
      OBVIOUS
    <3>1. runtime[c] # None
      BY <2>1, LocalAssumption
    <3> QED
      BY <2>1, <2>2, <3>1 DEF RoutesAgree
  <2> QED
    BY <1>2, <2>1, <2>2, <2>3
<1>4. ASSUME NEW q \in Runtimes, owner'[q] # None
      PROVE  runtime'[owner'[q]] = q
  <2>1. q # runtime[c] /\ owner'[q] = owner[q]
    BY <1>2, <1>4
  <2>2. runtime[owner[q]] = q /\ owner[q] \in Conversations
    BY <1>4, <2>1 DEF RoutesAgree, TypeOK, RouteType
  <2> QED
    BY <1>1, <2>1, <2>2
<1>5. RoutesAgree'
  BY <1>3, <1>4 DEF RoutesAgree
<1> QED
  BY <1>1, <1>5 DEF TypeOK, RouteType

(* A task drops the route of a conversation, or all routes go, without     *)
(* another word about sessions.                                            *)
LEMMA UnrouteSafe ==
    ASSUME IInv, TypeOK', NEW p \in Tasks, Moves(p), Kind(p)', Fits(p)', RoutesAgree',
           conn' = conn, log' = log,
           pc[p] # "done", pc'[p] = "idle" \/ pc[p] # "idle" \/ p[1] = "client",
           pc[p] \notin Asking, pc'[p] \notin Asking,
           UNCHANGED <<made, known, durable, running, lock, stored, disk>>,
           \A d \in Conversations : runtime'[d] \in {runtime[d], None}
    PROVE  IInv'
<1>1. Control'
  BY ControlKept DEF IInv
<1>2. \A q \in Tasks : pc'[q] \in Asking => q # p /\ Same(q)
  BY DEF Moves
<1>3. LockHeld'
  BY <1>2, AskingAlone DEF LockHeld, Same
<1>4. Fewer
  <2> SUFFICES ASSUME NEW s \in Sessions, NEW c \in Conversations, Refers(s, c)'
               PROVE  Refers(s, c)
    BY DEF Fewer
  <2>1. ASSUME NEW q \in Tasks, cv'[q] = c, Names(q, s)'
        PROVE  cv[q] = c /\ Names(q, s)
    BY <1>2, <2>1 DEF Same, Names, Asking
  <2> QED
    BY <2>1 DEF Refers
<1>5. SessionsApart' /\ ServerOK'
  BY <1>4, FewerApart DEF IInv, ServerOK
<1>6. Missing'
  BY <1>2 DEF IInv, Missing, Same, Asking
<1> QED
  BY <1>1, <1>3, <1>5, <1>6 DEF IInv

(* delete_conversation and reset_conversation: the route goes first.       *)
LEMMA UnbindSafe ==
    ASSUME IInv, NEW p \in ClientTasks, NEW c \in Conversations,
           NEW o \in {"delete", "configure"}, Unbind(p, o, c), ready' \in BOOLEAN
    PROVE  IInv'
<1> DEFINE r == runtime[c]
<1>1. p \in Tasks /\ p[1] = "client" /\ pc[p] = "idle"
  BY TaskFacts DEF Unbind, Tasks
<1>2. /\ runtime' = [runtime EXCEPT ![c] = None]
      /\ owner' = [q \in Runtimes |-> IF q = r THEN None ELSE owner[q]]
      /\ UNCHANGED <<serverVars, link, conn, watermark, replay_epoch, lock, rowVars,
                     disk, prev, todo, submits, faults, historyVars>>
  BY DEF Unbind
<1>3. /\ RoutesAgree'
      /\ runtime' \in [Conversations -> Runtimes \cup {None}]
      /\ owner' \in [Runtimes -> Conversations \cup {None}]
      /\ \A d \in Conversations : runtime'[d] \in {runtime[d], None}
  BY <1>2, UnrouteAgree DEF IInv
<1>4. TaskType' /\ cv'[p] = c /\ \A q \in Tasks \ {p} : cv'[q] = cv[q]
  BY <1>1, <1>2 DEF IInv, TypeOK, TaskType, Unbind
<1>5. CallType' /\ Moves(p) /\ pc'[p] \in {"closed", "close"}
  <2>1. r \in Held /\ None \in Held /\ "closed" \in Controls /\ "close" \in Waits /\ 0 \in Nat
    BY DEF IInv, TypeOK, RouteType, Held, Controls, Waits
  <2>2. Continue(p, "closed", None) \/ request(p, "close", r, 0)
    BY DEF Unbind
  <2> HIDE DEF r
  <2> QED
    BY <1>1, <1>4, <2>1, <2>2, ContinueEffect, RequestEffect DEF IInv, TypeOK
<1>6. ServerType' /\ RouteType' /\ RowType'
  BY <1>2, <1>3 DEF IInv, TypeOK, ServerType, RouteType, RowType, Unbind, serverVars, rowVars
<1>7. Kind(p)' /\ Fits(p)'
  BY <1>1, <1>4, <1>5 DEF Kind, Fits, Asking
<1> QED
  BY <1>1, <1>2, <1>3, <1>4, <1>5, <1>6, <1>7, UnrouteSafe
     DEF TypeOK, Asking, serverVars, rowVars

(* reconcile.one: forget the route and claim the session again.            *)
LEMMA RestoreBeginSafe ==
    ASSUME IInv, NEW g \in 1 .. MaxConn, NEW c \in Conversations, RestoreBegin(g, c)
    PROVE  IInv'
<1> DEFINE p == One(g, c)
<1>1. p \in Tasks /\ p[1] = "one" /\ pc[p] = "queued" /\ cv[p] = p[3]
  BY OneFacts DEF IInv, Control, Kind, RestoreBegin
<1>2. /\ runtime' = [runtime EXCEPT ![c] = None]
      /\ owner' = [q \in Runtimes |-> IF q = runtime[c] THEN None ELSE owner[q]]
      /\ UNCHANGED <<serverVars, link, conn, watermark, replay_epoch, ready,
                     lock, rowVars, disk, cv, op, prev, todo, boundVars, historyVars>>
  BY DEF RestoreBegin
<1>3. /\ RoutesAgree'
      /\ runtime' \in [Conversations -> Runtimes \cup {None}]
      /\ owner' \in [Runtimes -> Conversations \cup {None}]
      /\ \A d \in Conversations : runtime'[d] \in {runtime[d], None}
  BY <1>2, UnrouteAgree DEF IInv
<1>4. EnsureFrom(None) \in {"failed", "locking"} /\ EnsureFrom(None) \in Controls /\ None \in Held
  BY DEF EnsureFrom, Controls, Held
<1>5. CallType' /\ Moves(p) /\ pc'[p] \in {"failed", "locking"}
  BY <1>1, <1>2, <1>4, ContinueEffect DEF IInv, TypeOK, RestoreBegin
<1>6. ServerType' /\ RouteType' /\ RowType' /\ TaskType'
  BY <1>2, <1>3 DEF IInv, TypeOK, ServerType, RouteType, RowType, TaskType, serverVars, rowVars,
         boundVars
<1>7. Kind(p)' /\ Fits(p)'
  BY <1>1, <1>2, <1>5 DEF Kind, Fits, Asking
<1> QED
  BY <1>1, <1>2, <1>3, <1>5, <1>6, <1>7, UnrouteSafe
     DEF TypeOK, Asking, serverVars, rowVars

(* reconcile: a new life of the server drops every route.                  *)
LEMMA ReconcileReadySafe ==
    ASSUME IInv, NEW g \in 1 .. MaxConn, ReconcileReady(g)
    PROVE  IInv'
<1> DEFINE m == Main(g)
           changed == replay_epoch # 0 /\ replay_epoch # num[m]
<1>1. m \in Tasks /\ m[1] = "main" /\ pc[m] = "provider"
  BY MainFacts DEF ReconcileReady
<1>2. cv' = cv /\ "replay" \in Controls /\ None \in Held
  BY DEF ReconcileReady, Controls, Held
<1>3. CallType' /\ Moves(m) /\ pc'[m] = "replay"
  BY <1>1, <1>2, ContinueEffect DEF IInv, TypeOK, ReconcileReady
<1>4. /\ runtime' = IF changed THEN [c \in Conversations |-> None] ELSE runtime
      /\ owner' = IF changed THEN [r \in Runtimes |-> None] ELSE owner
      /\ watermark' = IF changed THEN [r \in Runtimes |-> 0] ELSE watermark
  BY DEF ReconcileReady
<1>5. num[m] \in Nat
  BY <1>1 DEF IInv, TypeOK, CallType
<1>6. RouteType'
  <2>1. Awaited \subseteq Runtimes
    BY DEF IInv, Control, Fits, Awaited, Runtimes
  <2>2. lapsed' \subseteq Runtimes /\ UNCHANGED <<sent, twice>>
    BY <2>1 DEF IInv, TypeOK, RouteType, ReconcileReady
  <2> QED
    BY <1>4, <1>5, <2>2 DEF IInv, TypeOK, RouteType, ReconcileReady
<1>7. ServerType' /\ RowType'
  BY DEF IInv, TypeOK, ServerType, RowType, ReconcileReady, serverVars, rowVars, boundVars
<1>8. TaskType'
  <2>1. {runtime[c] : c \in {d \in Conversations : runtime[d] # None}} \subseteq Runtimes
    BY DEF IInv, TypeOK, RouteType
  <2> QED
    BY <2>1 DEF IInv, TypeOK, TaskType, ReconcileReady
<1>9. RoutesAgree' /\ \A d \in Conversations : runtime'[d] \in {runtime[d], None}
  BY <1>4 DEF IInv, RoutesAgree
<1>10. Kind(m)' /\ Fits(m)'
  BY <1>1, <1>3 DEF Kind, Fits, Asking
<1> QED
  BY <1>1, <1>3, <1>6, <1>7, <1>8, <1>9, <1>10, UnrouteSafe
     DEF TypeOK, ReconcileReady, Asking, serverVars, rowVars

(* reset_conversation: forget the session.                                 *)
LEMMA ResetEndSafe ==
    ASSUME IInv, NEW p \in Tasks, ResetEnd(p)
    PROVE  IInv'
<1> DEFINE c == cv[p]
           m == IF link = "up" THEN EnsureFrom(runtime[c]) ELSE "failed"
<1>1. p[1] = "client" /\ c \in Conversations /\ pc[p] \in {"close", "closed"}
  BY TaskFacts DEF IInv, Control, Kind, ResetEnd, Closed
<1>2. /\ stored' = [stored EXCEPT ![c] = None] /\ disk'.stored = stored' /\ cv' = cv
      /\ UNCHANGED <<made, known, durable, running, runtime, owner, lock, log, conn>>
  BY DEF ResetEnd, save, Rows, serverVars, routeVars
<1>3. m \in {"failed", "got", "locking"} /\ m \in Controls /\ runtime[c] \in Held
  BY <1>1 DEF EnsureFrom, Controls, Held, IInv, TypeOK, RouteType
<1>4. Continue(p, m, runtime[c])
  BY DEF ResetEnd
<1> HIDE DEF m
<1>5. CallType' /\ Moves(p) /\ pc'[p] = m
  BY <1>2, <1>3, <1>4, ContinueEffect DEF IInv, TypeOK
<1>6. ServerType' /\ RouteType' /\ TaskType'
  BY DEF IInv, TypeOK, ServerType, RouteType, TaskType, ResetEnd, serverVars, routeVars
<1>7. RowType'
  BY <1>1 DEF IInv, TypeOK, RowType, ResetEnd, save, Rows, boundVars, Statuses
<1>8. Control'
  <2>1. Kind(p)' /\ Fits(p)'
    BY <1>1, <1>2, <1>3, <1>5 DEF IInv, Control, Kind, Fits, Asking
  <2> QED
    BY <1>1, <1>2, <1>5, <2>1, ControlKept DEF IInv
<1>9. \A q \in Tasks : pc'[q] \in Asking => q # p /\ Same(q)
  BY <1>3, <1>5 DEF Moves, Asking
<1>10. LockHeld' /\ RoutesAgree'
  BY <1>2, <1>9 DEF IInv, LockHeld, RoutesAgree, Same
<1>11. Fewer
  <2> SUFFICES ASSUME NEW s \in Sessions, NEW d \in Conversations, Refers(s, d)'
               PROVE  Refers(s, d)
    BY DEF Fewer
  <2>1. ASSUME NEW q \in Tasks, cv'[q] = d, Names(q, s)'
        PROVE  cv[q] = d /\ Names(q, s)
    BY <1>9, <2>1 DEF Names, Same, Asking
  <2>2. stored'[d] = s => stored[d] = s
    BY <1>1, <1>2, LocalAssumption DEF IInv, TypeOK, RowType
  <2> QED
    BY <1>2, <2>1, <2>2 DEF Refers
<1>12. SessionsApart' /\ ServerOK'
  BY <1>2, <1>11, FewerApart DEF IInv, ServerOK
<1>13. Missing'
  <2> SUFFICES ASSUME NEW q \in Tasks, pc'[q] = "resume"
               PROVE  /\ req'[q] = "sent" => stored'[cv'[q]] \in {num'[q], None}
                      /\ req'[q] = "notfound" => stored'[cv'[q]] \notin known' \cup durable'
    BY DEF Missing
  <2>1. q # p /\ Same(q) /\ pc[q] = "resume" /\ cv[q] \in Conversations
    BY <1>9, AskingAlone DEF Same, Asking
  <2>2. stored'[cv[q]] \in {stored[cv[q]], None}
    BY <1>2, <2>1 DEF IInv, TypeOK, RowType
  <2>3. None \notin known \cup durable
    BY LocalAssumption DEF IInv, TypeOK, ServerType
  <2> QED
    BY <1>2, <2>1, <2>2, <2>3 DEF Same, IInv, Missing
<1> QED
  BY <1>5, <1>6, <1>7, <1>8, <1>10, <1>12, <1>13 DEF IInv, TypeOK

(* client_handler: the client disconnects.                                 *)
LEMMA CancelSafe ==
    ASSUME IInv, NEW p \in ClientTasks, Cancel(p)
    PROVE  IInv'
<1>1. p \in Tasks /\ p[1] = "client" /\ pc[p] # "idle"
  BY TaskFacts DEF Cancel, Tasks
<1>2. /\ durable' \subseteq known \cup durable /\ running' \subseteq known \cup running
      /\ lock' = [c \in Conversations |-> IF lock[c] = p THEN None ELSE lock[c]]
      /\ UNCHANGED <<epoch, made, known, log, link, conn, routeVars, ready, rowVars, disk,
                     todo, boundVars, historyVars>>
  BY DEF Cancel, Forget, Accept, Live
<1>3. CallType' /\ TaskType' /\ Moves(p) /\ pc'[p] = "idle"
  BY <1>1, <1>2, RespondEffect DEF IInv, TypeOK, Cancel
<1>4. ServerType' /\ RouteType' /\ RowType'
  BY <1>2 DEF IInv, TypeOK, ServerType, RouteType, RowType, routeVars, rowVars, boundVars
<1>5. Control'
  <2>1. Kind(p)' /\ Fits(p)'
    BY <1>1, <1>3 DEF Kind, Fits, Asking
  <2>2. pc[p] # "done"
    BY <1>1 DEF IInv, Control, Kind
  <2> QED
    BY <1>1, <1>2, <1>3, <2>1, <2>2, ControlKept DEF IInv
<1>6. \A q \in Tasks : pc'[q] \in Asking => q # p /\ Same(q)
  BY <1>3 DEF Moves, Asking
<1>7. LockHeld'
  BY <1>2, <1>6, AskingAlone DEF LockHeld, Same, routeVars
<1>8. RoutesAgree'
  BY <1>2 DEF IInv, RoutesAgree, routeVars
<1>9. Fewer
  <2>1. ASSUME NEW q \in Tasks, NEW s \in Sessions, Names(q, s)'  PROVE Names(q, s) /\ Same(q)
    BY <1>6, <2>1 DEF Names, Same, Asking
  <2> QED
    BY <1>2, <2>1 DEF Fewer, Refers, Same, routeVars, rowVars
<1>10. SessionsApart' /\ ServerOK'
  BY <1>2, <1>9, FewerApart DEF IInv, ServerOK
<1>11. Missing'
  <2> SUFFICES ASSUME NEW q \in Tasks, pc'[q] = "resume"
               PROVE  /\ req'[q] = "sent" => stored'[cv'[q]] \in {num'[q], None}
                      /\ req'[q] = "notfound" => stored'[cv'[q]] \notin known' \cup durable'
    BY DEF Missing
  <2>1. Same(q) /\ pc[q] = "resume"
    BY <1>6 DEF Same, Asking
  <2>2. stored' = stored /\ known' \cup durable' \subseteq known \cup durable
    BY <1>2 DEF rowVars
  <2> QED
    BY <2>1, <2>2 DEF Same, IInv, Missing
<1> QED
  BY <1>3, <1>4, <1>5, <1>7, <1>8, <1>10, <1>11 DEF IInv, TypeOK

(* Nobody is doing anything. *)
Resting ==
    /\ pc = [p \in Tasks |-> "idle"]
    /\ req = [p \in Tasks |-> "none"] /\ ans = [p \in Tasks |-> None]
    /\ num = [p \in Tasks |-> 0] /\ todo = [p \in Tasks |-> {}]
    /\ cv = [p \in Tasks |-> IF p[1] = "one" THEN p[3] ELSE None]
    /\ op = [p \in Tasks |-> "none"] /\ prev = [p \in Tasks |-> FALSE]

NoNames == \A p \in Tasks, s \in Sessions : ~Names(p, s)

LEMMA RestingControl ==
    Resting => CallType /\ TaskType /\ Control /\ LockHeld /\ Missing /\ NoNames
<1> SUFFICES ASSUME Resting
             PROVE  CallType /\ TaskType /\ Control /\ LockHeld /\ Missing /\ NoNames
  OBVIOUS
<1>1. CallType
  BY DEF Resting, CallType, Controls, Held
<1>2. TaskType
  BY TaskFacts DEF Resting, TaskType
<1>3. Control
  BY DEF Resting, Control, Kind, Spawned, Fits, Asking
<1>4. LockHeld /\ Missing /\ NoNames
  BY DEF Resting, LockHeld, Missing, NoNames, Names, Asking
<1> QED
  BY <1>1, <1>2, <1>3, <1>4

LEMMA CrashSafe ==
    ASSUME IInv, Crash
    PROVE  IInv'
<1>1. Resting'
  BY DEF Crash, Resting
<1>2. CallType' /\ TaskType' /\ Control' /\ LockHeld' /\ Missing' /\ NoNames'
  BY <1>1, RestingControl, PTL
<1>3. ServerType'
  BY DEF IInv, TypeOK, ServerType, Crash, serverVars
<1>4. RouteType'
  BY DEF IInv, TypeOK, RouteType, Crash
<1>5. RowType'
  BY DEF IInv, TypeOK, RowType, Crash
<1>6. RoutesAgree'
  BY DEF Crash, RoutesAgree
<1>7. Fewer
  BY <1>2 DEF Fewer, NoNames, Refers, Crash
<1>8. SessionsApart' /\ ServerOK'
  BY <1>7, FewerApart DEF IInv, ServerOK, Crash, serverVars
<1> QED
  BY <1>2, <1>3, <1>4, <1>5, <1>6, <1>8 DEF IInv, TypeOK

LEMMA InitSafe == Init => IInv
<1> SUFFICES ASSUME Init  PROVE IInv
  OBVIOUS
<1>1. CallType /\ TaskType /\ Control /\ LockHeld /\ Missing /\ NoNames
  BY RestingControl DEF Init, Resting
<1>2. ServerType
  BY LocalAssumption DEF Init, ServerType, Epochs, Sessions
<1>3. RouteType
  <2>1. 0 \in 0 .. MaxConn
    BY LocalAssumption
  <2> QED
    BY <2>1 DEF Init, RouteType
<1>4. RowType
  BY DEF Init, RowType, Rows, Statuses
<1>5. RoutesAgree /\ ServerOK
  BY DEF Init, RoutesAgree, ServerOK
<1>6. \A s \in Sessions, c \in Conversations : ~Refers(s, c)
  BY <1>1, LocalAssumption DEF Init, NoNames, Refers, Rows
<1> QED
  BY <1>1, <1>2, <1>3, <1>4, <1>5, <1>6 DEF IInv, TypeOK, SessionsApart

LEMMA NextSafe ==
    ASSUME IInv, [Next]_vars
    PROVE  IInv'
<1>1. CASE Progress
  <2>1. ASSUME NEW p \in Tasks, Serve(p) \/ TaskStep(p)  PROVE IInv'
    BY <2>1, ServeSafe, SubmitSendSafe, CallSendSafe, ClientFailedSafe, EnsureLockedSafe,
       RecreateSafe, EnsureAnsweredSafe, SubmitAnsweredSafe, CallAnsweredSafe, DeleteEndSafe,
       ResetEndSafe DEF TaskStep
  <2>2. ASSUME NEW g \in 1 .. MaxConn, Reconcile(g)  PROVE IInv'
    BY <2>2, ReconcileUnreadySafe, ReconcileReadySafe, ReplayNextSafe, ReplayAnsweredSafe,
       SpreadSafe DEF Reconcile
  <2>3. ASSUME NEW g \in 1 .. MaxConn, NEW c \in Conversations, Restore(g, c)  PROVE IInv'
    BY <2>3, RestoreBeginSafe, RestoreAskSafe, RestoreEndSafe DEF Restore
  <2> QED
    BY <1>1, <2>1, <2>2, <2>3, ConnectSafe DEF Progress
<1>2. CASE RefreshProvider \/ Crash
  BY <1>2, RefreshProviderSafe, CrashSafe
<1>3. CASE \E restart \in BOOLEAN, late \in SUBSET ClientTasks, unsent \in SUBSET ClientTasks :
              Disconnect(restart, late, unsent)
  BY <1>3, DisconnectSafe
<1>4. CASE \E p \in Tasks : Timeout(p)
  BY <1>4, TimeoutSafe
<1>5. CASE \E s \in Sessions, t \in Events : Report(s, t)
  BY <1>5, ReportSafe
<1>6. CASE \E p \in ClientTasks : Cancel(p)
  BY <1>6, CancelSafe
<1>7. ASSUME NEW p \in ClientTasks, NEW c \in Conversations,
             \/ \E o \in {"submit", "call"} : Begin(p, o, c)
             \/ DeleteBegin(p, c) \/ ConfigureBegin(p, c)
      PROVE  IInv'
  <2>1. CASE \E o \in {"submit", "call"} : Begin(p, o, c)
    BY <2>1, BeginSafe
  <2>2. CASE DeleteBegin(p, c) \/ ConfigureBegin(p, c)
    <3>1. ready' \in BOOLEAN /\ \E o \in {"delete", "configure"} : Unbind(p, o, c)
      BY <2>2 DEF DeleteBegin, ConfigureBegin, IInv, TypeOK, RouteType
    <3> QED
      BY <3>1, UnbindSafe
  <2> QED
    BY <1>7, <2>1, <2>2
<1>8. CASE UNCHANGED vars
  <2>1. TypeOK' /\ Control' /\ Calm
    BY <1>8 DEF vars, serverVars, routeVars, rowVars, taskVars, boundVars, IInv, TypeOK,
       ServerType, RouteType, RowType, CallType, TaskType, Control, Kind, Spawned, Fits, Calm,
       Same
  <2> QED
    BY <2>1, CalmKept
<1> QED
  BY <1>1, <1>2, <1>3, <1>4, <1>5, <1>6, <1>7, <1>8 DEF Next

-----------------------------------------------------------------------------
(* The inductive invariant holds. *)
THEOREM Invariance == Spec => []IInv
  BY InitSafe, NextSafe, PTL DEF Spec

(* Every variable of the bridge, the calls and the server keeps its type.  *)
THEOREM TypeCorrect == Spec => []TypeOK
<1>1. IInv => TypeOK
  BY DEF IInv
<1> QED
  BY <1>1, Invariance, PTL

(* The routing tables of handle_upstream_event and ensure_runtime stay     *)
(* inverse to each other (_bind_runtime, reconcile, delete_conversation,   *)
(* reset_conversation).                                                    *)
THEOREM TablesAgree == Spec => []RoutesAgree
<1>1. IInv => RoutesAgree
  BY DEF IInv
<1> QED
  BY <1>1, Invariance, PTL

-----------------------------------------------------------------------------
(* The fallback of ensure_runtime. *)

FallbackStep ==
    \A p \in Tasks : (pc[p] = "resume" /\ pc'[p] = "create") => stored[cv[p]] \notin durable

(* Only Recreate turns a resume into a create. *)
LEMMA RecreateOnly ==
    ASSUME IInv, [Next]_vars, NEW q \in Tasks, pc[q] = "resume", pc'[q] = "create"
    PROVE  Recreate(q)
<1> USE DEF IInv, TypeOK, CallType, EnsureFrom, Continue, request, Respond
<1>1. ASSUME NEW p \in Tasks, TaskStep(p)  PROVE Recreate(q)
  BY <1>1 DEF TaskStep, SubmitSend, CallSend, ClientFailed, EnsureLocked, Recreate,
     EnsureAnswered, SubmitAnswered, CallAnswered, DeleteEnd, ResetEnd
<1>2. ASSUME NEW p \in Tasks, Serve(p) \/ Timeout(p)  PROVE FALSE
  BY <1>2 DEF Serve, Timeout
<1>3. ASSUME NEW g \in 1 .. MaxConn, Reconcile(g)  PROVE FALSE
  BY <1>3, MainFacts DEF Reconcile, ReconcileUnready, ReconcileReady, ReplayNext, ReplayAnswered,
     Spread
<1>4. ASSUME NEW g \in 1 .. MaxConn, NEW c \in Conversations, Restore(g, c)  PROVE FALSE
  BY <1>4, OneFacts DEF Restore, RestoreBegin, RestoreAsk, RestoreEnd, RestoreFailed
<1>5. CASE Connect \/ RefreshProvider \/ Crash \/ UNCHANGED vars
  BY <1>5 DEF Connect, RefreshProvider, Crash, taskVars, vars
<1>6. ASSUME NEW restart, NEW late, NEW unsent, Disconnect(restart, late, unsent)  PROVE FALSE
  BY <1>6 DEF Disconnect
<1>7. ASSUME NEW s, NEW t, Report(s, t)  PROVE FALSE
  BY <1>7 DEF Report, taskVars
<1>8. ASSUME NEW p \in ClientTasks, NEW c, NEW o,
             Begin(p, o, c) \/ Unbind(p, o, c) \/ Cancel(p)
      PROVE  FALSE
  <2>1. p \in Tasks
    BY DEF Tasks
  <2> QED
    BY <1>8, <2>1 DEF Begin, Unbind, Cancel
<1> QED
  BY <1>1, <1>2, <1>3, <1>4, <1>5, <1>6, <1>7, <1>8
     DEF Next, Progress, DeleteBegin, ConfigureBegin

(* The session that the fallback of ensure_runtime drops holds no messages *)
(* that Hermes accepted.                                                   *)
THEOREM FallbackIsSafe == Spec => FallbackKeepsMessages
<1>1. ASSUME IInv, [Next]_vars  PROVE FallbackStep
  <2> SUFFICES ASSUME NEW p \in Tasks, pc[p] = "resume", pc'[p] = "create"
               PROVE  stored[cv[p]] \notin durable
    BY DEF FallbackStep
  <2>1. req[p] = "notfound"
    BY <1>1, RecreateOnly DEF Recreate, MayRecreate
  <2> QED
    BY <1>1, <2>1 DEF IInv, Missing
<1>2. IInv /\ [Next]_vars => [FallbackStep]_vars
  BY <1>1
<1>3. Spec => [][FallbackStep]_vars
  BY <1>2, Invariance, PTL DEF Spec
<1> QED
  BY <1>3 DEF FallbackKeepsMessages, FallbackStep

-----------------------------------------------------------------------------
(* Replays. *)

(* What was seen and forwarded of a runtime is in its log.  As long as its *)
(* watermark was not cleared under a replay, what was forwarded is no more *)
(* than what was seen since the watermarks were cleared, if anything was.  *)
Counted ==
    \A r \in Runtimes :
        /\ watermark[r] <= Len(log[r]) /\ \A i \in sent[r] : i <= Len(log[r])
        /\ r \notin lapsed /\ watermark[r] > 0 => \A i \in sent[r] : i <= watermark[r]

(* A replay that was asked for and not refused.                            *)
Waiting(p) == pc[p] = "since" /\ req[p] \in {"sent", "ok"}
Of(p) == <<ans[p][1], ans[p][2]>>

(* It asks for what follows an event that was seen.                        *)
AskedSeen ==
    \A p \in Tasks : Waiting(p) /\ Of(p) \notin lapsed
                     => ans[p][3] > 0 /\ ans[p][3] <= watermark[Of(p)]

Replays == Counted /\ AskedSeen /\ ForwardedOnce

LEMMA RepliesWait ==
    ASSUME IInv, NEW p \in Tasks, Waiting(p)
    PROVE  Of(p) \in Runtimes /\ ans[p][3] \in Nat
  BY DEF IInv, Control, Fits, Waiting, Runtimes, Of

(* A step that asks for no replay and leaves what was seen alone.          *)
LEMMA ReplaysKept ==
    ASSUME Replays, UNCHANGED <<watermark, sent, twice, lapsed, log>>,
           \A p \in Tasks : Waiting(p)' => Waiting(p) /\ ans'[p] = ans[p]
    PROVE  Replays'
<1>1. Counted' /\ ForwardedOnce'
  BY DEF Replays, Counted, ForwardedOnce
<1>2. AskedSeen'
  BY DEF Replays, AskedSeen, Of
<1> QED
  BY <1>1, <1>2 DEF Replays

(* Events that carry on where the clients stopped are forwarded once.      *)
LEMMA EventCounts ==
    ASSUME IInv, ForwardedOnce, NEW r \in Runtimes, NEW n \in Nat, NEW t, NEW after \in Nat,
           handle_upstream_event(r, n, t, after),
           r \in lapsed \/ \A i \in sent[r] : i <= after \/ i <= watermark[r]
    PROVE  /\ \A q \in Runtimes : /\ watermark'[q] \in Nat /\ watermark'[q] >= watermark[q]
                                  /\ q # r => watermark'[q] = watermark[q] /\ sent'[q] = sent[q]
           /\ \/ UNCHANGED <<watermark, sent>>
              \/ watermark'[r] = n /\ \A i \in sent'[r] : i \in sent[r] \/ i <= n
           /\ twice' \subseteq lapsed
<1>1. /\ watermark \in [Runtimes -> Nat] /\ sent \in [Runtimes -> SUBSET Nat]
      /\ twice \subseteq lapsed
  BY DEF IInv, TypeOK, RouteType, ForwardedOnce
<1>2. CASE n <= watermark[r]
  BY <1>1, <1>2 DEF handle_upstream_event
<1>3. CASE ~(n <= watermark[r])
  <2> DEFINE news == {i \in after + 1 .. n : i > watermark[r]}
  <2>1. news \in SUBSET Nat
    OBVIOUS
  <2>2. watermark' = [watermark EXCEPT ![r] = n] /\ n >= watermark[r]
    BY <1>1, <1>3 DEF handle_upstream_event
  <2>3. \/ sent' = sent /\ twice' = twice
        \/ /\ sent' = [sent EXCEPT ![r] = @ \cup news]
           /\ twice' = IF news \cap sent[r] = {} THEN twice ELSE twice \cup {r}
    BY <1>3 DEF handle_upstream_event, Forward
  <2>4. r \in lapsed \/ news \cap sent[r] = {}
    <3> SUFFICES ASSUME r \notin lapsed, NEW i \in news, i \in sent[r]  PROVE FALSE
      OBVIOUS
    <3>1. i \in Nat /\ i > after /\ i > watermark[r] /\ watermark[r] \in Nat
      BY <1>1, <2>1
    <3> QED
      BY <3>1
  <2>5. twice' \subseteq lapsed
    BY <1>1, <2>3, <2>4
  <2>6. \A i \in news : i <= n
    OBVIOUS
  <2> HIDE DEF news
  <2>7. \A q \in Runtimes : sent'[q] = sent[q] \/ (q = r /\ sent'[q] = sent[q] \cup news)
    <3>1. CASE sent' = sent
      BY <3>1
    <3>2. CASE sent' = [sent EXCEPT ![r] = @ \cup news]
      BY <1>1, <3>2
    <3> QED
      BY <2>3, <3>1, <3>2
  <2>8. \A i \in sent'[r] : i \in sent[r] \/ i <= n
    BY <2>6, <2>7
  <2>9. \A q \in Runtimes : /\ watermark'[q] \in Nat /\ watermark'[q] >= watermark[q]
                            /\ q # r => watermark'[q] = watermark[q]
    BY <1>1, <2>2
  <2>10. watermark'[r] = n
    BY <1>1, <2>2
  <2>11. \A q \in Runtimes : q # r => sent'[q] = sent[q]
    BY <2>7
  <2> QED
    BY <2>5, <2>8, <2>9, <2>10, <2>11
<1> QED
  BY <1>2, <1>3

(* What an event leaves of Replays, when it is one of the log.             *)
LEMMA EventReplays ==
    ASSUME IInv, Replays, NEW r \in Runtimes, NEW n \in Nat, NEW t, NEW after \in Nat,
           after < n, handle_upstream_event(r, n, t, after),
           r \in lapsed \/ \A i \in sent[r] : i <= after \/ i <= watermark[r],
           r \in lapsed \/ \A i \in sent[r] : i <= n,
           lapsed' = lapsed,
           \A q \in Runtimes : Len(log[q]) \in Nat /\ Len(log'[q]) \in Nat
                               /\ Len(log'[q]) >= Len(log[q]),
           n <= Len(log'[r]),
           \A p \in Tasks : Waiting(p)' => Waiting(p) /\ ans'[p] = ans[p]
    PROVE  Replays'
<1>1. /\ watermark \in [Runtimes -> Nat] /\ sent \in [Runtimes -> SUBSET Nat]
  BY DEF IInv, TypeOK, RouteType
<1>2. /\ \A q \in Runtimes : /\ watermark'[q] \in Nat /\ watermark'[q] >= watermark[q]
                             /\ q # r => watermark'[q] = watermark[q] /\ sent'[q] = sent[q]
      /\ \/ UNCHANGED <<watermark, sent>>
         \/ watermark'[r] = n /\ \A i \in sent'[r] : i \in sent[r] \/ i <= n
      /\ twice' \subseteq lapsed
  BY EventCounts DEF Replays
<1>3. Counted'
  <2> SUFFICES ASSUME NEW q \in Runtimes
               PROVE  /\ watermark'[q] <= Len(log'[q]) /\ \A i \in sent'[q] : i <= Len(log'[q])
                      /\ q \notin lapsed /\ watermark'[q] > 0
                         => \A i \in sent'[q] : i <= watermark'[q]
    BY DEF Counted
  <2>1. /\ watermark[q] \in Nat /\ sent[q] \subseteq Nat
        /\ watermark[q] <= Len(log[q]) /\ \A i \in sent[q] : i <= Len(log[q])
        /\ q \notin lapsed /\ watermark[q] > 0 => \A i \in sent[q] : i <= watermark[q]
    BY <1>1 DEF Replays, Counted
  <2>2. CASE watermark'[q] = watermark[q] /\ sent'[q] = sent[q]
    BY <2>1, <2>2
  <2>3. CASE q = r /\ watermark'[r] = n /\ \A i \in sent'[r] : i \in sent[r] \/ i <= n
    <3>1. \A i \in sent'[q] : i <= Len(log'[q])
      <4> TAKE i \in sent'[q]
      <4>1. CASE i \in sent[q]
        BY <2>1, <4>1
      <4>2. CASE i \notin sent[q]
        <5>1. sent' = sent \/ \E news \in SUBSET Nat : sent' = [sent EXCEPT ![r] = @ \cup news]
          <6>1. {k \in after + 1 .. n : k > watermark[r]} \in SUBSET Nat
            OBVIOUS
          <6> QED
            BY <6>1 DEF handle_upstream_event, Forward
        <5>2. i \in Nat /\ i <= n
          BY <1>1, <2>1, <2>3, <4>2, <5>1
        <5> QED
          BY <2>3, <5>2
      <4> QED
        BY <4>1, <4>2
    <3>2. q \notin lapsed => \A i \in sent'[q] : i <= n
      BY <2>3
    <3>3. watermark'[q] <= Len(log'[q])
      BY <2>3
    <3> QED
      BY <2>3, <3>1, <3>2, <3>3
  <2> QED
    BY <1>2, <2>2, <2>3
<1>4. AskedSeen'
  <2> SUFFICES ASSUME NEW p \in Tasks, Waiting(p), Of(p) \notin lapsed
               PROVE  ans[p][3] > 0 /\ ans[p][3] <= watermark'[Of(p)]
    BY DEF AskedSeen, Of
  <2>1. Of(p) \in Runtimes /\ ans[p][3] \in Nat
    BY RepliesWait
  <2>2. ans[p][3] > 0 /\ ans[p][3] <= watermark[Of(p)]
    BY DEF Replays, AskedSeen
  <2> QED
    BY <1>1, <1>2, <2>1, <2>2
<1> QED
  BY <1>2, <1>3, <1>4 DEF Replays, ForwardedOnce

(* The agent reports progress. *)
LEMMA ReportCounts ==
    ASSUME IInv, Replays, NEW s \in Sessions, NEW t \in Events, Report(s, t)
    PROVE  Replays'
<1> DEFINE r == <<s, epoch>>
<1>1. r \in Runtimes /\ log \in [Runtimes -> Seq(Events)] /\ Len(log[r]) \in Nat
  BY DEF IInv, TypeOK, ServerType, Runtimes
<1>2. /\ log' = [log EXCEPT ![r] = Append(@, t)] /\ UNCHANGED <<pc, req, ans, lapsed>>
  BY DEF Report, taskVars
<1>3. IF link = "up"
      THEN handle_upstream_event(r, Len(log[r]) + 1, t, Len(log[r]))
      ELSE UNCHANGED <<watermark, sent, twice>>
  BY DEF Report
<1> HIDE DEF r
<1>4. \A q \in Runtimes : Len(log[q]) \in Nat
  BY <1>1
<1>5. \A q \in Runtimes : Len(log'[q]) = IF q = r THEN Len(log[r]) + 1 ELSE Len(log[q])
  BY <1>1, <1>2
<1>6. watermark \in [Runtimes -> Nat] /\ sent \in [Runtimes -> SUBSET Nat]
  BY DEF IInv, TypeOK, RouteType
<1>7. \A p \in Tasks : Waiting(p)' => Waiting(p) /\ ans'[p] = ans[p]
  BY <1>2 DEF Waiting
<1>8. CASE link = "up"
  <2>1. \A i \in sent[r] : i <= Len(log[r])
    BY <1>1 DEF Replays, Counted
  <2>2. \A i \in sent[r] : i <= Len(log[r]) + 1
    BY <1>1, <1>6, <2>1
  <2>3. PICK n \in Nat : n = Len(log[r]) + 1
    BY <1>1
  <2>4. handle_upstream_event(r, n, t, Len(log[r])) /\ Len(log[r]) < n
    BY <1>1, <1>3, <1>8, <2>3
  <2>5. \A q \in Runtimes : Len(log[q]) \in Nat /\ Len(log'[q]) \in Nat
                            /\ Len(log'[q]) >= Len(log[q])
    BY <1>4, <1>5
  <2>6. n <= Len(log'[r])
    BY <1>1, <1>5, <2>3
  <2> QED
    BY <1>1, <1>2, <1>7, <2>1, <2>2, <2>3, <2>4, <2>5, <2>6, EventReplays
<1>9. CASE link # "up"
  <2>1. UNCHANGED <<watermark, sent, twice, lapsed>>
    BY <1>2, <1>3, <1>9
  <2>2. Counted'
    <3> SUFFICES ASSUME NEW q \in Runtimes
                 PROVE  watermark[q] <= Len(log'[q]) /\ \A i \in sent[q] : i <= Len(log'[q])
      BY <2>1 DEF Replays, Counted
    <3>1. watermark[q] <= Len(log[q]) /\ \A i \in sent[q] : i <= Len(log[q])
      BY DEF Replays, Counted
    <3> QED
      BY <1>4, <1>5, <1>6, <3>1
  <2>3. AskedSeen' /\ ForwardedOnce'
    BY <1>2, <1>7, <2>1 DEF Replays, AskedSeen, Of, ForwardedOnce
  <2> QED
    BY <2>2, <2>3 DEF Replays
<1> QED
  BY <1>8, <1>9

(* reconcile: the events missed are forwarded from the one seen last.      *)
LEMMA ReplayAnsweredCounts ==
    ASSUME IInv, Replays, NEW g \in 1 .. MaxConn, ReplayAnswered(g)
    PROVE  Replays'
<1> DEFINE m == Main(g)
           r == Of(m)
           news == req[m] = "ok" /\ num[m] > ans[m][3]
<1>1. m \in Tasks /\ pc[m] = "since" /\ pc'[m] = "replay" /\ log' = log /\ lapsed' = lapsed
  BY MainFacts DEF ReplayAnswered, Continue, IInv, TypeOK, CallType, serverVars
<1>2. \A p \in Tasks : Waiting(p)' => Waiting(p) /\ ans'[p] = ans[p]
  BY <1>1 DEF ReplayAnswered, Continue, IInv, TypeOK, CallType, Waiting
<1>3. watermark \in [Runtimes -> Nat] /\ sent \in [Runtimes -> SUBSET Nat]
  BY DEF IInv, TypeOK, RouteType
<1>4. CASE ~news
  <2>1. UNCHANGED <<watermark, sent, twice, lapsed, log>>
    BY <1>1, <1>4 DEF ReplayAnswered
  <2> QED
    BY <1>2, <2>1, ReplaysKept
<1>5. CASE news
  <2>1. Waiting(m)
    BY <1>1, <1>5 DEF Waiting
  <2>2. r \in Runtimes /\ ans[m][3] \in Nat
    BY <1>1, <2>1, RepliesWait
  <2>3. num[m] \in Nat /\ num[m] <= Len(log[r])
    BY <1>1, <1>5 DEF IInv, TypeOK, CallType, Control, Fits, Of
  <2>4. r \notin lapsed => ans[m][3] > 0 /\ ans[m][3] <= watermark[r]
    BY <1>1, <2>1 DEF Replays, AskedSeen
  <2>5. r \in lapsed \/ \A i \in sent[r] : i <= watermark[r]
    <3>1. r \notin lapsed => watermark[r] > 0
      BY <1>3, <2>2, <2>4
    <3> QED
      BY <2>2, <3>1 DEF Replays, Counted
  <2>6. handle_upstream_event(r, num[m], log[r][num[m]], ans[m][3]) /\ ans[m][3] < num[m]
    BY <1>5, <2>2, <2>3 DEF ReplayAnswered, Of
  <2> HIDE DEF m, r, news
  <2>7. \A q \in Runtimes : Len(log[q]) \in Nat
    BY DEF IInv, TypeOK, ServerType
  <2>8. CASE num[m] <= watermark[r]
    <3>1. UNCHANGED <<watermark, sent, twice, lapsed, log>>
      BY <1>1, <2>6, <2>8 DEF handle_upstream_event
    <3> QED
      BY <1>2, <3>1, ReplaysKept
  <2>9. CASE ~(num[m] <= watermark[r])
    <3>1. r \in lapsed \/ \A i \in sent[r] : i <= num[m]
      BY <1>3, <2>2, <2>3, <2>5, <2>9
    <3>2. r \in lapsed \/ \A i \in sent[r] : i <= ans[m][3] \/ i <= watermark[r]
      BY <2>5
    <3>3. \A q \in Runtimes : Len(log[q]) \in Nat /\ Len(log'[q]) \in Nat
                              /\ Len(log'[q]) >= Len(log[q])
      BY <1>1, <2>7
    <3>4. num[m] <= Len(log'[r])
      BY <1>1, <2>3
    <3> QED
      BY <1>1, <1>2, <2>2, <2>3, <2>6, <3>1, <3>2, <3>3, <3>4, EventReplays
  <2> QED
    BY <2>8, <2>9
<1> QED
  BY <1>4, <1>5

(* reconcile: only what follows an event that was seen is asked for.       *)
LEMMA ReplayNextCounts ==
    ASSUME IInv, Replays, NEW g \in 1 .. MaxConn, ReplayNext(g)
    PROVE  Replays'
<1> DEFINE m == Main(g)
<1>1. m \in Tasks /\ pc[m] = "replay" /\ UNCHANGED <<watermark, sent, twice, lapsed, log>>
  BY MainFacts DEF ReplayNext, serverVars, routeVars
<1>2. PICK r \in todo[m] :
         IF watermark[r] = 0
         THEN UNCHANGED <<pc, req, ans, num>>
         ELSE request(m, "since", <<r[1], r[2], watermark[r]>>, 0)
  BY DEF ReplayNext
<1>3. CASE watermark[r] = 0
  BY <1>1, <1>2, <1>3, ReplaysKept DEF Waiting
<1>4. CASE watermark[r] # 0
  <2>1. r \in Runtimes /\ watermark[r] \in Nat
    BY <1>1 DEF IInv, TypeOK, RouteType, TaskType
  <2>2. ans'[m] = <<r[1], r[2], watermark[r]>> /\ r = <<r[1], r[2]>>
    BY <1>1, <1>2, <1>4, <2>1 DEF request, IInv, TypeOK, CallType, Runtimes
  <2>3. \A p \in Tasks \ {m} : Waiting(p)' => Waiting(p) /\ ans'[p] = ans[p]
    BY <1>2, <1>4 DEF request, IInv, TypeOK, CallType, Waiting
  <2>4. Counted' /\ ForwardedOnce'
    BY <1>1 DEF Replays, Counted, ForwardedOnce
  <2>5. AskedSeen'
    <3> SUFFICES ASSUME NEW p \in Tasks, Waiting(p)', Of(p)' \notin lapsed
                 PROVE  ans'[p][3] > 0 /\ ans'[p][3] <= watermark[Of(p)']
      BY <1>1 DEF AskedSeen, Of
    <3>1. CASE p = m
      <4>1. ans'[p][3] = watermark[r] /\ Of(p)' = r
        BY <2>2, <3>1 DEF Of
      <4> QED
        BY <1>4, <2>1, <4>1
    <3>2. CASE p # m
      <4>1. Waiting(p) /\ Of(p)' = Of(p) /\ ans'[p] = ans[p]
        BY <2>3, <3>2 DEF Of
      <4> QED
        BY <4>1 DEF Replays, AskedSeen
    <3> QED
      BY <3>1, <3>2
  <2> QED
    BY <2>4, <2>5 DEF Replays
<1> QED
  BY <1>3, <1>4

(* reconcile: the watermarks may be cleared, and the replays awaited then  *)
(* are noted.                                                              *)
LEMMA ReconcileReadyCounts ==
    ASSUME IInv, Replays, NEW g \in 1 .. MaxConn, ReconcileReady(g)
    PROVE  Replays'
<1> DEFINE m == Main(g)
           changed == replay_epoch # 0 /\ replay_epoch # num[m]
<1>1. m \in Tasks /\ pc[m] = "provider" /\ UNCHANGED <<sent, twice, log>>
  BY MainFacts DEF ReconcileReady, serverVars
<1>2. /\ watermark' = IF changed THEN [r \in Runtimes |-> 0] ELSE watermark
      /\ lapsed' = IF changed THEN lapsed \cup Awaited ELSE lapsed
  BY DEF ReconcileReady
<1>3. \A p \in Tasks : Waiting(p)' => Waiting(p) /\ ans'[p] = ans[p]
  BY <1>1 DEF ReconcileReady, Continue, IInv, TypeOK, CallType, Waiting
<1> HIDE DEF m, changed
<1>4. CASE ~changed
  <2>1. UNCHANGED <<watermark, sent, twice, lapsed, log>>
    BY <1>1, <1>2, <1>4
  <2> QED
    BY <1>3, <2>1, ReplaysKept
<1>5. CASE changed
  <2>1. Counted'
    BY <1>1, <1>2, <1>5 DEF Replays, Counted, IInv, TypeOK, ServerType
  <2>2. AskedSeen'
    <3> SUFFICES ASSUME NEW p \in Tasks, Waiting(p)'  PROVE Of(p)' \in lapsed'
      BY DEF AskedSeen
    <3>1. Waiting(p) /\ Of(p)' = Of(p)
      BY <1>3 DEF Of
    <3>2. Of(p) \in Awaited
      BY <3>1 DEF Awaited, Of, Waiting
    <3> QED
      BY <1>2, <1>5, <3>1, <3>2
  <2>3. ForwardedOnce'
    BY <1>1, <1>2, <1>5 DEF Replays, ForwardedOnce
  <2> QED
    BY <2>1, <2>2, <2>3 DEF Replays
<1> QED
  BY <1>4, <1>5

(* _bind_runtime resets the watermark of no runtime: the conversation had  *)
(* none.                                                                   *)
LEMMA EnsureAnsweredCounts ==
    ASSUME IInv, Replays, NEW p \in Tasks, EnsureAnswered(p)
    PROVE  Replays'
<1>1. pc[p] \in Asking /\ UNCHANGED <<sent, twice, lapsed, log>>
  BY DEF EnsureAnswered, Asking, serverVars
<1>2. cv[p] \in Conversations /\ runtime[cv[p]] = None
  BY <1>1, AskingAlone
<1>3. watermark' = watermark
  BY <1>2 DEF EnsureAnswered, bind_runtime, routeVars, IInv, TypeOK, RouteType
<1>4. \A q \in Tasks : Waiting(q)' => Waiting(q) /\ ans'[q] = ans[q]
  BY DEF EnsureAnswered, Continue, IInv, TypeOK, CallType, Waiting
<1> QED
  BY <1>1, <1>3, <1>4, ReplaysKept

LEMMA CrashCounts ==
    ASSUME IInv, Crash
    PROVE  Replays'
<1>1. Counted'
  BY DEF Crash, serverVars, Counted, IInv, TypeOK, ServerType
<1>2. AskedSeen' /\ ForwardedOnce'
  BY DEF Crash, AskedSeen, Waiting, ForwardedOnce
<1> QED
  BY <1>1, <1>2 DEF Replays

(* Whatever else a task, the server or the socket does asks for no replay. *)
LEMMA OthersCount ==
    ASSUME IInv, Replays, [Next]_vars, ~Crash,
           \A s \in Sessions, t \in Events : ~Report(s, t),
           \A g \in 1 .. MaxConn : ~ReplayAnswered(g) /\ ~ReplayNext(g) /\ ~ReconcileReady(g),
           \A p \in Tasks : ~EnsureAnswered(p)
    PROVE  Replays'
<1> DEFINE Still == /\ UNCHANGED <<watermark, sent, twice, lapsed, log>>
                    /\ \A q \in Tasks : Waiting(q)' => Waiting(q) /\ ans'[q] = ans[q]
<1> SUFFICES Still
  BY ReplaysKept
<1> USE DEF IInv, TypeOK, CallType, Waiting, EnsureFrom, Continue, request, Respond, serverVars,
            routeVars
<1>1. ASSUME NEW p \in Tasks, TaskStep(p)  PROVE Still
  BY <1>1 DEF TaskStep, SubmitSend, CallSend, ClientFailed, EnsureLocked, Recreate,
     SubmitAnswered, CallAnswered, DeleteEnd, ResetEnd
<1>2. ASSUME NEW p \in Tasks, Serve(p)  PROVE Still
  BY <1>2 DEF Serve, Answered
<1>3. ASSUME NEW p \in Tasks, Timeout(p)  PROVE Still
  BY <1>3 DEF Timeout
<1>4. ASSUME NEW g \in 1 .. MaxConn, Reconcile(g)  PROVE Still
  BY <1>4, MainFacts DEF Reconcile, ReconcileUnready, Spread
<1>5. ASSUME NEW g \in 1 .. MaxConn, NEW c \in Conversations, Restore(g, c)  PROVE Still
  BY <1>5, OneFacts DEF Restore, RestoreBegin, RestoreAsk, RestoreEnd, RestoreFailed
<1>6. CASE Connect \/ RefreshProvider \/ UNCHANGED vars
  BY <1>6 DEF Connect, RefreshProvider, taskVars, vars
<1>7. ASSUME NEW restart, NEW late, NEW unsent, Disconnect(restart, late, unsent)  PROVE Still
  BY <1>7 DEF Disconnect, reject_pending, Awaiting
<1>8. ASSUME NEW p \in ClientTasks, NEW c, NEW o,
             Begin(p, o, c) \/ Unbind(p, o, c) \/ Cancel(p)
      PROVE  Still
  <2>1. p \in Tasks
    BY DEF Tasks
  <2> QED
    BY <1>8, <2>1 DEF Begin, Unbind, Cancel
<1> QED
  BY <1>1, <1>2, <1>3, <1>4, <1>5, <1>6, <1>7, <1>8
     DEF Next, Progress, DeleteBegin, ConfigureBegin

LEMMA ReplaysStep ==
    ASSUME IInv, Replays, [Next]_vars
    PROVE  Replays'
  BY ReportCounts, ReplayAnsweredCounts, ReplayNextCounts, ReconcileReadyCounts,
     EnsureAnsweredCounts, CrashCounts, OthersCount

LEMMA ReplaysInit == Init => Replays
  BY DEF Init, Replays, Counted, AskedSeen, Waiting, ForwardedOnce

(* handle_upstream_event and reconcile: live events and the replays of any *)
(* number of connections forward no event of a runtime twice, unless its   *)
(* watermark was cleared while a replay of it was awaited.                 *)
THEOREM ForwardedAtMostOnce == Spec => []ForwardedOnce
<1>1. Replays => ForwardedOnce
  BY DEF Replays
<1> QED
  BY <1>1, Invariance, ReplaysInit, ReplaysStep, PTL DEF Spec

=============================================================================
