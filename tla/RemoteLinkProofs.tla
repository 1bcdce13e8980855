-------------------------- MODULE RemoteLinkProofs --------------------------
(***************************************************************************)
(* Proofs about RemoteLink, for any tasks, conversations and requests and  *)
(* any number of list versions and faults.                                 *)
(*                                                                         *)
(* A coalesced invalidation is owed to someone: the registered worker,     *)
(* while the mark is set, or the request that will bring the change.       *)
(***************************************************************************)
EXTENDS RemoteLink, TLAPS

(* Nobody knows a version that the WebUI has not reached.                  *)
Bounded ==
    /\ applied <= version /\ heard <= version
    /\ \A k \in Observers : obs[k].inbox <= version
    /\ \A a \in Actors : act[a].got.v <= version

(* A request about a conversation that is not listed yet names one, and a  *)
(* refresh worker only asks for the list, sleeps, or waits for an observer *)
(* before it sleeps.                                                       *)
Sensible(a, m) ==
    /\ m.op \in {"create", "duplicate", "truncate", "snapshot", "ensure"} => m.conv # None
    /\ a \in Workers
       => /\ m.pc \in {"idle", "ask", "told", "observe", "rest"}
          /\ m.pc \in {"ask", "told"} => m.op = "list"
          /\ m.pc = "observe" => m.then = "rest"

(* Somebody will apply a list at least as new as the change heard last,    *)
(* whether or not the session is connected.                                *)
Marked == pending /\ worker # 0 /\ act[worker].pc \in {"ask", "told", "observe", "rest"}
Brings(a) ==
    /\ ~act[a].cancel /\ act[a].op = "list"
    /\ act[a].pc = "ask" \/ (act[a].pc = "told" /\ act[a].got.v >= heard)
Owed == (~lost /\ applied < heard) => Marked \/ \E a \in Actors : Brings(a)

IInv ==
    /\ TypeOK
    /\ Bounded
    /\ \A a \in Actors : Sensible(a, act[a])
    /\ Owed

-----------------------------------------------------------------------------
(* Helpers. *)

(* A choice from a set is one of its members.                              *)
LEMMA OneOfIn == ASSUME NEW S, S # {} PROVE OneOf(S) \in S
  BY DEF OneOf

(* An idle task has the type of a task.                                    *)
LEMMA IdleTyped ==
    Idle \in Tasks /\ Idle.got.v = 0 /\ Idle.op = "none" /\ Idle.pc = "idle" /\ ~Idle.cancel
  BY DEF Idle, NoList, Tasks, Operations

(* So has one that rests, and one that asks.                               *)
LEMMA AskTyped ==
    ASSUME NEW op \in Operations, NEW c \in Convs \cup {None}
    PROVE  LET m == [Idle EXCEPT !.pc = "ask", !.op = op, !.conv = c]
           IN  m \in Tasks /\ m.pc = "ask" /\ m.op = op /\ m.conv = c /\ m.got.v = 0 /\ ~m.cancel
  BY DEF Idle, NoList, Tasks, Operations

(* A task that rests has the type of a task.                               *)
LEMMA RestTyped ==
    LET m == [Idle EXCEPT !.pc = "rest"]
    IN  m \in Tasks /\ m.pc = "rest" /\ m.op = "none" /\ m.got.v = 0 /\ ~m.cancel
  BY DEF Idle, NoList, Tasks, Operations

(* What a step of one task leaves of the others.                           *)
Only(a) ==
    /\ act' \in [Actors -> Tasks]
    /\ \A b \in Actors \ {a} : act'[b] = act[b]

(* A task goes on, and a worker that does so sleeps or waits for an        *)
(* observer before it sleeps.                                              *)
Goes(a) ==
    /\ Only(a) /\ Sensible(a, act'[a]) /\ act'[a].got.v <= version
    /\ a \in Workers => act'[a].pc \in {"rest", "observe"}

(* The observers are typed and have heard of no later version.             *)
Watched(o) == o \in [Observers -> Watches] /\ \A k \in Observers : o[k].inbox <= version

(* What a task may do to the rows, the selection and the observers.        *)
Effect(a) ==
    /\ Goes(a) /\ Watched(obs')
    /\ rows' \subseteq Convs /\ selected' \in Convs \cup {None}
    /\ observed' \in Convs \cup {None} /\ session' \in Observers \cup {0}

(* Another task takes the place of a task.                                 *)
LEMMA OnlyEffect ==
    ASSUME TypeOK, NEW a \in Actors, NEW m \in Tasks, act' = [act EXCEPT ![a] = m]
    PROVE  Only(a) /\ act'[a] = m
  BY DEF TypeOK, Only

(* A request is sent.                                                      *)
LEMMA AskEffect ==
    ASSUME TypeOK, NEW a \in Actors, NEW op \in Operations, NEW c \in Convs \cup {None},
           Ask(a, op, c)
    PROVE  /\ Only(a) /\ act'[a].pc = "ask" /\ act'[a].op = op /\ act'[a].conv = c
           /\ act'[a].got.v = 0 /\ ~act'[a].cancel
<1> DEFINE m == [Idle EXCEPT !.pc = "ask", !.op = op, !.conv = c]
<1>1. m \in Tasks /\ m.pc = "ask" /\ m.op = op /\ m.conv = c /\ m.got.v = 0 /\ ~m.cancel
  BY AskTyped
<1>2. act' = [act EXCEPT ![a] = m]
  BY DEF Ask
<1> HIDE DEF m
<1> QED
  BY <1>1, <1>2, OnlyEffect

(* A handler that asks goes on, if what it asks for is sensible.           *)
LEMMA AskGoes ==
    ASSUME TypeOK, NEW a \in Handlers, NEW op \in Operations, NEW c \in Convs \cup {None},
           op \in {"create", "duplicate", "truncate", "snapshot", "ensure"} => c # None,
           Ask(a, op, c)
    PROVE  Goes(a)
<1>1. a \in Actors /\ a \notin Workers
  BY TasksAssumption DEF Actors
<1> QED
  BY <1>1, AskEffect DEF Goes, Sensible, TypeOK

(* A handler that has ended, too.                                          *)
LEMMA IdleGoes ==
    ASSUME TypeOK, NEW a \in Handlers, act' = [act EXCEPT ![a] = Idle]
    PROVE  Goes(a)
<1>1. a \in Actors /\ a \notin Workers
  BY TasksAssumption DEF Actors
<1>2. Only(a) /\ act'[a] = Idle
  BY <1>1, IdleTyped, OnlyEffect
<1> QED
  BY <1>1, <1>2, IdleTyped DEF Goes, Sensible, TypeOK

(* A new observer is typed and has heard nothing.                          *)
LEMMA StartEffect ==
    ASSUME TypeOK, NEW o, Watched(o), NEW k \in Observers, NEW c \in Convs \cup {None}
    PROVE  Watched(Start(o, k, c))
<1> DEFINE m == [NoObserver EXCEPT !.pc = "loop", !.conv = c]
<1>1. m \in Watches /\ m.inbox = 0
  BY DEF NoObserver, Watches
<1>2. Start(o, k, c) = [o EXCEPT ![k] = m]
  BY DEF Start
<1> HIDE DEF m
<1> QED
  BY <1>1, <1>2 DEF Watched, TypeOK

(* A cancelled observer stays what it is.                                  *)
LEMMA CancelEffect ==
    ASSUME NEW o, Watched(o), NEW k \in Observers \cup {0}
    PROVE  Watched(Cancel(o, k))
<1>1. CASE k # 0 /\ o[k].pc # "none"
  <2> DEFINE m == [o[k] EXCEPT !.cancel = TRUE]
  <2>1. k \in Observers /\ m \in Watches /\ m.inbox = o[k].inbox
    BY <1>1 DEF Watched, Watches
  <2>2. Cancel(o, k) = [o EXCEPT ![k] = m]
    BY <1>1 DEF Cancel
  <2> HIDE DEF m
  <2> QED
    BY <2>1, <2>2 DEF Watched
<1>2. CASE ~(k # 0 /\ o[k].pc # "none")
  BY <1>2 DEF Cancel
<1> QED
  BY <1>1, <1>2

(* What an actor does after observe_remote_conversation.                   *)
LEMMA ContinueEffect ==
    ASSUME TypeOK, NEW a \in Actors,
           NEW then \in {"none", "end", "drop", "contract", "rest", "unknown"},
           a \in Workers => then = "rest",
           NEW c, NEW r \in SUBSET Convs, NEW s \in Convs \cup {None},
           Continue(a, then, c, r, s)
    PROVE  Goes(a) /\ rows' \subseteq Convs /\ selected' \in Convs \cup {None}
<1>1. rows' \subseteq Convs /\ selected' \in Convs \cup {None}
  BY DEF Continue
<1>2. CASE then = "contract"
  <2>1. Ask(a, "contract", None) /\ a \in Handlers
    BY <1>2 DEF Continue, Actors
  <2> QED
    BY <1>1, <2>1, AskGoes DEF Operations
<1>3. CASE then = "rest"
  <2> DEFINE m == [Idle EXCEPT !.pc = "rest"]
  <2>1. m \in Tasks /\ m.pc = "rest" /\ m.op = "none" /\ m.got.v = 0
    BY RestTyped
  <2>2. act' = [act EXCEPT ![a] = m]
    BY <1>3 DEF Continue
  <2> HIDE DEF m
  <2>3. Only(a) /\ act'[a] = m
    BY <2>1, <2>2, OnlyEffect
  <2> QED
    BY <1>1, <2>1, <2>3 DEF Goes, Sensible, TypeOK
<1>4. CASE then \notin {"contract", "rest"}
  <2>1. act' = [act EXCEPT ![a] = Idle] /\ a \in Handlers
    BY <1>4 DEF Continue, Actors
  <2> QED
    BY <1>1, <2>1, IdleGoes
<1> QED
  BY <1>2, <1>3, <1>4

(* The tail of observe_remote_conversation.                                *)
LEMMA ObserveEffect ==
    ASSUME TypeOK, NEW c \in Convs \cup {None}, NEW o, Watched(o), NEW r, Observe(c, o, r)
    PROVE  Watched(obs') /\ observed' \in Convs \cup {None} /\ session' \in Observers \cup {0}
<1>1. CASE c = None \/ ~on \/ c \notin r
  BY <1>1 DEF Observe
<1>2. CASE ~(c = None \/ ~on \/ c \notin r)
  <2> DEFINE k == OneOf(FreshObservers)
  <2>1. FreshObservers # {} /\ session' = k /\ obs' = Start(o, k, c) /\ observed' = c
    BY <1>2 DEF Observe
  <2>2. k \in Observers
    BY <2>1, OneOfIn DEF FreshObservers
  <2> HIDE DEF k
  <2> QED
    BY <2>1, <2>2, StartEffect
<1> QED
  BY <1>1, <1>2

(* A task that waits for an observer it has stopped.                       *)
Waiting(a, c, then) ==
    act' = [act EXCEPT ![a] = [@ EXCEPT !.pc = "observe", !.old = session,
                                        !.want = c, !.then = then]]

LEMMA WaitingEffect ==
    ASSUME IInv, NEW a \in Actors, NEW c \in Convs \cup {None},
           NEW then \in {"none", "end", "drop", "contract", "rest", "unknown"},
           a \in Workers => then = "rest", Waiting(a, c, then)
    PROVE  Goes(a)
<1> DEFINE m == [act[a] EXCEPT !.pc = "observe", !.old = session, !.want = c, !.then = then]
<1>1. session \in Nat /\ act[a] \in Tasks
  BY TasksAssumption DEF IInv, TypeOK
<1>2. /\ m \in Tasks /\ m.pc = "observe" /\ m.then = then /\ m.op = act[a].op
      /\ m.conv = act[a].conv /\ m.got = act[a].got
  BY <1>1 DEF Tasks
<1>3. act' = [act EXCEPT ![a] = m]
  BY DEF Waiting
<1> HIDE DEF m
<1>4. Only(a) /\ act'[a] = m
  BY <1>2, <1>3, OnlyEffect DEF IInv
<1>5. Sensible(a, act[a]) /\ act[a].got.v <= version
  BY DEF IInv, Bounded
<1> QED
  BY <1>2, <1>4, <1>5 DEF Goes, Sensible

(* observe_remote_conversation, at once or after a wait.                   *)
LEMMA ObservationEffect ==
    ASSUME IInv, NEW a \in Actors, NEW c \in Convs \cup {None},
           NEW then \in {"none", "end", "drop", "contract", "rest", "unknown"},
           a \in Workers => then = "rest",
           NEW r \in SUBSET Convs, NEW s \in Convs \cup {None}, NEW o, Watched(o),
           observe_remote_conversation(a, c, then, r, s, o)
    PROVE  Effect(a)
<1> USE DEF IInv
<1>1. observed \in Convs \cup {None} /\ session \in Observers \cup {0}
  BY DEF TypeOK
<1>2. CASE /\ Continue(a, then, act[a].conv, r, s)
           /\ obs' = o /\ UNCHANGED <<observed, session>>
  BY <1>1, <1>2, ContinueEffect DEF Effect
<1>3. CASE Observe(c, o, r) /\ Continue(a, then, act[a].conv, r, s)
  BY <1>3, ContinueEffect, ObserveEffect DEF Effect
<1>4. CASE /\ session' = 0 /\ UNCHANGED observed
           /\ obs' = Cancel(o, session)
           /\ Waiting(a, c, then)
           /\ rows' = r /\ selected' = s
  <2>1. Goes(a)
    BY <1>4, WaitingEffect
  <2>2. Watched(obs')
    BY <1>1, <1>4, CancelEffect
  <2> QED
    BY <1>1, <1>4, <2>1, <2>2 DEF Effect
<1> QED
  BY <1>2, <1>3, <1>4 DEF observe_remote_conversation, Waiting

(* The observers as they are.                                              *)
LEMMA NowWatched == ASSUME IInv PROVE Watched(obs)
  BY DEF IInv, TypeOK, Bounded, Watched

(* start_remote_observers.                                                 *)
LEMMA StartingEffect ==
    ASSUME IInv, NEW h \in Handlers, start_remote_observers(h)
    PROVE  Effect(h) /\ global' \in Observers \cup {0}
<1>1. h \in Actors /\ h \notin Workers
  BY TasksAssumption DEF Actors
<1>2. /\ rows \subseteq Convs /\ selected \in Convs \cup {None} /\ TypeOK
      /\ observed \in Convs \cup {None} /\ {global, session} \subseteq Observers \cup {0}
      /\ Watched(obs)
  BY NowWatched DEF IInv, TypeOK
<1>3. CASE ~on /\ act' = [act EXCEPT ![h] = Idle] /\ UNCHANGED <<rows, selected, tasks>>
  BY <1>2, <1>3, IdleGoes DEF Effect, tasks
<1>4. CASE /\ observe_remote_conversation(h, selected, "end", rows, selected, obs)
           /\ UNCHANGED global
  BY <1>1, <1>2, <1>4, ObservationEffect
<1> DEFINE k == OneOf(FreshObservers)
           o == Start(obs, k, None)
           more == FreshObservers \ {k}
<1>5. CASE /\ FreshObservers # {} /\ global' = k
           /\ IF session = 0 /\ selected \in rows
                THEN /\ more # {}
                     /\ observed' = selected /\ session' = OneOf(more)
                     /\ obs' = Start(o, OneOf(more), selected)
                     /\ Continue(h, "end", None, rows, selected)
                ELSE observe_remote_conversation(h, selected, "end", rows, selected, o)
  <2>1. k \in Observers
    BY <1>5, OneOfIn DEF FreshObservers
  <2>2. Watched(o)
    BY <1>2, <2>1, StartEffect
  <2> HIDE DEF o
  <2>3. CASE /\ more # {}
             /\ observed' = selected /\ session' = OneOf(more)
             /\ obs' = Start(o, OneOf(more), selected)
             /\ Continue(h, "end", None, rows, selected)
    <3>1. OneOf(more) \in Observers
      BY <2>3, OneOfIn DEF FreshObservers
    <3>2. Watched(obs')
      BY <1>2, <2>2, <2>3, <3>1, StartEffect
    <3>3. Goes(h) /\ rows' \subseteq Convs /\ selected' \in Convs \cup {None}
      BY <1>1, <1>2, <2>3, ContinueEffect
    <3> QED
      BY <1>2, <1>5, <2>1, <2>3, <3>1, <3>2, <3>3 DEF Effect
  <2>4. CASE observe_remote_conversation(h, selected, "end", rows, selected, o)
    <3>1. Effect(h)
      BY <1>1, <1>2, <2>2, <2>4, ObservationEffect
    <3> QED
      BY <1>5, <2>1, <3>1
  <2> QED
    BY <1>5, <2>3, <2>4
<1> QED
  BY <1>3, <1>4, <1>5 DEF start_remote_observers

-----------------------------------------------------------------------------
(* The kinds of steps. *)

(* What a task may do keeps the types, and knows no new version.           *)
LEMMA TaskShape ==
    ASSUME IInv, NEW a \in Actors, Effect(a), UNCHANGED <<members, version, heard>>,
           applied' \in Nat, applied' <= version, worker' \in Workers \cup {0},
           {ok', on', pending', lost'} \subseteq BOOLEAN, known' \subseteq Convs,
           global' \in Observers \cup {0}, ops' \in Nat, drops' \in Nat
    PROVE  TypeOK' /\ Bounded' /\ (\A b \in Actors : Sensible(b, act[b]))'
<1> USE DEF IInv
<1>1. Only(a) /\ Sensible(a, act'[a]) /\ act'[a].got.v <= version
  BY DEF Effect, Goes
<1>2. TypeOK'
  BY <1>1 DEF TypeOK, Effect, Watched, Only
<1>3. Bounded'
  BY <1>1 DEF Bounded, Effect, Watched, Only
<1>4. (\A b \in Actors : Sensible(b, act[b]))'
  BY <1>1 DEF Sensible, Only
<1> QED
  BY <1>2, <1>3, <1>4

(* A task that carries no list goes on, and what is owed is owed still.    *)
LEMMA TaskStep ==
    ASSUME IInv, NEW a \in Actors, ~Brings(a), Effect(a),
           UNCHANGED <<members, version, applied, heard, lost, pending, worker>>,
           {ok', on'} \subseteq BOOLEAN, known' \subseteq Convs,
           global' \in Observers \cup {0}, ops' \in Nat, drops' \in Nat
    PROVE  IInv'
<1> USE DEF IInv
<1>1. Only(a) /\ (a \in Workers => act'[a].pc \in {"rest", "observe"})
  BY DEF Effect, Goes
<1>2. /\ applied \in Nat /\ applied <= version /\ worker \in Workers \cup {0}
      /\ {pending, lost} \subseteq BOOLEAN
  BY DEF TypeOK, Bounded
<1>3. TypeOK' /\ Bounded' /\ (\A b \in Actors : Sensible(b, act[b]))'
  BY <1>2, TaskShape
<1>4. Owed'
  <2>1. CASE lost \/ ~(applied < heard)
    BY <2>1 DEF Owed
  <2>2. CASE Marked
    <3>1. worker \in Actors /\ worker \in Workers
      BY <2>2 DEF Marked, TypeOK, Actors
    <3> QED
      BY <1>1, <2>2, <3>1 DEF Owed, Marked, Only
  <2>3. ASSUME NEW b \in Actors, Brings(b) PROVE Owed'
    BY <1>1, <2>3 DEF Owed, Brings, Only
  <2> QED
    BY <2>1, <2>2, <2>3 DEF Owed
<1> QED
  BY <1>3, <1>4

(* An observer goes on; the tasks do not.                                  *)
LEMMA WatchStep ==
    ASSUME IInv, Watched(obs'),
           UNCHANGED <<members, version, rows, known, applied, selected, lost, pending, worker,
                       heard, act, ops>>,
           {ok', on'} \subseteq BOOLEAN, observed' \in Convs \cup {None},
           {global', session'} \subseteq Observers \cup {0}, drops' \in Nat
    PROVE  IInv'
<1> USE DEF IInv
<1>1. TypeOK'
  BY DEF TypeOK, Watched
<1>2. Bounded'
  BY DEF Bounded, Watched
<1>3. (\A b \in Actors : Sensible(b, act[b]))'
  BY DEF Sensible
<1>4. Owed'
  BY DEF Owed, Marked, Brings
<1> QED
  BY <1>1, <1>2, <1>3, <1>4

(* One observer changes its control state, and may forget what it heard.   *)
LEMMA WatchEffect ==
    ASSUME IInv, NEW k \in Observers, NEW m \in Watches, m.inbox <= version,
           obs' = [obs EXCEPT ![k] = m]
    PROVE  Watched(obs')
  BY NowWatched DEF Watched

(* An observer that has ended.                                             *)
LEMMA OverEffect ==
    ASSUME IInv, NEW k \in Observers, Over(k)
    PROVE  Watched(obs') /\ {global', session'} \subseteq Observers \cup {0}
<1>1. NoObserver \in Watches /\ NoObserver.inbox = 0
  BY DEF NoObserver, Watches
<1>2. version \in Nat /\ {global, session} \subseteq Observers \cup {0}
  BY DEF IInv, TypeOK
<1>3. obs' = [obs EXCEPT ![k] = NoObserver]
  BY DEF Over
<1>4. Watched(obs')
  <2>1. NoObserver.inbox <= version
    BY <1>1, <1>2
  <2> QED
    BY <1>1, <1>3, <2>1, WatchEffect
<1>5. {global', session'} \subseteq Observers \cup {0}
  BY <1>2 DEF Over
<1> QED
  BY <1>4, <1>5

-----------------------------------------------------------------------------
(* The initial states. *)

(* The bridge starts with nothing heard, so nothing is owed.               *)
LEMMA InitInvariant == Init => IInv
<1> SUFFICES ASSUME Init PROVE IInv
  OBVIOUS
<1>1. NoObserver \in Watches /\ NoObserver.inbox = 0
  BY DEF NoObserver, Watches
<1> DEFINE m == [Idle EXCEPT !.pc = "ask", !.op = "contract"]
<1>2. m \in Tasks /\ m.pc = "ask" /\ m.op = "contract" /\ m.got.v = 0
  BY DEF Idle, NoList, Tasks, Operations
<1> HIDE DEF m
<1>3. act \in [Actors -> Tasks]
      /\ \A a \in Actors : act[a] = Idle \/ (a = SignIn /\ act[a] = m)
  BY <1>2, IdleTyped DEF Init, m
<1>4. TypeOK
  <2>1. /\ members \subseteq Convs /\ version \in Nat /\ applied \in Nat /\ heard \in Nat
        /\ rows \subseteq Convs /\ known \subseteq Convs /\ ops \in Nat /\ drops \in Nat
    BY TasksAssumption DEF Init
  <2>2. {ok, on, pending, lost} \subseteq BOOLEAN
    BY DEF Init
  <2>3. /\ selected = None /\ observed = None /\ global = 0 /\ session = 0 /\ worker = 0
        /\ obs = [k \in Observers |-> NoObserver]
    BY DEF Init
  <2>4. obs \in [Observers -> Watches]
    BY <1>1, <2>3
  <2> QED
    BY <1>3, <2>1, <2>2, <2>3, <2>4 DEF TypeOK
<1>5. Bounded
  <2>1. \A k \in Observers : obs[k].inbox = 0
    BY <1>1 DEF Init
  <2>2. \A a \in Actors : act[a].got.v = 0
    BY <1>2, <1>3, IdleTyped
  <2>3. version = 1 /\ heard = 0 /\ applied \in {0, 1}
    BY DEF Init
  <2> QED
    BY <2>1, <2>2, <2>3 DEF Bounded
<1>6. ASSUME NEW a \in Actors PROVE Sensible(a, act[a])
  <2>1. CASE act[a] = Idle
    BY <2>1, IdleTyped DEF Sensible
  <2>2. CASE act[a] # Idle
    <3>1. act[a] = m /\ a = SignIn
      BY <1>3, <2>2
    <3>2. a \notin Workers
      BY <3>1, TasksAssumption DEF SignIn
    <3> QED
      BY <1>2, <3>1, <3>2 DEF Sensible
  <2> QED
    BY <2>1, <2>2
<1>7. Owed
  BY DEF Init, Owed
<1> QED
  BY <1>4, <1>5, <1>6, <1>7 DEF IInv

-----------------------------------------------------------------------------
(* The observers and the WebUI. *)

(* A change of the list: the next version is announced.                    *)
LEMMA ChangeEffect ==
    ASSUME IInv, NEW m \in SUBSET Convs, Changed(m)
    PROVE  /\ members' \subseteq Convs /\ version' = version + 1 /\ ok' = ok
           /\ obs' \in [Observers -> Watches] /\ \A k \in Observers : obs'[k].inbox <= version'
<1> USE DEF IInv
<1>1. members' \subseteq Convs /\ version' = version + 1 /\ ok' = ok /\ version \in Nat
      /\ obs \in [Observers -> Watches]
  BY DEF Changed, TypeOK
<1>2. ASSUME NEW k \in Observers
      PROVE  obs'[k] \in Watches /\ obs'[k].inbox <= version'
  <2>1. obs[k] \in Watches /\ obs[k].inbox <= version
    BY <1>1 DEF Bounded
  <2> DEFINE n == [obs[k] EXCEPT !.inbox = version + 1]
  <2>2. n \in Watches /\ n.inbox = version + 1
    BY <1>1, <2>1 DEF Watches
  <2>3. obs'[k] = n \/ obs'[k] = obs[k]
    BY DEF Changed, Announce
  <2> HIDE DEF n
  <2>4. obs[k].inbox \in Nat
    BY <2>1 DEF Watches
  <2> QED
    BY <1>1, <2>1, <2>2, <2>3, <2>4
<1>3. obs' \in [Observers -> Watches]
  <2>1. obs' = [k \in Observers |-> obs'[k]]
    BY DEF Changed, Announce
  <2> QED
    BY <1>2, <2>1
<1> QED
  BY <1>1, <1>2, <1>3

(* Another client changes the list.                                        *)
LEMMA OtherClientStep ==
    ASSUME IInv, NEW c \in Convs, OtherClient(c) PROVE IInv'
<1> USE DEF IInv
<1>1. PICK m \in SUBSET Convs : Changed(m)
  BY DEF OtherClient, TypeOK
<1>2. /\ members' \subseteq Convs /\ version' = version + 1 /\ ok' = ok
      /\ obs' \in [Observers -> Watches] /\ \A k \in Observers : obs'[k].inbox <= version'
  BY <1>1, ChangeEffect
<1>3. UNCHANGED <<on, rows, known, applied, selected, lost, observed, global, session, worker,
                  pending, heard, act, ops, drops>>
  BY DEF OtherClient, list, refresh
<1>4. TypeOK'
  BY <1>2, <1>3 DEF TypeOK
<1>5. Bounded'
  <2>1. \A a \in Actors : act[a].got.v \in Nat
    BY DEF TypeOK, Tasks
  <2> QED
    BY <1>2, <1>3, <2>1 DEF Bounded, TypeOK
<1>6. (\A a \in Actors : Sensible(a, act[a]))' /\ Owed'
  BY <1>3 DEF Sensible, Owed, Marked, Brings
<1> QED
  BY <1>4, <1>5, <1>6

(* The session ends.                                                       *)
LEMMA ExpireStep == ASSUME IInv, Expire PROVE IInv'
<1>1. /\ UNCHANGED <<members, version, rows, known, applied, selected, lost, pending, worker,
                     heard, act, ops, obs, on, observed, global, session>>
      /\ ok' = FALSE /\ drops' = drops + 1
  BY DEF Expire, list, tasks, refresh
<1>2. on \in BOOLEAN /\ observed \in Convs \cup {None} /\ drops \in Nat
      /\ {global, session} \subseteq Observers \cup {0}
  BY DEF IInv, TypeOK
<1>3. Watched(obs') /\ drops' \in Nat /\ {ok', on'} \subseteq BOOLEAN
  <2>1. Watched(obs')
    BY <1>1, NowWatched
  <2>2. drops' \in Nat
    BY <1>1, <1>2
  <2>3. {ok', on'} \subseteq BOOLEAN
    BY <1>1, <1>2, Zenon
  <2> QED
    BY <2>1, <2>2, <2>3
<1>4. observed' \in Convs \cup {None} /\ {global', session'} \subseteq Observers \cup {0}
  BY <1>1, <1>2
<1> QED
  BY <1>1, <1>3, <1>4, WatchStep

(* An observer whose control state changes is typed.                       *)
LEMMA GoingWatched ==
    ASSUME IInv, NEW k \in Observers, NEW pc \in {"loop", "open", "read"},
           \/ obs' = [obs EXCEPT ![k].pc = pc]
           \/ obs' = [obs EXCEPT ![k] = [@ EXCEPT !.pc = pc, !.inbox = 0]]
           \/ obs' = [obs EXCEPT ![k].inbox = 0]
           \/ obs' = [obs EXCEPT ![k] = [@ EXCEPT !.pc = pc, !.inbox = 0,
                                                  !.cancel = FALSE, !.deaf = TRUE]]
    PROVE  Watched(obs')
<1>1. obs[k] \in Watches /\ obs[k].inbox <= version /\ version \in Nat
  BY DEF IInv, TypeOK, Bounded
<1> DEFINE m == [obs[k] EXCEPT !.pc = pc]
           n == [obs[k] EXCEPT !.pc = pc, !.inbox = 0]
           i == [obs[k] EXCEPT !.inbox = 0]
           d == [obs[k] EXCEPT !.pc = pc, !.inbox = 0, !.cancel = FALSE, !.deaf = TRUE]
<1>2. m \in Watches /\ m.inbox = obs[k].inbox
  BY <1>1 DEF Watches
<1>3. n \in Watches /\ n.inbox = 0
  BY <1>1 DEF Watches
<1>4. i \in Watches /\ i.inbox = 0
  BY <1>1 DEF Watches
<1>5. d \in Watches /\ d.inbox = 0
  BY <1>1 DEF Watches
<1>6. \/ obs' = [obs EXCEPT ![k] = m]
      \/ obs' = [obs EXCEPT ![k] = n]
      \/ obs' = [obs EXCEPT ![k] = i]
      \/ obs' = [obs EXCEPT ![k] = d]
  OBVIOUS
<1> HIDE DEF m, n, i, d
<1> QED
  BY <1>1, <1>2, <1>3, <1>4, <1>5, <1>6, WatchEffect

(* What the observers do by themselves.                                    *)
LEMMA ObserverSteps ==
    ASSUME IInv, NEW k \in Observers,
           \/ ObserverLoop(k) \/ ObserverOpen(k) \/ ObserverUnavailable(k)
           \/ ObserverDrop(k) \/ ObserverCancelled(k)
    PROVE  IInv'
<1>1. UNCHANGED <<members, version, rows, known, applied, selected, lost, pending, worker,
                  heard, act, ops, observed, ok>>
  BY DEF ObserverLoop, ObserverOpen, ObserverUnavailable, ObserverDrop, ObserverCancelled,
         webui, list, refresh
<1>2. on' \in BOOLEAN /\ drops' \in Nat
  <2>1. on \in BOOLEAN /\ drops \in Nat
    BY DEF IInv, TypeOK
  <2>2. on' = on \/ on' = FALSE
    BY DEF ObserverLoop, ObserverOpen, ObserverUnavailable, ObserverDrop, ObserverCancelled
  <2>3. drops' = drops \/ drops' = drops + 1
    BY DEF ObserverLoop, ObserverOpen, ObserverUnavailable, ObserverDrop, ObserverCancelled
  <2>4. on' \in BOOLEAN
    BY <2>1, <2>2, Zenon
  <2>5. drops' \in Nat
    BY <2>1, <2>3
  <2> QED
    BY <2>4, <2>5
<1>3. observed \in Convs \cup {None} /\ ok \in BOOLEAN
  BY DEF IInv, TypeOK
<1>4. \/ Over(k)
      \/ /\ UNCHANGED <<global, session>>
         /\ \/ obs' = [obs EXCEPT ![k].pc = "open"]
            \/ obs' = [obs EXCEPT ![k].pc = "read"]
            \/ obs' = [obs EXCEPT ![k] = [@ EXCEPT !.pc = "loop", !.inbox = 0]]
            \/ obs' = [obs EXCEPT ![k] = [@ EXCEPT !.pc = "loop", !.inbox = 0,
                                                   !.cancel = FALSE, !.deaf = TRUE]]
  BY DEF ObserverLoop, ObserverOpen, ObserverUnavailable, ObserverDrop, ObserverCancelled
<1>5. Watched(obs') /\ {global', session'} \subseteq Observers \cup {0}
  <2>1. CASE Over(k)
    BY <2>1, OverEffect
  <2>2. CASE ~Over(k)
    <3>1. Watched(obs')
      BY <1>4, <2>2, GoingWatched
    <3> QED
      BY <1>4, <2>2, <3>1 DEF IInv, TypeOK
  <2> QED
    BY <2>1, <2>2
<1> QED
  BY <1>1, <1>2, <1>3, <1>5, WatchStep

-----------------------------------------------------------------------------
(* The refresh worker. *)

(* An invalidation: the list is marked, and there is a worker to see it.   *)
LEMMA InvalidationStep ==
    ASSUME IInv, NEW k \in Observers, request_remote_refresh(k) PROVE IInv'
<1> USE DEF IInv
<1>1. /\ UNCHANGED <<members, version, ok, on, rows, known, applied, selected, lost, observed,
                     global, session, ops, drops>>
      /\ heard' = obs[k].inbox /\ pending' = TRUE /\ obs' = [obs EXCEPT ![k].inbox = 0]
  BY DEF request_remote_refresh, _consume_observer_sse, webui, list
<1>2. heard' \in Nat /\ heard' <= version /\ Watched(obs')
  <2>1. obs[k] \in Watches /\ obs[k].inbox <= version
    BY DEF TypeOK, Bounded
  <2>2. Watched(obs')
    BY <1>1, GoingWatched
  <2> QED
    BY <1>1, <2>1, <2>2 DEF Watches
<1>3. /\ worker' \in Workers /\ act' \in [Actors -> Tasks]
      /\ \A a \in Actors : act'[a].got.v <= version /\ Sensible(a, act'[a])
      /\ act'[worker'].pc \in {"ask", "told", "observe", "rest"}
  <2>1. \A a \in Actors : act[a].got.v <= version /\ Sensible(a, act[a])
    BY DEF Bounded
  <2>2. CASE Working(worker) /\ UNCHANGED <<worker, act>>
    <3>1. worker \in Workers /\ worker \in Actors /\ act[worker].pc # "idle"
      BY <2>2 DEF Working, TypeOK, Actors
    <3>2. act[worker].pc \in {"ask", "told", "observe", "rest"}
      BY <2>1, <3>1 DEF Sensible
    <3> QED
      BY <2>1, <2>2, <3>1, <3>2 DEF TypeOK
  <2>3. CASE ~Working(worker)
    <3> DEFINE w == OneOf(FreshWorkers)
               m == [Idle EXCEPT !.pc = "rest"]
    <3>1. FreshWorkers # {} /\ worker' = w /\ act' = [act EXCEPT ![w] = m]
      BY <2>3 DEF request_remote_refresh, _consume_observer_sse
    <3>2. m \in Tasks /\ m.pc = "rest" /\ m.op = "none" /\ m.got.v = 0
      BY RestTyped
    <3>3. w \in Workers /\ w \in Actors
      BY <3>1, OneOfIn DEF FreshWorkers, Actors
    <3> HIDE DEF m, w
    <3>4. Only(w) /\ act'[w] = m
      BY <3>1, <3>2, <3>3, OnlyEffect
    <3>5. Sensible(w, m) /\ m.got.v <= version
      BY <3>2 DEF Sensible, TypeOK
    <3> QED
      BY <2>1, <3>1, <3>2, <3>3, <3>4, <3>5 DEF Only
  <2> QED
    BY <2>2, <2>3 DEF request_remote_refresh, _consume_observer_sse
<1>4. TypeOK'
  BY <1>1, <1>2, <1>3 DEF TypeOK, Watched
<1>5. Bounded'
  BY <1>1, <1>2, <1>3 DEF Bounded, Watched
<1>6. (\A a \in Actors : Sensible(a, act[a]))'
  BY <1>3 DEF Sensible
<1>7. Owed'
  BY <1>1, <1>3, TasksAssumption DEF Owed, Marked
<1> QED
  BY <1>4, <1>5, <1>6, <1>7

(* A worker that ends, or is cancelled: nothing was marked, or what was    *)
(* owed is given up.                                                       *)
LEMMA WorkerEnds ==
    ASSUME IInv, NEW w \in Workers, act' = [act EXCEPT ![w] = Idle], worker' \in {0, worker},
           UNCHANGED <<members, version, ok, on, rows, known, applied, selected, observed, global,
                       session, obs, pending, heard, ops, drops>>,
           lost' = TRUE \/ (lost' = lost /\ ~pending /\ act[w].pc = "rest")
    PROVE  IInv'
<1> USE DEF IInv
<1>1. w \in Actors
  BY DEF Actors
<1>2. Only(w) /\ act'[w] = Idle
  BY <1>1, IdleTyped, OnlyEffect
<1>3. /\ worker' \in Workers \cup {0} /\ lost' \in BOOLEAN
  BY DEF TypeOK
<1>4. TypeOK'
  BY <1>2, <1>3 DEF TypeOK, Only
<1>5. Bounded'
  BY <1>2, IdleTyped DEF Bounded, Only, TypeOK
<1>6. (\A a \in Actors : Sensible(a, act[a]))'
  BY <1>2, IdleTyped DEF Sensible, Only
<1>7. Owed'
  <2>1. CASE lost' = TRUE
    BY <2>1 DEF Owed
  <2>2. CASE lost' = lost /\ ~pending /\ act[w].pc = "rest"
    <3>1. ~Marked
      BY <2>2 DEF Marked
    <3>2. ASSUME NEW b \in Actors, Brings(b) PROVE Brings(b)'
      <4>1. b # w
        BY <2>2, <3>2 DEF Brings
      <4> QED
        BY <1>2, <3>2, <4>1 DEF Brings, Only
    <3> QED
      BY <2>2, <3>1, <3>2 DEF Owed
  <2> QED
    BY <2>1, <2>2
<1> QED
  BY <1>4, <1>5, <1>6, <1>7

(* The cancellation reaches the worker, or the worker goes on without it.  *)
LEMMA WorkerCancelledStep ==
    ASSUME IInv, NEW w \in Workers, WorkerCancelled(w) PROVE IInv'
<1> USE DEF IInv
<1>1. UNCHANGED <<members, version, ok, on, rows, known, applied, selected, observed, global,
                  session, pending, heard, ops, drops>>
  BY DEF WorkerCancelled, webui
<1>2. CASE /\ act' = [act EXCEPT ![w] = Idle] /\ worker' = (IF worker = w THEN 0 ELSE worker)
           /\ lost' = TRUE /\ UNCHANGED obs
  <2>1. worker' \in {0, worker}
    BY <1>2
  <2> QED
    BY <1>1, <1>2, <2>1, WorkerEnds
<1>3. CASE /\ act' = [act EXCEPT ![w].cancel = FALSE] /\ UNCHANGED <<worker, lost>>
           /\ obs' = IF act[w].pc = "observe" THEN Cancel(obs, act[w].old) ELSE obs
           /\ act[w].cancel
  <2> DEFINE m == [act[w] EXCEPT !.cancel = FALSE]
  <2>1. w \in Actors /\ act[w] \in Tasks
    BY DEF Actors, TypeOK
  <2>2. /\ m \in Tasks /\ m.pc = act[w].pc /\ m.op = act[w].op /\ m.conv = act[w].conv
        /\ m.got = act[w].got /\ m.then = act[w].then
    BY <2>1 DEF Tasks
  <2>3. act' = [act EXCEPT ![w] = m]
    BY <1>3
  <2> HIDE DEF m
  <2>4. Only(w) /\ act'[w] = m
    BY <2>1, <2>2, <2>3, OnlyEffect
  <2>5. Watched(obs')
    <3>1. Watched(obs)
      BY NowWatched
    <3>2. CASE Cancel(obs, act[w].old) = obs
      BY <1>3, <3>1, <3>2
    <3>3. CASE act[w].old \in Observers
      <4>1. Watched(Cancel(obs, act[w].old))
        BY <3>1, <3>3, CancelEffect
      <4> QED
        BY <1>3, <3>1, <4>1
    <3>4. CASE act[w].old \notin Observers /\ Cancel(obs, act[w].old) # obs
      <4>1. Cancel(obs, act[w].old) = [obs EXCEPT ![act[w].old].cancel = TRUE]
        BY <3>4 DEF Cancel
      <4>2. DOMAIN obs = Observers
        BY <3>1 DEF Watched
      <4> QED
        BY <3>1, <3>4, <4>1, <4>2 DEF Watched
    <3> QED
      BY <3>2, <3>3, <3>4
  <2>6. TypeOK'
    BY <1>1, <1>3, <2>4, <2>5 DEF TypeOK, Only, Watched
  <2>7. Bounded'
    BY <1>1, <2>1, <2>2, <2>4, <2>5 DEF Bounded, Only, Watched
  <2>8. (\A a \in Actors : Sensible(a, act[a]))'
    BY <2>1, <2>2, <2>4 DEF Sensible, Only
  <2>9. Owed'
    <3>1. ASSUME Marked PROVE Marked'
      <4>1. worker \in Actors /\ act'[worker].pc = act[worker].pc
        BY <1>3, <2>1, <2>2, <2>4, <3>1 DEF Marked, TypeOK, Actors, Only
      <4> QED
        BY <1>1, <1>3, <3>1, <4>1 DEF Marked
    <3>2. ASSUME NEW b \in Actors, Brings(b) PROVE Brings(b)'
      <4>1. b # w
        BY <1>3, <3>2 DEF Brings
      <4> QED
        BY <1>1, <2>4, <3>2, <4>1 DEF Brings, Only
    <3> QED
      BY <1>1, <1>3, <3>1, <3>2 DEF Owed
  <2> QED
    BY <2>6, <2>7, <2>8, <2>9
<1> QED
  BY <1>2, <1>3 DEF WorkerCancelled

(* The worker clears the mark and asks, or ends.                           *)
LEMMA WorkerStepKeeps ==
    ASSUME IInv, NEW w \in Workers, _remote_refresh_worker(w) PROVE IInv'
<1> USE DEF IInv
<1>1. /\ act[w].pc = "rest" /\ w \in Actors
      /\ UNCHANGED <<members, version, ok, on, rows, known, applied, selected, observed, global,
                     session, obs, heard, ops, drops>>
  BY DEF _remote_refresh_worker, webui, tasks, Actors
<1>2. CASE /\ pending' = FALSE /\ Ask(w, "list", None) /\ UNCHANGED <<worker, lost>>
  <2>1. /\ Only(w) /\ act'[w].pc = "ask" /\ act'[w].op = "list"
        /\ act'[w].got.v = 0 /\ ~act'[w].cancel
    BY <1>1, <1>2, AskEffect DEF Operations
  <2>2. TypeOK'
    BY <1>1, <1>2, <2>1 DEF TypeOK, Only
  <2>3. Bounded'
    BY <1>1, <2>1 DEF Bounded, Only, TypeOK
  <2>4. (\A a \in Actors : Sensible(a, act[a]))'
    BY <2>1 DEF Sensible, Only
  <2>5. Owed'
    BY <1>1, <2>1 DEF Owed, Brings
  <2> QED
    BY <2>2, <2>3, <2>4, <2>5
<1>3. CASE /\ pending' = FALSE /\ lost' = TRUE /\ UNCHANGED worker
           /\ act' = [act EXCEPT ![w] = [Idle EXCEPT !.pc = "rest"]]
  <2> DEFINE m == [Idle EXCEPT !.pc = "rest"]
  <2>1. m \in Tasks /\ m.pc = "rest" /\ m.op = "none" /\ m.got.v = 0
    BY RestTyped
  <2>2. act' = [act EXCEPT ![w] = m]
    BY <1>3
  <2> HIDE DEF m
  <2>3. Only(w) /\ act'[w] = m
    BY <1>1, <2>1, <2>2, OnlyEffect
  <2>4. TypeOK'
    BY <1>1, <1>3, <2>3 DEF TypeOK, Only
  <2>5. Bounded'
    BY <1>1, <2>1, <2>3 DEF Bounded, Only, TypeOK
  <2>6. (\A a \in Actors : Sensible(a, act[a]))'
    BY <2>1, <2>3 DEF Sensible, Only
  <2>7. Owed'
    BY <1>3 DEF Owed
  <2> QED
    BY <2>4, <2>5, <2>6, <2>7
<1>4. CASE /\ ~pending /\ worker' = IF worker = w THEN 0 ELSE worker
           /\ act' = [act EXCEPT ![w] = Idle] /\ UNCHANGED <<pending, lost>>
  <2>1. worker' \in {0, worker}
    BY <1>4
  <2> QED
    BY <1>1, <1>4, <2>1, WorkerEnds
<1> QED
  BY <1>2, <1>3, <1>4 DEF _remote_refresh_worker

(* The answer to a list request replaces the rows: what it does not bring  *)
(* is owed by the mark or by another request.                              *)
LEMMA ListedStep ==
    ASSUME IInv, NEW a \in Actors, Listed(a) PROVE IInv'
<1> USE DEF IInv
<1> DEFINE then == IF a \in Workers THEN "rest" ELSE act[a].then
<1>1. PICK busy \in BOOLEAN : refresh_remote_conversations(a, busy, then)
  BY DEF Listed
<1> DEFINE in == act[a].got.rows \cup {c \in rows : c = selected /\ busy}
<1>2. /\ act[a].pc = "told" /\ act[a].op = "list"
      /\ applied' = act[a].got.v /\ known' \in {known, in}
      /\ lost' = (act[a].got.v < applied \/ (lost /\ act[a].got.v < heard))
      /\ UNCHANGED <<members, version, ok, on, global, worker, pending, heard, ops, drops>>
  BY <1>1 DEF refresh_remote_conversations, webui, refresh
<1>3. \/ /\ selected \in in \cup {None} /\ Continue(a, then, None, in, selected)
         /\ UNCHANGED <<obs, observed, session>>
      \/ observe_remote_conversation(a, None, then, in, None, obs)
  BY <1>1 DEF refresh_remote_conversations
<1>4. /\ act[a] \in Tasks /\ act[a].got.v <= version /\ rows \subseteq Convs
      /\ selected \in Convs \cup {None} /\ TypeOK
  BY DEF TypeOK, Bounded
<1>5. /\ act[a].got.rows \subseteq Convs /\ act[a].got.v \in Nat
      /\ then \in {"none", "end", "drop", "contract", "rest", "unknown"}
      /\ a \in Workers => then = "rest"
  BY <1>4 DEF Tasks
<1>6. in \in SUBSET Convs
  BY <1>4, <1>5
<1> HIDE DEF in, then
<1>7. Effect(a)
  <2>1. CASE /\ Continue(a, then, None, in, selected)
             /\ UNCHANGED <<obs, observed, session>>
    BY <1>4, <1>5, <1>6, <2>1, ContinueEffect, NowWatched DEF Effect, TypeOK
  <2>2. CASE observe_remote_conversation(a, None, then, in, None, obs)
    BY <1>5, <1>6, <2>2, ObservationEffect, NowWatched
  <2> QED
    BY <1>3, <2>1, <2>2
<1>8. /\ worker \in Workers \cup {0} /\ {ok, on, pending} \subseteq BOOLEAN
      /\ global \in Observers \cup {0} /\ ops \in Nat /\ drops \in Nat
      /\ applied \in Nat /\ heard \in Nat /\ known \subseteq Convs
  BY DEF TypeOK
<1>9. TypeOK' /\ Bounded' /\ (\A b \in Actors : Sensible(b, act[b]))'
  <2>1. lost' \in BOOLEAN
    BY <1>2, Zenon
  <2>2. {ok', on', pending', lost'} \subseteq BOOLEAN
    BY <1>2, <1>8, <2>1, Zenon
  <2>3. applied' \in Nat /\ applied' <= version /\ known' \subseteq Convs
    BY <1>2, <1>4, <1>5, <1>6, <1>8
  <2>4. worker' \in Workers \cup {0} /\ global' \in Observers \cup {0}
        /\ ops' \in Nat /\ drops' \in Nat
    BY <1>2, <1>8
  <2> QED
    BY <1>2, <1>7, <2>2, <2>3, <2>4, TaskShape
<1>10. Owed'
  <2> SUFFICES ASSUME ~lost', applied' < heard PROVE Owed'
    BY <1>2 DEF Owed
  <2>1. ~lost /\ applied < heard /\ act[a].got.v < heard
    <3>1. act[a].got.v < heard
      BY <1>2
    <3>2. ~(act[a].got.v < applied) /\ ~lost
      BY <1>2, <3>1, Zenon
    <3> QED
      BY <1>5, <1>8, <3>1, <3>2
  <2>2. Only(a) /\ (a \in Workers => act'[a].pc \in {"rest", "observe"})
    BY <1>7 DEF Effect, Goes
  <2>3. CASE Marked
    <3>1. worker \in Actors /\ worker \in Workers
      BY <1>8, <2>3 DEF Marked, Actors
    <3> QED
      BY <1>2, <2>2, <2>3, <3>1 DEF Owed, Marked, Only
  <2>4. ASSUME NEW b \in Actors, Brings(b) PROVE Owed'
    <3>1. b # a
      BY <1>2, <1>5, <1>8, <2>1, <2>4 DEF Brings
    <3> QED
      BY <1>2, <2>2, <2>4, <3>1 DEF Owed, Brings, Only
  <2> QED
    BY <2>1, <2>3, <2>4 DEF Owed
<1> QED
  BY <1>9, <1>10

-----------------------------------------------------------------------------
(* The requests. *)

(* What a handler does with the variables a task may change, the rest      *)
(* being as it was.                                                        *)
LEMMA HandlerStepKeeps ==
    ASSUME IInv, NEW h \in Handlers, act[h].op # "list" \/ act[h].pc \notin {"ask", "told"},
           Effect(h), UNCHANGED <<members, version, applied, heard, lost, pending, worker>>,
           {ok', on'} \subseteq BOOLEAN, known' \subseteq Convs,
           global' \in Observers \cup {0}, ops' \in Nat, drops' \in Nat
    PROVE  IInv'
<1>1. h \in Actors /\ ~Brings(h)
  BY DEF Actors, Brings
<1> QED
  BY <1>1, TaskStep

(* The types that the steps of handlers start from.                        *)
LEMMA Types ==
    ASSUME IInv
    PROVE  /\ TypeOK /\ rows \subseteq Convs /\ known \subseteq Convs
           /\ selected \in Convs \cup {None} /\ observed \in Convs \cup {None}
           /\ session \in Observers \cup {0} /\ global \in Observers \cup {0}
           /\ ops \in Nat /\ ops + 1 \in Nat /\ drops \in Nat /\ drops + 1 \in Nat
           /\ Watched(obs)
  BY NowWatched DEF IInv, TypeOK

(* The two Boolean variables of the session.                               *)
LEMMA BooleanTypes == ASSUME IInv PROVE {ok, on} \subseteq BOOLEAN
  BY DEF IInv, TypeOK

(* A step of a handler that leaves the rows and the observers alone.       *)
LEMMA StillEffect ==
    ASSUME IInv, NEW h \in Handlers, Goes(h), UNCHANGED <<rows, observed, session, obs>>,
           selected' \in Convs \cup {None}
    PROVE  Effect(h)
  BY Types DEF Effect

(* A request comes in.                                                     *)
LEMMA BeginStep ==
    ASSUME IInv, NEW h \in Handlers, NEW op, NEW c \in Convs \cup {None}, Begin(h, op, c)
    PROVE  IInv'
<1> USE Types
<1>1. /\ act[h] = Idle /\ act[h].op # "list"
      /\ UNCHANGED <<members, version, ok, worker, pending, heard, drops>> /\ ops' = ops + 1
  BY IdleTyped DEF Begin, webui, refresh
<1>2. h \in Actors /\ h \notin Workers
  BY TasksAssumption DEF Actors
<1>3. /\ Effect(h) /\ UNCHANGED <<applied, lost, global, known>> /\ on' \in {on, FALSE}
  <2>1. CASE on' = FALSE /\ Ask(h, "login", None) /\ UNCHANGED <<list, tasks>>
    <3>1. Goes(h)
      BY <2>1, AskGoes DEF Operations
    <3> QED
      BY <2>1, <3>1, StillEffect DEF list, tasks
  <2>2. CASE op \in {"status", "list"} /\ Ask(h, op, None) /\ UNCHANGED <<on, list, tasks>>
    <3>1. Goes(h)
      BY <2>2, AskGoes DEF Operations
    <3> QED
      BY <2>2, <3>1, StillEffect DEF list, tasks
  <2>3. CASE /\ observe_remote_conversation(h, None, "end", rows, None, obs)
             /\ UNCHANGED <<on, known, applied, lost, global>>
    BY <1>2, <2>3, ObservationEffect
  <2>4. CASE /\ c \in rows /\ observe_remote_conversation(h, c, "end", rows, c, obs)
             /\ UNCHANGED <<on, known, applied, lost, global>>
    BY <1>2, <2>4, ObservationEffect
  <2>5. CASE /\ c \in rows /\ selected' = c /\ Ask(h, "ensure", c)
             /\ UNCHANGED <<on, rows, known, applied, lost, tasks>>
    <3>1. c # None
      BY <2>5, TasksAssumption
    <3>2. Goes(h)
      BY <2>5, <3>1, AskGoes DEF Operations
    <3> QED
      BY <2>5, <3>2, StillEffect DEF tasks
  <2>6. CASE /\ c \in Convs \ (rows \cup members)
             /\ Ask(h, IF op = "create" THEN op ELSE "duplicate", c)
             /\ UNCHANGED <<on, list, tasks>>
    <3>1. c # None
      BY <2>6, TasksAssumption
    <3>2. Goes(h)
      BY <2>6, <3>1, AskGoes DEF Operations
    <3> QED
      BY <2>6, <3>2, StillEffect DEF list, tasks
  <2>7. CASE op = "delete" /\ Ask(h, op, c) /\ UNCHANGED <<on, list, tasks>>
    <3>1. Goes(h)
      BY <2>7, AskGoes DEF Operations
    <3> QED
      BY <2>7, <3>1, StillEffect DEF list, tasks
  <2> QED
    BY <2>1, <2>2, <2>3, <2>4, <2>5, <2>6, <2>7 DEF Begin
<1>4. {ok', on'} \subseteq BOOLEAN
  BY <1>1, <1>3, BooleanTypes, Zenon
<1> QED
  BY <1>1, <1>3, <1>4, HandlerStepKeeps

(* The WebUI answers: a list is as new as any change announced before.     *)
LEMMA ServeStep ==
    ASSUME IInv, NEW a \in Actors, Serve(a) PROVE IInv'
<1> USE DEF IInv
<1> DEFINE op == act[a].op
           c  == act[a].conv
           m  == CASE op \in {"create", "duplicate"} -> members \cup {c}
                   [] op \in {"delete", "undo"} -> members \ {c}
                   [] OTHER -> members
           g  == IF op = "list" THEN [v |-> version, rows |-> members] ELSE NoList
           n  == [act[a] EXCEPT !.pc = "told", !.got = g]
<1>1. /\ act[a].pc = "ask"
      /\ IF m # members THEN Changed(m) ELSE UNCHANGED <<webui, obs>>
      /\ act' = [act EXCEPT ![a] = n]
      /\ UNCHANGED <<on, rows, known, applied, selected, lost, observed, global, session, worker,
                     pending, heard, ops, drops>>
  BY DEF Serve, list, refresh
<1>2. act[a] \in Tasks /\ members \subseteq Convs /\ version \in Nat /\ Sensible(a, act[a])
      /\ heard \in Nat /\ heard <= version /\ applied \in Nat /\ applied <= version
  BY DEF TypeOK, Bounded
<1>3. m \in SUBSET Convs
  <2>1. op \in {"create", "duplicate"} => c \in Convs
    BY <1>2 DEF Sensible, Tasks
  <2> QED
    BY <1>2, <2>1
<1>4. /\ members' \subseteq Convs /\ version' \in {version, version + 1} /\ ok' = ok
      /\ obs' \in [Observers -> Watches] /\ \A k \in Observers : obs'[k].inbox <= version'
  <2>1. CASE Changed(m)
    BY <1>2, <1>3, <2>1, ChangeEffect
  <2>2. CASE UNCHANGED <<webui, obs>>
    BY <1>2, <2>2 DEF webui, TypeOK, Bounded
  <2> QED
    BY <1>1, <2>1, <2>2
<1>5. g \in [v : Nat, rows : SUBSET Convs] /\ g.v <= version /\ (op = "list" => g.v = version)
  BY <1>2 DEF NoList
<1>6. /\ n \in Tasks /\ n.pc = "told" /\ n.got = g /\ n.op = op /\ n.conv = c
      /\ n.cancel = act[a].cancel
  BY <1>2, <1>5 DEF Tasks
<1> HIDE DEF m, n, g
<1>7. Only(a) /\ act'[a] = n
  BY <1>1, <1>6, OnlyEffect
<1>8. TypeOK'
  BY <1>1, <1>2, <1>4, <1>7 DEF TypeOK, Only
<1>9. Bounded'
  <2>1. \A b \in Actors : act[b].got.v \in Nat /\ act[b].got.v <= version
    BY DEF TypeOK, Tasks, Bounded
  <2>2. g.v \in Nat
    BY <1>5
  <2> QED
    BY <1>1, <1>2, <1>4, <1>5, <1>6, <1>7, <2>1, <2>2 DEF Bounded, Only
<1>10. (\A b \in Actors : Sensible(b, act[b]))'
  BY <1>1, <1>2, <1>6, <1>7 DEF Sensible, Only
<1>11. Owed'
  <2>1. CASE lost \/ ~(applied < heard)
    BY <1>1, <2>1 DEF Owed
  <2>2. CASE Marked
    <3>1. worker \in Actors
      BY <2>2 DEF Marked, TypeOK, Actors
    <3> QED
      BY <1>1, <1>6, <1>7, <2>2, <3>1 DEF Owed, Marked, Only
  <2>3. ASSUME NEW b \in Actors, Brings(b) PROVE Owed'
    BY <1>1, <1>2, <1>5, <1>6, <1>7, <2>3 DEF Owed, Brings, Only
  <2> QED
    BY <2>1, <2>2, <2>3 DEF Owed
<1> QED
  BY <1>8, <1>9, <1>10, <1>11

(* A task keeps its list or has none, and is no worker's list request.     *)
LEMMA RetoldGoes ==
    ASSUME IInv, NEW h \in Handlers, NEW m \in Tasks, act' = [act EXCEPT ![h] = m],
           m.op = act[h].op \/ m.op = "undo", m.conv = act[h].conv, m.got = act[h].got
    PROVE  Goes(h)
<1>1. h \in Actors /\ h \notin Workers
  BY TasksAssumption DEF Actors
<1>2. Only(h) /\ act'[h] = m
  BY <1>1, OnlyEffect, Types
<1>3. Sensible(h, act[h]) /\ act[h].got.v <= version
  BY <1>1 DEF IInv, Bounded
<1> QED
  BY <1>1, <1>2, <1>3 DEF Goes, Sensible

(* A request fails: nothing is owed to a list request that was lost.       *)
LEMMA FailsStep ==
    ASSUME IInv, NEW a \in Actors, Fails(a) PROVE IInv'
<1> USE Types
<1> DEFINE op == act[a].op
<1>1. /\ act[a].pc = "ask" /\ drops' \in {drops, drops + 1}
      /\ lost' = (lost \/ op = "list")
      /\ on' = (on /\ ok /\ op \notin {"logout", "status"}) /\ ok' = (ok /\ op # "logout")
      /\ act' = CASE op = "list" /\ a \in Workers -> [act EXCEPT ![a] = [Idle EXCEPT !.pc = "rest"]]
                  [] op = "contract" -> [act EXCEPT ![a].pc = "told"]
                  [] op = "ensure" -> [act EXCEPT ![a] = [@ EXCEPT !.pc = "told", !.then = "unknown"]]
                  [] op = "truncate" -> [act EXCEPT ![a].op = "undo"]
                  [] OTHER -> [act EXCEPT ![a] = Idle]
      /\ UNCHANGED <<members, version, rows, known, applied, selected, observed, global, session,
                     obs, worker, pending, heard, ops>>
  BY DEF Fails, tasks, refresh
<1>2. act[a] \in Tasks /\ Sensible(a, act[a]) /\ version \in Nat
  BY DEF IInv, TypeOK
<1>3. Goes(a)
  <2>1. CASE a \in Workers
    <3> DEFINE m == [Idle EXCEPT !.pc = "rest"]
    <3>1. op = "list"
      BY <1>1, <1>2, <2>1 DEF Sensible
    <3>2. m \in Tasks /\ m.pc = "rest" /\ m.op = "none" /\ m.got.v = 0
      BY RestTyped
    <3>3. act' = [act EXCEPT ![a] = m]
      BY <1>1, <2>1, <3>1
    <3> HIDE DEF m
    <3>4. Only(a) /\ act'[a] = m
      BY <3>2, <3>3, OnlyEffect
    <3> QED
      BY <1>2, <3>2, <3>4 DEF Goes, Sensible
  <2>2. CASE a \notin Workers
    <3>1. a \in Handlers
      BY <2>2 DEF Actors
    <3> DEFINE told == [act[a] EXCEPT !.pc = "told"]
               unknown == [act[a] EXCEPT !.pc = "told", !.then = "unknown"]
               undo == [act[a] EXCEPT !.op = "undo"]
    <3>2. /\ told \in Tasks /\ told.op = op /\ told.conv = act[a].conv /\ told.got = act[a].got
          /\ unknown \in Tasks /\ unknown.op = op /\ unknown.conv = act[a].conv
          /\ unknown.got = act[a].got
          /\ undo \in Tasks /\ undo.op = "undo" /\ undo.conv = act[a].conv
          /\ undo.got = act[a].got
      BY <1>2 DEF Tasks, Operations
    <3>3. \/ act' = [act EXCEPT ![a] = told]
          \/ act' = [act EXCEPT ![a] = unknown]
          \/ act' = [act EXCEPT ![a] = undo]
          \/ act' = [act EXCEPT ![a] = Idle]
      BY <1>1, <2>2
    <3> HIDE DEF told, unknown, undo
    <3> QED
      BY <3>1, <3>2, <3>3, RetoldGoes, IdleGoes
  <2> QED
    BY <2>1, <2>2
<1>4. Effect(a)
  BY <1>1, <1>3 DEF Effect
<1>5. {ok', on'} \subseteq BOOLEAN /\ lost' \in BOOLEAN
  BY <1>1, Zenon
<1>6. drops' \in Nat
  BY <1>1
<1>7. CASE op = "list"
  <2>1. lost' = TRUE
    BY <1>1, <1>7
  <2>2. {ok', on', pending', lost'} \subseteq BOOLEAN
    BY <1>1, <1>5 DEF IInv, TypeOK
  <2>3. /\ applied' \in Nat /\ applied' <= version /\ worker' \in Workers \cup {0}
        /\ known' \subseteq Convs /\ global' \in Observers \cup {0} /\ ops' \in Nat
    BY <1>1 DEF IInv, TypeOK, Bounded
  <2>4. TypeOK' /\ Bounded' /\ (\A b \in Actors : Sensible(b, act[b]))'
    BY <1>1, <1>4, <1>6, <2>2, <2>3, TaskShape
  <2>5. Owed'
    BY <2>1 DEF Owed
  <2> QED
    BY <2>4, <2>5 DEF IInv
<1>8. CASE op # "list"
  <2>1. ~Brings(a) /\ lost' = lost
    <3>1. lost \in BOOLEAN
      BY DEF IInv, TypeOK
    <3>2. lost' = lost
      BY <1>1, <1>8, <3>1, Zenon
    <3> QED
      BY <1>8, <3>2 DEF Brings
  <2>2. known' \subseteq Convs /\ global' \in Observers \cup {0} /\ ops' \in Nat
    BY <1>1
  <2> QED
    BY <1>1, <1>4, <1>5, <1>6, <2>1, <2>2, TaskStep
<1> QED
  BY <1>7, <1>8

(* A stopped observer has ended: the task that waited goes on.             *)
LEMMA StoppedStep ==
    ASSUME IInv, NEW a \in Actors, ObserverStopped(a) PROVE IInv'
<1> USE Types
<1>1. /\ act[a].pc = "observe" /\ Observe(act[a].want, obs, rows)
      /\ Continue(a, act[a].then, act[a].conv, rows, selected)
      /\ UNCHANGED <<members, version, ok, on, applied, lost, global, worker, pending,
                     heard, ops, drops>>
      /\ known' \in {known, rows, act[a].got.rows}
  BY DEF ObserverStopped, webui, refresh
<1>2. /\ act[a].want \in Convs \cup {None}
      /\ act[a].then \in {"none", "end", "drop", "contract", "rest", "unknown"}
      /\ a \in Workers => act[a].then = "rest"
      /\ known' \subseteq Convs
  <2>1. act[a] \in Tasks /\ Sensible(a, act[a])
    BY DEF IInv, TypeOK
  <2> QED
    BY <1>1, <2>1 DEF Tasks, Sensible, IInv, TypeOK
<1>3. Effect(a)
  BY <1>1, <1>2, ContinueEffect, ObserveEffect DEF Effect
<1>4. ~Brings(a)
  BY <1>1 DEF Brings
<1>5. {ok', on'} \subseteq BOOLEAN
  BY <1>1, BooleanTypes, Zenon
<1> QED
  BY <1>1, <1>2, <1>3, <1>4, <1>5, TaskStep

(* The steps of a request that has its answer.                             *)
AnsweredSteps(h) ==
    \/ SignedIn(h) \/ Probed(h) \/ ContractRead(h) \/ Selected(h) \/ Created(h)
    \/ Branched(h) \/ Deleted(h) \/ SignOut(h) \/ SignedOut(h)

(* The handler goes on with what its answer asks for.                      *)
LEMMA AnsweredEffect ==
    ASSUME IInv, NEW h \in Handlers, AnsweredSteps(h)
    PROVE  /\ Effect(h) /\ known' \subseteq Convs /\ global' \in Observers \cup {0}
           /\ act[h].op # "list" \/ act[h].pc \notin {"ask", "told"}
<1> USE Types
<1>1. h \in Actors /\ h \notin Workers
  BY TasksAssumption DEF Actors
<1>2. /\ act[h].conv \in Convs \cup {None} /\ Sensible(h, act[h]) /\ version \in Nat
  <2>1. act[h] \in Tasks
    BY <1>1 DEF TypeOK
  <2> QED
    BY <1>1, <2>1 DEF IInv, TypeOK, Tasks
<1>3. CASE SignedIn(h)
  <2> DEFINE m == [Idle EXCEPT !.pc = "ask", !.op = "list", !.then = "contract"]
  <2>1. m \in Tasks /\ m.op = "list" /\ m.got.v = 0
    BY DEF Idle, NoList, Tasks, Operations
  <2>2. /\ act' = [act EXCEPT ![h] = m] /\ Told(h, "login")
        /\ UNCHANGED <<rows, known, selected, observed, global, session, obs>>
    BY <1>3 DEF SignedIn, list, tasks
  <2> HIDE DEF m
  <2>3. Only(h) /\ act'[h] = m
    BY <1>1, <2>1, <2>2, OnlyEffect
  <2>4. Goes(h)
    BY <1>1, <1>2, <2>1, <2>3 DEF Goes, Sensible
  <2> QED
    BY <2>2, <2>4 DEF Effect, Told
<1>4. CASE Probed(h)
  <2>1. /\ Told(h, "status")
        /\ UNCHANGED <<rows, known, selected, observed, global, session, obs>>
    BY <1>4 DEF Probed, list, tasks
  <2>2. Goes(h)
    BY <1>4, AskGoes, IdleGoes DEF Probed, Operations
  <2> QED
    BY <2>1, <2>2 DEF Effect, Told
<1>5. CASE ContractRead(h)
  <2>1. Told(h, "contract") /\ start_remote_observers(h) /\ UNCHANGED known
    BY <1>5 DEF ContractRead
  <2> QED
    BY <2>1, StartingEffect DEF Told
<1>6. CASE Selected(h)
  <2>1. /\ Told(h, "ensure") /\ UNCHANGED global
        /\ known' = IF act[h].then = "unknown" THEN known ELSE known \cup {act[h].conv}
        /\ observe_remote_conversation(h, act[h].conv, "end", rows, selected, obs)
    BY <1>6 DEF Selected
  <2>2. act[h].conv # None
    BY <1>2, <2>1 DEF Told, Sensible
  <2>3. known' \subseteq Convs
    BY <1>2, <2>1, <2>2
  <2>4. Effect(h)
    BY <1>1, <1>2, <2>1, ObservationEffect
  <2> QED
    BY <2>1, <2>3, <2>4 DEF Told
<1>7. CASE Created(h)
  <2>1. /\ Told(h, "create") /\ act' = [act EXCEPT ![h] = Idle]
        /\ rows' = rows \cup {act[h].conv} /\ known' = known \cup {act[h].conv}
        /\ selected' = act[h].conv /\ UNCHANGED <<observed, global, session, obs>>
    BY <1>7 DEF Created, tasks
  <2>2. act[h].conv \in Convs
    BY <1>2, <2>1 DEF Told, Sensible
  <2>3. Goes(h)
    BY <2>1, IdleGoes
  <2> QED
    BY <2>1, <2>2, <2>3 DEF Effect, Told
<1>8. CASE Branched(h)
  <2> DEFINE c == act[h].conv
  <2>1. CASE /\ Told(h, "duplicate") /\ Ask(h, "truncate", c)
             /\ UNCHANGED <<rows, known, selected, tasks>>
    <3>1. c # None
      BY <1>2, <2>1 DEF Told, Sensible
    <3>2. Goes(h)
      BY <1>2, <2>1, <3>1, AskGoes DEF Operations
    <3> QED
      BY <2>1, <3>2 DEF Effect, Told, tasks
  <2>2. CASE /\ Told(h, "truncate") /\ Ask(h, "snapshot", c)
             /\ UNCHANGED <<rows, known, selected, tasks>>
    <3>1. c # None
      BY <1>2, <2>2 DEF Told, Sensible
    <3>2. Goes(h)
      BY <1>2, <2>2, <3>1, AskGoes DEF Operations
    <3> QED
      BY <2>2, <3>2 DEF Effect, Told, tasks
  <2>3. CASE /\ Told(h, "snapshot") /\ known' = known \cup {c}
             /\ observe_remote_conversation(h, c, "end", rows \cup {c}, c, obs)
             /\ UNCHANGED global
    <3>1. c \in Convs
      BY <1>2, <2>3 DEF Told, Sensible
    <3>2. Effect(h)
      BY <1>1, <2>3, <3>1, ObservationEffect
    <3> QED
      BY <2>3, <3>1, <3>2 DEF Told
  <2>4. CASE /\ Told(h, "undo") /\ act' = [act EXCEPT ![h] = Idle]
             /\ UNCHANGED <<rows, known, selected, tasks>>
    <3>1. Goes(h)
      BY <2>4, IdleGoes
    <3> QED
      BY <2>4, <3>1 DEF Effect, Told, tasks
  <2> QED
    BY <1>8, <2>1, <2>2, <2>3, <2>4 DEF Branched
<1>9. CASE Deleted(h)
  <2>1. /\ Told(h, "delete") /\ known' = known \ {act[h].conv} /\ UNCHANGED global
        /\ \/ observe_remote_conversation(h, None, "drop", rows, selected, obs)
           \/ /\ Continue(h, "drop", act[h].conv, rows, selected)
              /\ UNCHANGED <<obs, observed, session>>
    BY <1>9 DEF Deleted
  <2>2. Effect(h)
    BY <1>1, <2>1, ObservationEffect, ContinueEffect DEF Effect
  <2> QED
    BY <2>1, <2>2 DEF Told
<1>10. CASE SignOut(h)
  <2>1. /\ act[h].pc = "drain" /\ Ask(h, "logout", None)
        /\ UNCHANGED <<rows, known, selected, observed, global, session, obs>>
    BY <1>10 DEF SignOut, list, tasks
  <2>2. Goes(h)
    BY <2>1, AskGoes DEF Operations
  <2> QED
    BY <2>1, <2>2 DEF Effect
<1>11. CASE SignedOut(h)
  <2>1. /\ Told(h, "logout") /\ act' = [act EXCEPT ![h] = Idle]
        /\ UNCHANGED <<rows, known, selected, observed, global, session, obs>>
    BY <1>11 DEF SignedOut, list, tasks
  <2>2. Goes(h)
    BY <2>1, IdleGoes
  <2> QED
    BY <2>1, <2>2 DEF Effect, Told
<1> QED
  BY <1>3, <1>4, <1>5, <1>6, <1>7, <1>8, <1>9, <1>10, <1>11 DEF AnsweredSteps

(* It leaves the list, the mark and the worker alone.                      *)
LEMMA AnsweredStep ==
    ASSUME IInv, NEW h \in Handlers, AnsweredSteps(h) PROVE IInv'
<1>1. UNCHANGED <<members, version, applied, heard, lost, pending, worker, ops, drops>>
  BY DEF AnsweredSteps, SignedIn, Probed, ContractRead, Selected, Created, Branched, Deleted,
         SignOut, SignedOut, webui, list, refresh
<1>2. on' \in {on, ok, TRUE, FALSE} /\ ok' \in {ok, TRUE, FALSE}
  BY DEF AnsweredSteps, SignedIn, Probed, ContractRead, Selected, Created, Branched, Deleted,
         SignOut, SignedOut, webui
<1>3. {ok', on'} \subseteq BOOLEAN
  BY <1>2, BooleanTypes, Zenon
<1> QED
  BY <1>1, <1>3, AnsweredEffect, HandlerStepKeeps, Types

-----------------------------------------------------------------------------
(* Signing out. *)

(* One of the observers is stopped.                                        *)
LEMMA StopObserverStep ==
    ASSUME IInv, NEW h \in Handlers, NEW left \in SUBSET {"global", "session"}, NEW key \in left,
           stop_remote_observer(h, left, key), act[h] = Idle \/ act[h].pc = "stop",
           UNCHANGED <<members, version, ok, on, rows, known, applied, selected, heard, drops>>,
           ops' \in Nat
    PROVE  IInv'
<1> USE Types
<1>1. h \in Actors /\ h \notin Workers
  BY TasksAssumption DEF Actors
<1> DEFINE k == IF key = "global" THEN global ELSE session
           m == [Idle EXCEPT !.pc = "stop", !.left = left \ {key}, !.old = k]
<1>2. k \in Observers \cup {0} /\ k \in Nat
  <2>1. k \in Observers \cup {0}
    OBVIOUS
  <2> HIDE DEF k
  <2>2. Observers \subseteq Nat
    BY TasksAssumption
  <2> QED
    BY <2>1, <2>2
<1>3. /\ act' = [act EXCEPT ![h] = m] /\ obs' = Cancel(obs, k)
      /\ global' \in {0, global} /\ session' \in {0, session}
      /\ UNCHANGED <<observed, worker, pending, lost>>
  BY DEF stop_remote_observer
<1> HIDE DEF k
<1>4. m \in Tasks /\ m.op = "none" /\ m.got.v = 0
  BY <1>2 DEF Idle, NoList, Tasks, Operations
<1> HIDE DEF m
<1>5. Only(h) /\ act'[h] = m
  BY <1>1, <1>3, <1>4, OnlyEffect
<1>6. Goes(h)
  BY <1>1, <1>4, <1>5 DEF Goes, Sensible, TypeOK
<1>7. Watched(obs')
  BY <1>2, <1>3, CancelEffect
<1>8. Effect(h)
  BY <1>3, <1>6, <1>7 DEF Effect
<1>9. act[h].op # "list" \/ act[h].pc \notin {"ask", "told"}
  BY IdleTyped
<1>10. {ok', on'} \subseteq BOOLEAN
  BY BooleanTypes, Zenon
<1> QED
  BY <1>3, <1>8, <1>9, <1>10, HandlerStepKeeps

(* The worker is dropped with its mark: what it owed is given up.          *)
LEMMA DropWorkerStep ==
    ASSUME IInv, NEW h \in Handlers, DropWorker(h), act[h] = Idle \/ act[h].pc = "stop",
           UNCHANGED <<members, version, ok, on, rows, known, applied, selected, heard, drops>>,
           ops' \in Nat
    PROVE  IInv'
<1> USE DEF IInv
<1>1. h \in Actors /\ h \notin Workers
  BY TasksAssumption DEF Actors
<1> DEFINE m == [Idle EXCEPT !.pc = "drain", !.old = worker]
           n == [act[worker] EXCEPT !.cancel = TRUE]
<1>2. /\ observed' = None /\ worker' = 0 /\ pending' = FALSE
      /\ lost' = (lost \/ pending \/ Working(worker))
      /\ act' = [a \in Actors |->
                   IF a = h THEN m ELSE IF a = worker /\ Working(worker) THEN n ELSE act[a]]
      /\ UNCHANGED <<global, session, obs>>
  BY DEF DropWorker
<1>3. /\ worker \in Workers \cup {0} /\ worker \in Nat /\ version \in Nat
      /\ act \in [Actors -> Tasks]
  BY TasksAssumption DEF TypeOK
<1>4. m \in Tasks /\ m.op = "none" /\ m.got.v = 0
  BY <1>3 DEF Idle, NoList, Tasks, Operations
<1>5. worker # 0
      => /\ n \in Tasks /\ n.pc = act[worker].pc /\ n.op = act[worker].op
         /\ n.conv = act[worker].conv /\ n.then = act[worker].then /\ n.got = act[worker].got
  <2>1. worker # 0 => act[worker] \in Tasks
    BY <1>3 DEF Actors
  <2> QED
    BY <2>1 DEF Tasks
<1>6. Working(worker) => worker # 0
  BY DEF Working
<1> HIDE DEF m, n
<1>7. act' \in [Actors -> Tasks]
  BY <1>2, <1>3, <1>4, <1>5, <1>6
<1>8. TypeOK'
  <2>1. lost' \in BOOLEAN /\ pending' \in BOOLEAN
    BY <1>2, Zenon
  <2> QED
    BY <1>2, <1>7, <2>1 DEF TypeOK
<1>9. Bounded' /\ (\A a \in Actors : Sensible(a, act[a]))'
  <2>1. ASSUME NEW a \in Actors
        PROVE  act'[a].got.v <= version /\ Sensible(a, act'[a])
    <3>1. act[a].got.v <= version /\ Sensible(a, act[a])
      BY DEF Bounded
    <3>2. CASE a = h
      BY <1>1, <1>2, <1>3, <1>4, <3>2 DEF Sensible
    <3>3. CASE a # h /\ a = worker /\ Working(worker)
      <4>1. act'[a] = n
        BY <1>2, <3>3
      <4> QED
        BY <1>5, <1>6, <3>1, <3>3, <4>1 DEF Sensible
    <3>4. CASE a # h /\ ~(a = worker /\ Working(worker))
      BY <1>2, <3>1, <3>4
    <3> QED
      BY <3>2, <3>3, <3>4
  <2> QED
    BY <1>2, <2>1 DEF Bounded, Sensible
<1>10. Owed'
  <2> SUFFICES ASSUME ~lost', applied < heard PROVE Owed'
    BY DEF Owed
  <2>1. ~lost /\ ~pending /\ ~Working(worker)
    BY <1>2, Zenon
  <2>2. PICK a \in Actors : Brings(a)
    BY <2>1 DEF Owed, Marked
  <2>3. a # h
    BY <2>2, IdleTyped DEF Brings
  <2>4. act'[a] = act[a]
    BY <1>2, <2>1, <2>3
  <2> QED
    BY <2>2, <2>4 DEF Owed, Brings
<1> QED
  BY <1>8, <1>9, <1>10

(* A sign-out, up to the end of its session.                               *)
LEMMA LogoutStep ==
    ASSUME IInv, NEW h \in Handlers, logout(h) \/ stop_remote_observers(h) PROVE IInv'
<1>1. UNCHANGED <<members, version, ok, on, rows, known, applied, selected, heard, drops>>
  BY DEF logout, stop_remote_observers, webui
<1>2. (act[h] = Idle \/ act[h].pc = "stop") /\ ops' \in Nat
  BY Types DEF logout, stop_remote_observers
<1>3. act[h].left \in SUBSET {"global", "session"}
  <2>1. act[h] \in Tasks
    BY DEF IInv, TypeOK, Actors
  <2> QED
    BY <2>1 DEF Tasks
<1>4. \/ DropWorker(h)
      \/ \E left \in SUBSET {"global", "session"} : \E key \in left :
            stop_remote_observer(h, left, key)
  <2>1. CASE logout(h)
    <3> DEFINE keys == (IF global # 0 THEN {"global"} ELSE {}) \cup (IF session # 0 THEN {"session"} ELSE {})
    <3>1. keys \in SUBSET {"global", "session"}
      OBVIOUS
    <3>2. DropWorker(h) \/ \E key \in keys : stop_remote_observer(h, keys, key)
      BY <2>1 DEF logout
    <3> QED
      BY <3>1, <3>2
  <2>2. CASE stop_remote_observers(h)
    BY <1>3, <2>2 DEF stop_remote_observers
  <2> QED
    BY <2>1, <2>2
<1> QED
  BY <1>1, <1>2, <1>4, DropWorkerStep, StopObserverStep

-----------------------------------------------------------------------------
(* The theorems. *)

(* Every step keeps the invariant.                                         *)
LEMMA NextKeeps == ASSUME IInv, [Next]_vars PROVE IInv'
<1>1. CASE \E c \in Convs : OtherClient(c)
  BY <1>1, OtherClientStep
<1>2. CASE Expire
  BY <1>2, ExpireStep
<1>3. CASE \E k \in Observers :
              \/ ObserverLoop(k) \/ ObserverOpen(k) \/ ObserverUnavailable(k)
              \/ ObserverDrop(k) \/ ObserverCancelled(k)
  BY <1>3, ObserverSteps
<1>4. CASE \E k \in Observers : request_remote_refresh(k)
  BY <1>4, InvalidationStep
<1>5. CASE \E w \in Workers : _remote_refresh_worker(w) \/ WorkerCancelled(w)
  BY <1>5, WorkerStepKeeps, WorkerCancelledStep
<1>6. CASE \E a \in Actors : ObserverStopped(a) \/ Listed(a) \/ Serve(a) \/ Fails(a)
  BY <1>6, StoppedStep, ListedStep, ServeStep, FailsStep
<1>7. CASE \E h \in Handlers, op \in Ops, c \in Convs \cup {None} : Begin(h, op, c)
  BY <1>7, BeginStep
<1>8. CASE \E h \in Handlers : AnsweredSteps(h)
  BY <1>8, AnsweredStep
<1>9. CASE \E h \in Handlers : logout(h) \/ stop_remote_observers(h)
  BY <1>9, LogoutStep
<1>10. CASE UNCHANGED vars
  <2>1. UNCHANGED <<members, version, ok, on, rows, known, applied, selected, observed, global,
                    session, worker, pending, obs, act, heard, lost, ops, drops>>
    BY <1>10 DEF vars
  <2>2. TypeOK'
    BY <2>1 DEF IInv, TypeOK
  <2>3. Bounded' /\ (\A a \in Actors : Sensible(a, act[a]))' /\ Owed'
    BY <2>1 DEF IInv, Bounded, Sensible, Owed, Marked, Brings
  <2> QED
    BY <2>2, <2>3 DEF IInv
<1> QED
  BY <1>1, <1>2, <1>3, <1>4, <1>5, <1>6, <1>7, <1>8, <1>9, <1>10 DEF Next, AnsweredSteps

(* The inductive invariant of the list, its observers and its refresh      *)
(* worker.                                                                 *)
THEOREM Invariance == Spec => []IInv
  BY InitInvariant, NextKeeps, PTL DEF Spec

(* Every variable keeps its type: a version is a number the WebUI has      *)
(* reached, an observer and a worker are tasks of the bridge.              *)
THEOREM TypeCorrect == Spec => []TypeOK
<1>1. IInv => TypeOK
  BY DEF IInv
<1> QED
  BY <1>1, Invariance, PTL

(* request_remote_refresh and _remote_refresh_worker lose no invalidation: *)
(* while the rows are older than a change the bridge was told of, the list *)
(* is marked with a worker to see it, or a request that will bring the     *)
(* change is under way, unless a list request failed, was cancelled or was *)
(* overtaken.                                                              *)
THEOREM InvalidationServed == Spec => []NoInvalidationLost
<1>1. IInv => NoInvalidationLost
  BY DEF IInv, Owed, Marked, Brings, NoInvalidationLost
<1> QED
  BY <1>1, Invariance, PTL

=============================================================================
