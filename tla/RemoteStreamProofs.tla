------------------------- MODULE RemoteStreamProofs -------------------------
(***************************************************************************)
(* Proofs about RemoteStream, for every number of request tasks, readers,  *)
(* turns, events and faults, and whatever kinds of events are recorded.    *)
(*                                                                         *)
(* The properties speak of readers that do not overlap.  None of them is   *)
(* inductive: they need to know that then the one living reader is the     *)
(* reader of the attached stream or is on its way out, that it reads where *)
(* the cursor stands, and what the journal holds after the end of a turn.  *)
(***************************************************************************)
EXTENDS RemoteStream, FiniteSetTheorems, TLAPS

Pcs == {"none", "start", "open", "read", "reconcile", "close", "status", "sleep", "over"}

Whys == Events \cup {"", "eof"}
Operations == {"", "upload", "submit", "compress", "revision", "truncate", "regenerate",
               "status", "history", "refresh", "respond", "delete", "which", "cancel",
               "turn", "logout", "sign out"}

ReaderStates ==
    [pc : Pcs, run : 0 .. MaxRun, pos : Nat, why : Whys, saw : BOOLEAN,
     last : BOOLEAN, fails : Nat, cancel : BOOLEAN, told : Nat]

HandlerStates ==
    [pc : {"idle", "ask", "told", "refused", "stop"}, op : Operations,
     reply : 0 .. MaxRun, row : BOOLEAN, busy : BOOLEAN,
     old : 0 .. MaxReader, want : 0 .. MaxRun]

(* The types of the WebUI's variables, of the registry, of the streams and *)
(* of the tasks.                                                           *)
ServerTypes ==
    /\ journal \in [Runs -> Seq(Events)] /\ begun \in 0 .. MaxRun /\ gone \in BOOLEAN

MapTypes ==
    /\ attached \in 0 .. MaxRun /\ completed \in 0 .. MaxRun
    /\ task \in 0 .. MaxReader /\ resp \in 0 .. MaxReader
    /\ cursor \in Nat /\ text \in Seq(Nat)
    /\ reader \in [Readers -> ReaderStates] /\ overlap \in BOOLEAN
    /\ \A k \in Living : reader[k].run \in Runs

TaskTypes ==
    /\ handler \in [Handlers -> HandlerStates]
    /\ status \in Statuses /\ connected \in BOOLEAN /\ listed \in BOOLEAN

(* After the done of a turn its journal holds a title and its end at most. *)
JournalsEnd ==
    \A r \in Runs : \A i, j \in DOMAIN journal[r] :
        (journal[r][i] = "done" /\ i < j) => journal[r][j] \in {"title", "end"}

(* The done of a run is among its first n events.                          *)
DoneBy(r, n) == \E i \in DOMAIN journal[r] : i <= n /\ journal[r][i] = "done"

(* A reader that will do no more than clean up.                            *)
Leaving(k) == reader[k].cancel \/ (reader[k].pc = "close" /\ reader[k].last)

(* The reader of the attached stream stands at the cursor, and a turn it   *)
(* has reported complete is marked so unless the reader is about to end.   *)
Follows(k) ==
    /\ attached # 0 => /\ reader[k].run = attached /\ reader[k].pos = cursor
                       /\ task = k /\ ~reader[k].cancel
    /\ attached = 0 => Leaving(k)
    /\ (attached # 0 /\ reader[k].pc = "reconcile" /\ reader[k].why = "done")
       => DoneBy(attached, cursor)
    /\ reader[k].told > 0
       => /\ reader[k].told = 1
          /\ \/ reader[k].pc = "reconcile" \/ Leaving(k)
             \/ attached # 0 /\ completed = attached

Following ==
    ~overlap =>
        /\ \A j, k \in Living : j = k
        /\ \A k \in Living : Follows(k)
        /\ \A k \in Readers \ Living : reader[k].told = 0
        /\ (attached # 0 /\ completed # 0)
           => completed = attached /\ DoneBy(attached, cursor)

Streams == MapTypes /\ Following /\ TextIsJournal

IInv == ServerTypes /\ TaskTypes /\ JournalsEnd /\ Streams

-----------------------------------------------------------------------------
(* Helpers of the model. *)

(* A set of reader tasks that is not empty has a first one.                *)
LEMMA FirstFresh ==
    ASSUME Fresh # {}
    PROVE  \E j \in Fresh : \A i \in Fresh : j <= i
<1> SUFFICES ASSUME \A j \in Fresh : \E i \in Fresh : ~(j <= i) PROVE FALSE
  OBVIOUS
<1>0. MaxReader \in Nat /\ Fresh \subseteq 1 .. MaxReader
  BY BoundsAssumption DEF Fresh, Readers
<1> HIDE DEF Fresh
<1> DEFINE D == {n \in 1 .. MaxReader : \E i \in Fresh : i <= n}
<1>1. /\ MaxReader \in D
      /\ \A n \in D : n \in Nat /\ n - 1 \in D /\ n - 1 # MaxReader
  <2>1. MaxReader \in D
    <3>1. PICK i \in Fresh : TRUE
      OBVIOUS
    <3>2. i \in 1 .. MaxReader
      BY <1>0
    <3> QED
      BY <1>0, <3>2
  <2>2. ASSUME NEW n \in D PROVE n \in Nat /\ n - 1 \in D /\ n - 1 # MaxReader
    <3>1. PICK i \in Fresh : i <= n
      OBVIOUS
    <3>2. PICK j \in Fresh : ~(i <= j)
      OBVIOUS
    <3>3. n \in 1 .. MaxReader /\ i \in 1 .. MaxReader /\ j \in 1 .. MaxReader
      BY <1>0
    <3>4. j <= n - 1 /\ n - 1 \in 1 .. MaxReader /\ n - 1 # MaxReader
      BY <1>0, <3>1, <3>2, <3>3
    <3> QED
      BY <3>3, <3>4
  <2> QED
    BY <2>1, <2>2
<1>3. IsFiniteSet(D)
  <2>1. IsFiniteSet(1 .. MaxReader)
    BY <1>0, FS_Interval
  <2>2. D \in SUBSET (1 .. MaxReader)
    OBVIOUS
  <2> HIDE DEF D
  <2> QED
    BY <2>1, <2>2, FS_Subset
<1> HIDE DEF D
<1>4. /\ IsFiniteSet(D \ {MaxReader})
      /\ Cardinality(D \ {MaxReader}) = Cardinality(D) - 1 /\ Cardinality(D) \in Nat
  BY <1>1, <1>3, FS_RemoveElement, FS_CardinalityType
<1> DEFINE pred == [n \in D |-> n - 1]
<1>5. pred \in [D -> D \ {MaxReader}]
  BY <1>1
<1>6. PICK m \in D, n \in D : m # n /\ pred[m] = pred[n]
  <2>1. Cardinality(D) > Cardinality(D \ {MaxReader})
    BY <1>4
  <2> HIDE DEF pred
  <2> QED
    BY <1>3, <1>4, <1>5, <2>1, FS_PigeonHole
<1> QED
  BY <1>1, <1>6

(* The run that is active is one that has begun and has not ended.         *)
LEMMA ActiveRun ==
    ASSUME ServerTypes
    PROVE  Active \in 0 .. MaxRun /\ (Active # 0 => Active \in Runs)
  BY BoundsAssumption DEF ServerTypes, Active, Runs

(* Journals only grow.                                                     *)
Grown ==
    \A r \in Runs :
        /\ Len(journal[r]) <= Len(journal'[r])
        /\ \A i \in DOMAIN journal[r] : i \in DOMAIN journal'[r] /\ journal'[r][i] = journal[r][i]

LEMMA Recorded1 ==
    ASSUME ServerTypes, JournalsEnd, NEW r \in Runs, NEW e \in Events,
           journal' = [journal EXCEPT ![r] = Append(@, e)],
           e \in {"title", "end"} \/ ~Finished(r)
    PROVE  journal' \in [Runs -> Seq(Events)] /\ Grown /\ JournalsEnd'
<1>1. journal[r] \in Seq(Events) /\ \A q \in Runs : journal[q] \in Seq(Events)
  BY DEF ServerTypes
<1>2. /\ journal' \in [Runs -> Seq(Events)]
      /\ \A q \in Runs \ {r} : journal'[q] = journal[q]
      /\ journal'[r] = Append(journal[r], e)
  BY <1>1 DEF ServerTypes
<1>3. /\ Len(journal'[r]) = Len(journal[r]) + 1
      /\ DOMAIN journal[r] = 1 .. Len(journal[r])
      /\ DOMAIN journal'[r] = 1 .. Len(journal[r]) + 1
      /\ \A i \in 1 .. Len(journal[r]) : journal'[r][i] = journal[r][i]
      /\ journal'[r][Len(journal[r]) + 1] = e
      /\ Len(journal[r]) \in Nat
  BY <1>1, <1>2
<1>4. Grown
  <2> SUFFICES ASSUME NEW q \in Runs
               PROVE  /\ Len(journal[q]) <= Len(journal'[q])
                      /\ \A i \in DOMAIN journal[q] :
                            i \in DOMAIN journal'[q] /\ journal'[q][i] = journal[q][i]
    BY DEF Grown
  <2>1. CASE q = r
    BY <1>3, <2>1
  <2>2. CASE q # r
    <3>1. journal'[q] = journal[q] /\ Len(journal[q]) \in Nat
      BY <1>1, <1>2, <2>2
    <3> QED
      BY <3>1
  <2> QED
    BY <2>1, <2>2
<1>5. JournalsEnd'
  <2> SUFFICES ASSUME NEW q \in Runs, NEW i \in DOMAIN journal'[q], NEW j \in DOMAIN journal'[q],
                      journal'[q][i] = "done", i < j
               PROVE  journal'[q][j] \in {"title", "end"}
    BY DEF JournalsEnd
  <2>1. CASE q # r
    BY <1>2, <2>1 DEF JournalsEnd
  <2>2. CASE q = r /\ j # Len(journal[r]) + 1
    <3>1. i \in DOMAIN journal[r] /\ j \in DOMAIN journal[r]
      BY <1>3, <2>2
    <3> QED
      BY <1>3, <2>2, <3>1 DEF JournalsEnd
  <2>3. CASE q = r /\ j = Len(journal[r]) + 1
    <3>1. i \in DOMAIN journal[r] /\ journal[r][i] = "done"
      BY <1>3, <2>3
    <3> QED
      BY <1>3, <2>3, <3>1 DEF Finished
  <2> QED
    BY <2>1, <2>2, <2>3
<1> QED
  BY <1>2, <1>4, <1>5

LEMMA Unrecorded ==
    ASSUME ServerTypes, JournalsEnd, journal' = journal
    PROVE  Grown /\ JournalsEnd'
<1>1. \A r \in Runs : Len(journal[r]) \in Nat
  BY DEF ServerTypes
<1> QED
  BY <1>1 DEF Grown, JournalsEnd

(* A request that the WebUI executes keeps the journals in order.          *)
LEMMA ExecutedEffect ==
    ASSUME ServerTypes, JournalsEnd, NEW op, Executed(op)
    PROVE  ServerTypes' /\ Grown /\ JournalsEnd'
<1>1. begun' \in 0 .. MaxRun /\ gone' \in BOOLEAN
  BY BoundsAssumption DEF ServerTypes, Executed, Accepts
<1>2. CASE journal' = journal
  BY <1>1, <1>2, Unrecorded DEF ServerTypes
<1>3. CASE journal' # journal
  <2>1. /\ Active \in Runs /\ ~Finished(Active)
        /\ journal' = [journal EXCEPT ![Active] = Append(@, "cancel")]
    BY <1>3, ActiveRun DEF Executed
  <2>2. "cancel" \in Events
    BY DEF Events, Over
  <2> HIDE DEF Active
  <2> QED
    BY <1>1, <2>1, <2>2, Recorded1 DEF ServerTypes
<1> QED
  BY <1>2, <1>3

(* What is recorded meanwhile disturbs no reader.                          *)
LEMMA GrownKeeps ==
    ASSUME IInv, ServerTypes', Grown, UNCHANGED <<maps, reader, overlap>>
    PROVE  Streams'
<1> USE DEF IInv, Streams
<1>0. UNCHANGED <<attached, task, resp, cursor, text, completed, reader, overlap>>
  BY DEF maps
<1>1. MapTypes'
  BY <1>0 DEF MapTypes, Living
<1>2. \A r \in Runs, n \in Nat : DoneBy(r, n) => DoneBy(r, n)'
  BY DEF DoneBy, Grown
<1>3. attached # 0 => attached \in Runs
  BY BoundsAssumption DEF MapTypes, Runs
<1>4. Following'
  BY <1>0, <1>2, <1>3 DEF Following, Follows, Leaving, Living, MapTypes
<1>5. TextIsJournal'
  <2> SUFFICES ASSUME attached # 0, ~overlap, TextIsJournal
               PROVE  /\ cursor <= Len(journal'[attached])
                      /\ Range(text) = Tokens(attached, cursor)'
                      /\ \A i, j \in DOMAIN text : i < j => text[i] < text[j]
    BY <1>0 DEF TextIsJournal, Tokens
  <2>1. /\ cursor <= Len(journal[attached]) /\ Len(journal[attached]) \in Nat
        /\ Len(journal'[attached]) \in Nat /\ cursor \in Nat
        /\ DOMAIN journal[attached] = 1 .. Len(journal[attached])
    BY <1>3 DEF TextIsJournal, ServerTypes, MapTypes
  <2>2. \A i \in 1 .. cursor : journal'[attached][i] = journal[attached][i]
    BY <1>3, <2>1 DEF Grown
  <2>3. Tokens(attached, cursor)' = Tokens(attached, cursor)
    BY <1>0, <2>2 DEF Tokens
  <2> QED
    BY <1>0, <1>3, <2>1, <2>3 DEF TextIsJournal, Grown
<1> QED
  BY <1>1, <1>4, <1>5

-----------------------------------------------------------------------------
(* Attaching and stopping a reader. *)

LEMMA StillKeeps ==
    ASSUME Streams, journal' = journal, UNCHANGED <<maps, reader, overlap>>
    PROVE  Streams'
  BY DEF Streams, maps, MapTypes, Following, Follows, Leaving, Living, DoneBy, TextIsJournal,
     Tokens

(* The reader of the detached stream was the only one, and is cancelled.   *)
LEMMA Detached ==
    ASSUME Streams, journal' = journal, detach
    PROVE  Streams'
<1> USE DEF Streams, MapTypes
<1>1. /\ attached' = 0 /\ task' = 0 /\ resp' = 0
      /\ UNCHANGED <<cursor, text, completed, overlap>>
      /\ reader' = IF Alive(task) THEN [reader EXCEPT ![task].cancel = TRUE] ELSE reader
  BY DEF detach
<1>2. Alive(task) => task \in Readers
  BY BoundsAssumption DEF Alive, Readers
<1>3. /\ reader' \in [Readers -> ReaderStates]
      /\ \A k \in Readers : /\ reader'[k] = IF Alive(task) /\ k = task
                                            THEN [reader[k] EXCEPT !.cancel = TRUE]
                                            ELSE reader[k]
                            /\ reader'[k].pc = reader[k].pc /\ reader'[k].last = reader[k].last
                            /\ reader'[k].told = reader[k].told
  BY <1>1, <1>2 DEF ReaderStates
<1>4. Living' = Living
  BY <1>3 DEF Living
<1>5. MapTypes'
  <2>1. \A k \in Living : reader'[k].run \in Runs
    BY <1>3 DEF Living, ReaderStates
  <2> QED
    BY <1>1, <1>3, <1>4, <2>1, BoundsAssumption
<1>6. Following'
  <2> SUFFICES ASSUME ~overlap, NEW k \in Living PROVE Follows(k)'
    BY <1>1, <1>3, <1>4 DEF Following, Living
  <2>1. Follows(k) /\ k \in Readers
    BY DEF Following, Living
  <2>2. Leaving(k)'
    <3>1. CASE attached = 0
      BY <1>3, <2>1, <3>1 DEF Follows, Leaving, ReaderStates
    <3>2. CASE attached # 0
      <4>1. task = k /\ Alive(task)
        BY <2>1, <3>2 DEF Follows, Living, Alive, Readers
      <4> QED
        BY <1>3, <2>1, <4>1 DEF Leaving, ReaderStates
    <3> QED
      BY <3>1, <3>2
  <2> QED
    BY <1>1, <1>3, <2>1, <2>2 DEF Follows
<1> QED
  BY <1>1, <1>5, <1>6 DEF TextIsJournal

New(s) == [NoReader EXCEPT !.pc = "start", !.run = s]

LEMMA NewReader ==
    ASSUME NEW s \in 0 .. MaxRun
    PROVE  /\ New(s) \in ReaderStates /\ New(s).pc = "start" /\ New(s).run = s
           /\ New(s).pos = 0 /\ New(s).told = 0 /\ ~New(s).cancel
<1>1. MaxRun \in Nat
  BY BoundsAssumption
<1>2. New(s) \in ReaderStates
  BY <1>1 DEF New, NoReader, ReaderStates, Pcs, Whys
<1>3. ~New(s).cancel
  BY DEF New, NoReader
<1>4. New(s).pc = "start" /\ New(s).run = s /\ New(s).pos = 0 /\ New(s).told = 0
  BY DEF New, NoReader
<1> QED
  BY <1>2, <1>3, <1>4

(* The new reader is the only one, unless an overlap is recorded.          *)
LEMMA Attached ==
    ASSUME Streams, journal \in [Runs -> Seq(Events)], journal' = journal,
           NEW s \in Runs, Fresh # {}, attach(s)
    PROVE  Streams'
<1>1. PICK k \in Fresh : k = CHOOSE j \in Fresh : \A i \in Fresh : j <= i
  BY FirstFresh
<1>2. /\ attached' = s /\ task' = k /\ resp' = resp
      /\ cursor' = 0 /\ text' = <<>> /\ completed' = 0
      /\ reader' = [reader EXCEPT ![k] = New(s)]
      /\ overlap' = (overlap \/ Living # {})
  BY <1>1 DEF attach, New
<1>3. k \in Readers /\ s \in 0 .. MaxRun /\ s # 0 /\ k \in 0 .. MaxReader
  BY BoundsAssumption DEF Fresh, Readers, Runs
<1>4. /\ reader'[k] = New(s) /\ reader' \in [Readers -> ReaderStates]
      /\ \A j \in Readers \ {k} : reader'[j] = reader[j]
  BY <1>2, <1>3, NewReader DEF Streams, MapTypes
<1>5. /\ reader'[k].pc = "start" /\ reader'[k].run = s /\ ~reader'[k].cancel
      /\ reader'[k].pos = 0 /\ reader'[k].told = 0 /\ reader'[k] \in ReaderStates
  BY <1>3, <1>4, NewReader
<1>6. MapTypes'
  <2>1. overlap' \in BOOLEAN
    BY <1>2
  <2>2. 0 \in 0 .. MaxRun /\ 0 \in Nat /\ <<>> \in Seq(Nat) /\ resp \in 0 .. MaxReader
    BY BoundsAssumption DEF Streams, MapTypes
  <2>3. \A j \in Living' : reader'[j].run \in Runs
    BY <1>3, <1>4, <1>5 DEF Streams, MapTypes, Living
  <2> QED
    BY <1>2, <1>3, <1>4, <2>1, <2>2, <2>3 DEF MapTypes
<1>7. Following'
  <2> SUFFICES ASSUME ~overlap' PROVE /\ \A i, j \in Living' : i = j
                                      /\ \A j \in Living' : Follows(j)'
                                      /\ \A j \in Readers \ Living' : reader'[j].told = 0
    BY <1>2 DEF Following
  <2>1. Living = {} /\ ~overlap
    BY <1>2
  <2>2. Living' = {k}
    BY <1>3, <1>4, <1>5, <2>1 DEF Living
  <2>3. Follows(k)'
    <3>1. /\ attached' = s /\ s # 0 /\ task' = k /\ cursor' = 0 /\ reader'[k].pos = 0
          /\ reader'[k].pc = "start" /\ reader'[k].run = s
          /\ reader'[k].told = 0 /\ ~reader'[k].cancel
      BY <1>2, <1>3, <1>5
    <3> QED
      BY <3>1 DEF Follows
  <2>4. \A j \in Readers \ {k} : reader'[j].told = 0
    BY <1>4, <2>1 DEF Following, Streams
  <2>5. ASSUME NEW j \in Living' PROVE Follows(j)'
    BY <2>2, <2>3
  <2> QED
    BY <2>2, <2>4, <2>5
<1>8. TextIsJournal'
  <2>1. Tokens(s, 0)' = {} /\ 0 <= Len(journal[s])
    BY DEF Tokens
  <2>2. Range(<<>>) = {} /\ DOMAIN <<>> = {}
    BY DEF Range
  <2> QED
    BY <1>2, <2>1, <2>2 DEF TextIsJournal
<1> QED
  BY <1>6, <1>7, <1>8 DEF Streams

(* The entries of a stream that is not attached are of no account.         *)
LEMMA Emptied ==
    ASSUME Streams, journal' = journal, attached = 0,
           cursor' = 0, text' = <<>>, completed' = 0,
           UNCHANGED <<attached, task, resp, reader, overlap>>
    PROVE  Streams'
  BY DEF Streams, MapTypes, Following, Follows, Leaving, Living, DoneBy, TextIsJournal

-----------------------------------------------------------------------------
(* The request tasks. *)

LEMMA AskedRecord ==
    ASSUME NEW op \in Operations
    PROVE  /\ Idle \in HandlerStates
           /\ [Idle EXCEPT !.pc = "ask", !.op = op] \in HandlerStates
<1>1. ASSUME NEW S, NEW R, NEW O, NEW o \in O, 0 \in S, 0 \in R, "" \in O
      PROVE  LET H == [pc : {"idle", "ask", "told", "refused", "stop"}, op : O, reply : S,
                       row : BOOLEAN, busy : BOOLEAN, old : R, want : S]
             IN  Idle \in H /\ [Idle EXCEPT !.pc = "ask", !.op = o] \in H
  BY <1>1 DEF Idle
<1>2. 0 \in 0 .. MaxRun /\ 0 \in 0 .. MaxReader
  BY BoundsAssumption
<1>3. "" \in Operations
  BY DEF Operations
<1> HIDE DEF Operations
<1> QED
  BY <1>1, <1>2, <1>3 DEF HandlerStates

LEMMA Operation ==
    /\ [Idle EXCEPT !.op = "turn"] \in HandlerStates
    /\ \A k \in 0 .. MaxReader :
          [Idle EXCEPT !.pc = "stop", !.op = "logout", !.old = k] \in HandlerStates
<1>1. ASSUME NEW S, NEW R, NEW O, NEW o \in O, 0 \in S, 0 \in R, NEW k \in R, "" \in O
      PROVE  LET H == [pc : {"idle", "ask", "told", "refused", "stop"}, op : O, reply : S,
                       row : BOOLEAN, busy : BOOLEAN, old : R, want : S]
             IN  /\ [Idle EXCEPT !.op = o] \in H
                 /\ [Idle EXCEPT !.pc = "stop", !.op = o, !.old = k] \in H
  BY <1>1 DEF Idle
<1>2. 0 \in 0 .. MaxRun /\ 0 \in 0 .. MaxReader
  BY BoundsAssumption
<1>3. "" \in Operations /\ "turn" \in Operations /\ "logout" \in Operations
  BY DEF Operations
<1> HIDE DEF Operations
<1>4. [Idle EXCEPT !.op = "turn"] \in HandlerStates
  BY <1>1, <1>2, <1>3 DEF HandlerStates
<1>5. ASSUME NEW k \in 0 .. MaxReader
      PROVE  [Idle EXCEPT !.pc = "stop", !.op = "logout", !.old = k] \in HandlerStates
  BY <1>1, <1>2, <1>3 DEF HandlerStates
<1> QED
  BY <1>4, <1>5

LEMMA AskType ==
    ASSUME handler \in [Handlers -> HandlerStates], NEW h \in Handlers, NEW op \in Operations,
           Ask(h, op)
    PROVE  handler' \in [Handlers -> HandlerStates]
  BY AskedRecord DEF Ask

LEMMA IdleType ==
    ASSUME handler \in [Handlers -> HandlerStates], NEW h \in Handlers,
           handler' = [handler EXCEPT ![h] = Idle]
    PROVE  handler' \in [Handlers -> HandlerStates]
<1>1. Idle \in HandlerStates
  BY AskedRecord DEF Operations
<1> QED
  BY <1>1

LEMMA ReturnedType ==
    ASSUME handler \in [Handlers -> HandlerStates], NEW h \in Handlers,
           NEW hd, NEW st \in Statuses, returned(h, hd, st)
    PROVE  handler' \in [Handlers -> HandlerStates] /\ status' \in Statuses
  BY AskType, IdleType DEF returned, Statuses, Operations

(* start_remote_stream, whatever its caller has found out.                 *)
LEMMA StartKeeps ==
    ASSUME IInv, NEW h \in Handlers, NEW hd \in HandlerStates, NEW s \in 0 .. MaxRun,
           NEW st \in Statuses, start_remote_stream(h, hd, s, st), journal' = journal
    PROVE  Streams' /\ handler' \in [Handlers -> HandlerStates] /\ status' \in Statuses
<1> USE DEF IInv, ServerTypes, TaskTypes
<1>1. CASE returned(h, hd, st) /\ UNCHANGED <<maps, reader, overlap>>
  BY <1>1, StillKeeps, ReturnedType
<1>2. CASE /\ detach /\ status' = st
           /\ handler' = [handler EXCEPT ![h] = [hd EXCEPT !.pc = "stop", !.old = task,
                                                           !.want = s]]
  <2>1. [hd EXCEPT !.pc = "stop", !.old = task, !.want = s] \in HandlerStates
    BY DEF HandlerStates, Streams, MapTypes
  <2> QED
    BY <1>2, <2>1, Detached
<1>3. CASE s # 0 /\ Fresh # {} /\ attach(s) /\ returned(h, hd, st)
  <2>1. s \in Runs
    BY <1>3, BoundsAssumption DEF Runs
  <2> QED
    BY <1>3, <2>1, Attached, ReturnedType
<1> QED
  BY <1>1, <1>2, <1>3 DEF start_remote_stream

(* A step that leaves the WebUI alone.                                     *)
LEMMA ServerStill ==
    ASSUME IInv, UNCHANGED server, Streams', TaskTypes'
    PROVE  IInv'
  BY DEF IInv, ServerTypes, JournalsEnd, server

(* A step of a request task that leaves the streams alone.                 *)
LEMMA Bystander ==
    ASSUME IInv, UNCHANGED <<maps, reader, overlap>>, UNCHANGED server, TaskTypes'
    PROVE  IInv'
<1>1. Streams'
  BY StillKeeps DEF IInv, server
<1> QED
  BY <1>1, ServerStill

LEMMA BeginKeeps ==
    ASSUME IInv, NEW h \in Handlers, NEW op \in Ops, Begin(h, op)
    PROVE  IInv'
<1> USE DEF Statuses
<1>0. /\ UNCHANGED server /\ UNCHANGED <<connected, listed>>
      /\ handler \in [Handlers -> HandlerStates] /\ status \in Statuses
      /\ connected \in BOOLEAN /\ listed \in BOOLEAN /\ handler[h] = Idle
  BY DEF Begin, IInv, TaskTypes
<1>1. ASSUME UNCHANGED <<maps, reader, overlap>>, handler' \in [Handlers -> HandlerStates],
             status' \in Statuses
      PROVE  IInv'
  BY <1>0, <1>1, Bystander DEF TaskTypes
<1>2. CASE remote_prompt_submit(h, op)
  <2>1. op \in Operations
    BY <1>2 DEF remote_prompt_submit, Operations
  <2> QED
    BY <1>0, <1>1, <1>2, <2>1, AskType DEF remote_prompt_submit
<1>3. CASE session_compress(h)
  <2>1. "compress" \in Operations
    BY DEF Operations
  <2> QED
    BY <1>0, <1>1, <1>3, <2>1, AskType DEF session_compress
<1>4. CASE remote_interrupt(h) \/ remote_respond_to_request(h) \/ (op \in Reading /\ Ask(h, op) /\ Quiet)
  <2>1. PICK o \in Operations : Ask(h, o)
    <3>1. {"which", "cancel", "respond"} \cup Reading \subseteq Operations
      BY DEF Reading, Operations
    <3> QED
      BY <1>4, <3>1 DEF remote_interrupt, remote_respond_to_request
  <2>2. Quiet
    BY <1>4 DEF remote_interrupt, remote_respond_to_request
  <2>3. handler' \in [Handlers -> HandlerStates]
    BY <1>0, <2>1, AskType
  <2> QED
    BY <1>0, <1>1, <2>2, <2>3 DEF Quiet
<1>5. CASE ObservedTurn(h)
  <2>1. [Idle EXCEPT !.op = "turn"] \in HandlerStates
    BY Operation
  <2>2. journal' = journal /\ begun \in 0 .. MaxRun /\ "working" \in Statuses
    BY <1>0 DEF server, IInv, ServerTypes
  <2>3. Streams' /\ handler' \in [Handlers -> HandlerStates] /\ status' \in Statuses
    BY <1>5, <2>1, <2>2, StartKeeps DEF ObservedTurn
  <2> QED
    BY <1>0, <2>3, ServerStill DEF TaskTypes
<1>6. CASE logout(h)
  <2>1. Streams'
    BY <1>0, <1>6, Detached DEF logout, IInv, server
  <2>2. handler' \in [Handlers -> HandlerStates] /\ status' = status
    <3>1. [Idle EXCEPT !.pc = "stop", !.op = "logout", !.old = task] \in HandlerStates
      BY Operation DEF IInv, Streams, MapTypes
    <3> QED
      BY <1>0, <1>6, <3>1 DEF logout
  <2> QED
    BY <1>0, <2>1, <2>2, ServerStill DEF TaskTypes
<1> QED
  BY <1>2, <1>3, <1>4, <1>5, <1>6 DEF Begin

LEMMA StopEndKeeps ==
    ASSUME IInv, NEW h \in Handlers, StopEnd(h)
    PROVE  IInv'
<1>0. /\ UNCHANGED server /\ connected' = connected /\ listed' \in BOOLEAN
      /\ handler \in [Handlers -> HandlerStates] /\ handler[h] \in HandlerStates
      /\ status \in Statuses /\ connected \in BOOLEAN
      /\ journal \in [Runs -> Seq(Events)] /\ journal' = journal /\ Streams
  BY DEF StopEnd, IInv, TaskTypes, ServerTypes, server
<1>1. CASE handler[h].want # 0
  <2>1. handler[h].want \in Runs
    BY <1>0, <1>1, BoundsAssumption DEF HandlerStates, Runs
  <2>2. Fresh # {} /\ attach(handler[h].want) /\ returned(h, handler[h], status)
    BY <1>1 DEF StopEnd
  <2>3. Streams'
    BY <1>0, <2>1, <2>2, Attached
  <2>4. handler' \in [Handlers -> HandlerStates] /\ status' \in Statuses
    BY <1>0, <2>2, ReturnedType
  <2> QED
    BY <1>0, <2>3, <2>4, ServerStill DEF TaskTypes
<1>2. CASE handler[h].want = 0
  <2>1. /\ IF attached = 0 THEN cursor' = 0 /\ text' = <<>> /\ completed' = 0
                           ELSE UNCHANGED <<cursor, text, completed>>
        /\ UNCHANGED <<attached, task, resp, reader, overlap, status>>
        /\ Ask(h, "sign out") \/ handler' = [handler EXCEPT ![h] = Idle]
    BY <1>2 DEF StopEnd
  <2>2. Streams'
    BY <1>0, <2>1, Emptied, StillKeeps DEF maps
  <2>3. "sign out" \in Operations
    BY DEF Operations
  <2>4. handler' \in [Handlers -> HandlerStates]
    BY <1>0, <2>1, <2>3, AskType, IdleType
  <2> QED
    BY <1>0, <2>1, <2>2, <2>4, ServerStill DEF TaskTypes
<1> QED
  BY <1>1, <1>2

LEMMA ServeKeeps ==
    ASSUME IInv, NEW h \in Handlers, Serve(h)
    PROVE  IInv'
<1> DEFINE op == handler[h].op
           frame(c, n, b) == [handler[h] EXCEPT !.pc = c, !.reply = n, !.row = b]
<1>1. /\ ServerTypes' /\ Grown /\ JournalsEnd'
      /\ UNCHANGED <<connected, listed, status>> /\ UNCHANGED <<maps, reader, overlap>>
  BY ExecutedEffect DEF Serve, IInv
<1>2. Streams'
  BY <1>1, GrownKeeps
<1>3. PICK c \in {"refused", "told"}, n \in 0 .. MaxRun, b \in BOOLEAN :
        handler' = [handler EXCEPT ![h] = frame(c, n, b)]
  <2>1. (IF Accepts(op) THEN begun + 1 ELSE Active) \in 0 .. MaxRun
    BY ActiveRun, BoundsAssumption DEF Accepts, IInv, ServerTypes
  <2>2. (~gone) \in BOOLEAN
    OBVIOUS
  <2>3. handler' = [handler EXCEPT ![h] =
                     frame(IF op \in Turns /\ ~Accepts(op) THEN "refused" ELSE "told",
                           IF Accepts(op) THEN begun + 1 ELSE Active, ~gone)]
    BY DEF Serve
  <2>4. (IF op \in Turns /\ ~Accepts(op) THEN "refused" ELSE "told") \in {"refused", "told"}
    OBVIOUS
  <2> HIDE DEF op, frame
  <2> QED
    BY <2>1, <2>2, <2>3, <2>4
<1>4. handler[h] \in HandlerStates
  BY DEF IInv, TaskTypes
<1>5. frame(c, n, b) \in HandlerStates
  BY <1>4 DEF HandlerStates
<1>6. TaskTypes'
  <2> HIDE DEF frame
  <2> QED
    BY <1>1, <1>3, <1>5 DEF IInv, TaskTypes
<1> QED
  BY <1>1, <1>2, <1>6 DEF IInv

LEMMA LoseKeeps ==
    ASSUME IInv, NEW h \in Handlers, Lose(h)
    PROVE  IInv'
<1>1. /\ \/ Executed(handler[h].op) \/ UNCHANGED server
      /\ listed' = listed /\ UNCHANGED <<maps, reader, overlap>>
      /\ handler' = [handler EXCEPT ![h] = Idle]
  BY DEF Lose
<1>2. ServerTypes' /\ Grown /\ JournalsEnd'
  BY <1>1, ExecutedEffect, Unrecorded DEF IInv, server, ServerTypes
<1>3. Streams'
  BY <1>1, <1>2, GrownKeeps
<1>4. status' \in Statuses
  BY DEF Lose, FaultStatus, Statuses, IInv, TaskTypes
<1>5. connected' \in BOOLEAN
  BY DEF Lose, IInv, TaskTypes
<1>6. TaskTypes'
  BY <1>1, <1>4, <1>5, IdleType DEF IInv, TaskTypes
<1> QED
  BY <1>2, <1>3, <1>6 DEF IInv

(* A request that is answered and attaches a stream.                       *)
LEMMA AnswerStarts ==
    ASSUME IInv, NEW h \in Handlers, NEW hd \in HandlerStates, NEW s \in 0 .. MaxRun,
           NEW st \in Statuses, start_remote_stream(h, hd, s, st),
           UNCHANGED server, connected' = connected, listed' \in BOOLEAN
    PROVE  IInv'
<1>1. Streams' /\ handler' \in [Handlers -> HandlerStates] /\ status' \in Statuses
  BY StartKeeps DEF server
<1> QED
  BY <1>1, ServerStill DEF IInv, TaskTypes

(* A request that is answered, and at most asks again.                     *)
LEMMA AnswerStays ==
    ASSUME IInv, NEW h \in Handlers, UNCHANGED <<maps, reader, overlap>>, UNCHANGED server,
           status' \in Statuses, connected' \in BOOLEAN, listed' \in BOOLEAN,
           \/ handler' = [handler EXCEPT ![h] = Idle]
           \/ \E op \in {"submit", "regenerate", "cancel"} : Ask(h, op)
    PROVE  IInv'
<1>1. {"submit", "regenerate", "cancel"} \subseteq Operations
  BY DEF Operations
<1>2. handler' \in [Handlers -> HandlerStates]
  BY <1>1, AskType, IdleType DEF IInv, TaskTypes
<1> QED
  BY <1>2, Bystander DEF TaskTypes

LEMMA AnswerKeeps ==
    ASSUME IInv, NEW h \in Handlers,
           \/ PromptAnswered(h) \/ RegenerateAnswered(h) \/ Uploaded(h) \/ EditTruncated(h)
           \/ RevisionRead(h) \/ StatusRead(h) \/ HistoryRead(h) \/ ListApplied(h)
           \/ InterruptAnswered(h) \/ RequestSettled(h) \/ SignedOut(h) \/ Deleted(h)
    PROVE  IInv'
<1>1. /\ handler[h] \in HandlerStates /\ handler[h].reply \in 0 .. MaxRun
      /\ status \in Statuses /\ {"working", "error", "idle", "waiting"} \subseteq Statuses
      /\ connected \in BOOLEAN /\ listed \in BOOLEAN
  BY DEF IInv, TaskTypes, HandlerStates, Statuses
<1>2. CASE PromptAnswered(h)
  <2>1. UNCHANGED server /\ UNCHANGED <<connected, listed>>
    BY <1>2 DEF PromptAnswered, Answered
  <2>2. CASE \E st \in {status, "working"} :
               start_remote_stream(h, handler[h], handler[h].reply, st)
    BY <1>1, <2>1, <2>2, AnswerStarts
  <2>3. CASE TurnRefused(h)
    BY <1>1, <2>1, <2>3, AnswerStays DEF TurnRefused
  <2> QED
    BY <1>2, <2>2, <2>3 DEF PromptAnswered
<1>3. CASE RegenerateAnswered(h)
  <2>1. UNCHANGED server /\ UNCHANGED <<connected, listed>>
    BY <1>3 DEF RegenerateAnswered, Answered
  <2>2. CASE start_remote_stream(h, handler[h], handler[h].reply, status)
    BY <1>1, <2>1, <2>2, AnswerStarts
  <2>3. CASE TurnRefused(h)
    BY <1>1, <2>1, <2>3, AnswerStays DEF TurnRefused
  <2> QED
    BY <1>3, <2>2, <2>3 DEF RegenerateAnswered
<1>4. CASE Uploaded(h) \/ EditTruncated(h) \/ RevisionRead(h)
  <2>1. PICK op \in {"submit", "regenerate"} : AskTurn(h, op)
    BY <1>4 DEF Uploaded, EditTruncated, RevisionRead
  <2> QED
    BY <1>1, <2>1, AnswerStays DEF AskTurn, Answered
<1>5. CASE StatusRead(h)
  <2> DEFINE b == handler[h].reply # 0 /\ completed # handler[h].reply
             hd == [handler[h] EXCEPT !.busy = b]
  <2>1. /\ UNCHANGED server /\ UNCHANGED <<connected, listed>>
        /\ start_remote_stream(h, hd, handler[h].reply, status)
    BY <1>5 DEF StatusRead, Answered
  <2>2. b \in BOOLEAN
    OBVIOUS
  <2>3. hd \in HandlerStates
    <3> HIDE DEF b
    <3> QED
      BY <1>1, <2>2 DEF HandlerStates
  <2> HIDE DEF hd
  <2> QED
    BY <1>1, <2>1, <2>3, AnswerStarts
<1>6. CASE HistoryRead(h)
  BY <1>1, <1>6, AnswerStarts DEF HistoryRead, Answered
<1>7. CASE ListApplied(h)
  <2>1. UNCHANGED server /\ connected' = connected
    BY <1>7 DEF ListApplied
  <2>2. CASE handler[h].row
    <3>1. ListedStatus(handler[h].reply) \in Statuses
      BY DEF ListedStatus, Statuses
    <3>2. /\ listed' = TRUE
          /\ start_remote_stream(h, handler[h], handler[h].reply,
                                 ListedStatus(handler[h].reply))
      BY <1>7, <2>2 DEF ListApplied
    <3> QED
      BY <1>1, <2>1, <3>1, <3>2, AnswerStarts
  <2>3. CASE ~handler[h].row
    <3>1. /\ listed' = (listed /\ status \in {"working", "waiting"})
          /\ handler' = [handler EXCEPT ![h] = Idle]
          /\ UNCHANGED <<status, maps, reader, overlap>>
      BY <1>7, <2>3 DEF ListApplied
    <3>2. listed' \in BOOLEAN
      BY <3>1
    <3> QED
      BY <1>1, <2>1, <3>1, <3>2, AnswerStays
  <2> QED
    BY <2>2, <2>3
<1>8. CASE InterruptAnswered(h)
  BY <1>1, <1>8, AnswerStays DEF InterruptAnswered, Answered
<1>9. CASE RequestSettled(h)
  BY <1>1, <1>9, AnswerStays DEF RequestSettled, Answered
<1>10. CASE SignedOut(h)
  BY <1>1, <1>10, AnswerStays DEF SignedOut, Quiet
<1>11. CASE Deleted(h)
  <2>1. /\ UNCHANGED server /\ UNCHANGED <<connected, listed, status>> /\ detach
        /\ handler' = [handler EXCEPT ![h] = [@ EXCEPT !.pc = "stop", !.old = task]]
    BY <1>11 DEF Deleted, stop_remote_stream, Answered
  <2>2. Streams' /\ task \in 0 .. MaxReader
    BY <2>1, Detached DEF IInv, Streams, MapTypes, server
  <2>3. [handler[h] EXCEPT !.pc = "stop", !.old = task] \in HandlerStates
    BY <1>1, <2>2 DEF HandlerStates
  <2>4. handler' \in [Handlers -> HandlerStates]
    BY <2>1, <2>3 DEF IInv, TaskTypes
  <2> QED
    BY <1>1, <2>1, <2>2, <2>4, ServerStill DEF TaskTypes
<1> QED
  BY <1>2, <1>3, <1>4, <1>5, <1>6, <1>7, <1>8, <1>9, <1>10, <1>11

(* The WebUI and the sign-in.                                              *)
LEMMA ServerKeeps ==
    ASSUME IInv, (\E e \in Recorded : Emit(e)) \/ ServerTurn \/ Expire
    PROVE  IInv'
<1>1. UNCHANGED <<maps, reader, overlap>> /\ UNCHANGED <<handler, status, listed>>
  BY DEF Emit, ServerTurn, Expire
<1>2. ASSUME NEW e \in Recorded, Emit(e) PROVE ServerTypes' /\ Grown /\ JournalsEnd'
  <2>1. begun \in Runs /\ e \in Events
    BY <1>2, BoundsAssumption DEF Emit, IInv, ServerTypes, Runs
  <2>2. e \in {"title", "end"} \/ ~Finished(begun)
    BY <1>2, <2>1 DEF Emit, MayEmit, Events, Over
  <2>3. journal' = [journal EXCEPT ![begun] = Append(@, e)] /\ begun' = begun /\ gone' = gone
    BY <1>2 DEF Emit
  <2> QED
    BY <2>1, <2>2, <2>3, Recorded1 DEF IInv, ServerTypes
<1>3. ASSUME ServerTurn \/ Expire PROVE ServerTypes' /\ Grown /\ JournalsEnd'
  <2>1. journal' = journal /\ gone' = gone /\ begun' \in 0 .. MaxRun
    BY <1>3, BoundsAssumption DEF ServerTurn, Expire, server, IInv, ServerTypes
  <2> QED
    BY <2>1, Unrecorded DEF IInv, ServerTypes
<1>4. connected' \in BOOLEAN
  BY DEF Emit, ServerTurn, Expire, IInv, TaskTypes
<1>5. ServerTypes' /\ Grown /\ JournalsEnd'
  BY <1>2, <1>3
<1> QED
  BY <1>1, <1>4, <1>5, GrownKeeps DEF IInv, TaskTypes

-----------------------------------------------------------------------------
(* The reader tasks. *)

(* A reader goes on.                                                       *)
LEMMA Moves ==
    ASSUME Streams, NEW k \in Living, NEW rd \in ReaderStates,
           reader' = [reader EXCEPT ![k] = rd],
           rd.pc \notin {"none", "over"}, rd.run = reader[k].run,
           journal' = journal, UNCHANGED <<attached, task, overlap>>,
           resp' \in 0 .. MaxReader, completed' \in 0 .. MaxRun,
           cursor' \in Nat, text' \in Seq(Nat),
           ~overlap => /\ Follows(k)'
                       /\ (attached # 0 /\ completed' # 0)
                          => completed' = attached /\ DoneBy(attached, cursor'),
           TextIsJournal'
    PROVE  Streams'
<1>1. k \in Readers /\ reader \in [Readers -> ReaderStates]
  BY DEF Living, Streams, MapTypes
<1>2. /\ reader' \in [Readers -> ReaderStates] /\ reader'[k] = rd
      /\ \A j \in Readers \ {k} : reader'[j] = reader[j]
  BY <1>1
<1>3. Living' = Living
  BY <1>1, <1>2 DEF Living
<1>4. MapTypes'
  BY <1>2, <1>3 DEF Streams, MapTypes, Living
<1>5. Following'
  <2> SUFFICES ASSUME ~overlap PROVE /\ \A i, j \in Living : i = j
                                     /\ \A j \in Living : Follows(j)'
                                     /\ \A j \in Readers \ Living : reader'[j].told = 0
    BY <1>3 DEF Following, DoneBy
  <2>1. \A i, j \in Living : i = j
    BY DEF Streams, Following
  <2>2. ASSUME NEW j \in Living PROVE Follows(j)'
    BY <2>1
  <2>3. \A j \in Readers \ Living : reader'[j].told = 0
    BY <1>2 DEF Streams, Following
  <2> QED
    BY <2>1, <2>2, <2>3
<1> QED
  BY <1>4, <1>5 DEF Streams

(* A reader goes on, and the cursor, the text and the mark stay.           *)
LEMMA MovesOnly ==
    ASSUME Streams, NEW k \in Living, NEW rd \in ReaderStates,
           reader' = [reader EXCEPT ![k] = rd],
           rd.pc \notin {"none", "over"}, rd.run = reader[k].run,
           journal' = journal, resp' \in 0 .. MaxReader,
           UNCHANGED <<attached, task, cursor, text, completed, overlap>>,
           ~overlap => Follows(k)'
    PROVE  Streams'
<1>1. TextIsJournal'
  BY DEF Streams, TextIsJournal, Tokens
<1>2. (~overlap /\ attached # 0 /\ completed # 0)
      => completed = attached /\ DoneBy(attached, cursor)
  BY DEF Streams, Following
<1>3. /\ completed' \in 0 .. MaxRun /\ cursor' \in Nat /\ text' \in Seq(Nat)
  BY DEF Streams, MapTypes
<1> QED
  BY <1>1, <1>2, <1>3, Moves

Ended == [NoReader EXCEPT !.pc = "over"]

LEMMA EndedReader == Ended \in ReaderStates /\ Ended.pc = "over" /\ Ended.told = 0
<1>1. ASSUME NEW S, 0 \in S, NEW W, "" \in W
      PROVE  Ended \in [pc : Pcs, run : S, pos : Nat, why : W, saw : BOOLEAN,
                        last : BOOLEAN, fails : Nat, cancel : BOOLEAN, told : Nat]
  BY <1>1 DEF Ended, NoReader, Pcs
<1>2. Ended \in ReaderStates
  <2>1. 0 \in 0 .. MaxRun /\ "" \in Whys
    BY BoundsAssumption DEF Whys
  <2> QED
    BY <1>1, <2>1 DEF ReaderStates
<1>3. Ended.pc = "over" /\ Ended.told = 0
  BY DEF Ended, NoReader
<1> QED
  BY <1>2, <1>3

(* The only reader ends.                                                   *)
LEMMA Ends ==
    ASSUME Streams, NEW k \in Living, journal' = journal, overlap' = overlap,
           reader' = [reader EXCEPT ![k] = Ended],
           task' \in {0, task}, resp' \in {0, resp},
           \/ UNCHANGED <<attached, cursor, text, completed>>
           \/ attached' = 0 /\ cursor' = 0 /\ text' = <<>> /\ completed' = 0,
           ~overlap => attached' = 0
    PROVE  Streams'
<1>1. k \in Readers /\ reader \in [Readers -> ReaderStates]
  BY DEF Living, Streams, MapTypes
<1>4. /\ reader' \in [Readers -> ReaderStates] /\ reader'[k] = Ended
      /\ \A j \in Readers \ {k} : reader'[j] = reader[j]
  BY <1>1, EndedReader
<1>5. Living' = Living \ {k}
  BY <1>1, <1>4, EndedReader DEF Living
<1>6. MapTypes'
  <2>1. 0 \in 0 .. MaxRun /\ 0 \in 0 .. MaxReader /\ 0 \in Nat /\ <<>> \in Seq(Nat)
    BY BoundsAssumption
  <2> QED
    BY <1>4, <1>5, <2>1 DEF Streams, MapTypes, Living
<1>7. Following'
  <2> SUFFICES ASSUME ~overlap PROVE Living' = {} /\ \A j \in Readers : reader'[j].told = 0
    BY DEF Following
  <2>1. \A j \in Living : j = k
    BY DEF Streams, Following
  <2>2. \A j \in Readers \ {k} : reader[j].told = 0
    BY <2>1 DEF Streams, Following
  <2> QED
    BY <1>4, <1>5, <2>1, <2>2, EndedReader
<1>8. TextIsJournal'
  BY DEF TextIsJournal
<1> QED
  BY <1>6, <1>7, <1>8 DEF Streams

(* The finally blocks of the only reader.                                  *)
LEMMA FinishKeeps ==
    ASSUME Streams, NEW k \in Living, journal' = journal, overlap' = overlap, finish(k)
    PROVE  Streams'
<1>1. /\ task' \in {0, task} /\ resp' \in {0, resp}
      /\ reader' = [reader EXCEPT ![k] = Ended]
      /\ \/ UNCHANGED <<attached, cursor, text, completed>>
         \/ attached' = 0 /\ cursor' = 0 /\ text' = <<>> /\ completed' = 0
  BY DEF finish, Ended
<1>2. ~overlap => attached' = 0
  BY DEF finish, Streams, Following, Follows
<1> QED
  BY <1>1, <1>2, Ends

(* A reader that is neither cancelled nor closing reads what is attached.  *)
LEMMA Reading1 ==
    ASSUME Streams, NEW k \in Living, ~reader[k].cancel, ~overlap,
           reader[k].pc # "close" \/ ~reader[k].last
    PROVE  /\ attached # 0 /\ reader[k].run = attached /\ reader[k].pos = cursor
           /\ task = k /\ Follows(k)
           /\ reader[k].told > 0 => /\ reader[k].told = 1
                                    /\ reader[k].pc = "reconcile" \/ completed = attached
           /\ completed # 0 => completed = attached /\ DoneBy(attached, cursor)
  BY DEF Streams, Following, Follows, Leaving

LEMMA ReaderKeeps ==
    ASSUME IInv, Streams', Frame, connected' = connected, status' \in Statuses
    PROVE  IInv'
  BY ServerStill DEF IInv, TaskTypes, Frame

LEMMA LivingReader ==
    ASSUME Streams, NEW k \in Living
    PROVE  /\ k \in Readers /\ k \in 0 .. MaxReader /\ reader[k] \in ReaderStates
           /\ reader[k].run \in Runs /\ reader \in [Readers -> ReaderStates]
           /\ attached \in 0 .. MaxRun /\ completed \in 0 .. MaxRun
           /\ resp \in 0 .. MaxReader /\ 0 \in 0 .. MaxReader
           /\ cursor \in Nat /\ text \in Seq(Nat)
  BY BoundsAssumption DEF Streams, MapTypes, Living, Readers

LEMMA LoopKeeps ==
    ASSUME IInv, NEW k \in Living, Loop(k)
    PROVE  IInv'
<1> DEFINE rd == [reader[k] EXCEPT !.pc = "open", !.pos = cursor, !.saw = FALSE]
<1>0. /\ Streams /\ journal' = journal /\ UNCHANGED <<connected, status, overlap>> /\ Frame
      /\ status \in Statuses /\ reader[k].pc \in {"start", "sleep"} /\ ~reader[k].cancel
  BY DEF Loop, At, Frame, server, IInv, TaskTypes
<1>1. CASE attached = reader[k].run /\ listed
  <2>1. reader' = [reader EXCEPT ![k] = rd] /\ UNCHANGED maps
    BY <1>1 DEF Loop
  <2>2. rd \in ReaderStates
    BY <1>0, LivingReader DEF ReaderStates, Pcs
  <2>3. /\ rd.pc = "open" /\ rd.pos = cursor /\ rd.run = reader[k].run
        /\ rd.told = reader[k].told
    BY <1>0, LivingReader DEF ReaderStates
  <2>4. ~rd.cancel
    BY <1>0, LivingReader DEF ReaderStates
  <2> HIDE DEF rd
  <2>5. reader'[k] = rd
    BY <2>1, LivingReader, <1>0
  <2>6. ~overlap => Follows(k)'
    BY <1>0, <2>1, <2>3, <2>4, <2>5, Reading1 DEF Follows, Leaving, maps
  <2>7. Streams'
    BY <1>0, <2>1, <2>2, <2>3, <2>6, MovesOnly, LivingReader DEF maps
  <2> QED
    BY <1>0, <2>7, ReaderKeeps
<1>2. CASE ~(attached = reader[k].run /\ listed)
  BY <1>0, <1>2, FinishKeeps, ReaderKeeps DEF Loop
<1> QED
  BY <1>1, <1>2

(* A step of a reader, up to its own state, the response and the mark.     *)
LEMMA Goes ==
    ASSUME IInv, NEW k \in Living, NEW rd \in ReaderStates,
           reader' = [reader EXCEPT ![k] = rd], ~reader[k].cancel,
           reader[k].pc # "close" \/ ~reader[k].last,
           rd.pc \notin {"none", "over"}, rd.run = reader[k].run, rd.pos = reader[k].pos,
           ~rd.cancel, resp' \in 0 .. MaxReader,
           UNCHANGED <<attached, task, cursor, text, completed, overlap>>,
           rd.pc = "reconcile" => rd.why # "done",
           \/ rd.told = reader[k].told /\ reader[k].pc # "reconcile"
           \/ rd.told = reader[k].told /\ rd.pc = "close" /\ rd.last
           \/ /\ rd.told = reader[k].told + 1 /\ rd.pc = "reconcile"
              /\ completed # reader[k].run /\ reader[k].pc # "reconcile",
           Frame, connected' = connected, status' \in Statuses
    PROVE  IInv'
<1>0. Streams /\ journal' = journal
  BY DEF IInv, Frame, server
<1>1. reader'[k] = rd /\ reader[k].told \in Nat
  BY <1>0, LivingReader DEF ReaderStates
<1>2. ~overlap => Follows(k)'
  <2> SUFFICES ASSUME ~overlap PROVE Follows(k)'
    OBVIOUS
  <2>1. /\ attached # 0 /\ reader[k].run = attached /\ reader[k].pos = cursor /\ task = k
        /\ reader[k].told > 0 => /\ reader[k].told = 1
                                 /\ reader[k].pc = "reconcile" \/ completed = attached
    BY <1>0, Reading1
  <2>2. rd.told > 0 => /\ rd.told = 1
                      /\ \/ rd.pc = "reconcile"
                         \/ rd.pc = "close" /\ rd.last
                         \/ completed = attached
    <3>1. CASE rd.told = reader[k].told /\ reader[k].pc # "reconcile"
      BY <2>1, <3>1
    <3>2. CASE rd.told = reader[k].told /\ rd.pc = "close" /\ rd.last
      <4>1. rd.told > 0 => rd.told = 1
        BY <2>1, <3>2
      <4> QED
        BY <3>2, <4>1
    <3>3. CASE /\ rd.told = reader[k].told + 1 /\ rd.pc = "reconcile"
               /\ completed # reader[k].run /\ reader[k].pc # "reconcile"
      <4>1. reader[k].told = 0
        BY <1>1, <2>1, <3>3
      <4> QED
        BY <3>3, <4>1
    <3> QED
      BY <3>1, <3>2, <3>3
  <2> QED
    BY <1>1, <2>1, <2>2 DEF Follows, Leaving
<1>3. Streams'
  BY <1>0, <1>2, MovesOnly
<1> QED
  BY <1>3, ReaderKeeps

LEMMA OpenedKeeps ==
    ASSUME IInv, NEW k \in Living, Opened(k) \/ OpenFails(k) \/ SignInRequired(k)
    PROVE  IInv'
<1> DEFINE to(pc) == [reader[k] EXCEPT !.pc = pc]
           end == [reader[k] EXCEPT !.pc = "close", !.last = TRUE]
<1>0. /\ Streams /\ journal' = journal /\ connected' = connected /\ overlap' = overlap /\ Frame
      /\ status' \in Statuses /\ ~reader[k].cancel /\ reader[k].pc \in {"open", "status"}
  BY DEF Opened, OpenFails, SignInRequired, At, Frame, server, IInv, TaskTypes, Statuses
<1>1. CASE finish(k)
  BY <1>0, <1>1, FinishKeeps, ReaderKeeps
<1>2. ASSUME NEW pc \in {"read", "status"}, reader' = [reader EXCEPT ![k] = to(pc)],
             resp' \in {resp, k}, UNCHANGED <<attached, task, cursor, text, completed>>
      PROVE  IInv'
  <2>1. /\ to(pc) \in ReaderStates /\ to(pc).pc = pc /\ to(pc).run = reader[k].run
        /\ to(pc).pos = reader[k].pos /\ to(pc).told = reader[k].told
    BY <1>0, LivingReader DEF ReaderStates, Pcs
  <2>2. ~to(pc).cancel
    BY <1>0, LivingReader DEF ReaderStates
  <2> HIDE DEF to
  <2> QED
    BY <1>0, <1>2, <2>1, <2>2, Goes, LivingReader
<1>3. ASSUME reader' = [reader EXCEPT ![k] = end],
             UNCHANGED <<attached, task, resp, cursor, text, completed>>
      PROVE  IInv'
  <2>1. /\ end \in ReaderStates /\ end.pc = "close" /\ end.run = reader[k].run
        /\ end.pos = reader[k].pos /\ end.told = reader[k].told
    BY <1>0, LivingReader DEF ReaderStates, Pcs
  <2>2. ~end.cancel /\ end.last
    BY <1>0, LivingReader DEF ReaderStates
  <2> HIDE DEF end
  <2> QED
    BY <1>0, <1>3, <2>1, <2>2, Goes, LivingReader
<1> HIDE DEF end
<1>4. CASE Opened(k)
  BY <1>2, <1>3, <1>4 DEF Opened, Go, end
<1>5. CASE OpenFails(k)
  BY <1>1, <1>2, <1>5 DEF OpenFails, Go, maps
<1>6. CASE SignInRequired(k)
  BY <1>1, <1>6 DEF SignInRequired
<1> QED
  BY <1>4, <1>5, <1>6

LEMMA EndsKeeps ==
    ASSUME IInv, NEW k \in Living, ReadEnds(k) \/ Closed(k)
    PROVE  IInv'
<1>0. /\ Streams /\ journal' = journal /\ UNCHANGED <<connected, status, overlap>> /\ Frame
      /\ status \in Statuses /\ ~reader[k].cancel /\ reader[k].pc \in {"read", "close"}
  BY DEF ReadEnds, Closed, At, Frame, server, IInv, TaskTypes
<1>1. CASE finish(k)
  BY <1>0, <1>1, FinishKeeps, ReaderKeeps
<1>2. CASE ReadEnds(k)
  <2> DEFINE rd == [reader[k] EXCEPT !.pc = "close", !.last = FALSE]
  <2>1. /\ rd \in ReaderStates /\ rd.pc = "close" /\ rd.run = reader[k].run
        /\ rd.pos = reader[k].pos /\ rd.told = reader[k].told
    BY <1>0, LivingReader DEF ReaderStates, Pcs
  <2>2. ~rd.cancel
    BY <1>0, LivingReader DEF ReaderStates
  <2>3. /\ reader' = [reader EXCEPT ![k] = rd] /\ resp' \in {0, resp}
        /\ UNCHANGED <<attached, task, cursor, text, completed>> /\ reader[k].pc = "read"
    BY <1>2 DEF ReadEnds, leave, At
  <2> HIDE DEF rd
  <2> QED
    BY <1>0, <2>1, <2>2, <2>3, Goes, LivingReader
<1>3. CASE Closed(k) /\ ~finish(k)
  <2> DEFINE rd == [reader[k] EXCEPT !.pc = "status"]
  <2>1. /\ rd \in ReaderStates /\ rd.pc = "status" /\ rd.run = reader[k].run
        /\ rd.pos = reader[k].pos /\ rd.told = reader[k].told
    BY <1>0, LivingReader DEF ReaderStates, Pcs
  <2>2. ~rd.cancel
    BY <1>0, LivingReader DEF ReaderStates
  <2>3. /\ reader' = [reader EXCEPT ![k] = rd] /\ UNCHANGED maps
        /\ reader[k].pc = "close" /\ ~reader[k].last
    BY <1>3 DEF Closed, Go, At
  <2> HIDE DEF rd
  <2> QED
    BY <1>0, <2>1, <2>2, <2>3, Goes, LivingReader DEF maps
<1> QED
  BY <1>1, <1>2, <1>3

LEMMA StatusKeeps ==
    ASSUME IInv, NEW k \in Living, RunStatus(k) \/ RunStatusFails(k)
    PROVE  IInv'
<1>0. /\ Streams /\ journal' = journal /\ UNCHANGED <<connected, overlap>> /\ Frame
      /\ ~reader[k].cancel /\ reader[k].pc = "status"
      /\ status' \in Statuses
  BY DEF RunStatus, RunStatusFails, At, Frame, server, IInv, TaskTypes, Statuses
<1>1. CASE finish(k)
  BY <1>0, <1>1, FinishKeeps, ReaderKeeps
<1>2. ASSUME NEW n \in Nat, UNCHANGED maps,
             reader' = [reader EXCEPT ![k] = [@ EXCEPT !.pc = "sleep", !.fails = n]]
      PROVE  IInv'
  <2> DEFINE rd == [reader[k] EXCEPT !.pc = "sleep", !.fails = n]
  <2>1. /\ rd \in ReaderStates /\ rd.pc = "sleep" /\ rd.run = reader[k].run
        /\ rd.pos = reader[k].pos /\ rd.told = reader[k].told
    BY <1>0, LivingReader DEF ReaderStates, Pcs
  <2>2. ~rd.cancel
    BY <1>0, LivingReader DEF ReaderStates
  <2>3. reader' = [reader EXCEPT ![k] = rd]
    BY <1>2
  <2> HIDE DEF rd
  <2> QED
    BY <1>0, <1>2, <2>1, <2>2, <2>3, Goes, LivingReader DEF maps
<1>3. ASSUME completed # reader[k].run, UNCHANGED maps,
             reader' = [reader EXCEPT ![k] = [@ EXCEPT !.pc = "reconcile", !.why = "eof",
                                                       !.told = reader[k].told + 1]]
      PROVE  IInv'
  <2> DEFINE rd == [reader[k] EXCEPT !.pc = "reconcile", !.why = "eof", !.told = reader[k].told + 1]
  <2>1. /\ rd \in ReaderStates /\ rd.pc = "reconcile" /\ rd.run = reader[k].run
        /\ rd.pos = reader[k].pos /\ rd.told = reader[k].told + 1 /\ rd.why # "done"
    <3>1. reader[k] \in ReaderStates /\ reader[k].told + 1 \in Nat
      BY <1>0, LivingReader DEF ReaderStates
    <3>2. rd \in ReaderStates
      BY <3>1 DEF ReaderStates, Pcs, Whys
    <3> QED
      BY <3>1, <3>2 DEF ReaderStates
  <2>2. ~rd.cancel
    BY <1>0, LivingReader DEF ReaderStates
  <2>3. reader' = [reader EXCEPT ![k] = rd]
    BY <1>3
  <2> HIDE DEF rd
  <2> QED
    BY <1>0, <1>3, <2>1, <2>2, <2>3, Goes, LivingReader DEF maps
<1>4. (IF reader[k].saw THEN 0 ELSE reader[k].fails + 1) \in Nat
  BY <1>0, LivingReader DEF ReaderStates
<1>5. CASE RunStatus(k)
  BY <1>1, <1>2, <1>3, <1>4, <1>5 DEF RunStatus
<1>6. CASE RunStatusFails(k)
  BY <1>1, <1>2, <1>4, <1>6 DEF RunStatusFails
<1> QED
  BY <1>5, <1>6

LEMMA CompleteKeeps ==
    ASSUME IInv, NEW k \in Living, Complete(k)
    PROVE  IInv'
<1>0. /\ Streams /\ journal' = journal /\ UNCHANGED <<connected, overlap>> /\ Frame
      /\ ~reader[k].cancel /\ reader[k].pc = "reconcile" /\ status' \in Statuses
  BY DEF Complete, At, Frame, server, Statuses, IInv
<1>1. CASE finish(k)
  BY <1>0, <1>1, FinishKeeps, ReaderKeeps
<1>2. ASSUME NEW b \in BOOLEAN, reader' = [reader EXCEPT ![k] = [@ EXCEPT !.pc = "close", !.last = b]],
             resp' \in {0, resp}, UNCHANGED <<attached, task, cursor, text>>,
             \/ b /\ completed' = completed
             \/ completed' = reader[k].run /\ attached # reader[k].run
      PROVE  IInv'
  <2> DEFINE rd == [reader[k] EXCEPT !.pc = "close", !.last = b]
  <2>1. /\ rd \in ReaderStates /\ rd.pc = "close" /\ rd.run = reader[k].run
        /\ rd.pos = reader[k].pos /\ rd.told = reader[k].told
    BY <1>0, LivingReader DEF ReaderStates, Pcs
  <2>2. ~rd.cancel /\ (b => rd.last)
    BY <1>0, LivingReader DEF ReaderStates
  <2>3. reader' = [reader EXCEPT ![k] = rd]
    BY <1>2
  <2> HIDE DEF rd
  <2>4. CASE b /\ completed' = completed
    BY <1>0, <1>2, <2>1, <2>2, <2>3, <2>4, Goes, LivingReader
  <2>5. CASE completed' = reader[k].run /\ attached # reader[k].run
    <3>1. overlap
      BY <1>0, <2>5, Reading1
    <3>2. TextIsJournal'
      BY <1>0, <3>1 DEF TextIsJournal
    <3>3. completed' \in 0 .. MaxRun /\ cursor' \in Nat /\ text' \in Seq(Nat)
      BY <1>0, <1>2, <2>5, LivingReader DEF ReaderStates
    <3>4. Streams'
      BY <1>0, <1>2, <2>1, <2>3, <3>1, <3>2, <3>3, Moves, LivingReader
    <3> QED
      BY <1>0, <3>4, ReaderKeeps
  <2> QED
    BY <1>2, <2>4, <2>5
<1>3. ASSUME reader[k].why = "done", completed' = reader[k].run, attached = reader[k].run,
             reader' = [reader EXCEPT ![k] = [@ EXCEPT !.pc = "read"]],
             UNCHANGED <<attached, task, resp, cursor, text>>
      PROVE  IInv'
  <2> DEFINE rd == [reader[k] EXCEPT !.pc = "read"]
  <2>1. /\ rd \in ReaderStates /\ rd.pc = "read" /\ rd.run = reader[k].run
        /\ rd.pos = reader[k].pos /\ rd.told = reader[k].told
    BY <1>0, LivingReader DEF ReaderStates, Pcs
  <2>2. ~rd.cancel
    BY <1>0, LivingReader DEF ReaderStates
  <2>3. reader' = [reader EXCEPT ![k] = rd]
    BY <1>3
  <2> HIDE DEF rd
  <2>4. reader'[k] = rd /\ attached # 0 /\ completed' = attached
    BY <1>0, <1>3, <2>3, LivingReader, BoundsAssumption DEF Runs
  <2>5. ASSUME ~overlap PROVE Follows(k)' /\ DoneBy(attached, cursor)
    <3>1. /\ reader[k].pos = cursor /\ task = k /\ Follows(k)
          /\ reader[k].told > 0 => reader[k].told = 1
      BY <1>0, <2>5, Reading1
    <3>2. DoneBy(attached, cursor)
      BY <1>0, <1>3, <2>4, <3>1 DEF Follows
    <3>3. Follows(k)'
      BY <1>3, <2>1, <2>2, <2>4, <3>1 DEF Follows
    <3> QED
      BY <3>2, <3>3
  <2>6. TextIsJournal'
    BY <1>0, <1>3 DEF Streams, TextIsJournal, Tokens
  <2>7. completed' \in 0 .. MaxRun /\ cursor' \in Nat /\ text' \in Seq(Nat) /\ resp' \in 0 .. MaxReader
    BY <1>0, <1>3, LivingReader
  <2>8. DoneBy(attached, cursor)' = DoneBy(attached, cursor)
    BY <1>0, <1>3 DEF DoneBy
  <2>9. Streams'
    BY <1>0, <1>3, <2>1, <2>3, <2>4, <2>5, <2>6, <2>7, <2>8, Moves
  <2> QED
    BY <1>0, <2>9, ReaderKeeps
<1> QED
  BY <1>0, <1>1, <1>2, <1>3 DEF Complete, leave

LEMMA CancelledKeeps ==
    ASSUME IInv, NEW k \in Living, Cancelled(k)
    PROVE  IInv'
<1>0. /\ Streams /\ journal' = journal /\ UNCHANGED <<connected, status, overlap>> /\ Frame
      /\ status \in Statuses /\ reader[k].cancel
  BY DEF Cancelled, Frame, server, IInv, TaskTypes
<1>1. ~overlap => attached = 0 /\ Follows(k)
  BY <1>0 DEF Streams, Following, Follows
<1>2. CASE finish(k)
  BY <1>0, <1>2, FinishKeeps, ReaderKeeps
<1>3. CASE reader' = [reader EXCEPT ![k] = [NoReader EXCEPT !.pc = "over"]] /\ UNCHANGED maps
  <2>1. reader' = [reader EXCEPT ![k] = Ended]
    BY <1>3 DEF Ended
  <2>2. UNCHANGED <<attached, task, resp, cursor, text, completed>>
    BY <1>3 DEF maps
  <2>3. Streams'
    BY <1>0, <1>1, <2>1, <2>2, Ends
  <2> QED
    BY <1>0, <2>3, ReaderKeeps
<1>4. CASE /\ leave(k, [reader[k] EXCEPT !.cancel = FALSE], TRUE)
           /\ UNCHANGED <<attached, task, cursor, text, completed>>
  <2> DEFINE rd == [reader[k] EXCEPT !.cancel = FALSE, !.pc = "close", !.last = TRUE]
  <2>1. /\ rd \in ReaderStates /\ rd.pc = "close" /\ rd.run = reader[k].run
        /\ rd.told = reader[k].told
    BY <1>0, LivingReader DEF ReaderStates, Pcs
  <2>2. rd.last
    BY <1>0, LivingReader DEF ReaderStates
  <2>3. reader' = [reader EXCEPT ![k] = rd] /\ resp' \in {0, resp}
    BY <1>4, LivingReader, <1>0 DEF leave, ReaderStates
  <2> HIDE DEF rd
  <2>4. reader'[k] = rd
    BY <1>0, <2>3, LivingReader
  <2>5. ~overlap => Follows(k)'
    BY <1>1, <1>4, <2>1, <2>2, <2>4 DEF Follows, Leaving
  <2>6. Streams'
    BY <1>0, <1>4, <2>1, <2>3, <2>5, MovesOnly, LivingReader
  <2> QED
    BY <1>0, <2>6, ReaderKeeps
<1> QED
  BY <1>2, <1>3, <1>4 DEF Cancelled

(* One more event of the attached run: its text, when it has one, comes    *)
(* last.                                                                   *)
LEMMA TextGrows ==
    ASSUME Streams, ~overlap, attached \in Runs, journal \in [Runs -> Seq(Events)],
           journal' = journal, UNCHANGED <<attached, overlap>>,
           cursor' = cursor + 1, cursor + 1 <= Len(journal[attached]),
           text' = IF journal[attached][cursor + 1] = "token" THEN Append(text, cursor + 1)
                                                             ELSE text
    PROVE  TextIsJournal'
<1>0. /\ cursor \in Nat /\ text \in Seq(Nat) /\ attached # 0
      /\ Range(text) = Tokens(attached, cursor)
      /\ \A i, j \in DOMAIN text : i < j => text[i] < text[j]
  BY BoundsAssumption DEF Streams, MapTypes, TextIsJournal, Runs
<1>1. \A i \in DOMAIN text : text[i] \in 1 .. cursor /\ journal[attached][text[i]] = "token"
  <2> SUFFICES ASSUME NEW i \in DOMAIN text PROVE text[i] \in Tokens(attached, cursor)
    BY DEF Tokens
  <2> QED
    BY <1>0 DEF Range
<1>2. \A t \in 1 .. cursor : journal[attached][t] = "token" => \E i \in DOMAIN text : text[i] = t
  <2> SUFFICES ASSUME NEW t \in 1 .. cursor, journal[attached][t] = "token"
               PROVE  \E i \in DOMAIN text : text[i] = t
    OBVIOUS
  <2>1. t \in Range(text)
    BY <1>0 DEF Tokens
  <2> QED
    BY <2>1 DEF Range
<1>3. CASE journal[attached][cursor + 1] = "token"
  <2> DEFINE n == Len(text)
  <2>1. /\ n \in Nat /\ DOMAIN text = 1 .. n
        /\ text' \in Seq(Nat) /\ DOMAIN text' = 1 .. n + 1
        /\ \A i \in 1 .. n : text'[i] = text[i]
        /\ text'[n + 1] = cursor + 1
    BY <1>0, <1>3
  <2> HIDE DEF n
  <2>2. \A i \in DOMAIN text' : i \in DOMAIN text \/ i = n + 1
    BY <2>1
  <2>3. \A i, j \in DOMAIN text' : i < j => text'[i] < text'[j]
    <3> SUFFICES ASSUME NEW i \in DOMAIN text', NEW j \in DOMAIN text', i < j
                 PROVE  text'[i] < text'[j]
      OBVIOUS
    <3>1. i \in DOMAIN text /\ text'[i] = text[i] /\ text[i] \in 1 .. cursor
      BY <1>1, <2>1
    <3>2. CASE j = n + 1
      BY <1>0, <2>1, <3>1, <3>2
    <3>3. CASE j # n + 1
      <4>1. j \in DOMAIN text /\ text'[j] = text[j]
        BY <2>1, <2>2, <3>3
      <4> QED
        BY <1>0, <3>1, <4>1
    <3> QED
      BY <3>2, <3>3
  <2>4. ASSUME NEW t PROVE t \in Range(text') <=> t \in Tokens(attached, cursor + 1)
    <3>1. ASSUME t \in Range(text') PROVE t \in Tokens(attached, cursor + 1)
      <4>1. PICK i \in DOMAIN text' : t = text'[i]
        BY <3>1 DEF Range
      <4> QED
        BY <1>0, <1>1, <1>3, <2>1, <2>2, <4>1 DEF Tokens
    <3>2. ASSUME t \in Tokens(attached, cursor + 1) PROVE t \in Range(text')
      <4>1. PICK i \in DOMAIN text' : t = text'[i]
        BY <1>0, <1>2, <2>1, <3>2 DEF Tokens
      <4> QED
        BY <4>1 DEF Range
    <3> QED
      BY <3>1, <3>2
  <2> QED
    BY <2>3, <2>4 DEF TextIsJournal, Tokens
<1>4. CASE journal[attached][cursor + 1] # "token"
  <2>1. Tokens(attached, cursor + 1) = Tokens(attached, cursor)
    BY <1>0, <1>4 DEF Tokens
  <2>2. text' = text
    BY <1>4
  <2> QED
    BY <1>0, <2>1, <2>2 DEF TextIsJournal, Tokens
<1> QED
  BY <1>3, <1>4

(* A turn that the attached reader has marked is not completed again.      *)
LEMMA NoSecondDone ==
    ASSUME JournalsEnd, NEW r \in Runs, NEW n \in Nat, n + 1 \in DOMAIN journal[r],
           journal[r] \in Seq(Events), DoneBy(r, n)
    PROVE  journal[r][n + 1] \in {"title", "end"} /\ DoneBy(r, n + 1)
<1>1. PICK i \in DOMAIN journal[r] : i <= n /\ journal[r][i] = "done"
  BY DEF DoneBy
<1>2. i < n + 1 /\ i <= n + 1
  BY <1>1
<1> QED
  BY <1>1, <1>2 DEF JournalsEnd, DoneBy

(* A reader handles one event: rd is what it becomes.                      *)
LEMMA Advances ==
    ASSUME IInv, NEW k \in Living, NEW rd \in ReaderStates,
           reader' = [reader EXCEPT ![k] = rd],
           reader[k].pc = "read", ~reader[k].cancel,
           reader[k].pos + 1 <= Len(journal[reader[k].run]),
           rd.pc \notin {"none", "over"}, rd.run = reader[k].run,
           rd.pos = reader[k].pos + 1, ~rd.cancel,
           rd.pc = "reconcile" => rd.why = journal[reader[k].run][rd.pos],
           \/ rd.told = reader[k].told
           \/ /\ rd.told = reader[k].told + 1 /\ rd.pc = "reconcile"
              /\ Completes(journal[reader[k].run][rd.pos], reader[k].run),
           cursor' = rd.pos, journal' = journal,
           text' = _append_remote_stream_text(journal[reader[k].run][rd.pos], rd.pos),
           resp' \in 0 .. MaxReader, UNCHANGED <<attached, task, completed, overlap>>
    PROVE  Streams'
<1>0. /\ Streams /\ JournalsEnd /\ journal \in [Runs -> Seq(Events)]
      /\ reader[k] \in ReaderStates /\ reader[k].run \in Runs /\ reader[k].pos \in Nat
      /\ reader[k].told \in Nat /\ k \in Readers /\ reader'[k] = rd
      /\ completed \in 0 .. MaxRun /\ cursor \in Nat /\ text \in Seq(Nat)
  BY LivingReader DEF IInv, ServerTypes, ReaderStates
<1>1. cursor' \in Nat /\ text' \in Seq(Nat)
  BY <1>0 DEF _append_remote_stream_text
<1>2. PICK r \in Runs : r = reader[k].run
  BY <1>0
<1>3. journal[r] \in Seq(Events) /\ rd.pos \in DOMAIN journal[r]
  BY <1>0, <1>2
<1>4. ASSUME ~overlap
      PROVE  /\ attached # 0 /\ r = attached /\ rd.pos = cursor + 1 /\ task = k
             /\ reader[k].told > 0 => reader[k].told = 1 /\ completed = attached
             /\ completed # 0 => completed = attached /\ DoneBy(attached, cursor)
  BY <1>0, <1>2, <1>4, Reading1
<1>5. ASSUME ~overlap, completed # 0 PROVE DoneBy(attached, cursor')
  BY <1>0, <1>2, <1>3, <1>4, <1>5, NoSecondDone
<1>6. ASSUME ~overlap PROVE Follows(k)'
  <2>1. attached # 0 /\ rd.run = attached /\ task = k
    BY <1>2, <1>4, <1>6
  <2>2. (rd.pc = "reconcile" /\ rd.why = "done") => DoneBy(attached, cursor')
    BY <1>0, <1>2, <1>3, <1>4, <1>6 DEF DoneBy
  <2>3. DoneBy(attached, cursor)' = DoneBy(attached, cursor')
    BY DEF DoneBy
  <2>4. rd.told > 0 => /\ rd.told = 1
                       /\ rd.pc = "reconcile" \/ completed = attached
    <3>1. CASE rd.told = reader[k].told
      BY <1>4, <1>6, <3>1
    <3>2. CASE /\ rd.told = reader[k].told + 1 /\ rd.pc = "reconcile"
               /\ Completes(journal[reader[k].run][rd.pos], reader[k].run)
      <4>1. completed # r
        <5> SUFFICES ASSUME completed = r PROVE FALSE
          OBVIOUS
        <5>1. completed # 0
          BY <1>2, <1>4, <1>6
        <5>2. journal[r][rd.pos] \in {"title", "end"}
          BY <1>0, <1>3, <1>4, <1>6, <5>1, NoSecondDone
        <5> QED
          BY <1>2, <3>2, <5>2 DEF Completes
      <4>2. reader[k].told = 0
        BY <1>0, <1>4, <1>6, <4>1
      <4> QED
        BY <3>2, <4>2
    <3> QED
      BY <3>1, <3>2
  <2> QED
    BY <1>0, <2>1, <2>2, <2>3, <2>4 DEF Follows
<1>7. TextIsJournal'
  <2>1. CASE overlap
    BY <2>1 DEF TextIsJournal
  <2>2. CASE ~overlap
    <3>1. /\ attached \in Runs /\ cursor' = cursor + 1
          /\ cursor + 1 <= Len(journal[attached])
          /\ text' = IF journal[attached][cursor + 1] = "token"
                       THEN Append(text, cursor + 1) ELSE text
      BY <1>2, <1>4, <2>2 DEF _append_remote_stream_text
    <3> QED
      BY <1>0, <2>2, <3>1, TextGrows
  <2> QED
    BY <2>1, <2>2
<1>8. completed' \in 0 .. MaxRun
  BY <1>0
<1> QED
  BY <1>0, <1>1, <1>4, <1>5, <1>6, <1>7, <1>8, Moves

LEMMA ReadEventKeeps ==
    ASSUME IInv, NEW k \in Living, ReadEvent(k)
    PROVE  IInv'
<1> DEFINE r == reader[k].run
           i == reader[k].pos + 1
           e == journal[r][i]
           rd == [reader[k] EXCEPT !.pos = i, !.saw = TRUE]
<1>0. /\ Streams /\ journal' = journal /\ UNCHANGED <<connected, overlap>> /\ Frame
      /\ reader[k].pc = "read" /\ ~reader[k].cancel /\ i <= Len(journal[r])
      /\ cursor' = i /\ text' = _append_remote_stream_text(e, i)
      /\ status' \in Statuses /\ UNCHANGED <<attached, task, completed>>
  BY DEF ReadEvent, At, Frame, server, IInv, TaskTypes, EventStatus, Statuses
<1>1. /\ reader[k] \in ReaderStates /\ resp \in 0 .. MaxReader /\ 0 \in 0 .. MaxReader
      /\ r \in Runs /\ i \in Nat /\ e \in Whys /\ reader[k].told + 1 \in Nat
  <2>1. /\ reader[k] \in ReaderStates /\ r \in Runs /\ i \in Nat /\ i > 0
        /\ reader[k].told + 1 \in Nat
        /\ resp \in 0 .. MaxReader /\ 0 \in 0 .. MaxReader
    BY <1>0, LivingReader DEF ReaderStates
  <2>2. journal[r] \in Seq(Events)
    BY <2>1 DEF IInv, ServerTypes
  <2>3. e \in Events
    BY <1>0, <2>1, <2>2
  <2> QED
    BY <2>1, <2>3 DEF Whys
<1> HIDE DEF e
<1>2. ASSUME NEW new \in ReaderStates, reader' = [reader EXCEPT ![k] = new],
             new.pc \in {"read", "reconcile", "close"}, new.run = r, new.pos = i, ~new.cancel,
             new.pc = "reconcile" => new.why = e,
             \/ new.told = reader[k].told
             \/ new.told = reader[k].told + 1 /\ new.pc = "reconcile" /\ Completes(e, r),
             resp' \in {0, resp}
      PROVE  IInv'
  <2>1. Streams'
    BY <1>0, <1>1, <1>2, Advances DEF e
  <2> QED
    BY <1>0, <2>1, ReaderKeeps
<1>3. CASE Completes(e, r)
  <2> DEFINE new == [reader[k] EXCEPT !.pos = i, !.saw = TRUE, !.pc = "reconcile", !.why = e,
                                      !.told = reader[k].told + 1]
  <2>1. /\ new \in ReaderStates /\ new.pc = "reconcile" /\ new.run = r /\ new.pos = i
        /\ new.why = e /\ new.told = reader[k].told + 1
    BY <1>0, <1>1 DEF ReaderStates, Pcs
  <2>2. ~new.cancel
    BY <1>0, <1>1 DEF ReaderStates
  <2>3. reader' = [reader EXCEPT ![k] = new] /\ resp' = resp
    BY <1>1, <1>3 DEF ReadEvent, ReaderStates, e
  <2> HIDE DEF new
  <2> QED
    BY <1>2, <1>3, <2>1, <2>2, <2>3
<1>4. CASE ~Completes(e, r) /\ (e \in {"error", "end"} \/ attached # r)
  <2> DEFINE b == e \in {"error", "end"}
             new == [reader[k] EXCEPT !.pos = i, !.saw = TRUE, !.pc = "close", !.last = b]
  <2>1. leave(k, rd, b)
    BY <1>4 DEF ReadEvent, e
  <2>0. b \in BOOLEAN
    OBVIOUS
  <2> HIDE DEF b
  <2>2. /\ new \in ReaderStates /\ new.pc = "close" /\ new.run = r /\ new.pos = i
        /\ new.told = reader[k].told
    BY <1>0, <1>1, <2>0 DEF ReaderStates, Pcs
  <2>3. ~new.cancel
    BY <1>0, <1>1 DEF ReaderStates
  <2>4. reader' = [reader EXCEPT ![k] = new] /\ resp' \in {0, resp}
    BY <1>1, <2>1 DEF leave, ReaderStates
  <2> HIDE DEF new
  <2> QED
    BY <1>2, <2>2, <2>3, <2>4
<1>5. CASE ~Completes(e, r) /\ ~(e \in {"error", "end"} \/ attached # r)
  <2>1. reader' = [reader EXCEPT ![k] = rd] /\ resp' = resp
    BY <1>5 DEF ReadEvent, e
  <2>2. /\ rd \in ReaderStates /\ rd.pc = "read" /\ rd.run = r /\ rd.pos = i
        /\ rd.told = reader[k].told
    BY <1>0, <1>1 DEF ReaderStates, Pcs
  <2>3. ~rd.cancel
    BY <1>0, <1>1 DEF ReaderStates
  <2> HIDE DEF rd
  <2> QED
    BY <1>2, <2>1, <2>2, <2>3
<1> QED
  BY <1>3, <1>4, <1>5

(* Only a task that is running takes a step.                               *)
LEMMA StepsOfLiving ==
    ASSUME NEW k \in Readers,
           \/ Loop(k) \/ Opened(k) \/ OpenFails(k) \/ SignInRequired(k) \/ ReadEvent(k)
           \/ ReadEnds(k) \/ Complete(k) \/ Closed(k) \/ RunStatus(k) \/ RunStatusFails(k)
           \/ Cancelled(k)
    PROVE  k \in Living
  BY DEF Living, At, Loop, Opened, OpenFails, SignInRequired, ReadEvent, ReadEnds, Complete,
     Closed, RunStatus, RunStatusFails, Cancelled

LEMMA StutterKeeps ==
    ASSUME IInv, UNCHANGED vars
    PROVE  IInv'
<1>1. UNCHANGED <<maps, reader, overlap>> /\ UNCHANGED server
      /\ UNCHANGED <<handler, status, connected, listed>>
  BY DEF vars, maps, server
<1> QED
  BY <1>1, Bystander DEF IInv, TaskTypes

-----------------------------------------------------------------------------
(* The theorems. *)

THEOREM Invariance == Spec => []IInv
<1>1. Init => IInv
  <2> SUFFICES ASSUME Init PROVE IInv
    OBVIOUS
  <2>1. NoReader \in ReaderStates /\ NoReader.pc = "none" /\ NoReader.told = 0
    <3>1. ASSUME NEW S, 0 \in S, NEW W, "" \in W
          PROVE  NoReader \in [pc : Pcs, run : S, pos : Nat, why : W, saw : BOOLEAN,
                               last : BOOLEAN, fails : Nat, cancel : BOOLEAN, told : Nat]
      BY <3>1 DEF NoReader, Pcs
    <3>2. 0 \in 0 .. MaxRun /\ "" \in Whys
      BY BoundsAssumption DEF Whys
    <3>3. NoReader \in ReaderStates
      BY <3>1, <3>2 DEF ReaderStates
    <3> QED
      BY <3>3 DEF NoReader
  <2>2. Living = {} /\ reader \in [Readers -> ReaderStates] /\ \A k \in Readers : reader[k].told = 0
    <3>1. \A k \in Readers : reader[k] = NoReader
      BY DEF Init
    <3>2. reader = [k \in Readers |-> NoReader]
      BY DEF Init
    <3> QED
      BY <2>1, <3>1, <3>2 DEF Living
  <2>3. 0 \in 0 .. MaxRun /\ 0 \in 0 .. MaxReader /\ <<>> \in Seq(Nat) /\ <<>> \in Seq(Events)
    BY BoundsAssumption
  <2>4. ServerTypes /\ JournalsEnd
    <3>1. journal = [r \in Runs |-> <<>>] /\ begun = 0 /\ gone = FALSE
      BY DEF Init
    <3>2. \A r \in Runs : DOMAIN journal[r] = {}
      BY <3>1
    <3> QED
      BY <2>3, <3>1, <3>2 DEF ServerTypes, JournalsEnd
  <2>5. TaskTypes
    <3>1. Idle \in HandlerStates
      BY AskedRecord DEF Operations
    <3> QED
      BY <3>1 DEF Init, TaskTypes, Statuses
  <2>6. MapTypes /\ Following /\ TextIsJournal
    BY <2>2, <2>3 DEF Init, MapTypes, Following, TextIsJournal
  <2> QED
    BY <2>4, <2>5, <2>6 DEF IInv, Streams
<1>2. IInv /\ [Next]_vars => IInv'
  <2> SUFFICES ASSUME IInv, [Next]_vars PROVE IInv'
    OBVIOUS
  <2>1. CASE (\E e \in Recorded : Emit(e)) \/ ServerTurn \/ Expire
    BY <2>1, ServerKeeps
  <2>2. ASSUME NEW h \in Handlers, NEW op \in Ops, Begin(h, op) PROVE IInv'
    BY <2>2, BeginKeeps
  <2>3. ASSUME NEW h \in Handlers, StopEnd(h) \/ Serve(h) \/ Lose(h) PROVE IInv'
    BY <2>3, StopEndKeeps, ServeKeeps, LoseKeeps
  <2>4. ASSUME NEW h \in Handlers,
               \/ PromptAnswered(h) \/ RegenerateAnswered(h) \/ Uploaded(h) \/ EditTruncated(h)
               \/ RevisionRead(h) \/ StatusRead(h) \/ HistoryRead(h) \/ ListApplied(h)
               \/ InterruptAnswered(h) \/ RequestSettled(h) \/ SignedOut(h) \/ Deleted(h)
        PROVE  IInv'
    BY <2>4, AnswerKeeps
  <2>5. ASSUME NEW k \in Readers, Loop(k) \/ ReadEvent(k) \/ Complete(k) \/ Cancelled(k)
        PROVE  IInv'
    BY <2>5, StepsOfLiving, LoopKeeps, ReadEventKeeps, CompleteKeeps, CancelledKeeps
  <2>6. ASSUME NEW k \in Readers, Opened(k) \/ OpenFails(k) \/ SignInRequired(k) PROVE IInv'
    BY <2>6, StepsOfLiving, OpenedKeeps
  <2>7. ASSUME NEW k \in Readers,
               ReadEnds(k) \/ Closed(k) \/ RunStatus(k) \/ RunStatusFails(k)
        PROVE  IInv'
    BY <2>7, StepsOfLiving, EndsKeeps, StatusKeeps
  <2>8. CASE UNCHANGED vars
    BY <2>8, StutterKeeps
  <2> QED
    BY <2>1, <2>2, <2>3, <2>4, <2>5, <2>6, <2>7, <2>8 DEF Next
<1> QED
  BY <1>1, <1>2, PTL DEF Spec

(* Types of the WebUI's runs, the stream maps, the readers and the tasks.  *)
THEOREM TypeCorrect == Spec => []TypeOK
<1>1. IInv => TypeOK
  BY DEF IInv, ServerTypes, TaskTypes, Streams, MapTypes, TypeOK, ReaderStates, HandlerStates
<1> QED
  BY <1>1, Invariance, PTL

(* What remote_stream_text holds is the text of the attached run up to the *)
(* event the stream would be resumed from, unless readers overlap.         *)
THEOREM TextFollowsJournal == Spec => []TextIsJournal
<1>1. IInv => TextIsJournal
  BY DEF IInv, Streams
<1> QED
  BY <1>1, Invariance, PTL

(* No reader publishes message.complete for its turn twice.                *)
THEOREM CompletedOnce == Spec => []OneCompletion
<1>1. IInv => OneCompletion
  <2> SUFFICES ASSUME IInv, ~overlap, NEW k \in Readers PROVE reader[k].told <= 1
    BY DEF OneCompletion
  <2>1. reader[k].told \in Nat /\ Following
    BY DEF IInv, Streams, MapTypes, ReaderStates
  <2>2. CASE k \in Living
    BY <2>1, <2>2 DEF Following, Follows
  <2>3. CASE k \notin Living
    BY <2>1, <2>3 DEF Following
  <2> QED
    BY <2>2, <2>3
<1> QED
  BY <1>1, Invariance, PTL

(* The request tasks leave the running readers alone, or wait for them.    *)
LEMMA AttachLeaves ==
    ASSUME Fresh # {}, NEW s, attach(s), NEW k \in Living
    PROVE  reader'[k] = reader[k]
<1>1. PICK j \in Fresh : j = CHOOSE i \in Fresh : \A n \in Fresh : i <= n
  BY FirstFresh
<1>2. reader' = [reader EXCEPT ![j] = New(s)]
  BY <1>1 DEF attach, New
<1>3. k # j
  BY DEF Fresh, Living
<1> QED
  BY <1>2, <1>3

LEMMA StartLeaves ==
    ASSUME IInv, NEW h \in Handlers, NEW hd \in HandlerStates, NEW s, NEW st,
           start_remote_stream(h, hd, s, st),
           handler[h].pc # "stop", handler' = handler, NEW k \in Living
    PROVE  reader'[k] = reader[k]
<1>1. CASE handler' = [handler EXCEPT ![h] = [hd EXCEPT !.pc = "stop", !.old = task, !.want = s]]
  <2>1. handler'[h].pc = "stop"
    BY <1>1 DEF IInv, TaskTypes, HandlerStates
  <2> QED
    BY <2>1
<1>2. CASE s # 0 /\ Fresh # {} /\ attach(s)
  BY <1>2, AttachLeaves
<1> QED
  BY <1>1, <1>2 DEF start_remote_stream

LEMMA RequestsLeave ==
    ASSUME IInv, NEW h \in Handlers, (\E op \in Ops : Begin(h, op)) \/ HandlerStep(h),
           handler' = handler, NEW k \in Living
    PROVE  reader'[k] = reader[k]
<1>0. handler \in [Handlers -> HandlerStates] /\ handler[h] \in HandlerStates
  BY DEF IInv, TaskTypes
<1>1. ASSUME NEW hd \in HandlerStates, NEW s, NEW st, handler[h].pc # "stop",
             start_remote_stream(h, hd, s, st)
      PROVE  reader'[k] = reader[k]
  BY <1>1, StartLeaves
<1>2. ASSUME NEW op \in Ops, Begin(h, op) PROVE reader'[k] = reader[k]
  <2>0. handler[h].pc = "idle"
    <3>1. handler[h] = Idle
      BY <1>2 DEF Begin
    <3>2. Idle.pc = "idle"
      BY DEF Idle
    <3> QED
      BY <3>1, <3>2
  <2>1. CASE ObservedTurn(h)
    <3>1. handler[h].pc # "stop"
      BY <2>0
    <3> QED
      BY <1>1, <2>1, <3>1, Operation DEF ObservedTurn
  <2>2. CASE logout(h)
    <3> DEFINE hd == [Idle EXCEPT !.pc = "stop", !.op = "logout", !.old = task]
    <3>0. hd.pc = "stop"
      BY DEF Idle
    <3>2. handler' = [handler EXCEPT ![h] = hd]
      BY <2>2 DEF logout
    <3> HIDE DEF hd
    <3>1. handler'[h].pc = "stop"
      BY <1>0, <3>0, <3>2
    <3> QED
      BY <2>0, <3>1
  <2> QED
    BY <1>2, <2>1, <2>2 DEF Begin, remote_prompt_submit, session_compress, remote_interrupt,
       remote_respond_to_request, Quiet
<1>3. CASE StopEnd(h)
  <2>1. CASE handler[h].want # 0
    BY <1>3, <2>1, AttachLeaves DEF StopEnd
  <2>2. CASE handler[h].want = 0
    BY <1>3, <2>2 DEF StopEnd
  <2> QED
    BY <2>1, <2>2
<1>4. CASE PromptAnswered(h) \/ RegenerateAnswered(h)
  BY <1>0, <1>1, <1>4 DEF PromptAnswered, RegenerateAnswered, TurnRefused
<1>5. CASE StatusRead(h)
  <2> DEFINE b == handler[h].reply # 0 /\ completed # handler[h].reply
             hd == [handler[h] EXCEPT !.busy = b]
  <2>1. /\ start_remote_stream(h, hd, handler[h].reply, status)
        /\ handler[h].pc # "stop" /\ b \in BOOLEAN
    BY <1>5 DEF StatusRead, Told
  <2>2. hd \in HandlerStates
    <3> HIDE DEF b
    <3> QED
      BY <1>0, <2>1 DEF HandlerStates
  <2> HIDE DEF hd
  <2> QED
    BY <1>1, <2>1, <2>2
<1>6. CASE HistoryRead(h) \/ ListApplied(h)
  BY <1>0, <1>1, <1>6 DEF HistoryRead, ListApplied, Told
<1>7. CASE Deleted(h)
  <2>1. handler'[h].pc = "stop" /\ handler[h].pc = "told"
    BY <1>0, <1>7 DEF Deleted, stop_remote_stream, Told, HandlerStates
  <2> QED
    BY <2>1
<1> QED
  BY <1>2, <1>3, <1>4, <1>5, <1>6, <1>7 DEF HandlerStep, Serve, Lose, Uploaded, EditTruncated,
     RevisionRead, InterruptAnswered, RequestSettled, SignedOut, AskTurn, Quiet

(* Once the done of the attached run is handled, neither its events nor    *)
(* its transport move the conversation back to work.                       *)
THEOREM FinishedStays == Spec => FinishedTurnStays
<1> DEFINE Stays == (/\ ~overlap /\ handler' = handler
                     /\ \E k \in Living : reader'[k] # reader[k] /\ reader[k].run = completed)
                    => (status' # status => status' \in {"idle", "error"})
<1>1. ASSUME IInv, Next PROVE Stays
  <2> SUFFICES ASSUME ~overlap, handler' = handler, NEW k \in Living,
                      reader'[k] # reader[k], reader[k].run = completed
               PROVE  status' = status \/ status' \in {"idle", "error"}
    OBVIOUS
  <2>0. Streams /\ reader[k].run \in Runs /\ \A j \in Living : j = k
    BY <1>1, LivingReader DEF IInv, Streams, Following
  <2>1. CASE (\E e \in Recorded : Emit(e)) \/ ServerTurn \/ Expire
    BY <2>1 DEF Emit, ServerTurn, Expire
  <2>2. CASE \E h \in Handlers : (\E op \in Ops : Begin(h, op)) \/ HandlerStep(h)
    BY <1>1, <2>2, RequestsLeave
  <2>3. CASE \E j \in Readers : ReadEvent(j)
    <3>1. ReadEvent(k)
      BY <2>0, <2>3, StepsOfLiving
    <3>2. /\ attached \in Runs /\ reader[k].run = attached /\ reader[k].pos = cursor
          /\ DoneBy(attached, cursor) /\ cursor \in Nat
      BY <2>0, <3>1, Reading1, LivingReader, BoundsAssumption DEF ReadEvent, At, Runs
    <3>3. journal[attached] \in Seq(Events) /\ cursor + 1 \in DOMAIN journal[attached]
      BY <1>1, <3>1, <3>2 DEF ReadEvent, IInv, ServerTypes
    <3>4. journal[attached][cursor + 1] \in {"title", "end"}
      BY <1>1, <3>2, <3>3, NoSecondDone DEF IInv
    <3> QED
      BY <3>1, <3>2, <3>4 DEF ReadEvent, EventStatus
  <2>4. CASE \E j \in Readers : RunStatus(j) \/ RunStatusFails(j)
    <3>1. RunStatus(k) \/ RunStatusFails(k)
      BY <2>0, <2>4, StepsOfLiving
    <3> QED
      BY <3>1 DEF RunStatus, RunStatusFails
  <2>5. CASE \E j \in Readers : \/ Loop(j) \/ Opened(j) \/ OpenFails(j) \/ SignInRequired(j)
                               \/ ReadEnds(j) \/ Complete(j) \/ Closed(j) \/ Cancelled(j)
    BY <2>5 DEF Loop, Opened, OpenFails, SignInRequired, ReadEnds, Complete, Closed, Cancelled
  <2> QED
    BY <1>1, <2>1, <2>2, <2>3, <2>4, <2>5 DEF Next, HandlerStep
<1>2. IInv /\ [Next]_vars => [Stays]_vars
  BY <1>1
<1> QED
  BY <1>2, Invariance, PTL DEF Spec, FinishedTurnStays

=============================================================================
