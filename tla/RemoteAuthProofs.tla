-------------------------- MODULE RemoteAuthProofs --------------------------
(***************************************************************************)
(* Proofs about RemoteAuth, for any threads, jars, WebUIs and sessions and *)
(* any number of operations and faults.                                    *)
(*                                                                         *)
(* The properties relate the configuration to the file and to what the     *)
(* WebUIs know.  They are kept by what a thread that is under way has seen: *)
(* the cookie it sent, and whose session its answer was about.             *)
(***************************************************************************)
EXTENDS RemoteAuth, TLAPS

(* A sign-in uses a jar that no other thread and no request can reach      *)
(* before it is committed; a sign-out has a jar to clear.                  *)
JarsApart ==
    \A t \in Threads :
        /\ thread[t].pc \in {"verify", "verified"} => thread[t].op = "login"
        /\ thread[t].op = "logout" => thread[t].jar \in Jars
        /\ thread[t].op = "login"
           => /\ thread[t].jar \in Jars \ {jar} /\ thread[t].url \in Urls
              /\ \A u \in Threads \ {t} : thread[u].jar # thread[t].jar

(* A session that is named anywhere was issued before.                     *)
Known(c) == c # 0 => issuer[c] # NoUrl

Issued ==
    /\ Known(file.cookie)
    /\ \A j \in Jars : Known(cookie[j])
    /\ \A t \in Threads : Known(thread[t].cookie)

(* The jar in use changes under a request only where a sign-out emptied it *)
(* or an answer of the same WebUI renewed its cookie, which is not saved.  *)
LeavingWith(j) == \E t \in Threads : thread[t].op = "logout" /\ thread[t].jar = j

Given(j, url) == cookie[j] # 0 /\ issuer[cookie[j]] = url

Snapshots ==
    \A t \in Threads :
        /\ thread[t].jar = jar
           => /\ thread[t].url = base
              /\ \/ thread[t].cookie = cookie[jar]
                 \/ cookie[jar] = 0 /\ LeavingWith(jar)
                 \/ Given(jar, base) /\ file.cookie # cookie[jar]
        /\ thread[t].pc \in {"verify", "verified"}
           => thread[t].cookie = cookie[thread[t].jar] \/ Given(thread[t].jar, thread[t].url)

(* What an answer says of the session that was sent: a good one that it    *)
(* belongs to the WebUI, a challenge that it is not honoured there.        *)
Belongs(url, c) == url \in Open \/ (c # 0 /\ issuer[c] = url)
Refused(url, c) == ~(c \in honoured /\ issuer[c] = url)

Answers ==
    \A t \in Threads :
        /\ (thread[t].reply = "ok" /\ (thread[t].op = "probe" \/ thread[t].pc = "verified"))
           => Belongs(thread[t].url, thread[t].cookie)
        /\ (thread[t].reply = "challenge" /\ thread[t].op # "login")
           => Refused(thread[t].url, thread[t].cookie)

(* The file and the configuration, while every write has worked.           *)
Kept ==
    ~torn => /\ file # NoFile => source = "persisted"
             /\ left => source # "persisted"

IInv ==
    /\ TypeOK
    /\ JarsApart
    /\ Issued
    /\ Snapshots
    /\ Answers
    /\ Kept
    /\ ConnectedIsConfirmed
    /\ SignedOutStaysOut
    /\ SavedIsCurrent

-----------------------------------------------------------------------------
(* Helpers. *)

(* A jar made under the lock is nobody's.                                  *)
LEMMA FreshIsNew ==
    ASSUME Free # {} PROVE
    FreshJar \in Jars /\ FreshJar # jar /\ \A t \in Threads : thread[t].jar # FreshJar
<1>1. FreshJar \in Free
  BY DEF FreshJar
<1> QED
  BY <1>1 DEF Free, Used

(* A thread that rests has the type of a thread.                           *)
LEMMA RestingTyped == Resting \in Memories
  BY ConstantsAssumption DEF Resting, Memories, Operations

(* What a step of one thread leaves of the others.                         *)
OnlyThread(t) ==
    /\ thread' \in [Threads -> Memories]
    /\ \A u \in Threads \ {t} : thread'[u] = thread[u]

(* The thread has its answer, r.                                           *)
Answered(t, r) ==
    /\ OnlyThread(t)
    /\ thread'[t].op = thread[t].op /\ thread'[t].url = thread[t].url
    /\ thread'[t].jar = thread[t].jar /\ thread'[t].cookie = thread[t].cookie
    /\ thread'[t].pc = IF thread[t].pc = "sent" THEN "told" ELSE "verified"
    /\ thread'[t].reply = r

(* The thread has sent a request.                                          *)
Requested(t, op, u, j, c) ==
    /\ OnlyThread(t)
    /\ thread'[t].pc = "sent" /\ thread'[t].op = op /\ thread'[t].url = u
    /\ thread'[t].jar = j /\ thread'[t].cookie = c /\ thread'[t].reply = "none"

Rested(t) == OnlyThread(t) /\ thread'[t] = Resting

(* A thread that rests has nothing left to do.                             *)
LEMMA RestEffect ==
    ASSUME TypeOK, NEW t \in Threads, Rest(t) PROVE Rested(t)
  BY RestingTyped DEF Rest, Rested, OnlyThread, TypeOK

(* _request leaves the other threads alone.                                *)
LEMMA RequestEffect ==
    ASSUME TypeOK, NEW t \in Threads, NEW op \in Operations, NEW u \in Urls \cup {NoUrl},
           NEW j \in Jars \cup {NoJar}, NEW c \in 0 .. MaxSession, _request(t, op, u, j, c)
    PROVE  Requested(t, op, u, j, c)
<1> DEFINE r == [pc |-> "sent", op |-> op, url |-> u, jar |-> j,
                 cookie |-> c, reply |-> "none"]
<1>1. r \in Memories
  BY DEF Memories
<1>2. thread' = [thread EXCEPT ![t] = r]
  BY DEF _request
<1>3. /\ r.pc = "sent" /\ r.op = op /\ r.url = u /\ r.jar = j /\ r.cookie = c
      /\ r.reply = "none"
  OBVIOUS
<1> HIDE DEF r
<1> QED
  BY <1>1, <1>2, <1>3 DEF Requested, OnlyThread, TypeOK

(* What a caller makes of an answer (Outcome).                             *)
Told(a) == IF a = "ok" THEN "ok" ELSE IF a \in Challenges THEN "challenge" ELSE "lost"

(* Reply hands the caller one of three outcomes.                           *)
LEMMA ReplyEffect ==
    ASSUME TypeOK, NEW t \in Threads, thread[t].pc \in {"sent", "verify"},
           NEW a \in {"ok"} \cup Challenges \cup Failures, Reply(t, a)
    PROVE  Answered(t, Told(a))
<1>1. Outcome(a) = Told(a)
  BY DEF Outcome, Told, Challenges, Failures, redirect_request, _login_page_response,
     _http_error_fault
<1>2. Told(a) \in {"ok", "challenge", "lost"}
  BY DEF Told
<1> DEFINE p == IF thread[t].pc = "sent" THEN "told" ELSE "verified"
           r == [thread[t] EXCEPT !.pc = p, !.reply = Told(a)]
<1>3. thread[t] \in Memories
  BY DEF TypeOK
<1>4. r \in Memories
  BY <1>2, <1>3 DEF Memories
<1>5. thread' = [thread EXCEPT ![t] = r]
  BY <1>1 DEF Reply, TypeOK
<1>6. /\ r.op = thread[t].op /\ r.url = thread[t].url /\ r.jar = thread[t].jar
      /\ r.cookie = thread[t].cookie /\ r.pc = p /\ r.reply = Told(a)
  BY <1>3 DEF Memories
<1> HIDE DEF r
<1> QED
  BY <1>4, <1>5, <1>6 DEF Answered, OnlyThread, TypeOK

(* The five requests end in the same way.                                  *)
LEMMA RequestSteps ==
    ASSUME NEW t \in Threads,
           \/ _request_json_sync(t) \/ _upload_file_sync(t)
           \/ _probe_multipart_route_sync(t) \/ _probe_contract_sync(t) \/ open_sse(t)
    PROVE  \E op \in Requests : Done(t, op)
  BY DEF _request_json_sync, _upload_file_sync, _probe_multipart_route_sync,
     _probe_contract_sync, open_sse, Requests

(* What _expire_session_locked does to the configuration and the file.     *)
Expired ==
    /\ jar' \in Jars /\ jar' # jar /\ \A t \in Threads : thread[t].jar # jar'
    /\ cookie' = [cookie EXCEPT ![jar'] = 0]
    /\ base' = base /\ source' = source
    /\ state' \in {"expired", state} /\ shown' \in {base, shown}
    /\ file' \in {file, [url |-> base, cookie |-> 0]}
    /\ torn' \in BOOLEAN /\ (torn => torn')
    /\ faults' \in Nat
    /\ ~torn' => state' = "expired"
    /\ (~torn' /\ source = "persisted") => file' = [url |-> base, cookie |-> 0]
    /\ source # "persisted" => file' = file

(* Whether or not the file can be written.                                 *)
LEMMA ExpiryEffect == ASSUME TypeOK, _expire_session_locked PROVE Expired
<1> USE DEF _expire_session_locked
<1>1. Free # {} /\ jar' = FreshJar /\ cookie' = [cookie EXCEPT ![jar'] = 0]
      /\ base' = base /\ source' = source
  OBVIOUS
<1>2. /\ jar' \in Jars /\ jar' # jar /\ \A t \in Threads : thread[t].jar # jar'
  BY <1>1, FreshIsNew
<1>3. PICK done \in BOOLEAN :
         /\ IF source = "persisted" THEN _save(base, 0, done)
                                    ELSE done /\ UNCHANGED <<file, torn, faults>>
         /\ state' = IF done THEN "expired" ELSE state
         /\ shown' = IF done THEN base ELSE shown
  OBVIOUS
<1>4. /\ torn' \in BOOLEAN /\ (torn => torn')
      /\ faults' \in Nat
      /\ ~done => torn'
      /\ file' \in {file, [url |-> base, cookie |-> 0]}
      /\ (done /\ source = "persisted") => file' = [url |-> base, cookie |-> 0]
      /\ source # "persisted" => file' = file
  <2>1. torn \in BOOLEAN /\ faults \in Nat
    BY DEF TypeOK
  <2>2. CASE source = "persisted" /\ done
    <3>1. file' = [url |-> base, cookie |-> 0] /\ torn' = torn /\ faults' = faults
      BY <1>3, <2>2 DEF _save
    <3> QED
      BY <2>1, <2>2, <3>1
  <2>3. CASE source = "persisted" /\ ~done
    <3>1. file' = file /\ torn' = TRUE /\ faults' = faults + 1
      BY <1>3, <2>3 DEF _save
    <3> QED
      BY <2>1, <2>3, <3>1
  <2>4. CASE source # "persisted"
    <3>1. done /\ file' = file /\ torn' = torn /\ faults' = faults
      BY <1>3, <2>4
    <3> QED
      BY <2>1, <2>4, <3>1
  <2> QED
    BY <2>2, <2>3, <2>4
<1>5. /\ state' \in {"expired", state} /\ shown' \in {base, shown}
      /\ done => state' = "expired"
  BY <1>3
<1> QED
  BY <1>1, <1>2, <1>4, <1>5 DEF Expired

(* A request or a probe ends: it expires the session it used, which is the *)
(* current one, or a probe sets the status of that session, or nothing     *)
(* changes.                                                                *)
Ends(t) ==
    /\ Rested(t) /\ thread[t].pc = "told" /\ thread[t].op \notin {"login", "logout"}
    /\ UNCHANGED <<issuer, honoured, left, renewed, ops>>
    /\ \/ /\ thread[t].reply = "challenge" /\ base = thread[t].url /\ jar = thread[t].jar
          /\ Expired
       \/ UNCHANGED <<base, jar, source, state, shown, cookie, file, torn, faults>>
       \/ /\ thread[t].op = "probe" /\ base = thread[t].url /\ jar = thread[t].jar
          /\ state' \in {"connected", "expired", "error"} /\ shown' = base
          /\ state' = "connected" => thread[t].reply = "ok"
          /\ UNCHANGED <<base, jar, source, cookie, file, torn, faults>>

(* The five requests are such an end.                                      *)
LEMMA DoneEffect ==
    ASSUME TypeOK, NEW t \in Threads, NEW op \in Requests, Done(t, op) PROVE Ends(t)
<1>1. Rested(t)
  BY RestEffect DEF Done
<1>2. thread[t].pc = "told" /\ thread[t].op \notin {"login", "logout"}
      /\ UNCHANGED <<issuer, honoured, left, renewed, ops>>
  BY DEF Done, Requests, webui
<1>3. \/ /\ thread[t].reply = "challenge" /\ base = thread[t].url /\ jar = thread[t].jar
         /\ _expire_session_locked
      \/ UNCHANGED <<base, jar, source, state, shown, cookie, file, torn, faults>>
  BY DEF Done, _session_fault, config
<1> QED
  BY <1>1, <1>2, <1>3, ExpiryEffect DEF Ends

(* So is a probe.                                                          *)
LEMMA ProbeEffect ==
    ASSUME TypeOK, NEW t \in Threads, ProbeDone(t) PROVE Ends(t)
<1>1. Rested(t)
  BY RestEffect DEF ProbeDone
<1>2. thread[t].pc = "told" /\ thread[t].op = "probe" /\ UNCHANGED <<issuer, honoured, left, renewed, ops>>
  BY DEF ProbeDone, webui
<1>3. \/ /\ thread[t].reply = "challenge" /\ base = thread[t].url /\ jar = thread[t].jar
         /\ _expire_session_locked
      \/ UNCHANGED <<base, jar, source, state, shown, cookie, file, torn, faults>>
      \/ /\ base = thread[t].url /\ jar = thread[t].jar
         /\ state' = _probe_base(thread[t].reply) /\ shown' = base
         /\ UNCHANGED <<base, jar, source, cookie, file, torn, faults>>
  BY DEF ProbeDone, _probe_base, config
<1>4. /\ _probe_base(thread[t].reply) \in {"connected", "expired", "error"}
      /\ _probe_base(thread[t].reply) = "connected" => thread[t].reply = "ok"
  BY DEF _probe_base
<1> QED
  BY <1>1, <1>2, <1>3, <1>4, ExpiryEffect DEF Ends

(* What the WebUIs do.                                                     *)
LoginServed(t) ==
    /\ thread[t].pc = "sent" /\ thread[t].op = "login"
    /\ UNCHANGED <<base, jar, source, state, shown, file, torn, left, renewed, ops, faults>>
    /\ \/ \E s \in Sessions :
            /\ issuer[s] = NoUrl /\ issuer' = [issuer EXCEPT ![s] = thread[t].url]
            /\ honoured' = honoured \cup {s}
            /\ cookie' = [cookie EXCEPT ![thread[t].jar] = s]
            /\ Answered(t, "ok")
       \/ Answered(t, "challenge") /\ UNCHANGED <<issuer, honoured, cookie>>

(* A served sign-in.                                                       *)
LEMMA ServeLoginEffect ==
    ASSUME TypeOK, NEW t \in Threads, ServeLogin(t) PROVE LoginServed(t)
<1>1. thread[t].pc = "sent" /\ thread[t].op = "login"
      /\ UNCHANGED <<base, jar, source, state, shown, file, torn, left, renewed, ops, faults>>
  BY DEF ServeLogin, config
<1>2. CASE \E s \in Sessions : SetCookie(t, s)
  <2>1. Reply(t, "ok")
    BY <1>2 DEF SetCookie
  <2>2. Answered(t, "ok")
    BY <1>1, <2>1, ReplyEffect DEF Told
  <2> QED
    BY <1>1, <1>2, <2>2 DEF LoginServed, SetCookie
<1>3. CASE (\E a \in Challenges : Reply(t, a)) /\ UNCHANGED <<webui, cookie>>
  <2>1. PICK a \in Challenges : Reply(t, a)
    BY <1>3
  <2>2. Told(a) = "challenge"
    BY DEF Told, Challenges
  <2>3. Answered(t, "challenge")
    BY <1>1, <2>1, <2>2, ReplyEffect
  <2> QED
    BY <1>1, <1>3, <2>3 DEF LoginServed, webui
<1> QED
  BY <1>2, <1>3 DEF ServeLogin

Served(t) ==
    /\ thread[t].pc \in {"sent", "verify"} /\ (thread[t].pc = "sent" => thread[t].op # "login")
    /\ UNCHANGED <<base, jar, source, state, shown, file, issuer, torn, left, renewed, ops, faults>>
    /\ \/ Answered(t, "ok") /\ Honours(thread[t].url, thread[t].cookie)
       \/ Answered(t, "challenge") /\ ~Honours(thread[t].url, thread[t].cookie)
    /\ \/ /\ thread[t].op = "logout" /\ honoured' = honoured \ {thread[t].cookie}
          /\ cookie' = [cookie EXCEPT ![thread[t].jar] = 0]
       \/ UNCHANGED <<honoured, cookie>>

(* Any other served request.                                               *)
LEMMA ServeEffect ==
    ASSUME TypeOK, NEW t \in Threads, Serve(t) PROVE Served(t)
<1>1. /\ thread[t].pc \in {"sent", "verify"} /\ (thread[t].pc = "sent" => thread[t].op # "login")
      /\ UNCHANGED <<base, jar, source, state, shown, file, issuer, torn, left, renewed, ops, faults>>
      /\ \/ /\ thread[t].op = "logout" /\ honoured' = honoured \ {thread[t].cookie}
            /\ cookie' = [cookie EXCEPT ![thread[t].jar] = 0]
         \/ UNCHANGED <<honoured, cookie>>
  BY DEF Serve, config
<1>2. PICK a \in IF Honours(thread[t].url, thread[t].cookie) THEN {"ok"} ELSE Challenges :
          Reply(t, a)
  BY DEF Serve
<1>3. Answered(t, Told(a))
  BY <1>1, <1>2, ReplyEffect
<1>4. Told(a) = IF Honours(thread[t].url, thread[t].cookie) THEN "ok" ELSE "challenge"
  BY <1>2 DEF Told, Challenges
<1> QED
  BY <1>1, <1>3, <1>4 DEF Served

(* A request that was answered with a new cookie.                          *)
Renewed(t) ==
    /\ thread[t].pc \in {"sent", "verify"} /\ thread[t].jar \in Jars
    /\ thread[t].op # "logout" /\ (thread[t].pc = "sent" => thread[t].op # "login")
    /\ Honours(thread[t].url, thread[t].cookie)
    /\ UNCHANGED <<base, jar, source, state, shown, file, torn, left, ops, faults>>
    /\ \E s \in Sessions :
          /\ issuer[s] = NoUrl /\ issuer' = [issuer EXCEPT ![s] = thread[t].url]
          /\ honoured' = honoured \cup {s}
          /\ cookie' = [cookie EXCEPT ![thread[t].jar] = s]
    /\ renewed' = renewed \cup ({cookie[thread[t].jar]} \ {0})
    /\ renewed' \subseteq Sessions
    /\ Answered(t, "ok")

(* A sign-out does not get one.                                            *)
LEMMA RenewEffect ==
    ASSUME TypeOK, JarsApart, NEW t \in Threads, Renew(t) PROVE Renewed(t)
<1>1. /\ thread[t].pc \in {"sent", "verify"} /\ Honours(thread[t].url, thread[t].cookie)
      /\ thread[t].op # "logout" /\ (thread[t].pc = "sent" => thread[t].op # "login")
      /\ UNCHANGED <<base, jar, source, state, shown, file, torn, left, ops, faults>>
      /\ renewed' = renewed \cup ({cookie[thread[t].jar]} \ {0})
  BY DEF Renew, config, JarsApart
<1>2. thread[t].jar \in Jars
  BY DEF Renew, TypeOK, Memories
<1>3. renewed' \subseteq Sessions
  <2>1. renewed \subseteq Sessions /\ cookie[thread[t].jar] \in 0 .. MaxSession
    BY <1>2 DEF TypeOK
  <2>2. cookie[thread[t].jar] # 0 => cookie[thread[t].jar] \in Sessions
    BY <2>1, ConstantsAssumption DEF Sessions
  <2> QED
    BY <1>1, <2>1, <2>2
<1>4. PICK s \in Sessions : SetCookie(t, s)
  BY DEF Renew
<1>5. Answered(t, "ok")
  BY <1>1, <1>4, ReplyEffect DEF SetCookie, Told
<1> QED
  BY <1>1, <1>2, <1>3, <1>4, <1>5 DEF Renewed, SetCookie

Missed(t) ==
    /\ thread[t].pc \in {"sent", "verify"}
    /\ UNCHANGED <<base, jar, source, state, shown, cookie, file, issuer, torn, left, renewed, ops>>
    /\ faults' \in Nat /\ Answered(t, "lost")
    /\ honoured' \subseteq honoured

(* A request without a usable answer.                                      *)
LEMMA LoseEffect ==
    ASSUME TypeOK, NEW t \in Threads, Lose(t) PROVE Missed(t)
<1>1. thread[t].pc \in {"sent", "verify"}
  BY DEF Lose
<1>2. PICK a \in Failures : Reply(t, a)
  BY DEF Lose
<1>3. Told(a) = "lost"
  BY DEF Told, Challenges, Failures
<1>4. Answered(t, "lost")
  BY <1>1, <1>2, <1>3, ReplyEffect
<1>5. /\ UNCHANGED <<base, jar, source, state, shown, cookie, file, issuer, torn, left, renewed, ops>>
      /\ honoured' \subseteq honoured
  BY DEF Lose, config
<1>6. faults' \in Nat
  BY DEF Lose, TypeOK
<1> QED
  BY <1>1, <1>4, <1>5, <1>6 DEF Missed

(* The two outcomes of a sign-in's first request.                          *)
LoginTold(t) ==
    /\ thread[t].pc = "told" /\ thread[t].op = "login"
    /\ UNCHANGED <<base, jar, source, cookie, file, issuer, honoured, torn, left, renewed, ops, faults>>
    /\ \/ /\ OnlyThread(t) /\ UNCHANGED <<state, shown>>
          /\ thread'[t].pc = "verify" /\ thread'[t].cookie = cookie[thread[t].jar]
          /\ thread'[t].op = thread[t].op /\ thread'[t].url = thread[t].url
          /\ thread'[t].jar = thread[t].jar /\ thread'[t].reply = "ok"
       \/ /\ Rested(t)
          /\ \/ UNCHANGED <<state, shown>>
             \/ state' = "expired" /\ shown' = thread[t].url

(* LoginAnswered is one of the two.                                        *)
LEMMA LoginAnsweredEffect ==
    ASSUME TypeOK, JarsApart, NEW t \in Threads, LoginAnswered(t) PROVE LoginTold(t)
<1>1. /\ thread[t].pc = "told" /\ thread[t].op = "login"
      /\ UNCHANGED <<base, jar, source, cookie, file, issuer, honoured, torn, left, renewed, ops, faults>>
  BY DEF LoginAnswered, webui
<1>2. CASE /\ thread[t].reply = "ok" /\ UNCHANGED <<state, shown>>
           /\ thread' = [thread EXCEPT ![t].pc = "verify",
                                       ![t].cookie = cookie[thread[t].jar]]
  <2> DEFINE r == [thread[t] EXCEPT !.pc = "verify", !.cookie = cookie[thread[t].jar]]
  <2>1. thread[t] \in Memories
    BY DEF TypeOK
  <2>2. cookie[thread[t].jar] \in 0 .. MaxSession
    BY <1>1 DEF JarsApart, TypeOK
  <2>3. r \in Memories
    BY <2>1, <2>2 DEF Memories
  <2>4. thread' = [thread EXCEPT ![t] = r]
    BY <1>2 DEF TypeOK
  <2>5. /\ r.op = thread[t].op /\ r.url = thread[t].url /\ r.jar = thread[t].jar
        /\ r.cookie = cookie[thread[t].jar] /\ r.pc = "verify" /\ r.reply = thread[t].reply
    BY <2>1 DEF Memories
  <2> HIDE DEF r
  <2> QED
    BY <1>1, <1>2, <2>3, <2>4, <2>5 DEF LoginTold, OnlyThread, TypeOK
<1>3. CASE /\ Rest(t)
           /\ \/ UNCHANGED <<state, shown>>
              \/ state' = "expired" /\ shown' = thread[t].url
  BY <1>1, <1>3, RestEffect DEF LoginTold
<1> QED
  BY <1>2, <1>3 DEF LoginAnswered

(* A request, a probe or a sign-out begins.                                *)
Sends(t) ==
    /\ thread[t] = Resting
    /\ UNCHANGED <<base, jar, source, cookie, file, issuer, honoured, torn, left, renewed, faults>>
    /\ ops' \in Nat
    /\ \/ UNCHANGED <<state, shown>>
       \/ state' = "disconnected" /\ shown' = base
    /\ \/ UNCHANGED thread
       \/ /\ OnlyThread(t) /\ thread'[t].pc \in {"sent", "told"}
          /\ thread'[t].op # "login" /\ thread'[t].reply \in {"none", "lost"}
          /\ \/ thread'[t].jar = jar /\ thread'[t].cookie = cookie[jar] /\ thread'[t].url = base
             \/ thread'[t].jar = NoJar /\ thread'[t].cookie = 0 /\ thread'[t].op = "probe"

(* A request begins like this.                                             *)
LEMMA SessionEffect ==
    ASSUME TypeOK, NEW t \in Threads, NEW op \in Requests, _current_session(t, op)
    PROVE  Sends(t)
<1>1. /\ thread[t] = Resting /\ ops' = ops + 1 /\ _request(t, op, base, jar, cookie[jar])
      /\ UNCHANGED <<base, jar, source, state, shown, cookie, file, issuer, honoured, torn,
                     left, renewed, faults>>
  BY DEF _current_session, Begin, config, webui
<1>2. op \in Operations /\ op # "login"
  BY DEF Operations, Requests
<1>3. Requested(t, op, base, jar, cookie[jar])
  BY <1>1, <1>2, RequestEffect DEF TypeOK
<1>4. ops' \in Nat
  BY <1>1 DEF TypeOK
<1> QED
  BY <1>1, <1>2, <1>3, <1>4 DEF Sends, Requested

(* So does a probe, of the current origin or of a candidate.               *)
LEMMA BeginProbeEffect ==
    ASSUME TypeOK, NEW t \in Threads, NEW u \in Urls \cup {NoUrl}, BeginProbe(t, u)
    PROVE  Sends(t)
<1>1. /\ thread[t] = Resting /\ ops' = ops + 1
      /\ UNCHANGED <<base, jar, source, cookie, file, issuer, honoured, torn, left, renewed, faults>>
  BY DEF BeginProbe, Begin, webui
<1>2. ops' \in Nat
  BY <1>1 DEF TypeOK
<1>3. "probe" \in Operations
  BY DEF Operations
<1>4. CASE state' = "disconnected" /\ shown' = base /\ UNCHANGED thread
  BY <1>1, <1>2, <1>4 DEF Sends
<1>5. CASE u = base /\ _request(t, "probe", u, jar, cookie[jar]) /\ UNCHANGED <<state, shown>>
  <2>1. Requested(t, "probe", u, jar, cookie[jar])
    BY <1>3, <1>5, RequestEffect DEF TypeOK
  <2> QED
    BY <1>1, <1>2, <1>5, <2>1 DEF Sends, Requested
<1>6. CASE _request(t, "probe", u, NoJar, 0) /\ UNCHANGED <<state, shown>>
  <2>1. 0 \in 0 .. MaxSession
    BY ConstantsAssumption
  <2>2. Requested(t, "probe", u, NoJar, 0)
    BY <1>3, <1>6, <2>1, RequestEffect
  <2> QED
    BY <1>1, <1>2, <1>6, <2>2 DEF Sends, Requested
<1> QED
  BY <1>4, <1>5, <1>6 DEF BeginProbe

(* So does a sign-out.                                                     *)
LEMMA BeginLogoutEffect ==
    ASSUME TypeOK, NEW t \in Threads, BeginLogout(t) PROVE Sends(t)
<1> DEFINE p == IF base = NoUrl THEN "told" ELSE "sent"
           r == [pc |-> p, op |-> "logout", url |-> base, jar |-> jar,
                 cookie |-> cookie[jar], reply |-> "lost"]
<1>1. /\ thread[t] = Resting /\ ops' = ops + 1 /\ thread' = [thread EXCEPT ![t] = r]
      /\ UNCHANGED <<base, jar, source, state, shown, cookie, file, issuer, honoured, torn,
                     left, renewed, faults>>
  BY DEF BeginLogout, Begin, config, webui
<1>2. ops' \in Nat
  BY <1>1 DEF TypeOK
<1>3. r \in Memories
  BY DEF TypeOK, Memories, Operations
<1>4. /\ r.pc \in {"sent", "told"} /\ r.op = "logout" /\ r.reply = "lost" /\ r.jar = jar
      /\ r.cookie = cookie[jar] /\ r.url = base
  OBVIOUS
<1> HIDE DEF r
<1> QED
  BY <1>1, <1>2, <1>3, <1>4 DEF Sends, OnlyThread, TypeOK

(* A sign-in begins, with a jar of its own.                                *)
Signs(t) ==
    /\ thread[t] = Resting
    /\ UNCHANGED <<base, jar, source, file, issuer, honoured, torn, left, renewed, faults>>
    /\ ops' \in Nat /\ state' = "connecting" /\ shown' \in Urls
    /\ OnlyThread(t) /\ thread'[t].pc = "sent" /\ thread'[t].op = "login"
    /\ thread'[t].url \in Urls /\ thread'[t].cookie = 0 /\ thread'[t].reply = "none"
    /\ thread'[t].jar \in Jars \ {jar}
    /\ \A v \in Threads : thread[v].jar # thread'[t].jar
    /\ cookie' = [cookie EXCEPT ![thread'[t].jar] = 0]

(* connecting_status begins a sign-in.                                     *)
LEMMA ConnectingEffect ==
    ASSUME TypeOK, NEW t \in Threads, NEW u \in Urls, connecting_status(t, u) PROVE Signs(t)
<1>1. /\ thread[t] = Resting /\ ops' = ops + 1 /\ Free # {}
      /\ _request(t, "login", u, FreshJar, 0)
      /\ state' = "connecting" /\ shown' = u
      /\ cookie' = [cookie EXCEPT ![FreshJar] = 0]
      /\ UNCHANGED <<base, jar, source, file, issuer, honoured, torn, left, renewed, faults>>
  BY DEF connecting_status, Begin, webui
<1>2. ops' \in Nat
  BY <1>1 DEF TypeOK
<1>3. "login" \in Operations /\ 0 \in 0 .. MaxSession
  BY ConstantsAssumption DEF Operations
<1>4. FreshJar \in Jars /\ FreshJar # jar /\ \A v \in Threads : thread[v].jar # FreshJar
  BY <1>1, FreshIsNew
<1>5. Requested(t, "login", u, FreshJar, 0)
  BY <1>1, <1>3, <1>4, RequestEffect
<1> QED
  BY <1>1, <1>2, <1>4, <1>5 DEF Signs, Requested

(* A confirmed session becomes the current one and is saved.               *)
Commits(t) ==
    /\ thread[t].pc = "verified" /\ Rested(t)
    /\ UNCHANGED <<cookie, issuer, honoured, renewed, ops>>
    /\ torn' \in BOOLEAN /\ (torn => torn') /\ faults' \in Nat
    /\ \/ UNCHANGED <<base, jar, source, state, shown, left, file, torn>>
       \/ /\ thread[t].reply = "ok"
          /\ base' = thread[t].url /\ jar' = thread[t].jar /\ source' = "persisted"
          /\ state' = "connected" /\ shown' = thread[t].url /\ left' = FALSE
          /\ file' \in {file, [url |-> thread[t].url, cookie |-> cookie[thread[t].jar]]}
          /\ ~torn' => file' = [url |-> thread[t].url, cookie |-> cookie[thread[t].jar]]

(* LoginVerified commits, or drops what was not confirmed.                 *)
LEMMA LoginVerifiedEffect ==
    ASSUME TypeOK, NEW t \in Threads, LoginVerified(t) PROVE Commits(t)
<1>1. Rested(t)
  BY RestEffect DEF LoginVerified
<1>2. thread[t].pc = "verified" /\ UNCHANGED <<cookie, issuer, honoured, renewed, ops>>
  BY DEF LoginVerified, webui
<1>3. torn \in BOOLEAN /\ faults \in Nat
  BY DEF TypeOK
<1>4. CASE UNCHANGED <<config, left, file, torn, faults>>
  BY <1>1, <1>2, <1>3, <1>4 DEF Commits, config
<1>5. CASE /\ thread[t].reply = "ok"
           /\ base' = thread[t].url /\ jar' = thread[t].jar /\ source' = "persisted"
           /\ state' = "connected" /\ shown' = thread[t].url /\ left' = FALSE
           /\ \E done \in BOOLEAN : _save(base', cookie[jar'], done)
  <2> DEFINE f == [url |-> thread[t].url, cookie |-> cookie[thread[t].jar]]
  <2>1. \/ file' = f /\ torn' = torn /\ faults' = faults
        \/ file' = file /\ torn' = TRUE /\ faults' = faults + 1
    BY <1>5 DEF _save
  <2>2. /\ torn' \in BOOLEAN /\ (torn => torn') /\ faults' \in Nat
        /\ file' \in {file, f} /\ (~torn' => file' = f)
    <3> HIDE DEF f
    <3>1. CASE file' = f /\ torn' = torn /\ faults' = faults
      BY <1>3, <3>1
    <3>2. CASE file' = file /\ torn' = TRUE /\ faults' = faults + 1
      BY <1>3, <3>2
    <3> QED
      BY <2>1, <3>1, <3>2
  <2> QED
    BY <1>1, <1>2, <1>5, <2>2 DEF Commits
<1> QED
  BY <1>4, <1>5 DEF LoginVerified

(* A sign-out is over.                                                     *)
SignsOut(t) ==
    /\ thread[t].op = "logout" /\ Rested(t)
    /\ UNCHANGED <<issuer, honoured, renewed, ops>>
    /\ jar' \in Jars /\ jar' # jar /\ \A v \in Threads : thread[v].jar # jar'
    /\ cookie' = [cookie EXCEPT ![jar'] = 0]
    /\ torn' \in BOOLEAN /\ (torn => torn') /\ faults' \in Nat /\ left' \in BOOLEAN
    /\ file' \in {file, NoFile} /\ base' \in {base, EnvUrl} /\ shown' \in {shown, EnvUrl}
    /\ source' \in {source, "none", "environment"} /\ state' \in {state, "disconnected"}
    /\ ~torn' => file' = NoFile /\ source' # "persisted" /\ state' = "disconnected"

(* LogoutDone, whether or not the file can be removed.                     *)
LEMMA LogoutEffect ==
    ASSUME TypeOK, NEW t \in Threads, LogoutDone(t) PROVE SignsOut(t)
<1>1. Rested(t)
  BY RestEffect DEF LogoutDone
<1>2. /\ thread[t].op = "logout" /\ UNCHANGED <<issuer, honoured, renewed, ops>> /\ Free # {}
      /\ jar' = FreshJar /\ cookie' = [cookie EXCEPT ![jar'] = 0]
  BY DEF LogoutDone, webui
<1>3. jar' \in Jars /\ jar' # jar /\ \A v \in Threads : thread[v].jar # jar'
  BY <1>2, FreshIsNew
<1>4. torn \in BOOLEAN /\ faults \in Nat /\ left \in BOOLEAN
  BY DEF TypeOK
<1>5. CASE _delete_file(TRUE) /\ base' = EnvUrl /\ shown' = EnvUrl
           /\ source' = (IF EnvUrl # NoUrl THEN "environment" ELSE "none")
           /\ state' = "disconnected" /\ left' = TRUE
  <2>1. file' = NoFile /\ torn' = torn /\ faults' = faults
    BY <1>5 DEF _delete_file
  <2>2. source' \in {"none", "environment"}
    BY <1>5
  <2> QED
    BY <1>1, <1>2, <1>3, <1>4, <1>5, <2>1, <2>2 DEF SignsOut
<1>6. CASE _delete_file(FALSE) /\ UNCHANGED <<base, source, state, shown, left>>
  <2>1. file' = file /\ torn' = TRUE /\ faults' = faults + 1
    BY <1>6 DEF _delete_file
  <2> QED
    BY <1>1, <1>2, <1>3, <1>4, <1>6, <2>1 DEF SignsOut
<1> QED
  BY <1>5, <1>6 DEF LogoutDone

(* A restart of the bridge.                                                *)
Restarts ==
    /\ thread' = [t \in Threads |-> Resting] /\ faults' \in Nat
    /\ UNCHANGED <<jar, file, issuer, honoured, torn, left, renewed, ops>>
    /\ state' = "disconnected" /\ shown' = base'
    /\ base' = (IF file # NoFile THEN file.url ELSE EnvUrl)
    /\ source' \in Sources /\ (source' = "persisted" <=> file # NoFile)
    /\ \E c \in {file.cookie, 0} :
          /\ c # file.cookie => file.cookie \notin honoured
          /\ cookie' = [cookie EXCEPT ![jar] = c]

(* Restart reads the file, or the environment.                             *)
LEMMA RestartEffect == ASSUME TypeOK, Restart PROVE Restarts
<1>1. /\ thread' = [t \in Threads |-> Resting] /\ faults' = faults + 1
      /\ UNCHANGED <<file, issuer, honoured, torn, left, renewed, ops>>
      /\ _load(file, jar)
  BY DEF Restart, webui
<1>2. faults' \in Nat
  BY <1>1 DEF TypeOK
<1>3. /\ jar' = jar /\ state' = "disconnected" /\ shown' = base'
      /\ base' = (IF file # NoFile THEN file.url ELSE EnvUrl)
      /\ source' = IF file # NoFile THEN "persisted"
                   ELSE IF EnvUrl # NoUrl THEN "environment" ELSE "none"
  BY <1>1 DEF _load
<1>4. PICK c \in _cookie_from_row(file.cookie) : cookie' = [cookie EXCEPT ![jar] = c]
  BY <1>1 DEF _load
<1>5. c \in {file.cookie, 0} /\ (c # file.cookie => file.cookie \notin honoured)
  BY <1>4 DEF _cookie_from_row
<1>6. source' \in Sources /\ (source' = "persisted" <=> file # NoFile)
  BY <1>3 DEF Sources
<1> QED
  BY <1>1, <1>2, <1>3, <1>4, <1>5, <1>6 DEF Restarts

(* Every step is one of these.                                             *)
Effects ==
    \/ Restarts
    \/ \E s \in Sessions : Expire(s)
    \/ \E t \in Threads : \/ LoginServed(t) \/ Served(t) \/ Renewed(t) \/ Missed(t) \/ Sends(t) \/ Ends(t)
                          \/ Signs(t) \/ LoginTold(t) \/ Commits(t) \/ SignsOut(t)
    \/ UNCHANGED vars

(* The next-state relation, by effects.                                    *)
LEMMA StepEffect == ASSUME TypeOK, JarsApart, [Next]_vars PROVE Effects
<1>1. ASSUME NEW t \in Threads,
             \/ _request_json_sync(t) \/ _upload_file_sync(t)
             \/ _probe_multipart_route_sync(t) \/ _probe_contract_sync(t) \/ open_sse(t)
      PROVE Ends(t)
  BY <1>1, RequestSteps, DoneEffect
<1>2. ASSUME NEW t \in Threads, NEW op \in Requests, _current_session(t, op) PROVE Sends(t)
  BY <1>2, SessionEffect
<1>3. ASSUME NEW t \in Threads, NEW u \in Urls \cup {NoUrl}, BeginProbe(t, u) PROVE Sends(t)
  BY <1>3, BeginProbeEffect
<1>4. ASSUME NEW t \in Threads, NEW u \in Urls, connecting_status(t, u) PROVE Signs(t)
  BY <1>4, ConnectingEffect
<1> QED
  BY <1>1, <1>2, <1>3, <1>4, RestartEffect, ServeLoginEffect, ServeEffect, RenewEffect, LoseEffect,
     ProbeEffect, LoginAnsweredEffect, LoginVerifiedEffect, BeginLogoutEffect, LogoutEffect
     DEF Next, Effects

-----------------------------------------------------------------------------
(* Every step preserves every part. *)

(* Types are preserved by every step.                                      *)
LEMMA TypeStep ==
    ASSUME TypeOK, JarsApart, [Next]_vars PROVE TypeOK'
<1> USE ConstantsAssumption DEF TypeOK
<1>1. CASE Restarts
  BY <1>1, RestingTyped DEF Restarts, Sources, States
<1>2. ASSUME NEW s \in Sessions, Expire(s) PROVE TypeOK'
  BY <1>2, RestingTyped DEF Expire, config
<1>3. ASSUME NEW t \in Threads, LoginServed(t) PROVE TypeOK'
  <2>1. base' \in Urls \cup {NoUrl} /\ shown' \in Urls \cup {NoUrl}
    BY <1>3 DEF LoginServed, Answered, OnlyThread, JarsApart, Memories
  <2>2. jar' \in Jars /\ source' \in Sources /\ state' \in States
    BY <1>3 DEF LoginServed, Answered, OnlyThread, JarsApart, Memories
  <2>3. cookie' \in [Jars -> 0 .. MaxSession]
    <3>1. CASE cookie' = cookie
      BY <3>1
    <3>2. ASSUME NEW s \in Sessions, cookie' = [cookie EXCEPT ![thread[t].jar] = s]
          PROVE  cookie' \in [Jars -> 0 .. MaxSession]
      <4>1. s \in 0 .. MaxSession
        BY DEF Sessions
      <4> QED
        BY <3>2, <4>1
    <3> QED
      BY <1>3, <3>1, <3>2 DEF LoginServed
  <2>4. file' \in [url : Urls \cup {NoUrl}, cookie : 0 .. MaxSession]
    BY <1>3 DEF LoginServed, Answered, OnlyThread, JarsApart, Memories
  <2>5. issuer' \in [Sessions -> Urls \cup {NoUrl}] /\ honoured' \subseteq Sessions
    BY <1>3 DEF LoginServed, Answered, OnlyThread, JarsApart, Memories
  <2>6. thread' \in [Threads -> Memories]
    BY <1>3 DEF LoginServed, Answered, OnlyThread, JarsApart, Memories
  <2>7. torn' \in BOOLEAN /\ left' \in BOOLEAN /\ renewed' \subseteq Sessions /\ ops' \in Nat /\ faults' \in Nat
    BY <1>3 DEF LoginServed, Answered, OnlyThread, JarsApart, Memories
  <2> QED
    BY <2>1, <2>2, <2>3, <2>4, <2>5, <2>6, <2>7
<1>4. ASSUME NEW t \in Threads, Served(t) PROVE TypeOK'
  BY <1>4, RestingTyped DEF Served, Answered, OnlyThread
<1>5. ASSUME NEW t \in Threads, Missed(t) PROVE TypeOK'
  BY <1>5, RestingTyped DEF Missed, Answered, OnlyThread
<1>6. ASSUME NEW t \in Threads, Sends(t) PROVE TypeOK'
  BY <1>6, RestingTyped DEF Sends, OnlyThread, States
<1>7. ASSUME NEW t \in Threads, Ends(t) PROVE TypeOK'
  BY <1>7, RestingTyped DEF Ends, Rested, OnlyThread, Expired, States
<1>8. ASSUME NEW t \in Threads, Signs(t) PROVE TypeOK'
  BY <1>8, RestingTyped DEF Signs, OnlyThread, States
<1>9. ASSUME NEW t \in Threads, LoginTold(t) PROVE TypeOK'
  <2>1. base' \in Urls \cup {NoUrl} /\ shown' \in Urls \cup {NoUrl}
    BY <1>9, RestingTyped DEF LoginTold, Rested, OnlyThread, States, Memories
  <2>2. jar' \in Jars /\ source' \in Sources /\ state' \in States
    BY <1>9, RestingTyped DEF LoginTold, Rested, OnlyThread, States, Memories
  <2>3. cookie' \in [Jars -> 0 .. MaxSession]
    BY <1>9, RestingTyped DEF LoginTold, Rested, OnlyThread, States, Memories
  <2>4. file' \in [url : Urls \cup {NoUrl}, cookie : 0 .. MaxSession]
    BY <1>9, RestingTyped DEF LoginTold, Rested, OnlyThread, States, Memories
  <2>5. issuer' \in [Sessions -> Urls \cup {NoUrl}] /\ honoured' \subseteq Sessions
    BY <1>9, RestingTyped DEF LoginTold, Rested, OnlyThread, States, Memories
  <2>6. thread' \in [Threads -> Memories]
    BY <1>9, RestingTyped DEF LoginTold, Rested, OnlyThread, States, Memories
  <2>7. torn' \in BOOLEAN /\ left' \in BOOLEAN /\ renewed' \subseteq Sessions /\ ops' \in Nat /\ faults' \in Nat
    BY <1>9, RestingTyped DEF LoginTold, Rested, OnlyThread, States, Memories
  <2> QED
    BY <2>1, <2>2, <2>3, <2>4, <2>5, <2>6, <2>7
<1>10. ASSUME NEW t \in Threads, Commits(t) PROVE TypeOK'
  <2>1. base' \in Urls \cup {NoUrl} /\ shown' \in Urls \cup {NoUrl}
    BY <1>10, RestingTyped
       DEF Commits, Rested, OnlyThread, JarsApart, Memories, Sources, States
  <2>2. jar' \in Jars /\ source' \in Sources /\ state' \in States
    BY <1>10, RestingTyped
       DEF Commits, Rested, OnlyThread, JarsApart, Memories, Sources, States
  <2>3. cookie' \in [Jars -> 0 .. MaxSession]
    BY <1>10, RestingTyped
       DEF Commits, Rested, OnlyThread, JarsApart, Memories, Sources, States
  <2>4. file' \in [url : Urls \cup {NoUrl}, cookie : 0 .. MaxSession]
    BY <1>10, RestingTyped
       DEF Commits, Rested, OnlyThread, JarsApart, Memories, Sources, States
  <2>5. issuer' \in [Sessions -> Urls \cup {NoUrl}] /\ honoured' \subseteq Sessions
    BY <1>10, RestingTyped
       DEF Commits, Rested, OnlyThread, JarsApart, Memories, Sources, States
  <2>6. thread' \in [Threads -> Memories]
    BY <1>10, RestingTyped
       DEF Commits, Rested, OnlyThread, JarsApart, Memories, Sources, States
  <2>7. torn' \in BOOLEAN /\ left' \in BOOLEAN /\ renewed' \subseteq Sessions /\ ops' \in Nat /\ faults' \in Nat
    BY <1>10, RestingTyped
       DEF Commits, Rested, OnlyThread, JarsApart, Memories, Sources, States
  <2> QED
    BY <2>1, <2>2, <2>3, <2>4, <2>5, <2>6, <2>7
<1>11. ASSUME NEW t \in Threads, SignsOut(t) PROVE TypeOK'
  BY <1>11, RestingTyped DEF SignsOut, Rested, OnlyThread, Sources, States, NoFile
<1>12. CASE UNCHANGED vars
  BY <1>12, RestingTyped DEF vars, config, webui
<1>13. ASSUME NEW t \in Threads, Renewed(t) PROVE TypeOK'
  <2>1. PICK s \in Sessions : /\ issuer' = [issuer EXCEPT ![s] = thread[t].url]
                              /\ honoured' = honoured \cup {s}
                              /\ cookie' = [cookie EXCEPT ![thread[t].jar] = s]
    BY <1>13 DEF Renewed
  <2>2. s \in 0 .. MaxSession /\ thread[t].url \in Urls \cup {NoUrl}
    BY DEF Sessions, Memories
  <2>3. cookie' \in [Jars -> 0 .. MaxSession] /\ issuer' \in [Sessions -> Urls \cup {NoUrl}]
    BY <2>1, <2>2
  <2>4. honoured' \subseteq Sessions /\ thread' \in [Threads -> Memories]
    BY <1>13, <2>1 DEF Renewed, Answered, OnlyThread
  <2> QED
    BY <1>13, <2>3, <2>4 DEF Renewed
<1> QED
  BY <1>1, <1>2, <1>3, <1>4, <1>5, <1>6, <1>7, <1>8, <1>9, <1>10, <1>11, <1>12, <1>13,
     StepEffect
     DEF Effects

(* A sign-in keeps its jar to itself.                                      *)
LEMMA JarsStep ==
    ASSUME TypeOK, JarsApart, [Next]_vars PROVE JarsApart'
<1> USE ConstantsAssumption DEF TypeOK, JarsApart, Resting
<1>1. CASE Restarts
  BY <1>1 DEF Restarts
<1>2. ASSUME NEW s \in Sessions, Expire(s) PROVE JarsApart'
  BY <1>2 DEF Expire, config
<1>3. ASSUME NEW t \in Threads, LoginServed(t) PROVE JarsApart'
  BY <1>3 DEF LoginServed, Answered, OnlyThread
<1>4. ASSUME NEW t \in Threads, Served(t) PROVE JarsApart'
  BY <1>4 DEF Served, Answered, OnlyThread
<1>5. ASSUME NEW t \in Threads, Missed(t) PROVE JarsApart'
  BY <1>5 DEF Missed, Answered, OnlyThread
<1>6. ASSUME NEW t \in Threads, Sends(t) PROVE JarsApart'
  BY <1>6 DEF Sends, OnlyThread
<1>7. ASSUME NEW t \in Threads, Ends(t) PROVE JarsApart'
  BY <1>7 DEF Ends, Rested, OnlyThread, Expired
<1>8. ASSUME NEW t \in Threads, Signs(t) PROVE JarsApart'
  BY <1>8 DEF Signs, OnlyThread
<1>9. ASSUME NEW t \in Threads, LoginTold(t) PROVE JarsApart'
  BY <1>9 DEF LoginTold, Rested, OnlyThread
<1>10. ASSUME NEW t \in Threads, Commits(t) PROVE JarsApart'
  BY <1>10 DEF Commits, Rested, OnlyThread
<1>11. ASSUME NEW t \in Threads, SignsOut(t) PROVE JarsApart'
  BY <1>11 DEF SignsOut, Rested, OnlyThread
<1>12. CASE UNCHANGED vars
  BY <1>12 DEF vars, config, webui
<1>13. ASSUME NEW t \in Threads, Renewed(t) PROVE JarsApart'
  BY <1>13 DEF Renewed, Answered, OnlyThread
<1> QED
  BY <1>1, <1>2, <1>3, <1>4, <1>5, <1>6, <1>7, <1>8, <1>9, <1>10, <1>11, <1>12, <1>13,
     StepEffect
     DEF Effects

(* A session comes from the WebUI that issues it.                          *)
LEMMA IssuedStep ==
    ASSUME TypeOK, JarsApart, Issued, [Next]_vars PROVE Issued'
<1> USE ConstantsAssumption DEF TypeOK, JarsApart, Issued, Known, Resting, NoFile,
       Sessions
<1>1. CASE Restarts
  BY <1>1 DEF Restarts
<1>2. ASSUME NEW s \in Sessions, Expire(s) PROVE Issued'
  BY <1>2 DEF Expire, config
<1>3. ASSUME NEW t \in Threads, LoginServed(t) PROVE Issued'
  <2>1. Known(file.cookie)'
    BY <1>3 DEF LoginServed
  <2>2. (\A j \in Jars : Known(cookie[j]))'
    BY <1>3 DEF LoginServed
  <2>3. \A c \in 0 .. MaxSession : Known(c) => Known(c)'
    BY <1>3 DEF LoginServed
  <2>4. \A v \in Threads : /\ thread'[v].cookie = thread[v].cookie
                            /\ thread[v].cookie \in 0 .. MaxSession
    BY <1>3 DEF LoginServed, Answered, OnlyThread, Memories
  <2>5. (\A v \in Threads : Known(thread[v].cookie))'
    BY <2>3, <2>4
  <2> QED
    BY <2>1, <2>2, <2>5
<1>4. ASSUME NEW t \in Threads, Served(t) PROVE Issued'
  <2>1. Known(file.cookie)'
    BY <1>4 DEF Served, Answered, OnlyThread
  <2>2. (\A j \in Jars : Known(cookie[j]))'
    BY <1>4 DEF Served, Answered, OnlyThread
  <2>3. (\A v \in Threads : Known(thread[v].cookie))'
    BY <1>4 DEF Served, Answered, OnlyThread
  <2> QED
    BY <2>1, <2>2, <2>3
<1>5. ASSUME NEW t \in Threads, Missed(t) PROVE Issued'
  BY <1>5 DEF Missed, Answered, OnlyThread
<1>6. ASSUME NEW t \in Threads, Sends(t) PROVE Issued'
  BY <1>6 DEF Sends, OnlyThread
<1>7. ASSUME NEW t \in Threads, Ends(t) PROVE Issued'
  <2>1. Known(file.cookie)'
    BY <1>7 DEF Ends, Rested, OnlyThread, Expired
  <2>2. (\A j \in Jars : Known(cookie[j]))'
    BY <1>7 DEF Ends, Rested, OnlyThread, Expired
  <2>3. (\A v \in Threads : Known(thread[v].cookie))'
    BY <1>7 DEF Ends, Rested, OnlyThread, Expired
  <2> QED
    BY <2>1, <2>2, <2>3
<1>8. ASSUME NEW t \in Threads, Signs(t) PROVE Issued'
  <2>1. Known(file.cookie)'
    BY <1>8 DEF Signs
  <2>2. (\A j \in Jars : Known(cookie[j]))'
    BY <1>8 DEF Signs
  <2>3. ASSUME NEW v \in Threads PROVE Known(thread[v].cookie)'
    <3>1. CASE v = t
      BY <1>8, <3>1 DEF Signs
    <3>2. CASE v # t
      BY <1>8, <3>2 DEF Signs, OnlyThread
    <3> QED
      BY <3>1, <3>2
  <2> QED
    BY <2>1, <2>2, <2>3
<1>9. ASSUME NEW t \in Threads, LoginTold(t) PROVE Issued'
  BY <1>9 DEF LoginTold, Rested, OnlyThread
<1>10. ASSUME NEW t \in Threads, Commits(t) PROVE Issued'
  <2>1. Known(file.cookie)'
    BY <1>10 DEF Commits, Rested, OnlyThread
  <2>2. (\A j \in Jars : Known(cookie[j]))'
    BY <1>10 DEF Commits, Rested, OnlyThread
  <2>3. (\A v \in Threads : Known(thread[v].cookie))'
    BY <1>10 DEF Commits, Rested, OnlyThread
  <2> QED
    BY <2>1, <2>2, <2>3
<1>11. ASSUME NEW t \in Threads, SignsOut(t) PROVE Issued'
  <2>1. Known(file.cookie)'
    BY <1>11 DEF SignsOut, Rested, OnlyThread
  <2>2. (\A j \in Jars : Known(cookie[j]))'
    BY <1>11 DEF SignsOut, Rested, OnlyThread
  <2>3. ASSUME NEW v \in Threads PROVE Known(thread[v].cookie)'
    <3>1. CASE v = t
      BY <1>11, <3>1 DEF SignsOut, Rested
    <3>2. CASE v # t
      BY <1>11, <3>2 DEF SignsOut, Rested, OnlyThread
    <3> QED
      BY <3>1, <3>2
  <2> QED
    BY <2>1, <2>2, <2>3
<1>12. CASE UNCHANGED vars
  BY <1>12 DEF vars, config, webui
<1>13. ASSUME NEW t \in Threads, Renewed(t) PROVE Issued'
  <2>1. thread[t].url \in Urls
    BY <1>13 DEF Renewed, Honours, Memories
  <2>2. Known(file.cookie)'
    BY <1>13 DEF Renewed
  <2>3. (\A j \in Jars : Known(cookie[j]))'
    BY <1>13, <2>1 DEF Renewed
  <2>4. (\A v \in Threads : Known(thread[v].cookie))'
    BY <1>13 DEF Renewed, Answered, OnlyThread
  <2> QED
    BY <2>2, <2>3, <2>4
<1> QED
  BY <1>1, <1>2, <1>3, <1>4, <1>5, <1>6, <1>7, <1>8, <1>9, <1>10, <1>11, <1>12, <1>13,
     StepEffect
     DEF Effects

(* Only a sign-out empties a jar that is in use.                           *)
LEMMA SnapshotStep ==
    ASSUME TypeOK, JarsApart, Issued, Snapshots, [Next]_vars PROVE Snapshots'
<1> USE ConstantsAssumption DEF TypeOK, JarsApart, Issued, Known, Snapshots, Given,
       LeavingWith, Resting
<1>1. CASE Restarts
  BY <1>1 DEF Restarts
<1>2. ASSUME NEW s \in Sessions, Expire(s) PROVE Snapshots'
  BY <1>2 DEF Expire, config
<1>3. ASSUME NEW t \in Threads, LoginServed(t) PROVE Snapshots'
  <2>1. (Answered(t, "ok") \/ Answered(t, "challenge")) /\ UNCHANGED <<base, jar, file>>
    BY <1>3 DEF LoginServed
  <2>2. /\ cookie'[jar] = cookie[jar] /\ thread[t].jar # jar
        /\ \A u \in Threads \ {t} : thread[u].jar # thread[t].jar
        /\ \A j \in Jars \ {thread[t].jar} : cookie'[j] = cookie[j]
    BY <1>3 DEF LoginServed
  <2>3. ASSUME NEW j \in Jars, j # thread[t].jar
        PROVE  \A u \in Urls \cup {NoUrl} : Given(j, u) => Given(j, u)'
    <3>1. cookie'[j] = cookie[j] /\ Known(cookie[j]) /\ cookie[j] \in 0 .. MaxSession
      BY <2>2, <2>3
    <3>2. cookie[j] # 0 => issuer'[cookie[j]] = issuer[cookie[j]]
      <4>1. CASE issuer' = issuer
        BY <4>1
      <4>2. CASE \E s \in Sessions : /\ issuer[s] = NoUrl
                                     /\ issuer' = [issuer EXCEPT ![s] = thread[t].url]
        BY <3>1, <4>2 DEF Sessions
      <4> QED
        BY <1>3, <4>1, <4>2 DEF LoginServed
    <3> QED
      BY <3>1, <3>2
  <2>4. LeavingWith(jar) => LeavingWith(jar)'
    BY <2>1 DEF Answered, OnlyThread
  <2>5. thread'[t].pc = "told" /\ thread'[t].jar # jar
    BY <1>3, <2>1, <2>2 DEF LoginServed, Answered
  <2>6. ASSUME NEW v \in Threads, v # t
        PROVE  /\ thread'[v] = thread[v] /\ thread[v].jar # thread[t].jar
               /\ thread[v].url \in Urls \cup {NoUrl} /\ thread[v].jar \in Jars \cup {NoJar}
               /\ thread[v].pc \in {"verify", "verified"} => thread[v].jar \in Jars
    BY <2>1, <2>2, <2>6 DEF Answered, OnlyThread, Memories
  <2> QED
    BY <2>1, <2>2, <2>3, <2>4, <2>5, <2>6
<1>4. ASSUME NEW t \in Threads, Served(t) PROVE Snapshots'
  BY <1>4 DEF Served, Answered, OnlyThread
<1>5. ASSUME NEW t \in Threads, Missed(t) PROVE Snapshots'
  BY <1>5 DEF Missed, Answered, OnlyThread
<1>6. ASSUME NEW t \in Threads, Sends(t) PROVE Snapshots'
  BY <1>6 DEF Sends, OnlyThread
<1>7. ASSUME NEW t \in Threads, Ends(t) PROVE Snapshots'
  BY <1>7 DEF Ends, Rested, OnlyThread, Expired
<1>8. ASSUME NEW t \in Threads, Signs(t) PROVE Snapshots'
  BY <1>8 DEF Signs, OnlyThread
<1>9. ASSUME NEW t \in Threads, LoginTold(t) PROVE Snapshots'
  BY <1>9 DEF LoginTold, Rested, OnlyThread
<1>10. ASSUME NEW t \in Threads, Commits(t) PROVE Snapshots'
  BY <1>10 DEF Commits, Rested, OnlyThread
<1>11. ASSUME NEW t \in Threads, SignsOut(t) PROVE Snapshots'
  BY <1>11 DEF SignsOut, Rested, OnlyThread
<1>12. CASE UNCHANGED vars
  BY <1>12 DEF vars, config, webui
<1>13. ASSUME NEW t \in Threads, Renewed(t) PROVE Snapshots'
  <2>1. /\ UNCHANGED <<base, jar, file>> /\ OnlyThread(t)
        /\ thread'[t].op = thread[t].op /\ thread'[t].url = thread[t].url
        /\ thread'[t].jar = thread[t].jar /\ thread'[t].cookie = thread[t].cookie
        /\ thread[t].op # "logout" /\ thread[t].jar \in Jars
    BY <1>13 DEF Renewed, Answered
  <2>2. PICK s \in Sessions : /\ issuer[s] = NoUrl
                              /\ issuer' = [issuer EXCEPT ![s] = thread[t].url]
                              /\ cookie' = [cookie EXCEPT ![thread[t].jar] = s]
    BY <1>13 DEF Renewed
  <2>3. s # 0 /\ s # file.cookie
    BY <2>2 DEF Sessions
  <2>4. cookie'[thread[t].jar] = s /\ Given(thread[t].jar, thread[t].url)'
    BY <2>1, <2>2, <2>3
  <2>5. ASSUME NEW j \in Jars, j # thread[t].jar
        PROVE  cookie'[j] = cookie[j] /\ \A u \in Urls \cup {NoUrl} : Given(j, u) => Given(j, u)'
    BY <2>2, <2>5 DEF Sessions
  <2>6. LeavingWith(jar) => LeavingWith(jar)'
    BY <2>1 DEF OnlyThread
  <2>7. ASSUME NEW v \in Threads
        PROVE  /\ thread'[v].jar = thread[v].jar /\ thread'[v].url = thread[v].url
               /\ thread'[v].cookie = thread[v].cookie /\ thread[v].url \in Urls \cup {NoUrl}
               /\ thread'[v].pc \in {"verify", "verified"}
                  => thread[v].pc \in {"verify", "verified"} \/ v = t
    BY <2>1 DEF OnlyThread, Memories
  <2>8. thread[t].jar = jar => thread[t].url = base
    OBVIOUS
  <2>9. ASSUME NEW v \in Threads, thread'[v].jar = jar'
        PROVE  /\ thread'[v].url = base'
               /\ \/ thread'[v].cookie = cookie'[jar']
                  \/ cookie'[jar'] = 0 /\ LeavingWith(jar)'
                  \/ Given(jar, base)' /\ file'.cookie # cookie'[jar']
    <3>1. CASE thread[t].jar = jar
      BY <2>1, <2>3, <2>4, <2>7, <2>8, <2>9, <3>1
    <3>2. CASE thread[t].jar # jar
      BY <2>1, <2>5, <2>6, <2>7, <2>9, <3>2
    <3> QED
      BY <3>1, <3>2
  <2>10. ASSUME NEW v \in Threads, thread'[v].pc \in {"verify", "verified"}
         PROVE  \/ thread'[v].cookie = cookie'[thread'[v].jar]
                \/ Given(thread[v].jar, thread[v].url)'
    <3>1. CASE v = t
      BY <2>1, <2>4, <3>1
    <3>2. CASE v # t
      <4>1. thread[v].jar \in Jars /\ thread[v].jar # thread[t].jar /\ thread'[v] = thread[v]
        BY <2>1, <2>10, <3>2 DEF OnlyThread
      <4> QED
        BY <2>5, <2>7, <2>10, <4>1
    <3> QED
      BY <3>1, <3>2
  <2> QED
    BY <2>9, <2>10
<1> QED
  BY <1>1, <1>2, <1>3, <1>4, <1>5, <1>6, <1>7, <1>8, <1>9, <1>10, <1>11, <1>12, <1>13,
     StepEffect
     DEF Effects

(* An answer stays true of the session that was sent.                      *)
LEMMA AnswerStep ==
    ASSUME TypeOK, JarsApart, Issued, Answers, [Next]_vars PROVE Answers'
<1> USE ConstantsAssumption DEF TypeOK, JarsApart, Issued, Known, Answers, Belongs,
       Refused, Resting, Sessions
<1>1. CASE Restarts
  BY <1>1 DEF Restarts
<1>2. ASSUME NEW s \in Sessions, Expire(s) PROVE Answers'
  BY <1>2 DEF Expire, config
<1>3. ASSUME NEW t \in Threads, LoginServed(t) PROVE Answers'
  <2> DEFINE url(v) == thread[v].url
             c(v) == thread[v].cookie
  <2>0. \/ issuer' = issuer /\ honoured' = honoured
        \/ \E s \in Sessions : /\ issuer[s] = NoUrl
                              /\ issuer' = [issuer EXCEPT ![s] = thread[t].url]
                              /\ honoured' = honoured \cup {s}
    BY <1>3 DEF LoginServed
  <2>1. ASSUME NEW v \in Threads PROVE Belongs(url(v), c(v)) => Belongs(url(v), c(v))'
    <3>1. /\ thread'[v].url = url(v) /\ thread'[v].cookie = c(v) /\ Known(c(v))
          /\ c(v) \in 0 .. MaxSession
      BY <1>3 DEF LoginServed, Answered, OnlyThread, Memories
    <3>2. c(v) # 0 => issuer'[c(v)] = issuer[c(v)]
      BY <1>3, <3>1, <2>0
    <3> QED
      BY <3>1, <3>2
  <2>2. ASSUME NEW v \in Threads PROVE Refused(url(v), c(v)) => Refused(url(v), c(v))'
    <3>1. /\ thread'[v].url = url(v) /\ thread'[v].cookie = c(v) /\ Known(c(v))
          /\ c(v) \in 0 .. MaxSession
      BY <1>3 DEF LoginServed, Answered, OnlyThread, Memories
    <3>2. 0 \notin honoured
      OBVIOUS
    <3>3. c(v) \in honoured' => c(v) \in honoured /\ issuer'[c(v)] = issuer[c(v)]
      BY <1>3, <3>1, <3>2, <2>0
    <3> QED
      BY <3>1, <3>3
  <2>3. /\ thread'[t].op = "login" /\ thread'[t].pc = "told"
        /\ \A v \in Threads \ {t} : thread'[v] = thread[v]
    BY <1>3 DEF LoginServed, Answered, OnlyThread
  <2> HIDE DEF url, c
  <2> QED
    BY <2>1, <2>2, <2>3 DEF url, c
<1>4. ASSUME NEW t \in Threads, Served(t) PROVE Answers'
  <2>1. ASSUME NEW v \in Threads, thread'[v].reply = "ok",
             thread'[v].op = "probe" \/ thread'[v].pc = "verified"
      PROVE Belongs(thread[v].url, thread[v].cookie)'
    BY <1>4, <2>1 DEF Served, Answered, OnlyThread, Honours
  <2>2. ASSUME NEW v \in Threads, thread'[v].reply = "challenge", thread'[v].op # "login"
      PROVE Refused(thread[v].url, thread[v].cookie)'
    BY <1>4, <2>2 DEF Served, Answered, OnlyThread, Honours
  <2> QED
    BY <2>1, <2>2
<1>5. ASSUME NEW t \in Threads, Missed(t) PROVE Answers'
  <2>1. ASSUME NEW v \in Threads, v # t
        PROVE  /\ /\ thread'[v].reply = "ok"
                  /\ thread'[v].op = "probe" \/ thread'[v].pc = "verified"
                  => Belongs(thread[v].url, thread[v].cookie)'
               /\ (thread'[v].reply = "challenge" /\ thread'[v].op # "login")
                  => Refused(thread[v].url, thread[v].cookie)'
    <3>1. thread'[v] = thread[v] /\ issuer' = issuer /\ honoured' \subseteq honoured
      BY <1>5, <2>1 DEF Missed, Answered, OnlyThread
    <3> QED
      BY <3>1
  <2>2. thread'[t].reply = "lost"
    BY <1>5 DEF Missed, Answered
  <2> QED
    BY <2>1, <2>2
<1>6. ASSUME NEW t \in Threads, Sends(t) PROVE Answers'
  <2>1. ASSUME NEW v \in Threads, thread'[v].reply = "ok",
             thread'[v].op = "probe" \/ thread'[v].pc = "verified"
      PROVE Belongs(thread[v].url, thread[v].cookie)'
    BY <1>6, <2>1 DEF Sends, OnlyThread
  <2>2. ASSUME NEW v \in Threads, thread'[v].reply = "challenge", thread'[v].op # "login"
      PROVE Refused(thread[v].url, thread[v].cookie)'
    BY <1>6, <2>2 DEF Sends, OnlyThread
  <2> QED
    BY <2>1, <2>2
<1>7. ASSUME NEW t \in Threads, Ends(t) PROVE Answers'
  <2>1. issuer' = issuer /\ honoured' = honoured
    BY <1>7 DEF Ends
  <2>2. thread'[t].reply = "none" /\ \A v \in Threads \ {t} : thread'[v] = thread[v]
    BY <1>7 DEF Ends, Rested, OnlyThread
  <2> QED
    BY <2>1, <2>2
<1>8. ASSUME NEW t \in Threads, Signs(t) PROVE Answers'
  <2>1. issuer' = issuer /\ honoured' = honoured
    BY <1>8 DEF Signs
  <2>2. thread'[t].reply = "none" /\ \A v \in Threads \ {t} : thread'[v] = thread[v]
    BY <1>8 DEF Signs, OnlyThread
  <2> QED
    BY <2>1, <2>2
<1>9. ASSUME NEW t \in Threads, LoginTold(t) PROVE Answers'
  BY <1>9 DEF LoginTold, Rested, OnlyThread
<1>10. ASSUME NEW t \in Threads, Commits(t) PROVE Answers'
  BY <1>10 DEF Commits, Rested, OnlyThread
<1>11. ASSUME NEW t \in Threads, SignsOut(t) PROVE Answers'
  <2>1. ASSUME NEW v \in Threads, thread'[v].reply = "ok",
             thread'[v].op = "probe" \/ thread'[v].pc = "verified"
      PROVE Belongs(thread[v].url, thread[v].cookie)'
    BY <1>11, <2>1 DEF SignsOut, Rested, OnlyThread
  <2>2. ASSUME NEW v \in Threads, thread'[v].reply = "challenge", thread'[v].op # "login"
      PROVE Refused(thread[v].url, thread[v].cookie)'
    BY <1>11, <2>2 DEF SignsOut, Rested, OnlyThread
  <2> QED
    BY <2>1, <2>2
<1>12. CASE UNCHANGED vars
  BY <1>12 DEF vars, config, webui
<1>13. ASSUME NEW t \in Threads, Renewed(t) PROVE Answers'
  <2> DEFINE url(v) == thread[v].url
             c(v) == thread[v].cookie
  <2>0. PICK s \in Sessions : /\ issuer[s] = NoUrl
                              /\ issuer' = [issuer EXCEPT ![s] = thread[t].url]
                              /\ honoured' = honoured \cup {s}
    BY <1>13 DEF Renewed
  <2>1. ASSUME NEW v \in Threads
        PROVE  /\ thread'[v].url = url(v) /\ thread'[v].cookie = c(v) /\ Known(c(v))
               /\ c(v) \in 0 .. MaxSession /\ 0 \notin honoured
               /\ c(v) # 0 => c(v) # s
    BY <1>13, <2>0 DEF Renewed, Answered, OnlyThread, Memories
  <2>2. ASSUME NEW v \in Threads
        PROVE  /\ Belongs(url(v), c(v)) => Belongs(url(v), c(v))'
               /\ Refused(url(v), c(v)) => Refused(url(v), c(v))'
    BY <2>0, <2>1
  <2>3. Belongs(url(t), c(t))
    BY <1>13 DEF Renewed, Honours
  <2>4. thread'[t].reply = "ok" /\ \A v \in Threads \ {t} : thread'[v] = thread[v]
    BY <1>13 DEF Renewed, Answered, OnlyThread
  <2> HIDE DEF url, c
  <2> QED
    BY <2>2, <2>3, <2>4 DEF url, c
<1> QED
  BY <1>1, <1>2, <1>3, <1>4, <1>5, <1>6, <1>7, <1>8, <1>9, <1>10, <1>11, <1>12, <1>13,
     StepEffect
     DEF Effects

(* The source says whether there is a file.                                *)
LEMMA KeptStep ==
    ASSUME TypeOK, JarsApart, Kept, SignedOutStaysOut, [Next]_vars
    PROVE  Kept' /\ SignedOutStaysOut'
<1> USE ConstantsAssumption DEF TypeOK, Kept, SignedOutStaysOut
<1>1. CASE Restarts
  BY <1>1 DEF Restarts
<1>2. ASSUME NEW s \in Sessions, Expire(s) PROVE Kept' /\ SignedOutStaysOut'
  BY <1>2 DEF Expire, config
<1>3. ASSUME NEW t \in Threads, LoginServed(t) PROVE Kept' /\ SignedOutStaysOut'
  BY <1>3 DEF LoginServed, Answered, OnlyThread
<1>4. ASSUME NEW t \in Threads, Served(t) PROVE Kept' /\ SignedOutStaysOut'
  BY <1>4 DEF Served, Answered, OnlyThread
<1>5. ASSUME NEW t \in Threads, Missed(t) PROVE Kept' /\ SignedOutStaysOut'
  BY <1>5 DEF Missed, Answered, OnlyThread
<1>6. ASSUME NEW t \in Threads, Sends(t) PROVE Kept' /\ SignedOutStaysOut'
  BY <1>6 DEF Sends, OnlyThread
<1>7. ASSUME NEW t \in Threads, Ends(t) PROVE Kept' /\ SignedOutStaysOut'
  BY <1>7 DEF Ends, Rested, OnlyThread, Expired
<1>8. ASSUME NEW t \in Threads, Signs(t) PROVE Kept' /\ SignedOutStaysOut'
  BY <1>8 DEF Signs, OnlyThread
<1>9. ASSUME NEW t \in Threads, LoginTold(t) PROVE Kept' /\ SignedOutStaysOut'
  BY <1>9 DEF LoginTold, Rested, OnlyThread
<1>10. ASSUME NEW t \in Threads, Commits(t) PROVE Kept' /\ SignedOutStaysOut'
  BY <1>10 DEF Commits, Rested, OnlyThread
<1>11. ASSUME NEW t \in Threads, SignsOut(t) PROVE Kept' /\ SignedOutStaysOut'
  BY <1>11 DEF SignsOut, Rested, OnlyThread
<1>12. CASE UNCHANGED vars
  BY <1>12 DEF vars, config, webui
<1>13. ASSUME NEW t \in Threads, Renewed(t) PROVE Kept' /\ SignedOutStaysOut'
  BY <1>13 DEF Renewed, Answered, OnlyThread
<1> QED
  BY <1>1, <1>2, <1>3, <1>4, <1>5, <1>6, <1>7, <1>8, <1>9, <1>10, <1>11, <1>12, <1>13,
     StepEffect
     DEF Effects

(* The file follows the configuration.                                     *)
LEMMA SavedStep ==
    ASSUME TypeOK, JarsApart, Issued, Snapshots, Kept, SavedIsCurrent, [Next]_vars
    PROVE  SavedIsCurrent'
<1> USE ConstantsAssumption DEF TypeOK, JarsApart, Issued, Known, Snapshots, Given, Kept,
       SavedIsCurrent, NoFile, Sessions
<1>1. CASE Restarts
  BY <1>1 DEF Restarts
<1>2. ASSUME NEW s \in Sessions, Expire(s) PROVE SavedIsCurrent'
  BY <1>2 DEF Expire, config
<1>3. ASSUME NEW t \in Threads, LoginServed(t) PROVE SavedIsCurrent'
  BY <1>3 DEF LoginServed, Answered, OnlyThread
<1>4. ASSUME NEW t \in Threads, Served(t) PROVE SavedIsCurrent'
  BY <1>4 DEF Served, Answered, OnlyThread
<1>5. ASSUME NEW t \in Threads, Missed(t) PROVE SavedIsCurrent'
  BY <1>5 DEF Missed, Answered, OnlyThread
<1>6. ASSUME NEW t \in Threads, Sends(t) PROVE SavedIsCurrent'
  BY <1>6 DEF Sends, OnlyThread
<1>7. ASSUME NEW t \in Threads, Ends(t) PROVE SavedIsCurrent'
  BY <1>7 DEF Ends, Rested, OnlyThread, Expired
<1>8. ASSUME NEW t \in Threads, Signs(t) PROVE SavedIsCurrent'
  BY <1>8 DEF Signs, OnlyThread
<1>9. ASSUME NEW t \in Threads, LoginTold(t) PROVE SavedIsCurrent'
  BY <1>9 DEF LoginTold, Rested, OnlyThread
<1>10. ASSUME NEW t \in Threads, Commits(t) PROVE SavedIsCurrent'
  BY <1>10 DEF Commits, Rested, OnlyThread
<1>11. ASSUME NEW t \in Threads, SignsOut(t) PROVE SavedIsCurrent'
  BY <1>11 DEF SignsOut, Rested, OnlyThread
<1>12. CASE UNCHANGED vars
  BY <1>12 DEF vars, config, webui
<1>13. ASSUME NEW t \in Threads, Renewed(t) PROVE SavedIsCurrent'
  BY <1>13 DEF Renewed, Answered, OnlyThread
<1> QED
  BY <1>1, <1>2, <1>3, <1>4, <1>5, <1>6, <1>7, <1>8, <1>9, <1>10, <1>11, <1>12, <1>13,
     StepEffect
     DEF Effects


(* What "connected" claims.                                                *)
Confirmed ==
    shown = base /\ (Belongs(base, cookie[jar]) \/ LeavingWith(jar))

(* The property and its next value, in these words.                       *)
LEMMA ConnectedClaim ==
    /\ ConnectedIsConfirmed <=> ((state = "connected" /\ ~torn) => Confirmed)
    /\ ConnectedIsConfirmed' <=> ((state = "connected" /\ ~torn) => Confirmed)'
  BY DEF ConnectedIsConfirmed, Confirmed, Belongs, LeavingWith

(* A sign-out goes on while others step.                                   *)
LEMMA StillLeaving ==
    ASSUME NEW t \in Threads, \A u \in Threads \ {t} : thread'[u] = thread[u],
           thread[t].op # "logout" \/ (thread'[t].op = "logout" /\ thread'[t].jar = thread[t].jar),
           jar' = jar, LeavingWith(jar)
    PROVE  LeavingWith(jar)'
  BY DEF LeavingWith

(* "connected" is said of a session that was just confirmed.               *)
LEMMA ConnectedStep ==
    ASSUME TypeOK, JarsApart, Issued, Snapshots, Answers, ConnectedIsConfirmed, [Next]_vars
    PROVE  ConnectedIsConfirmed'
<1> DEFINE Claim == ((state = "connected" /\ ~torn) => Confirmed)'
<1> SUFFICES ASSUME (state = "connected" /\ ~torn) => Confirmed PROVE Claim
  BY ConnectedClaim
<1> USE ConstantsAssumption DEF TypeOK, JarsApart, Issued, Known, Snapshots, Given, Answers,
       Belongs, Confirmed, Sessions
<1>1. CASE Restarts
  BY <1>1, StillLeaving DEF Restarts
<1>2. ASSUME NEW s \in Sessions, Expire(s) PROVE Claim
  BY <1>2, StillLeaving DEF Expire, config, LeavingWith
<1>3. ASSUME NEW t \in Threads, LoginServed(t) PROVE Claim
  BY <1>3, StillLeaving DEF LoginServed, Answered, OnlyThread
<1>4. ASSUME NEW t \in Threads, Served(t) PROVE Claim
  <2>1. CASE cookie' = cookie
    <3>1. shown' = shown /\ base' = base /\ jar' = jar /\ issuer' = issuer
          /\ state' = state /\ torn' = torn
      BY <1>4 DEF Served
    <3>2. LeavingWith(jar) => LeavingWith(jar)'
      BY <1>4, <3>1, StillLeaving DEF Served, Answered, OnlyThread
    <3> QED
      BY <2>1, <3>1, <3>2
  <2>2. CASE thread[t].op = "logout" /\ cookie' = [cookie EXCEPT ![thread[t].jar] = 0]
    <3>1. shown' = shown /\ base' = base /\ jar' = jar /\ issuer' = issuer
          /\ state' = state /\ torn' = torn
      BY <1>4 DEF Served
    <3>2. LeavingWith(jar) => LeavingWith(jar)'
      BY <1>4, <3>1, StillLeaving DEF Served, Answered, OnlyThread
    <3>3. CASE thread[t].jar = jar
      <4>1. thread'[t].op = "logout" /\ thread'[t].jar = jar'
        BY <1>4, <2>2, <3>1, <3>3 DEF Served, Answered
      <4>2. LeavingWith(jar)'
        BY <4>1 DEF LeavingWith
      <4> QED
        BY <3>1, <4>2
    <3>4. CASE thread[t].jar # jar
      <4>1. cookie'[jar] = cookie[jar]
        BY <2>2, <3>4
      <4> QED
        BY <3>1, <3>2, <4>1
    <3> QED
      BY <3>3, <3>4
  <2> QED
    BY <1>4, <2>1, <2>2 DEF Served
<1>5. ASSUME NEW t \in Threads, Missed(t) PROVE Claim
  BY <1>5, StillLeaving DEF Missed, Answered, OnlyThread
<1>6. ASSUME NEW t \in Threads, Sends(t) PROVE Claim
  BY <1>6, StillLeaving DEF Sends, OnlyThread, Resting
<1>7. ASSUME NEW t \in Threads, Ends(t) PROVE Claim
  BY <1>7, StillLeaving DEF Ends, Rested, OnlyThread, Expired
<1>8. ASSUME NEW t \in Threads, Signs(t) PROVE Claim
  BY <1>8, StillLeaving DEF Signs, OnlyThread, Resting
<1>9. ASSUME NEW t \in Threads, LoginTold(t) PROVE Claim
  BY <1>9, StillLeaving DEF LoginTold, Rested, OnlyThread
<1>10. ASSUME NEW t \in Threads, Commits(t) PROVE Claim
  BY <1>10, StillLeaving DEF Commits, Rested, OnlyThread
<1>11. ASSUME NEW t \in Threads, SignsOut(t) PROVE Claim
  BY <1>11, StillLeaving DEF SignsOut, Rested, OnlyThread
<1>12. CASE UNCHANGED vars
  BY <1>12, StillLeaving DEF vars, config, webui, LeavingWith
<1>13. ASSUME NEW t \in Threads, Renewed(t) PROVE Claim
  BY <1>13, StillLeaving DEF Renewed, Answered, OnlyThread
<1> QED
  BY <1>1, <1>2, <1>3, <1>4, <1>5, <1>6, <1>7, <1>8, <1>9, <1>10, <1>11, <1>12, <1>13,
     StepEffect
     DEF Effects

(* A session is dropped as expired by an answer about itself.              *)
LEMMA HonouredStep ==
    ASSUME TypeOK, JarsApart, Snapshots, Answers, [Next]_vars
    PROVE  (jar' # jar /\ state' = "expired" /\ ~torn')
           => \/ ~(cookie[jar] \in honoured /\ issuer[cookie[jar]] = base)
              \/ \E t \in Threads : /\ thread[t].pc = "told" /\ thread'[t] = Resting
                                     /\ thread[t].jar = jar /\ thread[t].cookie # cookie[jar]
<1> DEFINE Keeps == (jar' # jar /\ state' = "expired" /\ ~torn')
                    => \/ ~(cookie[jar] \in honoured /\ issuer[cookie[jar]] = base)
                       \/ \E t \in Threads : /\ thread[t].pc = "told" /\ thread'[t] = Resting
                                              /\ thread[t].jar = jar /\ thread[t].cookie # cookie[jar]
<1> SUFFICES Keeps
  OBVIOUS
<1> USE ConstantsAssumption DEF TypeOK, Snapshots, Answers, Refused, Sessions
<1>1. CASE Restarts
  BY <1>1 DEF Restarts
<1>2. ASSUME NEW s \in Sessions, Expire(s) PROVE Keeps
  BY <1>2 DEF Expire, config
<1>3. ASSUME NEW t \in Threads, LoginServed(t) PROVE Keeps
  BY <1>3 DEF LoginServed, Answered, OnlyThread
<1>4. ASSUME NEW t \in Threads, Served(t) PROVE Keeps
  BY <1>4 DEF Served, Answered, OnlyThread
<1>5. ASSUME NEW t \in Threads, Missed(t) PROVE Keeps
  BY <1>5 DEF Missed, Answered, OnlyThread
<1>6. ASSUME NEW t \in Threads, Sends(t) PROVE Keeps
  BY <1>6 DEF Sends, OnlyThread
<1>7. ASSUME NEW t \in Threads, Ends(t) PROVE Keeps
  BY <1>7 DEF Ends, Rested, OnlyThread, Expired
<1>8. ASSUME NEW t \in Threads, Signs(t) PROVE Keeps
  BY <1>8 DEF Signs, OnlyThread
<1>9. ASSUME NEW t \in Threads, LoginTold(t) PROVE Keeps
  BY <1>9 DEF LoginTold, Rested, OnlyThread
<1>10. ASSUME NEW t \in Threads, Commits(t) PROVE Keeps
  BY <1>10 DEF Commits, Rested, OnlyThread
<1>11. ASSUME NEW t \in Threads, SignsOut(t) PROVE Keeps
  BY <1>11 DEF SignsOut, Rested, OnlyThread
<1>12. CASE UNCHANGED vars
  BY <1>12 DEF vars, config, webui
<1>13. ASSUME NEW t \in Threads, Renewed(t) PROVE Keeps
  BY <1>13 DEF Renewed, Answered, OnlyThread
<1> QED
  BY <1>1, <1>2, <1>3, <1>4, <1>5, <1>6, <1>7, <1>8, <1>9, <1>10, <1>11, <1>12, <1>13,
     StepEffect
     DEF Effects

-----------------------------------------------------------------------------
(* The theorems. *)

(* The inductive invariant.                                                *)
THEOREM Invariance == Spec => []IInv
<1>1. Init => IInv
  <2> SUFFICES ASSUME Init PROVE IInv
    OBVIOUS
  <2>1. jar \in Jars
    BY ConstantsAssumption DEF Init
  <2>2. TypeOK
    <3>1. thread \in [Threads -> Memories]
      BY RestingTyped DEF Init
    <3>2. /\ cookie \in [Jars -> 0 .. MaxSession] /\ issuer \in [Sessions -> Urls \cup {NoUrl}]
          /\ file \in [url : Urls \cup {NoUrl}, cookie : 0 .. MaxSession]
      BY ConstantsAssumption DEF Init, NoFile
    <3>3. /\ base \in Urls \cup {NoUrl} /\ shown \in Urls \cup {NoUrl}
          /\ source \in Sources /\ state \in States /\ honoured \subseteq Sessions
          /\ ops \in Nat /\ faults \in Nat
      BY ConstantsAssumption DEF Init, Sources, States
    <3>4. torn \in BOOLEAN /\ left \in BOOLEAN /\ renewed \subseteq Sessions
      BY DEF Init
    <3> QED
      BY <2>1, <3>1, <3>2, <3>3, <3>4 DEF TypeOK
  <2>3. JarsApart /\ Issued /\ Snapshots /\ Answers
    BY <2>1, ConstantsAssumption DEF Init, JarsApart, Issued, Known, Snapshots, Given, Answers,
       Resting, NoFile
  <2>4. Kept /\ ConnectedIsConfirmed /\ SignedOutStaysOut /\ SavedIsCurrent
    BY DEF Init, Kept, ConnectedIsConfirmed, SignedOutStaysOut, SavedIsCurrent
  <2> QED
    BY <2>2, <2>3, <2>4 DEF IInv
<1>2. IInv /\ [Next]_vars => IInv'
  <2> SUFFICES ASSUME IInv, [Next]_vars PROVE IInv'
    OBVIOUS
  <2> USE DEF IInv
  <2>1. TypeOK' /\ JarsApart' /\ Issued'
    BY TypeStep, JarsStep, IssuedStep
  <2>2. Snapshots' /\ Answers'
    BY SnapshotStep, AnswerStep
  <2>3. Kept' /\ SignedOutStaysOut' /\ SavedIsCurrent'
    BY KeptStep, SavedStep
  <2>4. ConnectedIsConfirmed'
    BY ConnectedStep
  <2> QED
    BY <2>1, <2>2, <2>3, <2>4
<1> QED
  BY <1>1, <1>2, PTL DEF Spec

(* Types of the configuration, the file, the WebUIs and the threads.       *)
THEOREM TypeCorrect == Spec => []TypeOK
<1>1. IInv => TypeOK
  BY DEF IInv
<1> QED
  BY <1>1, Invariance, PTL

(* A status of "connected" is about the session in use, however late the   *)
(* answers of other operations are applied (_probe_sync, _login_sync,      *)
(* _logout_sync, _session_fault).                                          *)
THEOREM ConnectedConfirmed == Spec => []ConnectedIsConfirmed
<1>1. IInv => ConnectedIsConfirmed
  BY DEF IInv
<1> QED
  BY <1>1, Invariance, PTL

(* No thread that was under way brings a removed credential file back      *)
(* (_expire_session_locked after _logout_sync).                            *)
THEOREM SignedOut == Spec => []SignedOutStaysOut
<1>1. IInv => SignedOutStaysOut
  BY DEF IInv
<1> QED
  BY <1>1, Invariance, PTL

(* The file a restart reads holds the session in use (_save, _load).       *)
THEOREM SavedCurrent == Spec => []SavedIsCurrent
<1>1. IInv => SavedIsCurrent
  BY DEF IInv
<1> QED
  BY <1>1, Invariance, PTL

(* A challenge drops no session that its WebUI still honours               *)
(* (_session_fault, _probe_sync).                                          *)
THEOREM HonouredKept == Spec => HonouredIsKept
<1> DEFINE Keeps == (jar' # jar /\ state' = "expired" /\ ~torn')
                    => \/ ~(cookie[jar] \in honoured /\ issuer[cookie[jar]] = base)
                       \/ \E t \in Threads : /\ thread[t].pc = "told" /\ thread'[t] = Resting
                                              /\ thread[t].jar = jar /\ thread[t].cookie # cookie[jar]
<1>1. IInv /\ [Next]_vars => [Keeps]_vars
  BY HonouredStep DEF IInv
<1> QED
  BY <1>1, Invariance, PTL DEF Spec, HonouredIsKept

=============================================================================
