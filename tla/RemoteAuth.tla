----------------------------- MODULE RemoteAuth -----------------------------
(***************************************************************************)
(* RemoteWebUIAuth of hermes_bridge.py: the origin, cookie jar, status and *)
(* credential file of the remote WebUI session.  Its operations run in     *)
(* worker threads.  The lock guards the configuration and the file but is  *)
(* never held across a request, so an operation is a snapshot under the    *)
(* lock, a request without it, and an outcome applied under the lock: the  *)
(* three are separate actions here, and any number of other operations may *)
(* come between them.                                                      *)
(*                                                                         *)
(* A jar is an object: what matters is its identity and the WebUI session  *)
(* its cookie names.  The WebUIs are external; they issue, honour, end and *)
(* forget sessions.                                                        *)
(***************************************************************************)
EXTENDS Naturals

CONSTANTS
    Threads,     \* worker threads of asyncio.to_thread
    Jars,        \* identities of CookieJar objects
    NoJar,       \* the empty jar of a candidate's probe
    Urls,        \* normalized origins of WebUIs
    Open,        \* the WebUIs without a password
    NoUrl,       \* no origin configured
    EnvUrl,      \* HERMES_REMOTE_URL, or NoUrl
    MaxSession,  \* bound: sessions the WebUIs issue
    MaxOp,       \* bound: operations begun
    MaxFault     \* bound: requests lost, writes failed, restarts

Requests == {"json", "upload", "multipart", "contract", "sse"}
Operations == Requests \cup {"probe", "login", "logout"}
States == {"disconnected", "connecting", "connected", "expired", "error"}
Sources == {"none", "environment", "persisted"}
Sessions == 1 .. MaxSession

(* No credential file, and the memory of a thread that runs nothing.       *)
NoFile == [url |-> NoUrl, cookie |-> 0]
Resting == [pc |-> "rest", op |-> "probe", url |-> NoUrl, jar |-> NoJar,
            cookie |-> 0, reply |-> "none"]

ASSUME ConstantsAssumption ==
    /\ NoUrl \notin Urls /\ Open \subseteq Urls /\ EnvUrl \in Urls \cup {NoUrl}
    /\ MaxSession \in Nat /\ MaxOp \in Nat /\ MaxFault \in Nat
    /\ Jars # {} /\ NoJar \notin Jars

VARIABLES
    base,      \* base_url
    jar,       \* cookie_jar
    source,    \* source
    state,     \* _status["state"]
    shown,     \* _status["url"]
    cookie,    \* [Jars -> 0 .. MaxSession]: the session the jar's cookie names
    file,      \* the credential document, NoFile without one
    issuer,    \* [Sessions -> Urls \cup {NoUrl}]: who issued it, NoUrl before
    honoured,  \* the sessions the WebUIs still honour
    thread,    \* the worker threads
    torn,      \* history: a write of the credential file failed
    left,      \* history: signed out since the last sign-in
    renewed,   \* history: the sessions whose cookie an answer has replaced
    ops, faults

config == <<base, jar, source, state, shown>>
webui == <<issuer, honoured>>
vars == <<base, jar, source, state, shown, cookie, file, issuer, honoured,
          thread, torn, left, renewed, ops, faults>>

-----------------------------------------------------------------------------
(* Jars and the file. *)

Used == {jar} \cup {thread[t].jar : t \in Threads}
Free == Jars \ Used
FreshJar == CHOOSE j \in Free : TRUE

(* _save under the lock: the document is replaced, or writing it fails and *)
(* the exception leaves the statements after it undone (done' FALSE).      *)
_save(url, c, done) ==
    \/ /\ done
       /\ file' = [url |-> url, cookie |-> c]
       /\ UNCHANGED <<torn, faults>>
    \/ /\ ~done
       /\ faults < MaxFault /\ faults' = faults + 1
       /\ torn' = TRUE /\ UNCHANGED file

_delete_file(done) ==
    \/ /\ done
       /\ file' = NoFile
       /\ UNCHANGED <<torn, faults>>
    \/ /\ ~done
       /\ file # NoFile
       /\ faults < MaxFault /\ faults' = faults + 1
       /\ torn' = TRUE /\ UNCHANGED file

(* A saved cookie is dropped once its lifetime, which the WebUI sets to    *)
(* that of the session, is over.                                           *)
_cookie_from_row(c) == IF c \in honoured THEN {c} ELSE {c, 0}

(* __init__: the saved session, else the environment's origin, unchecked.  *)
_load(f, j) ==
    /\ base' = IF f # NoFile THEN f.url ELSE EnvUrl
    /\ source' = IF f # NoFile THEN "persisted"
                 ELSE IF EnvUrl # NoUrl THEN "environment" ELSE "none"
    /\ state' = "disconnected"
    /\ shown' = base'
    /\ jar' = j
    /\ \E c \in _cookie_from_row(f.cookie) : cookie' = [cookie EXCEPT ![j] = c]

Init ==
    /\ base = EnvUrl
    /\ source = IF EnvUrl # NoUrl THEN "environment" ELSE "none"
    /\ state = "disconnected" /\ shown = EnvUrl
    /\ jar = CHOOSE j \in Jars : TRUE
    /\ cookie = [j \in Jars |-> 0]
    /\ file = NoFile
    /\ issuer = [s \in Sessions |-> NoUrl] /\ honoured = {}
    /\ thread = [t \in Threads |-> Resting]
    /\ torn = FALSE /\ left = FALSE /\ renewed = {} /\ ops = 0 /\ faults = 0

(* The bridge is killed and starts again: its threads are gone.            *)
Restart ==
    /\ faults < MaxFault /\ faults' = faults + 1
    /\ thread' = [t \in Threads |-> Resting]
    /\ _load(file, jar)
    /\ UNCHANGED <<file, webui, torn, left, renewed, ops>>

-----------------------------------------------------------------------------
(* The WebUIs. *)

Honours(url, c) == url \in Open \/ (c \in honoured /\ issuer[c] = url)

(* A session ends on the server.                                           *)
Expire(s) ==
    /\ s \in honoured
    /\ honoured' = honoured \ {s}
    /\ UNCHANGED <<config, cookie, file, issuer, thread, torn, left, renewed, ops, faults>>

(* What comes back: the answer, a challenge in one of three forms, or none *)
(* of these.                                                               *)
Challenges == {"unauthorized", "loginPage", "redirectToLogin"}
Failures == {"redirectElsewhere", "errorStatus", "unreachable"}

(* A redirect to a login page is not followed but taken for a challenge;   *)
(* one to another origin is blocked.                                       *)
redirect_request(answer) ==
    CASE answer = "redirectToLogin"   -> "challenge"
      [] answer = "redirectElsewhere" -> "blocked"
      [] OTHER -> answer

_login_page_response(answer) == answer \in {"unauthorized", "loginPage"}

(* Any other error is one of the caller alone.                             *)
_http_error_fault(answer) == IF answer = "ok" THEN "ok" ELSE "lost"

Outcome(answer) ==
    LET a == redirect_request(answer)
    IN IF a = "challenge" \/ _login_page_response(a) THEN "challenge" ELSE _http_error_fault(a)

Reply(t, answer) ==
    thread' = [thread EXCEPT ![t].pc = IF thread[t].pc = "sent" THEN "told" ELSE "verified",
                             ![t].reply = Outcome(answer)]

(* A new session goes into the jar of the request (HTTPCookieProcessor).   *)
SetCookie(t, s) ==
    /\ issuer[s] = NoUrl /\ \A r \in 1 .. s - 1 : issuer[r] # NoUrl
    /\ issuer' = [issuer EXCEPT ![s] = thread[t].url]
    /\ honoured' = honoured \cup {s}
    /\ cookie' = [cookie EXCEPT ![thread[t].jar] = s]
    /\ Reply(t, "ok")

(* A sign-in with the right password issues a session; a wrong one is      *)
(* challenged.                                                             *)
ServeLogin(t) ==
    /\ thread[t].pc = "sent" /\ thread[t].op = "login"
    /\ \/ \E s \in Sessions : SetCookie(t, s)
       \/ /\ \E a \in Challenges : Reply(t, a)
          /\ UNCHANGED <<webui, cookie>>
    /\ UNCHANGED <<config, file, torn, left, renewed, ops, faults>>

(* Every other request carries the cookie the jar held when it was sent.   *)
(* A logout that is executed ends the session and clears the jar's cookie. *)
Serve(t) ==
    LET c == thread[t].cookie
    IN /\ thread[t].pc \in {"sent", "verify"}
       /\ thread[t].pc = "sent" => thread[t].op # "login"
       /\ \E a \in IF Honours(thread[t].url, c) THEN {"ok"} ELSE Challenges : Reply(t, a)
       /\ IF thread[t].op = "logout" /\ c \in honoured
            THEN /\ honoured' = honoured \ {c}
                 /\ cookie' = [cookie EXCEPT ![thread[t].jar] = 0]
            ELSE UNCHANGED <<honoured, cookie>>
       /\ UNCHANGED <<config, file, issuer, torn, left, renewed, ops, faults>>

(* The answer to any other request may also renew the session: the jar has *)
(* the new cookie, and nothing is saved.                                   *)
Renew(t) ==
    /\ thread[t].pc \in {"sent", "verify"} /\ thread[t].jar # NoJar
    /\ thread[t].pc = "sent" => thread[t].op \notin {"login", "logout"}
    /\ Honours(thread[t].url, thread[t].cookie)
    /\ \E s \in Sessions : SetCookie(t, s)
    /\ renewed' = renewed \cup ({cookie[thread[t].jar]} \ {0})
    /\ UNCHANGED <<config, file, torn, left, ops, faults>>

(* The WebUI cannot be reached, redirects elsewhere, or answers with an    *)
(* error; a lost logout may have been executed.                            *)
Lose(t) ==
    /\ thread[t].pc \in {"sent", "verify"}
    /\ faults < MaxFault /\ faults' = faults + 1
    /\ \E a \in Failures : Reply(t, a)
    /\ \/ UNCHANGED honoured
       \/ thread[t].op = "logout" /\ honoured' = honoured \ {thread[t].cookie}
    /\ UNCHANGED <<config, cookie, file, issuer, torn, left, renewed, ops>>

-----------------------------------------------------------------------------
(* The operations. *)

Rest(t) == thread' = [thread EXCEPT ![t] = Resting]

(* _request, up to the answer: the origin and jar of the caller.           *)
_request(t, op, u, j, c) ==
    thread' = [thread EXCEPT ![t] = [pc |-> "sent", op |-> op, url |-> u, jar |-> j,
                                     cookie |-> c, reply |-> "none"]]

Begin(t) ==
    /\ thread[t] = Resting /\ ops < MaxOp /\ ops' = ops + 1

(* _current_session: a request uses the session of the moment.             *)
_current_session(t, op) ==
    /\ Begin(t) /\ op \in Requests /\ base # NoUrl
    /\ _request(t, op, base, jar, cookie[jar])
    /\ UNCHANGED <<config, cookie, file, webui, torn, left, renewed, faults>>

(* Mutant: every expired session is written to the file. *)
_expire_session_locked_Always ==
    /\ Free # {}
    /\ jar' = FreshJar
    /\ cookie' = [cookie EXCEPT ![jar'] = 0]
    /\ \E done \in BOOLEAN :
         /\ IF base # NoUrl THEN _save(base, 0, done)
                                    ELSE done /\ UNCHANGED <<file, torn, faults>>
         /\ state' = IF done THEN "expired" ELSE state
         /\ shown' = IF done THEN base ELSE shown
    /\ UNCHANGED <<base, source>>

(* Mutant: the status is left as it was. *)
_expire_session_locked_Silent ==
    /\ Free # {}
    /\ jar' = FreshJar
    /\ cookie' = [cookie EXCEPT ![jar'] = 0]
    /\ \E done \in BOOLEAN :
         /\ IF source = "persisted" THEN _save(base, 0, done)
                                    ELSE done /\ UNCHANGED <<file, torn, faults>>
         /\ state' = state
         /\ shown' = IF done THEN base ELSE shown
    /\ UNCHANGED <<base, source>>

(* _expire_session_locked: a new jar, the file without the cookies, the    *)
(* status.  When the file cannot be written the status is left as it was.  *)
_expire_session_locked ==
    /\ Free # {}
    /\ jar' = FreshJar
    /\ cookie' = [cookie EXCEPT ![jar'] = 0]
    /\ \E done \in BOOLEAN :
         /\ IF source = "persisted" THEN _save(base, 0, done)
                                    ELSE done /\ UNCHANGED <<file, torn, faults>>
         /\ state' = IF done THEN "expired" ELSE state
         /\ shown' = IF done THEN base ELSE shown
    /\ UNCHANGED <<base, source>>

(* Mutant: a challenge expires whatever session is current. *)
_session_fault_Any(t) ==
    IF base # NoUrl
      THEN _expire_session_locked
      ELSE UNCHANGED <<config, cookie, file, torn, faults>>

(* _session_fault: the challenge expires the session the request used, if  *)
(* that is still the current one.                                          *)
_session_fault(t) ==
    IF base = thread[t].url /\ jar = thread[t].jar
      THEN _expire_session_locked
      ELSE UNCHANGED <<config, cookie, file, torn, faults>>

(* The outcome of a request: its answer, or a fault for the caller; a      *)
(* challenge is one of the session the request used.                       *)
Done(t, op) ==
    /\ thread[t].pc = "told" /\ thread[t].op = op
    /\ IF thread[t].reply = "challenge"
         THEN _session_fault(t)
         ELSE UNCHANGED <<config, cookie, file, torn, faults>>
    /\ Rest(t)
    /\ UNCHANGED <<webui, left, renewed, ops>>

_request_json_sync(t) == Done(t, "json")
_upload_file_sync(t) == Done(t, "upload")
_probe_multipart_route_sync(t) == Done(t, "multipart")
_probe_contract_sync(t) == Done(t, "contract")
open_sse(t) == Done(t, "sse")

(* _probe_sync: the configured origin with its jar, or a candidate with an *)
(* empty one; without an origin the status says so at once.                *)
BeginProbe(t, u) ==
    /\ Begin(t)
    /\ \/ /\ u = NoUrl
          /\ state' = "disconnected" /\ shown' = base
          /\ UNCHANGED thread
       \/ /\ u # NoUrl /\ u = base
          /\ _request(t, "probe", u, jar, cookie[jar])
          /\ UNCHANGED <<state, shown>>
       \/ /\ u # NoUrl /\ u # base
          /\ _request(t, "probe", u, NoJar, 0)
          /\ UNCHANGED <<state, shown>>
    /\ u = NoUrl => base = NoUrl
    /\ UNCHANGED <<base, jar, source, cookie, file, webui, torn, left, renewed, faults>>

(* _probe_base: what an answer to /api/auth/status says of the session.    *)
_probe_base(r) ==
    CASE r = "ok" -> "connected" [] r = "challenge" -> "expired" [] OTHER -> "error"

(* The end of _probe_sync: nothing for a candidate or a replaced session;  *)
(* an expired one loses its cookies, in the file as well.                  *)
ProbeDone(t) ==
    LET s       == _probe_base(thread[t].reply)
        current == base = thread[t].url /\ jar = thread[t].jar
    IN /\ thread[t].pc = "told" /\ thread[t].op = "probe"
       /\ \/ /\ ~current
             /\ UNCHANGED <<config, cookie, file, torn, faults>>
          \/ /\ current /\ s = "expired" /\ cookie[jar] # 0
             /\ _expire_session_locked
          \/ /\ current /\ ~(s = "expired" /\ cookie[jar] # 0)
             /\ state' = s /\ shown' = base
             /\ UNCHANGED <<base, jar, source, cookie, file, torn, faults>>
       /\ Rest(t)
       /\ UNCHANGED <<webui, left, renewed, ops>>

(* remote.auth.login: connecting_status on the event loop, then            *)
(* _login_sync with a jar of its own.                                      *)
connecting_status(t, u) ==
    /\ Begin(t) /\ u # NoUrl /\ Free # {}
    /\ state' = "connecting" /\ shown' = u
    /\ cookie' = [cookie EXCEPT ![FreshJar] = 0]
    /\ _request(t, "login", u, FreshJar, 0)
    /\ UNCHANGED <<base, jar, source, file, webui, torn, left, renewed, faults>>

(* The answer to the sign-in: accepted, it is checked with a probe; a      *)
(* rejection is the status of the origin it was for; else it just fails.   *)
LoginAnswered(t) ==
    /\ thread[t].pc = "told" /\ thread[t].op = "login"
    /\ \/ /\ thread[t].reply = "ok"
          /\ thread' = [thread EXCEPT ![t].pc = "verify",
                                      ![t].cookie = cookie[thread[t].jar]]
          /\ UNCHANGED <<state, shown>>
       \/ /\ thread[t].reply = "challenge"
          /\ IF base \in {thread[t].url, NoUrl}
               THEN state' = "expired" /\ shown' = thread[t].url
               ELSE UNCHANGED <<state, shown>>
          /\ Rest(t)
       \/ /\ thread[t].reply = "lost"
          /\ Rest(t) /\ UNCHANGED <<state, shown>>
    /\ UNCHANGED <<base, jar, source, cookie, file, webui, torn, left, renewed, ops, faults>>

(* Mutant: the committed session is not saved. *)
LoginVerified_Unsaved(t) ==
    /\ thread[t].pc = "verified"
    /\ IF thread[t].reply = "ok"
         THEN /\ base' = thread[t].url /\ jar' = thread[t].jar
              /\ source' = "persisted"
              /\ state' = "connected" /\ shown' = thread[t].url
              /\ left' = FALSE
              /\ UNCHANGED <<file, torn, faults>>
         ELSE UNCHANGED <<config, left, file, torn, faults>>
    /\ Rest(t)
    /\ UNCHANGED <<cookie, webui, renewed, ops>>

(* The end of _login_sync: a session the probe has confirmed is committed  *)
(* and saved; any other is dropped.                                        *)
LoginVerified(t) ==
    /\ thread[t].pc = "verified"
    /\ IF thread[t].reply = "ok"
         THEN /\ base' = thread[t].url /\ jar' = thread[t].jar
              /\ source' = "persisted"
              /\ state' = "connected" /\ shown' = thread[t].url
              /\ left' = FALSE
              /\ \E done \in BOOLEAN : _save(base', cookie[jar'], done)
         ELSE UNCHANGED <<config, left, file, torn, faults>>
    /\ Rest(t)
    /\ UNCHANGED <<cookie, webui, renewed, ops>>

(* _logout_sync: the session of the moment is ended on its WebUI ...       *)
BeginLogout(t) ==
    /\ Begin(t)
    /\ thread' = [thread EXCEPT ![t] =
         [pc |-> IF base = NoUrl THEN "told" ELSE "sent", op |-> "logout", url |-> base,
          jar |-> jar, cookie |-> cookie[jar], reply |-> "lost"]]
    /\ UNCHANGED <<config, cookie, file, webui, torn, left, renewed, faults>>

(* ... and whatever came of it, whatever session is current by then is     *)
(* forgotten.  When the file cannot be removed only the jar is gone.       *)
LogoutDone(t) ==
    /\ thread[t].pc = "told" /\ thread[t].op = "logout"
    /\ Free # {}
    /\ jar' = FreshJar
    /\ cookie' = [cookie EXCEPT ![jar'] = 0]
    /\ \E done \in BOOLEAN :
         /\ _delete_file(done)
         /\ IF done
              THEN /\ base' = EnvUrl /\ shown' = EnvUrl
                   /\ source' = IF EnvUrl # NoUrl THEN "environment" ELSE "none"
                   /\ state' = "disconnected"
                   /\ left' = TRUE
              ELSE UNCHANGED <<base, source, state, shown, left>>
    /\ Rest(t)
    /\ UNCHANGED <<webui, renewed, ops>>

-----------------------------------------------------------------------------

Next ==
    \/ Restart
    \/ \E s \in Sessions : Expire(s)
    \/ \E t \in Threads : ServeLogin(t)
    \/ \E t \in Threads : Serve(t)
    \/ \E t \in Threads : Renew(t)
    \/ \E t \in Threads : Lose(t)
    \/ \E t \in Threads, op \in Requests : _current_session(t, op)
    \/ \E t \in Threads : _request_json_sync(t)
    \/ \E t \in Threads : _upload_file_sync(t)
    \/ \E t \in Threads : _probe_multipart_route_sync(t)
    \/ \E t \in Threads : _probe_contract_sync(t)
    \/ \E t \in Threads : open_sse(t)
    \/ \E t \in Threads, u \in Urls \cup {NoUrl} : BeginProbe(t, u)
    \/ \E t \in Threads : ProbeDone(t)
    \/ \E t \in Threads, u \in Urls : connecting_status(t, u)
    \/ \E t \in Threads : LoginAnswered(t)
    \/ \E t \in Threads : LoginVerified(t)
    \/ \E t \in Threads : BeginLogout(t)
    \/ \E t \in Threads : LogoutDone(t)

Spec == Init /\ [][Next]_vars

-----------------------------------------------------------------------------
(* Properties. *)

Memories ==
    [pc : {"rest", "sent", "told", "verify", "verified"}, op : Operations,
     url : Urls \cup {NoUrl}, jar : Jars \cup {NoJar}, cookie : 0 .. MaxSession,
     reply : {"none", "ok", "challenge", "lost"}]

TypeOK ==
    /\ base \in Urls \cup {NoUrl} /\ shown \in Urls \cup {NoUrl}
    /\ jar \in Jars /\ source \in Sources /\ state \in States
    /\ cookie \in [Jars -> 0 .. MaxSession]
    /\ file \in [url : Urls \cup {NoUrl}, cookie : 0 .. MaxSession]
    /\ issuer \in [Sessions -> Urls \cup {NoUrl}] /\ honoured \subseteq Sessions
    /\ thread \in [Threads -> Memories]
    /\ torn \in BOOLEAN /\ left \in BOOLEAN /\ renewed \subseteq Sessions
    /\ ops \in Nat /\ faults \in Nat

(* A status of "connected" is about the session in use: the origin it      *)
(* shows is the configured one, and that WebUI issued the session in the   *)
(* jar, unless it needs none or a sign-out is about to drop the jar.  No   *)
(* overlapping probe, sign-in, sign-out or challenge, applied late, may    *)
(* leave it standing for another origin or an emptied jar.                 *)
ConnectedIsConfirmed ==
    (state = "connected" /\ ~torn)
    => /\ shown = base
       /\ \/ base \in Open
          \/ cookie[jar] # 0 /\ issuer[cookie[jar]] = base
          \/ \E t \in Threads : thread[t].op = "logout" /\ thread[t].jar = jar

(* Signing out is final: after it and before another sign-in there is no   *)
(* saved session to start from, whatever the threads that were still       *)
(* running then do.                                                        *)
SignedOutStaysOut == (left /\ ~torn) => file = NoFile

(* The saved session is the one in use, so a restart resumes it and never  *)
(* an older one that was replaced or expired by a sign-in, a sign-out or a *)
(* challenge.  A cookie that an answer has replaced is in the jar alone    *)
(* (renewed; section 5 of the README).                                     *)
SavedIsCurrent ==
    (file # NoFile /\ ~torn)
    => /\ file.url = base
       /\ file.cookie # cookie[jar] => file.cookie \notin honoured \ renewed

(* "its challenge ... must neither clear the replacement's cookies nor     *)
(* report the replacement as expired" (_session_fault): a session its      *)
(* WebUI still honours is not dropped as expired by an answer to a request *)
(* that used another.  The jar tells the two apart, so that the exception  *)
(* is a request whose cookie was replaced in its own jar while it was      *)
(* under way.                                                              *)
HonouredIsKept ==
    [][(jar' # jar /\ state' = "expired" /\ ~torn')
       => \/ ~(cookie[jar] \in honoured /\ issuer[cookie[jar]] = base)
          \/ \E t \in Threads : /\ thread[t].pc = "told" /\ thread'[t] = Resting
                                 /\ thread[t].jar = jar /\ thread[t].cookie # cookie[jar]]_vars

=============================================================================
