------------------------------ MODULE ChatSession ------------------------------
(***************************************************************************)
(* The session of the chat client of src/src/chat/client.rs: requests that *)
(* share one AuthState behind a read-write lock, find their access token   *)
(* expired, and refresh the session, or log in again, once for all.        *)
(*                                                                         *)
(* Sessions are numbered as the server issues them; the access token and   *)
(* the refresh token of session n are both n, and 0 is None.  A call and   *)
(* its answer travel separately: a caller may give up (10 s and 15 s       *)
(* timeouts, a lost connection) or be dropped, and the server may carry    *)
(* the call out nevertheless, at any later time.                           *)
(***************************************************************************)
EXTENDS Integers, FiniteSets

CONSTANTS
  Requests,   \* calls of send_request, each made once
  NoOne       \* the lock is free

ASSUME SessionAssumption == NoOne \notin Requests

VARIABLES
  access, refresh, creds,   \* AuthState
  writer,                   \* the request that holds the write lock
  pc,                       \* request -> where it is, or how it ended
  used,                     \* request -> the token of its last attempt
  calls, answers,           \* on their way to the server, and back
  issued,                   \* the sessions issued so far
  live,                     \* the access tokens the server accepts
  refreshable,              \* the refresh tokens it accepts
  carried,                  \* request -> how often the chat service did it
  hit                       \* requests one of whose own calls failed

client == <<access, refresh, creds, writer>>
server == <<issued, live, refreshable, carried>>
vars == <<client, pc, used, calls, answers, server, hit>>

Waiting == {"attempt", "refresh", "login", "retry"}
Ended == {"ok", "error", "unauthorized", "refreshFailed", "noMeans", "cancelled"}
Kept == {"start", "check", "wait", "reread"}

-----------------------------------------------------------------------------
(* What a call gives the request: the server's answer, or a failure, which *)
(* may come although the server has answered.  It stands for all that the  *)
(* code treats alike: a lost connection, a timeout, a status that does not *)
(* say the token has expired (or a 400 whose body was lost), an answer     *)
(* that does not parse.                                                    *)
Failure == [code |-> "failed", session |-> 0, refresh |-> 0]
Outcomes(r) == {a.body : a \in {b \in answers : b.from = r /\ b.kind = pc[r]}} \cup {Failure}

Goto(r, place) == pc' = [pc EXCEPT ![r] = place]

(* The request gets the outcome of its call and forgets the call.          *)
Heard(r) == answers' = {a \in answers : a.from # r}

Send(r, kind, token) ==
  /\ Goto(r, kind)
  /\ calls' = calls \cup {[from |-> r, kind |-> kind, token |-> token]}

-----------------------------------------------------------------------------
(* new: the token of the session 1, nothing else.                          *)
Init ==
  /\ access = 1 /\ refresh = 0 /\ creds = FALSE /\ writer = NoOne
  /\ pc = [r \in Requests |-> "start"]
  /\ used = [r \in Requests |-> 0]
  /\ calls = {} /\ answers = {}
  /\ issued = 1 /\ live = {1} /\ refreshable = {1}
  /\ carried = [r \in Requests |-> 0]
  /\ hit = {}

(* The builder calls, on the client or on a clone of it, which shares the  *)
(* AuthState: try_write gives up silently when a request holds the lock,   *)
(* or is just passing through it.                                          *)
Contended == writer # NoOne \/ \E r \in Requests : pc[r] \in {"check", "wait", "reread"}

WithRefreshToken ==
  /\ \/ writer = NoOne /\ refresh' = 1
     \/ Contended /\ UNCHANGED refresh
  /\ UNCHANGED <<access, creds, writer, pc, used, calls, answers, server, hit>>

WithCredentials ==
  /\ \/ writer = NoOne /\ creds' = TRUE
     \/ Contended /\ UNCHANGED creds
  /\ UNCHANGED <<access, refresh, writer, pc, used, calls, answers, server, hit>>

-----------------------------------------------------------------------------
(* send_request, up to its first await on the network, and the retry.      *)
SendWithToken(r, kind) ==
  /\ writer = NoOne
  /\ used' = [used EXCEPT ![r] = access]
  /\ Send(r, kind, access)
  /\ UNCHANGED <<client, answers, server, hit>>

Attempt(r) == pc[r] = "start" /\ SendWithToken(r, "attempt")
Retry(r) == pc[r] = "reread" /\ SendWithToken(r, "retry")

(* Faulty variant: a failure is repeated as an expired token is.           *)
AttemptRetriesFailure(r) ==
  /\ pc[r] = "attempt"
  /\ \E o \in Outcomes(r) : Goto(r, IF o.code = "ok" THEN "ok" ELSE "check")
  /\ Heard(r)
  /\ UNCHANGED <<client, used, calls, server, hit>>

AttemptAnswered(r) ==
  /\ pc[r] = "attempt"
  /\ \E o \in Outcomes(r) :
       \/ o.code = "ok" /\ Goto(r, "ok") /\ UNCHANGED hit
       \/ o.code = "expired" /\ Goto(r, "check") /\ UNCHANGED hit
       \/ o.code = "failed" /\ Goto(r, "error") /\ hit' = hit \cup {r}
  /\ Heard(r)
  /\ UNCHANGED <<client, used, calls, server>>

RetryAnswered(r) ==
  /\ pc[r] = "retry"
  /\ \E o \in Outcomes(r) :
       /\ Goto(r, IF o.code = "ok" THEN "ok" ELSE "error")
       /\ hit' = IF o.code = "failed" THEN hit \cup {r} ELSE hit
  /\ Heard(r)
  /\ UNCHANGED <<client, used, calls, server>>

(* can_refresh.                                                            *)
CanRefresh == refresh # 0 \/ creds

CheckRefresh(r) ==
  /\ pc[r] = "check"
  /\ writer = NoOne
  /\ Goto(r, IF CanRefresh THEN "wait" ELSE "unauthorized")
  /\ UNCHANGED <<client, used, calls, answers, server, hit>>

-----------------------------------------------------------------------------
(* refresh_session_or_relogin.  The lock is free, the request takes it.    *)
CurrentUnchecked(r) == TRUE   \* faulty variant
Current(r) == access = used[r]

(* Somebody has replaced the token in the meantime.                        *)
AlreadyRefreshed(r) ==
  /\ pc[r] = "wait" /\ writer = NoOne
  /\ ~Current(r)
  /\ Goto(r, "reread")
  /\ UNCHANGED <<client, used, calls, answers, server, hit>>

BuildFails(r) ==
  /\ pc[r] = "wait" /\ writer = NoOne
  /\ Current(r)
  /\ Goto(r, "refreshFailed")
  /\ hit' = hit \cup {r}
  /\ UNCHANGED <<client, used, calls, answers, server>>

(* Faulty variant: the lock is released before the call.                   *)
StartRefreshUnlocked(r) ==
  /\ pc[r] = "wait" /\ writer = NoOne
  /\ Current(r)
  /\ refresh # 0 /\ creds
  /\ Send(r, "refresh", refresh)
  /\ UNCHANGED <<client, used, answers, server, hit>>

StartRefresh(r) ==
  /\ pc[r] = "wait" /\ writer = NoOne
  /\ Current(r)
  /\ refresh # 0 /\ creds
  /\ writer' = r
  /\ Send(r, "refresh", refresh)
  /\ UNCHANGED <<access, refresh, creds, used, answers, server, hit>>

StartLogin(r) ==
  /\ pc[r] = "wait" /\ writer = NoOne
  /\ Current(r)
  /\ refresh = 0 /\ creds
  /\ writer' = r
  /\ Send(r, "login", 0)
  /\ UNCHANGED <<access, refresh, creds, used, answers, server, hit>>

(* A refresh token without credentials does not do.                        *)
NoMeans(r) ==
  /\ pc[r] = "wait" /\ writer = NoOne
  /\ Current(r)
  /\ ~creds
  /\ Goto(r, "noMeans")
  /\ UNCHANGED <<client, used, calls, answers, server, hit>>

(* Faulty variants: the guard leaks; only the refresh token is stored.     *)
StoreKeepsLock(o) ==
  /\ access' = o.session
  /\ refresh' = IF o.refresh # 0 THEN o.refresh ELSE refresh
  /\ UNCHANGED <<creds, writer>>
StoreRefreshOnly(o) ==
  /\ refresh' = IF o.refresh # 0 THEN o.refresh ELSE refresh
  /\ writer' = NoOne
  /\ UNCHANGED <<access, creds>>

(* The tokens of a successful answer; an absent or blank refresh token     *)
(* leaves the old one.                                                     *)
Store(o) ==
  /\ access' = o.session
  /\ refresh' = IF o.refresh # 0 THEN o.refresh ELSE refresh
  /\ writer' = NoOne
  /\ UNCHANGED creds

(* Faulty variant: a failed refresh is final.                              *)
RefreshGivesUp(r) ==
  /\ pc[r] = "refresh"
  /\ \E o \in Outcomes(r) :
       \/ o.code = "ok" /\ Store(o) /\ Goto(r, "reread")
       \/ /\ o.code # "ok"
          /\ Goto(r, "refreshFailed")
          /\ writer' = NoOne
          /\ UNCHANGED <<access, refresh, creds>>
  /\ Heard(r)
  /\ UNCHANGED <<used, calls, server, hit>>

RefreshAnswered(r) ==
  /\ pc[r] = "refresh"
  /\ \E o \in Outcomes(r) :
       \/ o.code = "ok" /\ Store(o) /\ Goto(r, "reread") /\ UNCHANGED calls
       \/ o.code # "ok" /\ Send(r, "login", 0) /\ UNCHANGED client
  /\ Heard(r)
  /\ UNCHANGED <<used, server, hit>>

LoginAnswered(r) ==
  /\ pc[r] = "login"
  /\ \E o \in Outcomes(r) :
       \/ o.code = "ok" /\ Store(o) /\ Goto(r, "reread") /\ UNCHANGED hit
       \/ /\ o.code # "ok"
          /\ writer' = NoOne
          /\ Goto(r, "refreshFailed")
          /\ hit' = hit \cup {r}
          /\ UNCHANGED <<access, refresh, creds>>
  /\ Heard(r)
  /\ UNCHANGED <<used, calls, server>>

(* Faulty variant: a cancelled request leaves the lock taken.              *)
CancelKeepsLock(r) ==
  /\ pc[r] \notin Ended \cup {"start"}
  /\ Goto(r, "cancelled")
  /\ Heard(r)
  /\ UNCHANGED <<client, used, calls, server, hit>>

(* The caller drops the future at an await; a guard it holds goes with it. *)
Cancel(r) ==
  /\ pc[r] \notin Ended \cup {"start"}
  /\ Goto(r, "cancelled")
  /\ writer' = IF writer = r THEN NoOne ELSE writer
  /\ Heard(r)
  /\ UNCHANGED <<access, refresh, creds, used, calls, server, hit>>

-----------------------------------------------------------------------------
(* The server answers the call, if the caller still waits.                 *)
Reply(c, code, session, token) ==
  /\ calls' = calls \ {c}
  /\ answers' =
       IF pc[c.from] = c.kind
       THEN answers \cup {[from |-> c.from, kind |-> c.kind,
                           body |-> [code |-> code, session |-> session, refresh |-> token]]}
       ELSE answers

(* A chat request is carried out only with a live token.  That the server  *)
(* fails to is the Failure of the client.                                  *)
Serve(c) ==
  /\ c.kind \in {"attempt", "retry"}
  /\ IF c.token \in live
     THEN Reply(c, "ok", 0, 0) /\ carried' = [carried EXCEPT ![c.from] = @ + 1]
     ELSE Reply(c, "expired", 0, 0) /\ UNCHANGED carried
  /\ UNCHANGED <<issued, live, refreshable>>

(* A new session, with a refresh token in the answer or without.           *)
Issue(c, replaced) ==
  LET n == issued + 1
  IN /\ issued' = n
     /\ live' = live \cup {n}
     /\ \/ Reply(c, "ok", n, n) /\ refreshable' = (refreshable \ replaced) \cup {n}
        \/ Reply(c, "ok", n, 0) /\ UNCHANGED refreshable
     /\ UNCHANGED carried

RefreshSession(c) == c.kind = "refresh" /\ c.token \in refreshable /\ Issue(c, {c.token})
CreateSession(c) == c.kind = "login" /\ Issue(c, {})

Answer ==
  /\ \E c \in calls : Serve(c) \/ RefreshSession(c) \/ CreateSession(c)
  /\ UNCHANGED <<client, pc, used, hit>>

(* An access token runs out, or is revoked.  That a refresh token does is  *)
(* the Failure of the call that uses it.                                   *)
Expire ==
  /\ \E n \in live : live' = live \ {n}
  /\ UNCHANGED <<client, pc, used, calls, answers, issued, refreshable, carried, hit>>

-----------------------------------------------------------------------------
Step(r) ==
  \/ AttemptAnswered(r) \/ CheckRefresh(r)
  \/ AlreadyRefreshed(r) \/ BuildFails(r) \/ StartRefresh(r) \/ StartLogin(r) \/ NoMeans(r)
  \/ RefreshAnswered(r) \/ LoginAnswered(r)
  \/ Retry(r) \/ RetryAnswered(r)

Next ==
  \/ WithRefreshToken \/ WithCredentials
  \/ \E r \in Requests : Attempt(r) \/ Step(r) \/ Cancel(r)
  \/ Answer \/ Expire

Spec == Init /\ [][Next]_vars

(* The runtime polls a request that can go on, and the timeouts of the     *)
(* HTTP clients end every wait for an answer.                              *)
FairSpec == Spec /\ \A r \in Requests : WF_vars(Step(r))

-----------------------------------------------------------------------------
(* Every variable stays in its set; the lock is held exactly during the    *)
(* calls to the account's server.                                          *)
Body == [code : {"ok", "expired"},
         session : 0..issued, refresh : 0..issued]

TypeOK ==
  /\ issued \in Nat \ {0} /\ access \in 1..issued /\ refresh \in 0..issued
  /\ creds \in BOOLEAN
  /\ writer \in Requests \cup {NoOne}
  /\ pc \in [Requests -> Waiting \cup Kept \cup Ended]
  /\ used \in [Requests -> 0..issued]
  /\ calls \subseteq [from : Requests, kind : Waiting, token : 0..issued]
  /\ answers \subseteq [from : Requests, kind : Waiting, body : Body]
  /\ live \subseteq 1..issued /\ refreshable \subseteq 1..issued
  /\ carried \in [Requests -> Nat]
  /\ hit \subseteq Requests
  /\ \A r \in Requests : pc[r] \in {"refresh", "login"} <=> writer = r

(* Single flight: a request that talks to the account's server is alone in *)
(* doing so, and it does so for the token that everyone still uses: of the *)
(* requests that fail with one token, no second one replaces its successor.*)
SingleFlight ==
  \A r, s \in Requests :
    pc[r] \in {"refresh", "login"} =>
      /\ used[r] = access
      /\ pc[s] \in {"refresh", "login"} => r = s

(* The stored access token is only replaced by one of a later session: no  *)
(* answer that was overtaken by another brings an older token back.        *)
TokensAdvance == [][access' >= access]_access

(* A retry never repeats the token that has just been refused.             *)
RetryIsNewer ==
  [][\A r \in Requests : pc'[r] = "retry" /\ pc[r] # "retry" => used'[r] > used[r]]_vars

(* The chat service carries a request out at most once, retry included,    *)
(* and exactly once when the caller is told that it succeeded: no message  *)
(* is sent twice because a token ran out.                                  *)
CarriedOnce ==
  \A r \in Requests : carried[r] <= 1 /\ (pc[r] = "ok" => carried[r] = 1)

(* A request that fails with an error of a call has met a fault of its own *)
(* chat or login call, or the token of its retry was dead again: a failed  *)
(* refresh falls back to a login, and lost rotations and cancelled         *)
(* neighbours do no harm.  Nothing is said of requests that are refused    *)
(* for want of any means to refresh ("noMeans"), whatever the cause.       *)
FailsForCause ==
  \A r \in Requests :
    /\ pc[r] = "refreshFailed" => r \in hit
    /\ pc[r] = "error" => r \in hit \/ used[r] \notin live

(* Every request that was begun ends: nobody waits for the lock for ever,  *)
(* whoever is cancelled, refused or lost while holding it.                 *)
RequestsEnd == \A r \in Requests : pc[r] # "start" ~> pc[r] \in Ended

(* A refresh token suffices for the automatic refresh: no request is told  *)
(* that there is nothing to refresh with while one is configured.          *)
RefreshTokenSuffices ==
  [][\A r \in Requests : pc'[r] = "noMeans" /\ pc[r] # "noMeans" => refresh = 0]_vars
=============================================================================
