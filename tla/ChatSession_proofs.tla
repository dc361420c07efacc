-------------------------- MODULE ChatSession_proofs --------------------------
(***************************************************************************)
(* What holds of ChatSession for any number of requests.                   *)
(***************************************************************************)
EXTENDS ChatSession, TLAPS

Chat == {"attempt", "retry"}
Account == {"refresh", "login"}

(* Only a request that waits for it is given an answer.                    *)
AnswersAwaited == \A a \in answers : pc[a.from] = a.kind

(* A session on its way to the holder of the lock is later than the stored *)
(* one.                                                                    *)
AnswersNewer ==
  \A a \in answers : a.kind \in Account => a.body.code = "ok" /\ a.body.session > access

(* No request has used a token later than the stored one, and one that is  *)
(* about to retry, an earlier one.                                         *)
UsedBehind ==
  \A r \in Requests : used[r] <= access /\ (pc[r] = "reread" => used[r] < access)

SessionInv == TypeOK /\ AnswersAwaited /\ AnswersNewer /\ UsedBehind /\ SingleFlight

-----------------------------------------------------------------------------
(* At most one chat call of a request can still be carried out, and none   *)
(* once one has been.                                                      *)
OneChatCall ==
  \A c, d \in calls :
    c.kind \in Chat => carried[c.from] = 0 /\ (d.kind \in Chat /\ c.from = d.from => c = d)

(* The request has not been carried out and will not be, unless it is sent *)
(* again.                                                                  *)
NotCarried(r) == carried[r] = 0 /\ \A c \in calls : ~(c.from = r /\ c.kind \in Chat)

PlacesNotCarried ==
  \A r \in Requests :
    pc[r] \in {"start", "check", "wait", "refresh", "login", "reread"} => NotCarried(r)

ChatAnswers ==
  \A a \in answers :
    a.kind \in Chat =>
      /\ a.body.code = "ok" => carried[a.from] = 1
      /\ a.body.code = "expired" => NotCarried(a.from) /\ used[a.from] \notin live

(* The chat call under way carries the token that the request remembers.   *)
CallsUsed == \A c \in calls : c.kind \in Chat /\ pc[c.from] = c.kind => c.token = used[c.from]

CarryInv == OneChatCall /\ PlacesNotCarried /\ ChatAnswers /\ CallsUsed /\ CarriedOnce /\ FailsForCause

-----------------------------------------------------------------------------
(* A good answer to the holder of the lock brings a later session.         *)
LEMMA GoodOutcome ==
  ASSUME TypeOK, AnswersNewer, NEW r \in Requests, pc[r] \in Account,
         NEW o \in Outcomes(r), o.code = "ok"
  PROVE  o.session \in 1..issued /\ o.refresh \in 0..issued /\ o.session > access
<1>1. PICK a \in answers : a.from = r /\ a.kind = pc[r] /\ o = a.body
  BY DEF Outcomes, Failure
<1>2. a.body \in Body
  BY DEF TypeOK
<1>3. o.session \in 0..issued /\ o.refresh \in 0..issued
  BY <1>1, <1>2 DEF Body
<1>4. o.session > access
  BY <1>1 DEF AnswersNewer
<1> QED
  BY <1>3, <1>4 DEF TypeOK

(* Every step keeps every variable in its set.                             *)
LEMMA TypeStep == TypeOK /\ AnswersNewer /\ [Next]_vars => TypeOK'
<1> SUFFICES ASSUME TypeOK, AnswersNewer, [Next]_vars PROVE TypeOK'
  OBVIOUS
<1> USE SessionAssumption DEF TypeOK, Body, client, server, Waiting, Kept, Ended
<1>1. CASE WithRefreshToken
  BY <1>1 DEF WithRefreshToken, Contended
<1>2. CASE WithCredentials
  BY <1>2 DEF WithCredentials, Contended
<1>3. ASSUME NEW r \in Requests, Attempt(r) PROVE TypeOK'
  BY <1>3 DEF Attempt, SendWithToken, Send, Goto
<1>4. ASSUME NEW r \in Requests, AttemptAnswered(r) PROVE TypeOK'
  BY <1>4 DEF AttemptAnswered, Heard, Goto
<1>5. ASSUME NEW r \in Requests, CheckRefresh(r) PROVE TypeOK'
  BY <1>5 DEF CheckRefresh, Goto
<1>6. ASSUME NEW r \in Requests, AlreadyRefreshed(r) PROVE TypeOK'
  BY <1>6 DEF AlreadyRefreshed, Goto
<1>7. ASSUME NEW r \in Requests, BuildFails(r) PROVE TypeOK'
  BY <1>7 DEF BuildFails, Goto
<1>8. ASSUME NEW r \in Requests, StartRefresh(r) PROVE TypeOK'
  BY <1>8 DEF StartRefresh, Send, Goto
<1>9. ASSUME NEW r \in Requests, StartLogin(r) PROVE TypeOK'
  BY <1>9 DEF StartLogin, Send, Goto
<1>10. ASSUME NEW r \in Requests, NoMeans(r) PROVE TypeOK'
  BY <1>10 DEF NoMeans, Goto
<1>11. ASSUME NEW r \in Requests, RefreshAnswered(r) PROVE TypeOK'
  <2>1. PICK o \in Outcomes(r) :
          \/ o.code = "ok" /\ Store(o) /\ Goto(r, "reread") /\ UNCHANGED calls
          \/ o.code # "ok" /\ Send(r, "login", 0) /\ UNCHANGED client
    BY <1>11 DEF RefreshAnswered
  <2>2. CASE o.code = "ok"
    <3>1. o.session \in 1..issued /\ o.refresh \in 0..issued
      BY <1>11, <2>2, GoodOutcome DEF RefreshAnswered, Account
    <3> QED
      BY <1>11, <2>1, <2>2, <3>1 DEF RefreshAnswered, Store, Heard, Goto
  <2>3. CASE o.code # "ok"
    BY <1>11, <2>1, <2>3 DEF RefreshAnswered, Send, Heard, Goto
  <2> QED
    BY <2>2, <2>3
<1>12. ASSUME NEW r \in Requests, LoginAnswered(r) PROVE TypeOK'
  <2>1. PICK o \in Outcomes(r) :
          \/ o.code = "ok" /\ Store(o) /\ Goto(r, "reread") /\ UNCHANGED hit
          \/ /\ o.code # "ok"
             /\ writer' = NoOne /\ Goto(r, "refreshFailed") /\ hit' = hit \cup {r}
             /\ UNCHANGED <<access, refresh, creds>>
    BY <1>12 DEF LoginAnswered
  <2>2. CASE o.code = "ok"
    <3>1. o.session \in 1..issued /\ o.refresh \in 0..issued
      BY <1>12, <2>2, GoodOutcome DEF LoginAnswered, Account
    <3> QED
      BY <1>12, <2>1, <2>2, <3>1 DEF LoginAnswered, Store, Heard, Goto
  <2>3. CASE o.code # "ok"
    BY <1>12, <2>1, <2>3 DEF LoginAnswered, Heard, Goto
  <2> QED
    BY <2>2, <2>3
<1>13. ASSUME NEW r \in Requests, Retry(r) PROVE TypeOK'
  BY <1>13 DEF Retry, SendWithToken, Send, Goto
<1>14. ASSUME NEW r \in Requests, RetryAnswered(r) PROVE TypeOK'
  BY <1>14 DEF RetryAnswered, Heard, Goto
<1>15. ASSUME NEW r \in Requests, Cancel(r) PROVE TypeOK'
  BY <1>15 DEF Cancel, Heard, Goto
<1>16. CASE Answer
  <2>1. PICK c \in calls : Serve(c) \/ RefreshSession(c) \/ CreateSession(c)
    BY <1>16 DEF Answer
  <2>2. c.from \in Requests /\ c.kind \in Waiting
    OBVIOUS
  <2> USE <1>16, <2>2 DEF Answer
  <2>3. CASE Serve(c)
    BY <2>3 DEF Serve, Reply
  <2>4. ASSUME NEW replaced, Issue(c, replaced) PROVE TypeOK'
    <3>1. issued' = issued + 1 /\ live' = live \cup {issued + 1} /\ UNCHANGED carried
      BY <2>4 DEF Issue
    <3>2. answers' \subseteq [from : Requests, kind : Waiting, body : Body']
      <4> HIDE DEF Waiting
      <4>1. answers \subseteq [from : Requests, kind : Waiting, body : Body']
        BY <3>1
      <4>2. \A b \in answers' : b \in answers \/
              \E token \in {0, issued + 1} :
                b = [from |-> c.from, kind |-> c.kind,
                     body |-> [code |-> "ok", session |-> issued + 1, refresh |-> token]]
        BY <2>4 DEF Issue, Reply
      <4> QED
        BY <3>1, <4>1, <4>2
    <3>3. /\ calls' \subseteq calls
          /\ refreshable' \subseteq 1..issued'
      <4>1. calls' \subseteq calls
        BY <2>4 DEF Issue, Reply
      <4>2. refreshable' \subseteq refreshable \cup {issued + 1}
        BY <2>4 DEF Issue
      <4> QED
        BY <3>1, <4>1, <4>2
    <3>4. calls' \subseteq [from : Requests, kind : Waiting, token : 0..issued']
      BY <3>1, <3>3
    <3>5. live' \subseteq 1..issued' /\ used' \in [Requests -> 0..issued']
      BY <3>1
    <3> QED
      BY <3>1, <3>2, <3>3, <3>4, <3>5
  <2> QED
    BY <2>1, <2>3, <2>4 DEF RefreshSession, CreateSession
<1>17. CASE Expire
  BY <1>17 DEF Expire
<1>18. CASE UNCHANGED vars
  BY <1>18 DEF vars
<1>19. QED
  BY <1>1, <1>2, <1>3, <1>4, <1>5, <1>6, <1>7, <1>8, <1>9, <1>10, <1>11, <1>12, <1>13,
     <1>14, <1>15, <1>16, <1>17, <1>18
  DEF Next, Step

-----------------------------------------------------------------------------
(* What the tokens do in a step: the stored one advances, and a request    *)
(* that starts its retry takes a later one.                                *)
Advances ==
  /\ access' >= access
  /\ \A r \in Requests : pc'[r] = "retry" /\ pc[r] # "retry" => used'[r] > used[r]

(* Every step preserves the invariant and advances the tokens: the lock    *)
(* keeps everybody else's hands off the tokens while its holder waits, so  *)
(* the session on its way to the holder is the latest.                     *)
LEMMA SessionStep == SessionInv /\ [Next]_vars => SessionInv' /\ Advances
<1> SUFFICES ASSUME SessionInv, [Next]_vars PROVE SessionInv' /\ Advances
  OBVIOUS
<1>0. TypeOK /\ TypeOK'
  BY TypeStep DEF SessionInv
<1> DEFINE Rest == AnswersAwaited' /\ AnswersNewer' /\ UsedBehind' /\ SingleFlight' /\ Advances
<1> USE <1>0 DEF SessionInv, TypeOK, AnswersAwaited, AnswersNewer, UsedBehind, SingleFlight,
                 Advances, Account, Chat, Waiting, client, server
<1>1. ASSUME WithRefreshToken PROVE Rest
  BY <1>1 DEF WithRefreshToken
<1>2. ASSUME WithCredentials PROVE Rest
  BY <1>2 DEF WithCredentials
<1>3. ASSUME NEW r \in Requests, Attempt(r) PROVE Rest
  BY <1>3 DEF Attempt, SendWithToken, Send, Goto
<1>4. ASSUME NEW r \in Requests, AttemptAnswered(r) PROVE Rest
  BY <1>4 DEF AttemptAnswered, Heard, Goto
<1>5. ASSUME NEW r \in Requests, CheckRefresh(r) PROVE Rest
  BY <1>5 DEF CheckRefresh, Goto
<1>6. ASSUME NEW r \in Requests, AlreadyRefreshed(r) PROVE Rest
  BY <1>6 DEF AlreadyRefreshed, Current, Goto
<1>7. ASSUME NEW r \in Requests, BuildFails(r) PROVE Rest
  BY <1>7 DEF BuildFails, Goto
<1>8. ASSUME NEW r \in Requests, StartRefresh(r) PROVE Rest
  BY <1>8 DEF StartRefresh, Current, Send, Goto
<1>9. ASSUME NEW r \in Requests, StartLogin(r) PROVE Rest
  BY <1>9 DEF StartLogin, Current, Send, Goto
<1>10. ASSUME NEW r \in Requests, NoMeans(r) PROVE Rest
  BY <1>10 DEF NoMeans, Goto
<1>11. ASSUME NEW r \in Requests, RefreshAnswered(r) PROVE Rest
  <2>1. PICK o \in Outcomes(r) :
          \/ o.code = "ok" /\ Store(o) /\ Goto(r, "reread") /\ UNCHANGED calls
          \/ o.code # "ok" /\ Send(r, "login", 0) /\ UNCHANGED client
    BY <1>11 DEF RefreshAnswered
  <2>2. CASE o.code = "ok"
    <3>1. o.session \in 1..issued /\ o.refresh \in 0..issued /\ o.session > access
      BY <1>11, <2>2, GoodOutcome DEF RefreshAnswered
    <3>2. access' = o.session /\ pc' = [pc EXCEPT ![r] = "reread"] /\ UNCHANGED used
      BY <1>11, <2>1, <2>2 DEF RefreshAnswered, Store, Goto
    <3>3. \A a \in answers' : a \in answers /\ a.from # r /\ a.kind \notin Account
      BY <1>11 DEF RefreshAnswered, Heard
    <3> QED
      BY <1>11, <3>1, <3>2, <3>3 DEF RefreshAnswered
  <2>3. CASE o.code # "ok"
    BY <1>11, <2>1, <2>3 DEF RefreshAnswered, Heard, Send, Goto
  <2> QED
    BY <2>2, <2>3
<1>12. ASSUME NEW r \in Requests, LoginAnswered(r) PROVE Rest
  <2>1. PICK o \in Outcomes(r) :
          \/ o.code = "ok" /\ Store(o) /\ Goto(r, "reread") /\ UNCHANGED hit
          \/ /\ o.code # "ok"
             /\ writer' = NoOne /\ Goto(r, "refreshFailed") /\ hit' = hit \cup {r}
             /\ UNCHANGED <<access, refresh, creds>>
    BY <1>12 DEF LoginAnswered
  <2>2. CASE o.code = "ok"
    <3>1. o.session \in 1..issued /\ o.refresh \in 0..issued /\ o.session > access
      BY <1>12, <2>2, GoodOutcome DEF LoginAnswered
    <3>2. access' = o.session /\ pc' = [pc EXCEPT ![r] = "reread"] /\ UNCHANGED used
      BY <1>12, <2>1, <2>2 DEF LoginAnswered, Store, Goto
    <3>3. \A a \in answers' : a \in answers /\ a.from # r /\ a.kind \notin Account
      BY <1>12 DEF LoginAnswered, Heard
    <3> QED
      BY <1>12, <3>1, <3>2, <3>3 DEF LoginAnswered
  <2>3. CASE o.code # "ok"
    BY <1>12, <2>1, <2>3 DEF LoginAnswered, Heard, Goto
  <2> QED
    BY <2>2, <2>3
<1>13. ASSUME NEW r \in Requests, Retry(r) PROVE Rest
  BY <1>13 DEF Retry, SendWithToken, Send, Goto
<1>14. ASSUME NEW r \in Requests, RetryAnswered(r) PROVE Rest
  BY <1>14 DEF RetryAnswered, Heard, Goto
<1>15. ASSUME NEW r \in Requests, Cancel(r) PROVE Rest
  BY <1>15 DEF Cancel, Heard, Goto
<1>16. ASSUME Answer PROVE Rest
  BY <1>16 DEF Answer, Serve, RefreshSession, CreateSession, Issue, Reply
<1>17. ASSUME Expire PROVE Rest
  BY <1>17 DEF Expire
<1>18. ASSUME UNCHANGED vars PROVE Rest
  BY <1>18 DEF vars
<1>19. QED
  <2>1. Rest
    BY <1>1, <1>2, <1>3, <1>4, <1>5, <1>6, <1>7, <1>8, <1>9, <1>10, <1>11, <1>12, <1>13,
       <1>14, <1>15, <1>16, <1>17, <1>18
    DEF Next, Step
  <2> QED
    BY <2>1

-----------------------------------------------------------------------------
(* Every step preserves what is known of the chat calls: the retry is sent *)
(* only when the first call has come back without being carried out.       *)
LEMMA CarryStep == SessionInv /\ CarryInv /\ [Next]_vars => CarryInv'
<1> SUFFICES ASSUME SessionInv, CarryInv, [Next]_vars PROVE CarryInv'
  OBVIOUS
<1>0. TypeOK /\ TypeOK' /\ AnswersAwaited
  BY SessionStep DEF SessionInv
<1> USE <1>0 DEF CarryInv, TypeOK, AnswersAwaited, OneChatCall, NotCarried, PlacesNotCarried,
                 ChatAnswers, CallsUsed, CarriedOnce, FailsForCause, Chat, Waiting, Kept, Ended,
                 client, server
<1>1. ASSUME WithRefreshToken PROVE CarryInv'
  BY <1>1 DEF WithRefreshToken
<1>2. ASSUME WithCredentials PROVE CarryInv'
  BY <1>2 DEF WithCredentials
<1>3. ASSUME NEW r \in Requests, Attempt(r) PROVE CarryInv'
  BY <1>3 DEF Attempt, SendWithToken, Send, Goto
<1>4. ASSUME NEW r \in Requests, AttemptAnswered(r) PROVE CarryInv'
  BY <1>4 DEF AttemptAnswered, Outcomes, Failure, Heard, Goto
<1>5. ASSUME NEW r \in Requests, CheckRefresh(r) PROVE CarryInv'
  BY <1>5 DEF CheckRefresh, Goto
<1>6. ASSUME NEW r \in Requests, AlreadyRefreshed(r) PROVE CarryInv'
  BY <1>6 DEF AlreadyRefreshed, Current, Goto
<1>7. ASSUME NEW r \in Requests, BuildFails(r) PROVE CarryInv'
  BY <1>7 DEF BuildFails, Goto
<1>8. ASSUME NEW r \in Requests, StartRefresh(r) PROVE CarryInv'
  BY <1>8 DEF StartRefresh, Current, Send, Goto
<1>9. ASSUME NEW r \in Requests, StartLogin(r) PROVE CarryInv'
  BY <1>9 DEF StartLogin, Current, Send, Goto
<1>10. ASSUME NEW r \in Requests, NoMeans(r) PROVE CarryInv'
  BY <1>10 DEF NoMeans, Goto
<1>11. ASSUME NEW r \in Requests, RefreshAnswered(r) PROVE CarryInv'
  BY <1>11 DEF RefreshAnswered, Heard, Send, Goto
<1>12. ASSUME NEW r \in Requests, LoginAnswered(r) PROVE CarryInv'
  BY <1>12 DEF LoginAnswered, Heard, Goto
<1>13. ASSUME NEW r \in Requests, Retry(r) PROVE CarryInv'
  BY <1>13 DEF Retry, SendWithToken, Send, Goto
<1>14. ASSUME NEW r \in Requests, RetryAnswered(r) PROVE CarryInv'
  <2>1. PICK o \in Outcomes(r) :
          /\ pc' = [pc EXCEPT ![r] = IF o.code = "ok" THEN "ok" ELSE "error"]
          /\ hit' = IF o.code = "failed" THEN hit \cup {r} ELSE hit
    BY <1>14 DEF RetryAnswered, Goto
  <2>2. \/ o.code = "failed"
        \/ o.code = "ok" /\ carried[r] = 1
        \/ o.code = "expired" /\ used[r] \notin live
    BY <1>14 DEF RetryAnswered, Outcomes, Failure, Body
  <2>3. FailsForCause'
    BY <1>14, <2>1, <2>2 DEF RetryAnswered
  <2>4. CarriedOnce' /\ PlacesNotCarried' /\ ChatAnswers'
    BY <1>14, <2>1, <2>2 DEF RetryAnswered, Heard
  <2> QED
    BY <1>14, <2>1, <2>3, <2>4 DEF RetryAnswered
<1>15. ASSUME NEW r \in Requests, Cancel(r) PROVE CarryInv'
  BY <1>15 DEF Cancel, Heard, Goto
<1>16. ASSUME Answer PROVE CarryInv'
  BY <1>16 DEF Answer, Serve, RefreshSession, CreateSession, Issue, Reply
<1>17. ASSUME Expire PROVE CarryInv'
  BY <1>17 DEF Expire
<1>18. ASSUME UNCHANGED vars PROVE CarryInv'
  BY <1>18 DEF vars
<1>19. QED
  BY <1>1, <1>2, <1>3, <1>4, <1>5, <1>6, <1>7, <1>8, <1>9, <1>10, <1>11, <1>12, <1>13,
     <1>14, <1>15, <1>16, <1>17, <1>18
  DEF Next, Step

-----------------------------------------------------------------------------
LEMMA SessionInit == Init => SessionInv /\ CarryInv
<1> SUFFICES ASSUME Init PROVE SessionInv /\ CarryInv
  OBVIOUS
<1> USE DEF Init
<1>1. TypeOK
  <2>1. pc \in [Requests -> Waiting \cup Kept \cup Ended]
    BY DEF Kept
  <2>2. used \in [Requests -> 0..issued] /\ carried \in [Requests -> Nat]
    OBVIOUS
  <2>3. \A r \in Requests : pc[r] \in {"refresh", "login"} <=> writer = r
    BY SessionAssumption
  <2>4. calls \subseteq [from : Requests, kind : Waiting, token : 0..issued]
    OBVIOUS
  <2>5. answers \subseteq [from : Requests, kind : Waiting, body : Body]
    OBVIOUS
  <2>6. creds \in BOOLEAN /\ writer \in Requests \cup {NoOne} /\ hit \subseteq Requests
    OBVIOUS
  <2>7. /\ issued \in Nat \ {0} /\ access \in 1..issued /\ refresh \in 0..issued
        /\ live \subseteq 1..issued /\ refreshable \subseteq 1..issued
    OBVIOUS
  <2> HIDE DEF Init
  <2> QED
    BY <2>1, <2>2, <2>3, <2>4, <2>5, <2>6, <2>7 DEF TypeOK
<1>2. AnswersAwaited /\ AnswersNewer /\ UsedBehind /\ SingleFlight
  BY DEF AnswersAwaited, AnswersNewer, UsedBehind, SingleFlight
<1>3. OneChatCall /\ PlacesNotCarried /\ ChatAnswers /\ CallsUsed
  BY DEF OneChatCall, PlacesNotCarried, NotCarried, ChatAnswers, CallsUsed
<1>4. CarriedOnce /\ FailsForCause
  BY DEF CarriedOnce, FailsForCause
<1> QED
  BY <1>1, <1>2, <1>3, <1>4 DEF SessionInv, CarryInv

LEMMA SessionAlways == Spec => [](SessionInv /\ CarryInv)
<1>1. SessionInv /\ CarryInv /\ [Next]_vars => (SessionInv /\ CarryInv)'
  BY SessionStep, CarryStep
<1> QED
  BY SessionInit, <1>1, PTL DEF Spec

(* The session's variables keep their sets, and the lock is held exactly   *)
(* during the calls to the account's server.                               *)
THEOREM SessionTypeCorrect == Spec => []TypeOK
<1>1. SessionInv => TypeOK
  BY DEF SessionInv
<1> QED
  BY SessionAlways, <1>1, PTL

(* Of the requests that fail with one token, one at a time refreshes, and  *)
(* only while the token is still the stored one.                           *)
THEOREM RefreshIsSingleFlight == Spec => []SingleFlight
<1>1. SessionInv => SingleFlight
  BY DEF SessionInv
<1> QED
  BY SessionAlways, <1>1, PTL

(* No answer brings an older access token back.                            *)
THEOREM StoredTokenAdvances == Spec => TokensAdvance
<1>1. SessionInv /\ [Next]_vars => [access' >= access]_access
  BY SessionStep DEF Advances
<1> QED
  BY SessionAlways, <1>1, PTL DEF Spec, TokensAdvance

(* A retry takes a later token than the one that was refused.              *)
THEOREM RetryTokenIsLater == Spec => RetryIsNewer
<1>1. SessionInv /\ [Next]_vars =>
        [\A r \in Requests : pc'[r] = "retry" /\ pc[r] # "retry" => used'[r] > used[r]]_vars
  BY SessionStep DEF Advances
<1> QED
  BY SessionAlways, <1>1, PTL DEF Spec, RetryIsNewer

(* The chat service carries no request out twice.                          *)
THEOREM RequestsCarriedOnce == Spec => []CarriedOnce
<1>1. CarryInv => CarriedOnce
  BY DEF CarryInv
<1> QED
  BY SessionAlways, <1>1, PTL

(* A request fails only through a fault of its own, or an expired retry.   *)
THEOREM RequestsFailForCause == Spec => []FailsForCause
<1>1. CarryInv => FailsForCause
  BY DEF CarryInv
<1> QED
  BY SessionAlways, <1>1, PTL
=============================================================================
