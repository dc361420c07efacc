------------------------ MODULE PdsRepoClient_proofs ------------------------
(***************************************************************************)
(* What holds of PdsRepoClient for any number of calls, servers and nonces.*)
(***************************************************************************)
EXTENDS PdsRepoClient, TLAPS

(* A call that is under way is at one of the servers and has no result, a  *)
(* call that may be sent has an attempt left, and one that has returned    *)
(* remembers no nonce.                                                     *)
PlacesOK ==
  \A r \in Requests :
    /\ Underway(r) => reqs[r].origin \in Origins
    /\ reqs[r].at # "done" => reqs[r].result = "none"
    /\ reqs[r].at = "new" => reqs[r] = NewRequest
    /\ reqs[r].at = "ready" => reqs[r].attempts <= 1
    /\ reqs[r].at \in Awaiting => reqs[r].attempts >= 1
    /\ reqs[r].at \in {"answered", "reading"} => reqs[r].reply.kind # "none"

PdsTypeInv == PdsTypeOK /\ PlacesOK

(* Every nonce is kept, accepted and offered by its own server.            *)
NoncesHome ==
  /\ \A o \in Origins : current[o].origin = o
  /\ \A o \in Origins : cache[o] # NoNonce => cache[o].origin = o
  /\ \A r \in Requests :
       reqs[r].at = "answered" /\ reqs[r].reply.nonce # NoNonce =>
         reqs[r].reply.nonce.origin = reqs[r].origin

(* A call that has been carried out n times: once when the answer it has   *)
(* or waits to read says so, and never before.                             *)
CarriedOK(q, n) ==
  /\ q.at \in {"new", "ready", "flying"} => n = 0
  /\ q.at \in {"answered", "reading"} => n = IF q.reply.kind = "ok" THEN 1 ELSE 0
  /\ n <= 1
  /\ q.result = "ok" => n = 1

CarriedInv == \A r \in Requests : CarriedOK(reqs[r], carried[r])

(* A call nobody has got in the way of has the nonce its server accepts at *)
(* hand once it has been challenged: "fresh" is what the cache has.        *)
Prepared(q, fresh, accepted) ==
  /\ q.at = "ready" => q.attempts = 0 \/ fresh = accepted
  /\ q.at = "flying" => q.attempts = 1 \/ q.nonce = accepted
  /\ q.at = "answered" /\ q.reply.kind = "challenge" =>
       q.attempts = 1 /\ q.reply.nonce = accepted
  /\ q.at = "reading" /\ q.reply.kind = "challenge" => q.attempts = 1 /\ fresh = accepted
  /\ q.result \notin {"limit", "omitted"}

PreparedCall(r) == Prepared(reqs[r], cache[reqs[r].origin], current[reqs[r].origin])
CauseInv == \A r \in Requests \ excused : PreparedCall(r)

-----------------------------------------------------------------------------
(* A call that is begun is turned down or made ready for some server.      *)
LEMMA BeginCases ==
  ASSUME NEW r \in Requests,
         \/ CreateRecord(r) \/ DeleteRecord(r) \/ PutRecord(r) \/ GetRecord(r) \/ UploadBlob(r)
  PROVE  \E reads, sound \in BOOLEAN : Begin(r, reads, sound)
BY DEF CreateRecord, DeleteRecord, PutRecord, GetRecord, UploadBlob, Rkeys

(* The steps of the client and its servers, one by one.                    *)
LEMMA StepCases ==
  ASSUME [PdsNext]_pdsVars
  PROVE  \/ \E r \in Requests : \/ \E reads, sound \in BOOLEAN : Begin(r, reads, sound)
                                \/ Dispatch(r) \/ Answer(r) \/ ReadBody(r) \/ Serve(r)
                                \/ Fails(r)
         \/ \E o \in Origins : Rotate(o)
         \/ TokenExpires
         \/ UNCHANGED pdsVars
BY BeginCases DEF PdsNext, Moves

(* A new call and a call that has returned.                                *)
LEMMA NewType ==
  /\ NewRequest \in Request
  /\ NewRequest.at = "new" /\ NewRequest.attempts = 0 /\ NewRequest.result = "none"
  /\ NewRequest.nonce = NoNonce
BY DEF NewRequest, Request, Places, Awaiting, Results, Reply, Nonces, NoNonce, NoReply

LEMMA DoneType ==
  ASSUME NEW q, NEW result \in Results
  PROVE  /\ Done(q, result) \in Request
         /\ Done(q, result).at = "done" /\ Done(q, result).result = result
         /\ Done(q, result).attempts = 0 /\ Done(q, result).nonce = NoNonce
<1> HIDE DEF NewRequest
<1>1. NewRequest \in Request /\ NewRequest.attempts = 0 /\ NewRequest.nonce = NoNonce
  BY NewType
<1>2. "done" \in Places
  BY DEF Places
<1> QED
  BY <1>1, <1>2 DEF Done, Request

(* What becomes of a challenged call.                                      *)
LEMMA ChallengedType ==
  ASSUME NEW q \in Request, NEW fresh
  PROVE  /\ Challenged(q, fresh) \in Request
         /\ \/ /\ Challenged(q, fresh) = Done(q, "limit")
               /\ q.attempts >= 2
            \/ /\ Challenged(q, fresh) = Done(q, "omitted")
               /\ fresh = NoNonce
            \/ /\ Challenged(q, fresh) = [q EXCEPT !.at = "ready"]
               /\ q.attempts <= 1
<1>1. q.attempts \in Nat
  BY DEF Request
<1>2. [q EXCEPT !.at = "ready"] \in Request
  BY DEF Request, Places
<1>3. Done(q, "limit") \in Request /\ Done(q, "omitted") \in Request
  BY DoneType DEF Results
<1> QED
  BY <1>1, <1>2, <1>3 DEF Challenged

(* How a call goes on behind the head and behind the body of a response.   *)
LEMMA HeadedCases ==
  ASSUME NEW q \in Request, NEW fresh, NEW next \in Headed(q, fresh)
  PROVE  /\ next \in Request
         /\ \/ q.reply.kind = "ok" /\ next = Done(q, "ok")
            \/ next = [q EXCEPT !.at = "reading", !.reply.nonce = NoNonce]
            \/ q.reply.kind = "challenge" /\ next = Challenged(q, fresh)
<1>1. [q EXCEPT !.at = "reading", !.reply.nonce = NoNonce] \in Request
  BY DEF Request, Places, Awaiting, Reply, Nonces
<1>2. Done(q, "ok") \in Request
  BY DoneType DEF Results
<1> QED
  BY <1>1, <1>2, ChallengedType DEF Headed

LEMMA ReadCases ==
  ASSUME NEW q \in Request, q.reply.kind # "none", NEW fresh, NEW next \in Read(q, fresh)
  PROVE  /\ next \in Request
         /\ \/ q.reply.kind = "ok" /\ next \in {Done(q, "ok"), Done(q, "unreadable")}
            \/ next = Done(q, "refused")
            \/ q.reply.kind = "challenge" /\ next = Challenged(q, fresh)
<1>1. q.reply.kind \in {"ok", "challenge", "refused"}
  BY DEF Request, Reply
<1>2. {Done(q, "ok"), Done(q, "unreadable"), Done(q, "refused")} \subseteq Request
  BY DoneType DEF Results
<1> QED
  BY <1>1, <1>2, ChallengedType DEF Read

-----------------------------------------------------------------------------
(* Every step keeps every variable in its set.                             *)
LEMMA TypeInit == PdsInit => PdsTypeInv
<1> SUFFICES ASSUME PdsInit PROVE PdsTypeInv
  OBVIOUS
<1>1. \A r \in Requests : reqs[r] = NewRequest
  BY DEF PdsInit
<1>2. PdsTypeOK
  <2>1. reqs \in [Requests -> Request] /\ \A r \in Requests : reqs[r].attempts <= 2
    BY <1>1, NewType DEF PdsInit
  <2>2. current \in [Origins -> Nonce]
    BY PdsAssumption DEF PdsInit, Nonce
  <2>3. cache \in [Origins -> Nonces]
    BY DEF PdsInit, Nonces
  <2> QED
    BY <2>1, <2>2, <2>3 DEF PdsInit, PdsTypeOK
<1>3. PlacesOK
  BY <1>1, NewType DEF PlacesOK, Underway, Awaiting
<1> QED
  BY <1>2, <1>3 DEF PdsTypeInv

(* A step of one call that leaves the others alone.                        *)
LEMMA ReqsStep ==
  ASSUME PdsTypeInv, NEW r \in Requests, NEW p \in Request,
         reqs' = [reqs EXCEPT ![r] = p],
         p.attempts <= 2,
         p.at \in Awaiting \cup {"ready"} => p.origin \in Origins,
         p.at # "done" => p.result = "none",
         p.at # "new",
         p.at = "ready" => p.attempts <= 1,
         p.at \in Awaiting => p.attempts >= 1,
         p.at \in {"answered", "reading"} => p.reply.kind # "none"
  PROVE  /\ reqs' \in [Requests -> Request] /\ \A s \in Requests : reqs'[s].attempts <= 2
         /\ PlacesOK'
<1>1. reqs' \in [Requests -> Request] /\ reqs'[r] = p
  BY DEF PdsTypeInv, PdsTypeOK
<1>2. \A s \in Requests \ {r} : reqs'[s] = reqs[s]
  BY DEF PdsTypeInv, PdsTypeOK
<1> QED
  BY <1>1, <1>2 DEF PdsTypeInv, PdsTypeOK, PlacesOK, Underway

(* A call that returns.                                                    *)
LEMMA ReturnStep ==
  ASSUME PdsTypeInv, NEW r \in Requests, NEW q, NEW result \in Results,
         reqs' = [reqs EXCEPT ![r] = Done(q, result)]
  PROVE  /\ reqs' \in [Requests -> Request] /\ \A s \in Requests : reqs'[s].attempts <= 2
         /\ PlacesOK'
<1>1. PICK p \in Request : p = Done(q, result)
  BY DoneType
<1>2. p.at = "done" /\ p.attempts <= 2 /\ reqs' = [reqs EXCEPT ![r] = p]
  BY <1>1, DoneType
<1>3. /\ p.at \notin Awaiting \cup {"ready"} /\ p.at # "new"
      /\ p.at \notin {"answered", "reading"}
  BY <1>2 DEF Awaiting
<1> QED
  BY <1>2, <1>3, ReqsStep

(* A challenged call.                                                      *)
LEMMA ChallengedStep ==
  ASSUME PdsTypeInv, NEW r \in Requests, NEW q \in Request, NEW fresh,
         reqs' = [reqs EXCEPT ![r] = Challenged(q, fresh)],
         q.origin \in Origins, q.result = "none"
  PROVE  /\ reqs' \in [Requests -> Request] /\ \A s \in Requests : reqs'[s].attempts <= 2
         /\ PlacesOK'
<1>1. CASE Challenged(q, fresh) = Done(q, "limit")
  BY <1>1, ReturnStep DEF Results
<1>2. CASE Challenged(q, fresh) = Done(q, "omitted")
  BY <1>2, ReturnStep DEF Results
<1>3. CASE Challenged(q, fresh) = [q EXCEPT !.at = "ready"] /\ q.attempts <= 1
  <2>1. PICK p \in Request : p = [q EXCEPT !.at = "ready"]
    BY <1>3, ChallengedType
  <2>2. /\ p.at = "ready" /\ p.attempts <= 1 /\ p.attempts \in Nat
        /\ p.origin \in Origins /\ p.result = "none"
    BY <1>3, <2>1 DEF Request
  <2>3. reqs' = [reqs EXCEPT ![r] = p]
    BY <1>3, <2>1
  <2>4. /\ p.at \notin Awaiting /\ p.at # "new" /\ p.at \notin {"answered", "reading"}
        /\ p.attempts <= 2
    BY <2>2 DEF Awaiting
  <2> QED
    BY <2>2, <2>3, <2>4, ReqsStep
<1> QED
  BY <1>1, <1>2, <1>3, ChallengedType

LEMMA TypeStep == PdsTypeInv /\ [PdsNext]_pdsVars => PdsTypeInv'
<1> SUFFICES ASSUME PdsTypeInv, [PdsNext]_pdsVars PROVE PdsTypeInv'
  OBVIOUS
<1> DEFINE ReqsOK == reqs \in [Requests -> Request] /\ \A r \in Requests : reqs[r].attempts <= 2
<1> USE PdsAssumption
<1>1. ASSUME NEW r \in Requests, NEW reads \in BOOLEAN, NEW sound \in BOOLEAN,
             Begin(r, reads, sound)
      PROVE  PdsTypeInv'
  <2>1. ReqsOK' /\ PlacesOK'
    <3>1. CASE \E result \in Results : reqs' = [reqs EXCEPT ![r] = Done(@, result)]
      BY <3>1, ReturnStep
    <3>2. ASSUME NEW o \in Origins,
                 reqs' = [reqs EXCEPT ![r].at = "ready", ![r].reads = reads, ![r].origin = o]
          PROVE  ReqsOK' /\ PlacesOK'
      <4>1. reqs[r] = NewRequest /\ reqs[r] \in Request
        BY <1>1 DEF Begin, PdsTypeInv, PdsTypeOK, PlacesOK
      <4>2. PICK p \in Request :
              p = [reqs[r] EXCEPT !.at = "ready", !.reads = reads, !.origin = o]
        BY <4>1 DEF Request, Places
      <4>3. /\ p.at = "ready" /\ p.attempts = 0 /\ p.origin \in Origins /\ p.result = "none"
            /\ reqs' = [reqs EXCEPT ![r] = p]
        BY <3>2, <4>1, <4>2, NewType DEF Request, PdsTypeInv, PdsTypeOK
      <4> QED
        <5>1. /\ p.at \notin Awaiting /\ p.at # "new" /\ p.at \notin {"answered", "reading"}
              /\ p.attempts <= 1 /\ p.attempts <= 2
          BY <4>3 DEF Awaiting
        <5> QED
          BY <4>3, <5>1, ReqsStep
    <3> QED
      BY <1>1, <3>1, <3>2 DEF Begin, Results
  <2> QED
    BY <1>1, <2>1 DEF Begin, PdsTypeInv, PdsTypeOK
<1>2. ASSUME NEW r \in Requests, Dispatch(r) PROVE PdsTypeInv'
  <2>1. ReqsOK' /\ PlacesOK'
    <3>1. CASE reqs' = [reqs EXCEPT ![r] = Done(@, "unsigned")]
      BY <3>1, ReturnStep DEF Results
    <3>2. CASE reqs' = [reqs EXCEPT ![r].at = "flying", ![r].attempts = @ + 1,
                                    ![r].nonce = cache[reqs[r].origin], ![r].reply = NoReply]
      <4>1. /\ reqs[r] \in Request /\ reqs[r].attempts <= 1 /\ reqs[r].result = "none"
            /\ reqs[r].origin \in Origins
        BY <1>2 DEF Dispatch, PdsTypeInv, PdsTypeOK, PlacesOK, Underway
      <4>2. cache[reqs[r].origin] \in Nonces
        BY <4>1 DEF PdsTypeInv, PdsTypeOK
      <4>3. NoReply \in Reply
        BY DEF NoReply, Reply, Nonces
      <4>4. PICK p \in Request :
              p = [reqs[r] EXCEPT !.at = "flying", !.attempts = @ + 1,
                                  !.nonce = cache[reqs[r].origin], !.reply = NoReply]
        <5>1. "flying" \in Places /\ reqs[r].attempts + 1 \in Nat
          BY <4>1 DEF Places, Awaiting, Request
        <5> QED
          BY <4>1, <4>2, <4>3, <5>1 DEF Request
      <4>5. p.at = "flying" /\ p.attempts = reqs[r].attempts + 1
        BY <4>1, <4>4 DEF Request
      <4>6. p.origin \in Origins /\ p.result = "none" /\ reqs' = [reqs EXCEPT ![r] = p]
        BY <3>2, <4>1, <4>4 DEF Request, PdsTypeInv, PdsTypeOK
      <4>7. reqs[r].attempts \in Nat
        BY <4>1 DEF Request
      <4> QED
        <5>1. /\ p.at \notin {"answered", "reading", "ready", "new", "done"}
              /\ p.attempts <= 2 /\ p.attempts >= 1
          BY <4>1, <4>5, <4>7
        <5> QED
          BY <4>5, <4>6, <5>1, ReqsStep
    <3> QED
      BY <1>2, <3>1, <3>2 DEF Dispatch
  <2> QED
    BY <1>2, <2>1 DEF Dispatch, PdsTypeInv, PdsTypeOK
<1>3. ASSUME NEW r \in Requests, Answer(r) PROVE PdsTypeInv'
  <2> DEFINE q == reqs[r]
  <2>1. /\ q \in Request /\ q.at = "answered" /\ q.origin \in Origins /\ q.result = "none"
        /\ q.attempts >= 1 /\ q.attempts <= 2 /\ q.reply.kind # "none"
    BY <1>3 DEF Answer, PdsTypeInv, PdsTypeOK, PlacesOK, Underway, Awaiting
  <2>2. Kept(q) \in [Origins -> Nonces]
    BY <2>1 DEF Kept, PdsTypeInv, PdsTypeOK, Request, Reply
  <2>3. ReqsOK' /\ PlacesOK'
    <3>1. PICK next \in Headed(q, Kept(q)[q.origin]) : reqs' = [reqs EXCEPT ![r] = next]
      BY <1>3 DEF Answer
    <3> HIDE DEF q
    <3>2. CASE next = Done(q, "ok")
      BY <3>1, <3>2, ReturnStep DEF Results
    <3>3. CASE next = [q EXCEPT !.at = "reading", !.reply.nonce = NoNonce]
      <4>1. next \in Request
        BY <2>1, HeadedCases
      <4>2. /\ next.at = "reading" /\ next.origin = q.origin /\ next.result = q.result
            /\ next.attempts = q.attempts /\ next.reply.kind = q.reply.kind
        BY <2>1, <3>3 DEF Request, Reply
      <4> QED
        BY <2>1, <3>1, <4>1, <4>2, ReqsStep DEF Awaiting
    <3>4. CASE next = Challenged(q, Kept(q)[q.origin])
      BY <2>1, <3>1, <3>4, ChallengedStep
    <3> QED
      BY <2>1, <3>2, <3>3, <3>4, HeadedCases
  <2> QED
    BY <1>3, <2>2, <2>3 DEF Answer, PdsTypeInv, PdsTypeOK
<1>4. ASSUME NEW r \in Requests, ReadBody(r) PROVE PdsTypeInv'
  <2> DEFINE q == reqs[r]
  <2>1. /\ q \in Request /\ q.at = "reading" /\ q.origin \in Origins /\ q.result = "none"
        /\ q.reply.kind # "none"
    BY <1>4 DEF ReadBody, PdsTypeInv, PdsTypeOK, PlacesOK, Underway, Awaiting
  <2>2. ReqsOK' /\ PlacesOK'
    <3>1. PICK next \in Read(q, cache[q.origin]) : reqs' = [reqs EXCEPT ![r] = next]
      BY <1>4 DEF ReadBody
    <3> HIDE DEF q
    <3>2. CASE \E result \in Results : next = Done(q, result)
      BY <3>1, <3>2, ReturnStep
    <3>3. CASE next = Challenged(q, cache[q.origin])
      BY <2>1, <3>1, <3>3, ChallengedStep
    <3> QED
      BY <2>1, <3>2, <3>3, ReadCases DEF Results
  <2> QED
    BY <1>4, <2>2 DEF ReadBody, PdsTypeInv, PdsTypeOK
<1>5. ASSUME NEW r \in Requests, Serve(r) PROVE PdsTypeInv'
  <2> DEFINE q == reqs[r]
  <2>1. /\ q \in Request /\ q.at = "flying" /\ q.origin \in Origins /\ q.result = "none"
        /\ q.attempts >= 1 /\ q.attempts <= 2
    BY <1>5 DEF Serve, PdsTypeInv, PdsTypeOK, PlacesOK, Underway, Awaiting
  <2>2. PICK kind \in {"ok", "challenge", "refused"}, nonce \in {NoNonce, current[q.origin]} :
          reqs' = [reqs EXCEPT ![r].at = "answered",
                               ![r].reply = [kind |-> kind, nonce |-> nonce]]
    BY <1>5 DEF Serve
  <2>3. ReqsOK' /\ PlacesOK'
    <3>1. nonce \in Nonces
      BY <2>1, <2>2 DEF PdsTypeInv, PdsTypeOK, Nonces
    <3>2. [kind |-> kind, nonce |-> nonce] \in Reply
      BY <3>1, <2>2 DEF Reply
    <3>3. PICK p \in Request :
            p = [q EXCEPT !.at = "answered", !.reply = [kind |-> kind, nonce |-> nonce]]
      BY <2>1, <3>2 DEF Request, Places, Awaiting
    <3>4. /\ p.at = "answered" /\ p.attempts = q.attempts
          /\ p.origin \in Origins /\ p.result = "none" /\ p.reply.kind # "none"
      BY <2>1, <2>2, <3>3 DEF Request
    <3>5. reqs' = [reqs EXCEPT ![r] = p]
      BY <2>2, <3>3 DEF PdsTypeInv, PdsTypeOK
    <3> QED
      BY <2>1, <3>4, <3>5, ReqsStep DEF Awaiting
  <2>4. carried' \in [Requests -> Nat] /\ excused' \in SUBSET Requests
    BY <1>5 DEF Serve, PdsTypeInv, PdsTypeOK
  <2> QED
    BY <1>5, <2>3, <2>4 DEF Serve, PdsTypeInv, PdsTypeOK
<1>6. ASSUME NEW r \in Requests, Fails(r) PROVE PdsTypeInv'
  <2>1. ReqsOK' /\ PlacesOK'
    BY <1>6, ReturnStep DEF Fails, Results
  <2> QED
    BY <1>6, <2>1 DEF Fails, PdsTypeInv, PdsTypeOK
<1>7. ASSUME NEW o \in Origins, Rotate(o) PROVE PdsTypeInv'
  <2>1. current[o] \in Nonce /\ current[o].n < MaxNonce
    BY <1>7 DEF Rotate, PdsTypeInv, PdsTypeOK
  <2>2. [current[o] EXCEPT !.n = @ + 1] \in Nonce
    BY <2>1 DEF Nonce
  <2>3. current' \in [Origins -> Nonce]
    BY <1>7, <2>2 DEF Rotate, PdsTypeInv, PdsTypeOK
  <2> QED
    BY <1>7, <2>3 DEF Rotate, PdsTypeInv, PdsTypeOK, PlacesOK, Underway
<1>8. CASE TokenExpires
  BY <1>8 DEF TokenExpires, PdsTypeInv, PdsTypeOK, PlacesOK, Underway
<1>9. CASE UNCHANGED pdsVars
  BY <1>9 DEF pdsVars, PdsTypeInv, PdsTypeOK, PlacesOK, Underway
<1> QED
  BY <1>1, <1>2, <1>3, <1>4, <1>5, <1>6, <1>7, <1>8, <1>9, StepCases

(* Every variable of the PDS client stays in its set, and no call is sent  *)
(* more than twice, however often it is challenged.                        *)
THEOREM PdsTypeCorrect == PdsSpec => []PdsTypeOK
<1>1. PdsSpec => []PdsTypeInv
  BY TypeInit, TypeStep, PTL DEF PdsSpec
<1> QED
  BY <1>1, PTL DEF PdsTypeInv
-----------------------------------------------------------------------------
(* A step of a call that is not under way, or that returns, or goes back   *)
(* to the head of the loop, brings it no nonce.                            *)
LEMMA ReturnHome ==
  ASSUME PdsTypeInv, NonceStaysHome, NoncesHome, NEW r \in Requests, NEW p,
         reqs' = [reqs EXCEPT ![r] = p], UNCHANGED <<cache, current>>,
         p.at # "answered", p.nonce # NoNonce => p.nonce.origin = p.origin
  PROVE  NonceStaysHome' /\ NoncesHome'
BY DEF PdsTypeInv, PdsTypeOK, NonceStaysHome, NoncesHome

LEMMA ChallengedHome ==
  ASSUME NEW q \in Request, NEW fresh, q.nonce # NoNonce => q.nonce.origin = q.origin
  PROVE  LET p == Challenged(q, fresh)
         IN p.at # "answered" /\ (p.nonce # NoNonce => p.nonce.origin = p.origin)
<1>1. CASE Challenged(q, fresh) \in {Done(q, "limit"), Done(q, "omitted")}
  BY <1>1, DoneType DEF Results
<1>2. CASE Challenged(q, fresh) = [q EXCEPT !.at = "ready"]
  BY <1>2 DEF Request
<1> QED
  BY <1>1, <1>2, ChallengedType

LEMMA HomeStep ==
  PdsTypeInv /\ NonceStaysHome /\ NoncesHome /\ [PdsNext]_pdsVars
    => NonceStaysHome' /\ NoncesHome'
<1> SUFFICES ASSUME PdsTypeInv, NonceStaysHome, NoncesHome, [PdsNext]_pdsVars
             PROVE  NonceStaysHome' /\ NoncesHome'
  OBVIOUS
<1> USE DEF PdsTypeInv, PdsTypeOK
<1>1. ASSUME NEW r \in Requests, NEW reads \in BOOLEAN, NEW sound \in BOOLEAN,
             Begin(r, reads, sound)
      PROVE  NonceStaysHome' /\ NoncesHome'
  <2>1. CASE \E result \in Results : reqs' = [reqs EXCEPT ![r] = Done(@, result)]
    <3>1. PICK result \in Results : reqs' = [reqs EXCEPT ![r] = Done(@, result)]
      BY <2>1
    <3>2. PICK p : p = Done(reqs[r], result)
      OBVIOUS
    <3>3. p.at = "done" /\ p.nonce = NoNonce /\ reqs' = [reqs EXCEPT ![r] = p]
      BY <3>1, <3>2, DoneType
    <3> QED
      BY <1>1, <3>3, ReturnHome DEF Begin
  <2>2. ASSUME NEW o \in Origins,
               reqs' = [reqs EXCEPT ![r].at = "ready", ![r].reads = reads, ![r].origin = o]
        PROVE  NonceStaysHome' /\ NoncesHome'
    <3>1. reqs[r] = NewRequest /\ reqs[r] \in Request
      BY <1>1 DEF Begin, PlacesOK
    <3>2. PICK p : p = [reqs[r] EXCEPT !.at = "ready", !.reads = reads, !.origin = o]
      OBVIOUS
    <3>3. p.at = "ready" /\ p.nonce = NoNonce /\ reqs' = [reqs EXCEPT ![r] = p]
      BY <2>2, <3>1, <3>2, NewType DEF Request
    <3> QED
      BY <1>1, <3>3, ReturnHome DEF Begin
  <2> QED
    BY <1>1, <2>1, <2>2 DEF Begin, Results
<1>2. ASSUME NEW r \in Requests, Dispatch(r) PROVE NonceStaysHome' /\ NoncesHome'
  <2>1. CASE reqs' = [reqs EXCEPT ![r] = Done(@, "unsigned")]
    BY <1>2, <2>1, DoneType, ReturnHome DEF Dispatch, Results
  <2>2. CASE reqs' = [reqs EXCEPT ![r].at = "flying", ![r].attempts = @ + 1,
                                  ![r].nonce = cache[reqs[r].origin], ![r].reply = NoReply]
    <3>1. reqs[r] \in Request /\ reqs[r].origin \in Origins
      BY <1>2 DEF Dispatch, PlacesOK, Underway
    <3>2. PICK p : p = [reqs[r] EXCEPT !.at = "flying", !.attempts = @ + 1,
                                       !.nonce = cache[reqs[r].origin], !.reply = NoReply]
      OBVIOUS
    <3>3. /\ p.at = "flying" /\ p.nonce = cache[p.origin] /\ p.origin \in Origins
          /\ reqs' = [reqs EXCEPT ![r] = p]
      BY <2>2, <3>1, <3>2 DEF Request
    <3>4. p.nonce # NoNonce => p.nonce.origin = p.origin
      BY <3>3 DEF NoncesHome
    <3> QED
      BY <1>2, <3>3, <3>4, ReturnHome DEF Dispatch
  <2> QED
    BY <1>2, <2>1, <2>2 DEF Dispatch
<1>3. ASSUME NEW r \in Requests, Answer(r) PROVE NonceStaysHome' /\ NoncesHome'
  <2> DEFINE q == reqs[r]
  <2>1. q \in Request /\ q.at = "answered" /\ q.origin \in Origins
    BY <1>3 DEF Answer, PlacesOK, Underway, Awaiting
  <2>2. \A o \in Origins : Kept(q)[o] # NoNonce => Kept(q)[o].origin = o
    BY <2>1 DEF Kept, NoncesHome
  <2>3. PICK p \in Headed(q, Kept(q)[q.origin]) : reqs' = [reqs EXCEPT ![r] = p]
    BY <1>3 DEF Answer
  <2>4. q.nonce # NoNonce => q.nonce.origin = q.origin
    BY DEF NonceStaysHome
  <2>5. p.at # "answered" /\ (p.nonce # NoNonce => p.nonce.origin = p.origin)
    <3> HIDE DEF q
    <3>1. CASE p = Done(q, "ok")
      BY <3>1, DoneType DEF Results
    <3>2. CASE p = [q EXCEPT !.at = "reading", !.reply.nonce = NoNonce]
      BY <2>1, <2>4, <3>2 DEF Request
    <3>3. CASE p = Challenged(q, Kept(q)[q.origin])
      BY <2>1, <2>4, <3>3, ChallengedHome
    <3> QED
      BY <2>1, <2>3, <3>1, <3>2, <3>3, HeadedCases
  <2>6. UNCHANGED current /\ cache' = Kept(q)
    BY <1>3 DEF Answer
  <2> HIDE DEF q
  <2>7. NonceStaysHome'
    BY <2>3, <2>5 DEF NonceStaysHome
  <2>8. \A s \in Requests :
          reqs'[s].at = "answered" => reqs'[s] = reqs[s]
    BY <2>3, <2>5
  <2>9. \A o \in Origins : cache'[o] # NoNonce => cache'[o].origin = o
    BY <2>2, <2>6
  <2>10. \A o \in Origins : current'[o].origin = o
    BY <2>6 DEF NoncesHome
  <2>11. \A s \in Requests :
           reqs'[s].at = "answered" /\ reqs'[s].reply.nonce # NoNonce =>
             reqs'[s].reply.nonce.origin = reqs'[s].origin
    BY <2>8 DEF NoncesHome
  <2> QED
    BY <2>7, <2>9, <2>10, <2>11 DEF NoncesHome
<1>4. ASSUME NEW r \in Requests, ReadBody(r) PROVE NonceStaysHome' /\ NoncesHome'
  <2> DEFINE q == reqs[r]
  <2>1. q \in Request /\ q.reply.kind # "none"
    BY <1>4 DEF ReadBody, PlacesOK
  <2>2. PICK p \in Read(q, cache[q.origin]) : reqs' = [reqs EXCEPT ![r] = p]
    BY <1>4 DEF ReadBody
  <2>3. q.nonce # NoNonce => q.nonce.origin = q.origin
    BY DEF NonceStaysHome
  <2>4. p.at # "answered" /\ (p.nonce # NoNonce => p.nonce.origin = p.origin)
    <3> HIDE DEF q
    <3>1. CASE \E result \in Results : p = Done(q, result)
      BY <3>1, DoneType
    <3>2. CASE p = Challenged(q, cache[q.origin])
      BY <2>1, <2>3, <3>2, ChallengedHome
    <3> QED
      BY <2>1, <2>2, <3>1, <3>2, ReadCases DEF Results
  <2> QED
    BY <1>4, <2>2, <2>4, ReturnHome DEF ReadBody
<1>5. ASSUME NEW r \in Requests, Serve(r) PROVE NonceStaysHome' /\ NoncesHome'
  <2> DEFINE q == reqs[r]
  <2>1. q \in Request /\ q.origin \in Origins
    BY <1>5 DEF Serve, PlacesOK, Underway, Awaiting
  <2>2. PICK kind \in {"ok", "challenge", "refused"}, nonce \in {NoNonce, current[q.origin]} :
          reqs' = [reqs EXCEPT ![r].at = "answered",
                               ![r].reply = [kind |-> kind, nonce |-> nonce]]
    BY <1>5 DEF Serve
  <2>3. nonce # NoNonce => nonce.origin = q.origin
    BY <2>1, <2>2 DEF NoncesHome
  <2>4. /\ reqs'[r].nonce = q.nonce /\ reqs'[r].origin = q.origin
        /\ reqs'[r].reply.nonce = nonce
    BY <2>1, <2>2 DEF Request
  <2>5. UNCHANGED <<cache, current>>
    BY <1>5 DEF Serve
  <2> QED
    BY <2>2, <2>3, <2>4, <2>5 DEF NonceStaysHome, NoncesHome
<1>6. ASSUME NEW r \in Requests, Fails(r) PROVE NonceStaysHome' /\ NoncesHome'
  BY <1>6, DoneType, ReturnHome DEF Fails, Results
<1>7. ASSUME NEW o \in Origins, Rotate(o) PROVE NonceStaysHome' /\ NoncesHome'
  <2>1. current'[o].origin = current[o].origin
    BY <1>7 DEF Rotate, Nonce
  <2> QED
    BY <1>7, <2>1 DEF Rotate, NonceStaysHome, NoncesHome
<1>8. CASE TokenExpires
  BY <1>8 DEF TokenExpires, NonceStaysHome, NoncesHome
<1>9. CASE UNCHANGED pdsVars
  BY <1>9 DEF pdsVars, NonceStaysHome, NoncesHome
<1> QED
  BY <1>1, <1>2, <1>3, <1>4, <1>5, <1>6, <1>7, <1>8, <1>9, StepCases

(* A nonce is only ever sent to the server that issued it, however many    *)
(* calls to however many servers share the cache.                          *)
THEOREM PdsNonceStaysHome == PdsSpec => []NonceStaysHome
<1>1. PdsInit => PdsTypeInv /\ NonceStaysHome /\ NoncesHome
  BY TypeInit, NewType DEF PdsInit, NonceStaysHome, NoncesHome
<1>2. PdsTypeInv /\ NonceStaysHome /\ NoncesHome /\ [PdsNext]_pdsVars
        => PdsTypeInv' /\ NonceStaysHome' /\ NoncesHome'
  BY TypeStep, HomeStep
<1> QED
  BY <1>1, <1>2, PTL DEF PdsSpec

-----------------------------------------------------------------------------
(* A step of one call that no server carries out.                          *)
LEMMA CarriedMove ==
  ASSUME PdsTypeInv, CarriedInv, NEW r \in Requests, NEW p,
         reqs' = [reqs EXCEPT ![r] = p], UNCHANGED carried, CarriedOK(p, carried[r])
  PROVE  CarriedInv'
<1>1. reqs'[r] = p /\ \A s \in Requests \ {r} : reqs'[s] = reqs[s]
  BY DEF PdsTypeInv, PdsTypeOK
<1> QED
  BY <1>1 DEF CarriedInv

(* A call that returns, and a challenged one.                              *)
LEMMA DoneCarried ==
  ASSUME NEW q, NEW result \in Results, NEW n, n <= 1, result = "ok" => n = 1
  PROVE  CarriedOK(Done(q, result), n)
BY DoneType DEF CarriedOK

LEMMA ChallengedCarried ==
  ASSUME NEW q \in Request, NEW fresh, q.result = "none"
  PROVE  CarriedOK(Challenged(q, fresh), 0)
<1>1. CASE Challenged(q, fresh) \in {Done(q, "limit"), Done(q, "omitted")}
  BY <1>1, DoneCarried DEF Results
<1>2. CASE Challenged(q, fresh) = [q EXCEPT !.at = "ready"]
  BY <1>2 DEF Request, CarriedOK
<1> QED
  BY <1>1, <1>2, ChallengedType

LEMMA CarriedStep == PdsTypeInv /\ CarriedInv /\ [PdsNext]_pdsVars => CarriedInv'
<1> SUFFICES ASSUME PdsTypeInv, CarriedInv, [PdsNext]_pdsVars PROVE CarriedInv'
  OBVIOUS
<1> USE DEF PdsTypeInv, PdsTypeOK
<1>1. ASSUME NEW r \in Requests, NEW reads \in BOOLEAN, NEW sound \in BOOLEAN,
             Begin(r, reads, sound)
      PROVE  CarriedInv'
  <2>1. /\ reqs[r].at = "new" /\ reqs[r] \in Request /\ carried[r] = 0
        /\ reqs[r].result = "none"
    BY <1>1 DEF Begin, CarriedInv, CarriedOK, PlacesOK
  <2>2. CASE \E result \in {"rejected", "expired"} : reqs' = [reqs EXCEPT ![r] = Done(@, result)]
    <3>1. PICK result \in {"rejected", "expired"} : reqs' = [reqs EXCEPT ![r] = Done(@, result)]
      BY <2>2
    <3>2. PICK p : p = Done(reqs[r], result)
      OBVIOUS
    <3>3. CarriedOK(p, carried[r]) /\ reqs' = [reqs EXCEPT ![r] = p]
      BY <2>1, <3>1, <3>2, DoneCarried DEF Results
    <3> QED
      BY <1>1, <3>3, CarriedMove DEF Begin
  <2>3. ASSUME NEW o \in Origins,
               reqs' = [reqs EXCEPT ![r].at = "ready", ![r].reads = reads, ![r].origin = o]
        PROVE  CarriedInv'
    <3>1. PICK p : p = [reqs[r] EXCEPT !.at = "ready", !.reads = reads, !.origin = o]
      OBVIOUS
    <3>2. p.at = "ready" /\ p.result = "none" /\ reqs' = [reqs EXCEPT ![r] = p]
      BY <2>1, <2>3, <3>1 DEF Request
    <3>3. CarriedOK(p, carried[r])
      BY <2>1, <3>2 DEF CarriedOK
    <3> QED
      BY <1>1, <3>2, <3>3, CarriedMove DEF Begin
  <2> QED
    BY <1>1, <2>2, <2>3 DEF Begin
<1>2. ASSUME NEW r \in Requests, Dispatch(r) PROVE CarriedInv'
  <2>1. /\ reqs[r].at = "ready" /\ reqs[r] \in Request /\ carried[r] = 0
        /\ reqs[r].result = "none"
    BY <1>2 DEF Dispatch, CarriedInv, CarriedOK, PlacesOK
  <2>2. CASE reqs' = [reqs EXCEPT ![r] = Done(@, "unsigned")]
    <3>1. PICK p : p = Done(reqs[r], "unsigned")
      OBVIOUS
    <3>2. CarriedOK(p, carried[r]) /\ reqs' = [reqs EXCEPT ![r] = p]
      BY <2>1, <2>2, <3>1, DoneCarried DEF Results
    <3> QED
      BY <1>2, <3>2, CarriedMove DEF Dispatch
  <2>3. CASE reqs' = [reqs EXCEPT ![r].at = "flying", ![r].attempts = @ + 1,
                                  ![r].nonce = cache[reqs[r].origin], ![r].reply = NoReply]
    <3>1. PICK p : p = [reqs[r] EXCEPT !.at = "flying", !.attempts = @ + 1,
                                       !.nonce = cache[reqs[r].origin], !.reply = NoReply]
      OBVIOUS
    <3>2. p.at = "flying" /\ p.result = "none" /\ reqs' = [reqs EXCEPT ![r] = p]
      BY <2>1, <2>3, <3>1 DEF Request
    <3>3. CarriedOK(p, carried[r])
      BY <2>1, <3>2 DEF CarriedOK
    <3> QED
      BY <1>2, <3>2, <3>3, CarriedMove DEF Dispatch
  <2> QED
    BY <1>2, <2>2, <2>3 DEF Dispatch
<1>3. ASSUME NEW r \in Requests, Answer(r) PROVE CarriedInv'
  <2>1. PICK q \in Request : q = reqs[r]
    OBVIOUS
  <2>2. /\ q.at = "answered" /\ q.result = "none"
        /\ carried[r] = IF q.reply.kind = "ok" THEN 1 ELSE 0
    BY <1>3, <2>1 DEF Answer, CarriedInv, CarriedOK, PlacesOK
  <2>3. PICK p \in Headed(q, Kept(q)[q.origin]) : reqs' = [reqs EXCEPT ![r] = p]
    BY <1>3, <2>1 DEF Answer
  <2>4. CASE q.reply.kind = "ok" /\ p = Done(q, "ok")
    <3>1. CarriedOK(p, carried[r])
      BY <2>2, <2>4, DoneCarried DEF Results
    <3> QED
      BY <1>3, <2>3, <3>1, CarriedMove DEF Answer
  <2>5. CASE p = [q EXCEPT !.at = "reading", !.reply.nonce = NoNonce]
    <3>1. /\ p.at = "reading" /\ p.result = "none" /\ p.reply.kind = q.reply.kind
      BY <2>2, <2>5 DEF Request, Reply
    <3>2. CarriedOK(p, carried[r])
      BY <2>2, <3>1 DEF CarriedOK
    <3> QED
      BY <1>3, <2>3, <3>2, CarriedMove DEF Answer
  <2>6. CASE q.reply.kind = "challenge" /\ p = Challenged(q, Kept(q)[q.origin])
    <3>1. CarriedOK(p, carried[r])
      BY <2>2, <2>6, ChallengedCarried
    <3> QED
      BY <1>3, <2>3, <3>1, CarriedMove DEF Answer
  <2> QED
    BY <2>3, <2>4, <2>5, <2>6, HeadedCases
<1>4. ASSUME NEW r \in Requests, ReadBody(r) PROVE CarriedInv'
  <2>1. PICK q \in Request : q = reqs[r]
    OBVIOUS
  <2>2. /\ q.at = "reading" /\ q.result = "none" /\ q.reply.kind # "none"
        /\ carried[r] = IF q.reply.kind = "ok" THEN 1 ELSE 0
    BY <1>4, <2>1 DEF ReadBody, CarriedInv, CarriedOK, PlacesOK
  <2>3. PICK p \in Read(q, cache[q.origin]) : reqs' = [reqs EXCEPT ![r] = p]
    BY <1>4, <2>1 DEF ReadBody
  <2>4. CASE q.reply.kind = "ok" /\ p \in {Done(q, "ok"), Done(q, "unreadable")}
    <3>1. CarriedOK(p, carried[r])
      BY <2>2, <2>4, DoneCarried DEF Results
    <3> QED
      BY <1>4, <2>3, <3>1, CarriedMove DEF ReadBody
  <2>5. CASE p = Done(q, "refused")
    <3>1. CarriedOK(p, carried[r])
      BY <2>2, <2>5, DoneCarried DEF Results
    <3> QED
      BY <1>4, <2>3, <3>1, CarriedMove DEF ReadBody
  <2>6. CASE q.reply.kind = "challenge" /\ p = Challenged(q, cache[q.origin])
    <3>1. CarriedOK(p, carried[r])
      BY <2>2, <2>6, ChallengedCarried
    <3> QED
      BY <1>4, <2>3, <3>1, CarriedMove DEF ReadBody
  <2> QED
    BY <2>2, <2>3, <2>4, <2>5, <2>6, ReadCases
<1>5. ASSUME NEW r \in Requests, Serve(r) PROVE CarriedInv'
  <2>1. /\ reqs[r].at = "flying" /\ reqs[r] \in Request /\ carried[r] = 0
        /\ reqs[r].result = "none"
    BY <1>5 DEF Serve, CarriedInv, CarriedOK, PlacesOK
  <2>2. PICK kind \in {"ok", "challenge", "refused"}, nonce \in {NoNonce, current[reqs[r].origin]} :
          /\ reqs' = [reqs EXCEPT ![r].at = "answered",
                                  ![r].reply = [kind |-> kind, nonce |-> nonce]]
          /\ carried' = IF kind = "ok" THEN [carried EXCEPT ![r] = @ + 1] ELSE carried
    BY <1>5 DEF Serve
  <2>3. /\ reqs'[r].at = "answered" /\ reqs'[r].result = "none"
        /\ reqs'[r].reply.kind = kind /\ carried'[r] = IF kind = "ok" THEN 1 ELSE 0
    BY <2>1, <2>2 DEF Request
  <2>4. \A s \in Requests \ {r} : reqs'[s] = reqs[s] /\ carried'[s] = carried[s]
    BY <2>2
  <2>5. CarriedOK(reqs'[r], carried'[r])
    BY <2>3 DEF CarriedOK
  <2> QED
    BY <2>4, <2>5 DEF CarriedInv
<1>6. ASSUME NEW r \in Requests, Fails(r) PROVE CarriedInv'
  <2>1. PICK p : p = Done(reqs[r], "network")
    OBVIOUS
  <2>2. carried[r] <= 1
    BY DEF CarriedInv, CarriedOK
  <2>3. CarriedOK(p, carried[r]) /\ reqs' = [reqs EXCEPT ![r] = p]
    BY <1>6, <2>1, <2>2, DoneCarried DEF Fails, Results
  <2> QED
    BY <1>6, <2>3, CarriedMove DEF Fails
<1>7. ASSUME NEW o \in Origins, Rotate(o) PROVE CarriedInv'
  BY <1>7 DEF Rotate, CarriedInv
<1>8. CASE TokenExpires
  BY <1>8 DEF TokenExpires, CarriedInv
<1>9. CASE UNCHANGED pdsVars
  BY <1>9 DEF pdsVars, CarriedInv
<1> QED
  BY <1>1, <1>2, <1>3, <1>4, <1>5, <1>6, <1>7, <1>8, <1>9, StepCases

(* No write is carried out twice, however many answers are lost, and one   *)
(* reported done has been carried out.                                     *)
THEOREM PdsCarriedOnce == PdsSpec => []CarriedOnce
<1>1. PdsInit => CarriedInv
  <2> SUFFICES ASSUME PdsInit, NEW r \in Requests PROVE CarriedOK(reqs[r], carried[r])
    BY DEF CarriedInv
  <2>1. reqs[r] = NewRequest /\ carried[r] = 0
    BY DEF PdsInit
  <2> QED
    BY <2>1, NewType DEF CarriedOK
<1>2. CarriedInv => CarriedOnce
  BY DEF CarriedInv, CarriedOK, CarriedOnce
<1> QED
  BY <1>1, <1>2, TypeInit, TypeStep, CarriedStep, PTL DEF PdsSpec

-----------------------------------------------------------------------------
(* A step of one call that leaves the nonces alone.                        *)
LEMMA PreparedMove ==
  ASSUME PdsTypeInv, CauseInv, NEW r \in Requests, NEW p,
         reqs' = [reqs EXCEPT ![r] = p], UNCHANGED <<cache, current>>,
         excused \subseteq excused',
         r \notin excused' => Prepared(p, cache[p.origin], current[p.origin])
  PROVE  CauseInv'
<1>1. reqs'[r] = p /\ \A s \in Requests \ {r} : reqs'[s] = reqs[s]
  BY DEF PdsTypeInv, PdsTypeOK
<1> QED
  BY <1>1 DEF CauseInv, PreparedCall

(* A call that returns for another reason, and one that is sent again.     *)
LEMMA DonePrepared ==
  ASSUME NEW q, NEW result \in Results \ {"limit", "omitted"}, NEW fresh, NEW accepted
  PROVE  Prepared(Done(q, result), fresh, accepted)
BY DoneType DEF Prepared

LEMMA ChallengedPrepared ==
  ASSUME NEW q \in Request, NEW fresh, q.result = "none", q.attempts = 1, fresh # NoNonce
  PROVE  /\ Challenged(q, fresh).origin = q.origin
         /\ Prepared(Challenged(q, fresh), fresh, fresh)
<1>1. Challenged(q, fresh) = [q EXCEPT !.at = "ready"]
  BY DEF Challenged
<1>2. /\ Challenged(q, fresh).at = "ready" /\ Challenged(q, fresh).result = "none"
      /\ Challenged(q, fresh).origin = q.origin
  BY <1>1 DEF Request
<1> QED
  BY <1>2 DEF Prepared

LEMMA CauseStep == PdsTypeInv /\ CauseInv /\ [PdsNext]_pdsVars => CauseInv'
<1> SUFFICES ASSUME PdsTypeInv, CauseInv, [PdsNext]_pdsVars PROVE CauseInv'
  OBVIOUS
<1> USE DEF PdsTypeInv, PdsTypeOK
<1>1. ASSUME NEW r \in Requests, NEW reads \in BOOLEAN, NEW sound \in BOOLEAN,
             Begin(r, reads, sound)
      PROVE  CauseInv'
  <2>1. reqs[r] = NewRequest /\ reqs[r] \in Request
    BY <1>1 DEF Begin, PlacesOK
  <2>2. CASE \E result \in {"rejected", "expired"} : reqs' = [reqs EXCEPT ![r] = Done(@, result)]
    <3>1. PICK result \in {"rejected", "expired"} : reqs' = [reqs EXCEPT ![r] = Done(@, result)]
      BY <2>2
    <3>2. PICK p : p = Done(reqs[r], result)
      OBVIOUS
    <3>3. Prepared(p, cache[p.origin], current[p.origin]) /\ reqs' = [reqs EXCEPT ![r] = p]
      BY <3>1, <3>2, DonePrepared DEF Results
    <3> QED
      BY <1>1, <3>3, PreparedMove DEF Begin
  <2>3. ASSUME NEW o \in Origins,
               reqs' = [reqs EXCEPT ![r].at = "ready", ![r].reads = reads, ![r].origin = o]
        PROVE  CauseInv'
    <3>1. PICK p : p = [reqs[r] EXCEPT !.at = "ready", !.reads = reads, !.origin = o]
      OBVIOUS
    <3>2. /\ p.at = "ready" /\ p.attempts = 0 /\ p.result = "none"
          /\ reqs' = [reqs EXCEPT ![r] = p]
      BY <2>1, <2>3, <3>1, NewType DEF Request
    <3>3. Prepared(p, cache[p.origin], current[p.origin])
      BY <3>2 DEF Prepared
    <3> QED
      BY <1>1, <3>2, <3>3, PreparedMove DEF Begin
  <2> QED
    BY <1>1, <2>2, <2>3 DEF Begin
<1>2. ASSUME NEW r \in Requests, Dispatch(r) PROVE CauseInv'
  <2>1. /\ reqs[r].at = "ready" /\ reqs[r] \in Request /\ reqs[r].result = "none"
        /\ reqs[r].attempts \in Nat /\ reqs[r].attempts <= 1
    BY <1>2 DEF Dispatch, PlacesOK, Request
  <2>2. CASE reqs' = [reqs EXCEPT ![r] = Done(@, "unsigned")]
    <3>1. PICK p : p = Done(reqs[r], "unsigned")
      OBVIOUS
    <3>2. Prepared(p, cache[p.origin], current[p.origin]) /\ reqs' = [reqs EXCEPT ![r] = p]
      BY <2>2, <3>1, DonePrepared DEF Results
    <3> QED
      BY <1>2, <3>2, PreparedMove DEF Dispatch
  <2>3. CASE reqs' = [reqs EXCEPT ![r].at = "flying", ![r].attempts = @ + 1,
                                  ![r].nonce = cache[reqs[r].origin], ![r].reply = NoReply]
    <3>1. PICK p : p = [reqs[r] EXCEPT !.at = "flying", !.attempts = @ + 1,
                                       !.nonce = cache[reqs[r].origin], !.reply = NoReply]
      OBVIOUS
    <3>2. /\ p.at = "flying" /\ p.result = "none" /\ p.attempts = reqs[r].attempts + 1
          /\ p.origin = reqs[r].origin /\ p.nonce = cache[p.origin]
          /\ reqs' = [reqs EXCEPT ![r] = p]
      BY <2>1, <2>3, <3>1 DEF Request
    <3>3. r \notin excused => reqs[r].attempts = 0 \/ cache[p.origin] = current[p.origin]
      BY <2>1, <3>2 DEF CauseInv, PreparedCall, Prepared
    <3>4. r \notin excused => p.attempts = 1 \/ p.nonce = current[p.origin]
      BY <2>1, <3>2, <3>3
    <3>5. r \notin excused => Prepared(p, cache[p.origin], current[p.origin])
      BY <3>2, <3>4 DEF Prepared
    <3> QED
      BY <1>2, <3>2, <3>5, PreparedMove DEF Dispatch
  <2> QED
    BY <1>2, <2>2, <2>3 DEF Dispatch
<1>3. ASSUME NEW r \in Requests, Answer(r) PROVE CauseInv'
  <2>1. PICK q \in Request : q = reqs[r]
    OBVIOUS
  <2>2. /\ q.at = "answered" /\ q.result = "none" /\ q.origin \in Origins
        /\ cache' = Kept(q) /\ UNCHANGED current /\ excused \subseteq excused'
    BY <1>3, <2>1 DEF Answer, PlacesOK, Underway, Awaiting
  <2>3. PICK p \in Headed(q, Kept(q)[q.origin]) : reqs' = [reqs EXCEPT ![r] = p]
    BY <1>3, <2>1 DEF Answer
  <2>4. current[q.origin] # NoNonce
    BY <2>2 DEF Nonce, NoNonce
  <2>5. ASSUME r \notin excused, q.reply.kind = "challenge"
        PROVE  q.attempts = 1 /\ Kept(q)[q.origin] = current[q.origin]
    <3>1. q.attempts = 1 /\ q.reply.nonce = current[q.origin]
      BY <2>1, <2>2, <2>5 DEF CauseInv, PreparedCall, Prepared
    <3> QED
      BY <2>2, <2>4, <3>1 DEF Kept
  <2>6. ASSUME r \notin excused PROVE Prepared(p, cache'[p.origin], current'[p.origin])
    <3>1. CASE p = Done(q, "ok")
      BY <3>1, DonePrepared DEF Results
    <3>2. CASE p = [q EXCEPT !.at = "reading", !.reply.nonce = NoNonce]
      <4>1. /\ p.at = "reading" /\ p.result = "none" /\ p.origin = q.origin
            /\ p.attempts = q.attempts /\ p.reply.kind = q.reply.kind
        BY <2>2, <3>2 DEF Request, Reply
      <4> QED
        BY <2>2, <2>5, <2>6, <4>1 DEF Prepared
    <3>3. CASE q.reply.kind = "challenge" /\ p = Challenged(q, Kept(q)[q.origin])
      <4>1. /\ p.origin = q.origin
            /\ Prepared(p, Kept(q)[q.origin], Kept(q)[q.origin])
        BY <2>2, <2>4, <2>5, <2>6, <3>3, ChallengedPrepared
      <4> QED
        BY <2>2, <2>5, <2>6, <3>3, <4>1
    <3> QED
      BY <3>1, <3>2, <3>3, HeadedCases
  <2>7. ASSUME NEW s \in Requests \ excused', s # r PROVE PreparedCall(s)'
    <3>1. reqs'[s] = reqs[s] /\ s \notin excused /\ PreparedCall(s)
      BY <2>2, <2>3, <2>7 DEF CauseInv
    <3>2. CASE ~Underway(s)
      BY <2>2, <3>1, <3>2 DEF PreparedCall, Prepared, Underway, Awaiting
    <3>3. CASE Underway(s) /\ reqs[s].origin # q.origin
      <4>1. reqs[s].origin \in Origins
        BY <3>3 DEF PlacesOK
      <4>2. cache'[reqs[s].origin] = cache[reqs[s].origin]
        BY <2>2, <3>3, <4>1 DEF Kept
      <4> QED
        BY <2>2, <3>1, <4>2 DEF PreparedCall
    <3>4. CASE Underway(s) /\ reqs[s].origin = q.origin
      <4>1. cache'[q.origin] = current[q.origin] \/ cache' = cache
        BY <1>3, <2>1, <2>2, <2>7, <3>4 DEF Answer
      <4>2. CASE cache' = cache
        BY <2>2, <3>1, <4>2 DEF PreparedCall
      <4>3. CASE cache'[q.origin] = current[q.origin]
        BY <2>2, <3>1, <3>4, <4>3 DEF PreparedCall, Prepared
      <4> QED
        BY <4>1, <4>2, <4>3
    <3> QED
      BY <3>2, <3>3, <3>4
  <2> QED
    BY <2>2, <2>3, <2>6, <2>7 DEF CauseInv, PreparedCall
<1>4. ASSUME NEW r \in Requests, ReadBody(r) PROVE CauseInv'
  <2>1. PICK q \in Request : q = reqs[r]
    OBVIOUS
  <2>2. /\ q.at = "reading" /\ q.result = "none" /\ q.reply.kind # "none"
        /\ q.origin \in Origins
    BY <1>4, <2>1 DEF ReadBody, PlacesOK, Underway, Awaiting
  <2>3. PICK p \in Read(q, cache[q.origin]) : reqs' = [reqs EXCEPT ![r] = p]
    BY <1>4, <2>1 DEF ReadBody
  <2>4. ASSUME r \notin excused PROVE Prepared(p, cache[p.origin], current[p.origin])
    <3>1. CASE \E result \in {"ok", "unreadable", "refused"} : p = Done(q, result)
      BY <3>1, DonePrepared DEF Results
    <3>2. CASE q.reply.kind = "challenge" /\ p = Challenged(q, cache[q.origin])
      <4>1. q.attempts = 1 /\ cache[q.origin] = current[q.origin]
        BY <2>1, <2>2, <2>4, <3>2 DEF CauseInv, PreparedCall, Prepared
      <4>2. current[q.origin] # NoNonce
        BY <2>2 DEF Nonce, NoNonce
      <4>3. p.origin = q.origin /\ Prepared(p, cache[q.origin], cache[q.origin])
        BY <2>2, <3>2, <4>1, <4>2, ChallengedPrepared
      <4> QED
        BY <4>1, <4>3
    <3> QED
      BY <2>2, <2>3, <3>1, <3>2, ReadCases
  <2> QED
    BY <1>4, <2>3, <2>4, PreparedMove DEF ReadBody
<1>5. ASSUME NEW r \in Requests, Serve(r) PROVE CauseInv'
  <2>1. PICK q \in Request : q = reqs[r]
    OBVIOUS
  <2>2. /\ q.at = "flying" /\ q.result = "none" /\ UNCHANGED <<cache, current>>
        /\ excused \subseteq excused'
    BY <1>5, <2>1 DEF Serve, PlacesOK
  <2>3. PICK kind \in {"ok", "challenge", "refused"}, nonce \in {NoNonce, current[q.origin]} :
          /\ reqs' = [reqs EXCEPT ![r].at = "answered",
                                  ![r].reply = [kind |-> kind, nonce |-> nonce]]
          /\ kind = "challenge" => /\ q.nonce # current[q.origin]
                                   /\ nonce = NoNonce => r \in excused'
    BY <1>5, <2>1 DEF Serve
  <2>4. PICK p : p = [q EXCEPT !.at = "answered", !.reply = [kind |-> kind, nonce |-> nonce]]
    OBVIOUS
  <2>5. /\ p.at = "answered" /\ p.result = "none" /\ p.origin = q.origin
        /\ p.attempts = q.attempts /\ p.reply.kind = kind /\ p.reply.nonce = nonce
        /\ reqs' = [reqs EXCEPT ![r] = p]
    BY <2>1, <2>2, <2>3, <2>4 DEF Request
  <2>6. r \notin excused => q.attempts = 1 \/ q.nonce = current[q.origin]
    BY <2>1, <2>2 DEF CauseInv, PreparedCall, Prepared
  <2>7. r \notin excused' => Prepared(p, cache[p.origin], current[p.origin])
    BY <2>2, <2>3, <2>5, <2>6 DEF Prepared
  <2> QED
    BY <2>2, <2>5, <2>7, PreparedMove
<1>6. ASSUME NEW r \in Requests, Fails(r) PROVE CauseInv'
  <2>1. PICK p : p = Done(reqs[r], "network")
    OBVIOUS
  <2>2. Prepared(p, cache[p.origin], current[p.origin]) /\ reqs' = [reqs EXCEPT ![r] = p]
    BY <1>6, <2>1, DonePrepared DEF Fails, Results
  <2> QED
    BY <1>6, <2>2, PreparedMove DEF Fails
<1>7. ASSUME NEW o \in Origins, Rotate(o) PROVE CauseInv'
  <2> SUFFICES ASSUME NEW s \in Requests \ excused' PROVE PreparedCall(s)'
    BY DEF CauseInv
  <2>1. /\ reqs'[s] = reqs[s] /\ cache' = cache /\ PreparedCall(s)
        /\ ~Underway(s) \/ reqs[s].origin # o
    BY <1>7 DEF Rotate, CauseInv
  <2>2. CASE ~Underway(s)
    BY <2>1, <2>2 DEF PreparedCall, Prepared, Underway, Awaiting
  <2>3. CASE Underway(s) /\ reqs[s].origin # o
    <3>1. reqs[s].origin \in Origins
      BY <2>3 DEF PlacesOK
    <3>2. current'[reqs[s].origin] = current[reqs[s].origin]
      BY <1>7, <2>3, <3>1 DEF Rotate
    <3> QED
      BY <2>1, <3>2 DEF PreparedCall
  <2> QED
    BY <2>1, <2>2, <2>3
<1>8. CASE TokenExpires
  BY <1>8 DEF TokenExpires, CauseInv, PreparedCall
<1>9. CASE UNCHANGED pdsVars
  BY <1>9 DEF pdsVars, CauseInv, PreparedCall
<1> QED
  BY <1>1, <1>2, <1>3, <1>4, <1>5, <1>6, <1>7, <1>8, <1>9, StepCases

(* One retry is enough: no call gives up over nonces unless its server or  *)
(* the late answer of another call got in its way.                         *)
THEOREM PdsFailsForCause == PdsSpec => []FailsForCause
<1>1. PdsInit => CauseInv
  <2> SUFFICES ASSUME PdsInit, NEW r \in Requests PROVE PreparedCall(r)
    BY DEF CauseInv
  <2>1. reqs[r] = NewRequest
    BY DEF PdsInit
  <2> QED
    BY <2>1, NewType DEF PreparedCall, Prepared
<1>2. CauseInv => FailsForCause
  BY DEF CauseInv, PreparedCall, Prepared, FailsForCause
<1> QED
  BY <1>1, <1>2, TypeInit, TypeStep, CauseStep, PTL DEF PdsSpec
=============================================================================
