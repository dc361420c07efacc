---------------------------- MODULE PdsRepoClient ----------------------------
(***************************************************************************)
(* The write client of src/src/repo/client.rs: requests signed with DPoP   *)
(* proofs, whose nonces all clones of a client and of its OAuth client     *)
(* share in one cache, and the one retry after a use_dpop_nonce challenge. *)
(*                                                                         *)
(* A request is one call of create_record, put_record, delete_record,      *)
(* get_record or upload_blob.  They differ in what they check before they  *)
(* send and in whether they need the answer's body.  The servers are       *)
(* external: each accepts its current nonce only, may replace it at any    *)
(* time, and may leave the DPoP-Nonce header out of any response.          *)
(*                                                                         *)
(* "carried" and "excused" are observations.                               *)
(***************************************************************************)
EXTENDS Naturals

CONSTANTS
  Requests,    \* calls of the client, each made once
  Origins,     \* origins of PDS endpoints
  MaxNonce     \* bound on the nonces a server hands out

ASSUME PdsAssumption == MaxNonce \in Nat \ {0}

VARIABLES
  reqs,        \* request -> where it is and what it has sent and heard
  cache,       \* DPoPNonceCache: origin -> nonce
  current,     \* origin -> the nonce its server accepts
  expired,     \* whether the session's access token has expired
  carried,     \* request -> how often a server has carried it out
  excused      \* requests a server or another request got in the way of

pdsVars == <<reqs, cache, current, expired, carried, excused>>

-----------------------------------------------------------------------------
NoNonce == [origin |-> "none", n |-> 0]
Nonce   == [origin : Origins, n : 1..MaxNonce]
Nonces  == Nonce \cup {NoNonce}

Reply   == [kind : {"ok", "challenge", "refused", "none"}, nonce : Nonces]
NoReply == [kind |-> "none", nonce |-> NoNonce]

Awaiting == {"flying", "answered", "reading"}
Places   == {"new", "ready", "done"} \cup Awaiting
Results  == {"none", "ok", "expired", "rejected", "unsigned", "network", "refused",
             "omitted", "limit", "unreadable"}
Request  == [at : Places, reads : BOOLEAN, origin : Origins \cup {"none"}, attempts : Nat,
             nonce : Nonces, reply : Reply, result : Results]

NewRequest == [at |-> "new", reads |-> TRUE, origin |-> "none", attempts |-> 0,
               nonce |-> NoNonce, reply |-> NoReply, result |-> "none"]

(* validate_rkey: a record key is well formed or not.                      *)
Rkeys == {"valid", "invalid"}

(* A call that has returned forgets what it was about.                     *)
Done(q, result) == [NewRequest EXCEPT !.at = "done", !.result = result]

Underway(r) == reqs[r].at \in Awaiting \cup {"ready"}

PdsInit ==
  /\ reqs = [r \in Requests |-> NewRequest]
  /\ cache = [o \in Origins |-> NoNonce]
  /\ current = [o \in Origins |-> [origin |-> o, n |-> 1]]
  /\ expired = FALSE
  /\ carried = [r \in Requests |-> 0]
  /\ excused = {}

-----------------------------------------------------------------------------
(* A call begins: its arguments may be turned down before anything is      *)
(* sent, and so is every call once the session has expired.  "reads" says  *)
(* whether the call needs the body of a success.                           *)
Begin(r, reads, sound) ==
  /\ reqs[r].at = "new"
  /\ \/ ~sound /\ reqs' = [reqs EXCEPT ![r] = Done(@, "rejected")]
     \/ sound /\ expired /\ reqs' = [reqs EXCEPT ![r] = Done(@, "expired")]
     \/ /\ sound /\ ~expired
        /\ \E o \in Origins :
             reqs' = [reqs EXCEPT ![r].at = "ready", ![r].reads = reads, ![r].origin = o]
  /\ UNCHANGED <<cache, current, expired, carried, excused>>

(* The endpoint is missing or no URL in "located"; the record cannot be    *)
(* serialised in "encoded".  create_record may leave the record key to the *)
(* server, and upload_blob has none; delete_record ignores the answer's    *)
(* body.                                                                   *)
CreateRecord(r) ==
  \E rkey \in {"absent"} \cup Rkeys, encoded, located \in BOOLEAN :
    Begin(r, TRUE, rkey # "invalid" /\ encoded /\ located)

DeleteRecord(r) ==
  \E rkey \in Rkeys, located \in BOOLEAN : Begin(r, FALSE, rkey # "invalid" /\ located)

PutRecord(r) ==
  \E rkey \in Rkeys, encoded, located \in BOOLEAN :
    Begin(r, TRUE, rkey # "invalid" /\ encoded /\ located)

GetRecord(r) ==
  \E rkey \in Rkeys, located \in BOOLEAN : Begin(r, TRUE, rkey # "invalid" /\ located)

UploadBlob(r) == \E located \in BOOLEAN : Begin(r, TRUE, located)

(* The head of the loop: the cached nonce goes into the proof, which may   *)
(* fail to be signed.                                                      *)
Dispatch(r) ==
  /\ reqs[r].at = "ready"
  /\ \/ reqs' = [reqs EXCEPT ![r] = Done(@, "unsigned")]
     \/ reqs' = [reqs EXCEPT ![r].at = "flying", ![r].attempts = @ + 1,
                             ![r].nonce = cache[reqs[r].origin], ![r].reply = NoReply]
  /\ UNCHANGED <<cache, current, expired, carried, excused>>

(* A faulty variant of Fails: a request that got no answer is sent again.  *)
FailsOrRetries(r) ==
  /\ reqs[r].at \in Awaiting
  /\ reqs' = [reqs EXCEPT ![r] = IF @.attempts < 2 THEN [@ EXCEPT !.at = "ready"]
                                                   ELSE Done(@, "network")]
  /\ UNCHANGED <<cache, current, expired, carried, excused>>

(* The request, its answer or the answer's body is lost, or the caller     *)
(* drops the call.                                                         *)
Fails(r) ==
  /\ reqs[r].at \in Awaiting
  /\ reqs' = [reqs EXCEPT ![r] = Done(@, "network")]
  /\ UNCHANGED <<cache, current, expired, carried, excused>>

(* Faulty variants of Kept: one entry for all origins; only a success      *)
(* brings a nonce.                                                         *)
KeptForAll(q) ==
  IF q.reply.nonce = NoNonce THEN cache ELSE [o \in Origins |-> q.reply.nonce]
KeptOnSuccess(q) ==
  IF q.reply.nonce = NoNonce \/ q.reply.kind # "ok" THEN cache
  ELSE [cache EXCEPT ![q.origin] = q.reply.nonce]

(* A nonce in any response replaces the cached one of its origin.          *)
Kept(q) ==
  IF q.reply.nonce = NoNonce THEN cache ELSE [cache EXCEPT ![q.origin] = q.reply.nonce]

(* A faulty variant of Challenged: no limit of attempts.                   *)
ChallengedForever(q, fresh) ==
  IF fresh = NoNonce THEN Done(q, "omitted") ELSE [q EXCEPT !.at = "ready"]

(* A challenge: one retry, and only if the cache has a nonce by now.       *)
Challenged(q, fresh) ==
  IF q.attempts >= 2 THEN Done(q, "limit")
  ELSE IF fresh = NoNonce THEN Done(q, "omitted")
  ELSE [q EXCEPT !.at = "ready"]

(* What the loop makes of the head of a response: WWW-Authenticate may     *)
(* tell a challenge; every other response is judged by its body, but for a *)
(* success whose body nobody wants.                                        *)
Headed(q, fresh) ==
  {IF q.reply.kind = "ok" /\ ~q.reads THEN Done(q, "ok")
   ELSE [q EXCEPT !.at = "reading", !.reply.nonce = NoNonce]}
    \cup (IF q.reply.kind = "challenge" THEN {Challenged(q, fresh)} ELSE {})

Answer(r) ==
  LET q    == reqs[r]
      kept == Kept(q)
  IN /\ q.at = "answered"
     /\ cache' = kept
     /\ \E next \in Headed(q, kept[q.origin]) : reqs' = [reqs EXCEPT ![r] = next]
     /\ excused' = IF kept[q.origin] = current[q.origin] \/ kept = cache THEN excused
                   ELSE excused \cup {s \in Requests \ {r} :
                                        Underway(s) /\ reqs[s].origin = q.origin}
     /\ UNCHANGED <<current, expired, carried>>

(* The body, of which no more than a limit is read: that of a success may  *)
(* be too long, no JSON, or without the fields expected; that of an error  *)
(* is cut at its limit, and a challenge not recognised is a refusal.       *)
Read(q, fresh) ==
  CASE q.reply.kind = "ok" -> {Done(q, "ok"), Done(q, "unreadable")}
    [] q.reply.kind = "refused" -> {Done(q, "refused")}
    [] q.reply.kind = "challenge" -> {Challenged(q, fresh), Done(q, "refused")}

ReadBody(r) ==
  /\ reqs[r].at = "reading"
  /\ \E next \in Read(reqs[r], cache[reqs[r].origin]) : reqs' = [reqs EXCEPT ![r] = next]
  /\ UNCHANGED <<cache, current, expired, carried, excused>>

-----------------------------------------------------------------------------
(* The server: a proof with its current nonce and a live token is carried  *)
(* out or refused, one with another nonce is challenged.                   *)
Serve(r) ==
  LET q       == reqs[r]
      offered == {NoNonce, current[q.origin]}
      reply(kind, nonce) ==
        reqs' = [reqs EXCEPT ![r].at = "answered",
                             ![r].reply = [kind |-> kind, nonce |-> nonce]]
  IN /\ q.at = "flying"
     /\ \E nonce \in offered :
          \/ /\ q.nonce = current[q.origin] /\ ~expired
             /\ reply("ok", nonce)
             /\ carried' = [carried EXCEPT ![r] = @ + 1]
             /\ UNCHANGED excused
          \/ /\ q.nonce # current[q.origin]
             /\ reply("challenge", nonce)
             /\ excused' = IF nonce = NoNonce THEN excused \cup {r} ELSE excused
             /\ UNCHANGED carried
          \/ /\ reply("refused", nonce)
             /\ UNCHANGED <<carried, excused>>
     /\ UNCHANGED <<cache, current, expired>>

Rotate(o) ==
  /\ current[o].n < MaxNonce
  /\ current' = [current EXCEPT ![o].n = @ + 1]
  /\ excused' = excused \cup {r \in Requests : Underway(r) /\ reqs[r].origin = o}
  /\ UNCHANGED <<reqs, cache, expired, carried>>

TokenExpires ==
  /\ ~expired
  /\ expired' = TRUE
  /\ UNCHANGED <<reqs, cache, current, carried, excused>>

Moves(r) ==
  \/ CreateRecord(r) \/ DeleteRecord(r) \/ PutRecord(r) \/ GetRecord(r) \/ UploadBlob(r)
  \/ Dispatch(r) \/ Answer(r) \/ ReadBody(r) \/ Serve(r)

PdsNext ==
  \/ \E r \in Requests : Moves(r) \/ Fails(r)
  \/ \E o \in Origins : Rotate(o)
  \/ TokenExpires

PdsSpec == PdsInit /\ [][PdsNext]_pdsVars

-----------------------------------------------------------------------------
(* Every variable stays in its set, and no request is sent three times.    *)
PdsTypeOK ==
  /\ reqs \in [Requests -> Request] /\ \A r \in Requests : reqs[r].attempts <= 2
  /\ cache \in [Origins -> Nonces]
  /\ current \in [Origins -> Nonce]
  /\ expired \in BOOLEAN
  /\ carried \in [Requests -> Nat]
  /\ excused \in SUBSET Requests

(* At most once: no write is carried out twice, whatever is lost on the    *)
(* way, and one reported done has been carried out.                        *)
CarriedOnce ==
  \A r \in Requests : /\ carried[r] <= 1
                      /\ reqs[r].result = "ok" => carried[r] = 1

(* A nonce is only ever sent to the server that issued it.                 *)
NonceStaysHome ==
  \A r \in Requests : reqs[r].nonce # NoNonce => reqs[r].nonce.origin = reqs[r].origin

(* One retry is enough: a request gives up over nonces only if the server  *)
(* replaced its nonce meanwhile or left the nonce out of a challenge, or   *)
(* the late answer of another request put an older nonce back.             *)
FailsForCause ==
  \A r \in Requests : reqs[r].result \in {"limit", "omitted"} => r \in excused
=============================================================================
