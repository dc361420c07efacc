------------------------------ MODULE Skybase ------------------------------
(***************************************************************************)
(* The application's side of skybase (src/src/lib.rs): the clients and     *)
(* helpers that the facade hands out.  They share no state (the store with *)
(* its bus and queries, the PDS client with its nonce cache, the AppView   *)
(* client, the mock server, and two pure helpers), so that letting them    *)
(* take turns would only multiply the states: a behaviour is about one of  *)
(* them, its activity, and the others rest as they were made.              *)
(***************************************************************************)
EXTENDS ChangeFeed, PdsRepoClient, AppViewReads, MockJetstream, LinkFacets, CivilDate,
        SubscriptionUrl

VARIABLE activity

Activities == {"feed", "paging", "query", "pds", "appview", "mock", "links", "dates", "url"}

storeAll == <<vars, feedVars, readVars>>

skybaseVars == <<activity, storeAll, queryVars, pdsVars, appviewVars, mockVars,
                 linkVars, dateVars, urlVars>>

SkybaseInit ==
  /\ activity \in Activities
  /\ FeedInit /\ QueryInit /\ PdsInit /\ AppViewInit /\ MockInit /\ LinkInit /\ DateInit /\ UrlInit

SkybaseNext ==
  /\ UNCHANGED activity
  /\ \/ /\ \/ activity = "feed" /\ SubscriberStep
           \/ activity = "paging" /\ ReaderStep
        /\ UNCHANGED <<queryVars, pdsVars, appviewVars, mockVars, linkVars, dateVars, urlVars>>
     \/ /\ activity = "query" /\ QueryNext
        /\ UNCHANGED <<storeAll, pdsVars, appviewVars, mockVars, linkVars, dateVars, urlVars>>
     \/ /\ activity = "pds" /\ PdsNext
        /\ UNCHANGED <<storeAll, queryVars, appviewVars, mockVars, linkVars, dateVars, urlVars>>
     \/ /\ activity = "appview" /\ AppViewNext
        /\ UNCHANGED <<storeAll, queryVars, pdsVars, mockVars, linkVars, dateVars, urlVars>>
     \/ /\ activity = "mock" /\ MockNext
        /\ UNCHANGED <<storeAll, queryVars, pdsVars, appviewVars, linkVars, dateVars, urlVars>>
     \/ /\ activity = "links" /\ LinkNext
        /\ UNCHANGED <<storeAll, queryVars, pdsVars, appviewVars, mockVars, dateVars, urlVars>>
     \/ /\ activity = "dates" /\ Tomorrow
        /\ UNCHANGED <<storeAll, queryVars, pdsVars, appviewVars, mockVars, linkVars, urlVars>>
     \/ /\ activity = "url" /\ UrlNext
        /\ UNCHANGED <<storeAll, queryVars, pdsVars, appviewVars, mockVars, linkVars, dateVars>>

(* What the runtime owes: it polls a PDS call that has something to send,  *)
(* a paged read, each page of which comes or fails within the HTTP timeout *)
(* of the AppView client, and the mock server's tasks, whose select takes  *)
(* a command sooner or later though other branches are ready as well.      *)
(* Nothing is owed by those who have no timeout to keep: the PDS client's  *)
(* servers and networks, and the clients of the mock server.               *)
SkybaseFairness ==
  /\ \A r \in Requests : WF_pdsVars(activity = "pds" /\ Dispatch(r))
  /\ WF_appviewVars(activity = "appview" /\ (PageFails \/ PageArrives))
  /\ WF_mockVars(activity = "mock" /\ AcceptLoopEnds)
  /\ \A c \in Conns : SF_mockVars(activity = "mock" /\ ReadCommand(c))

SkybaseSpec == SkybaseInit /\ [][SkybaseNext]_skybaseVars /\ SkybaseFairness

-----------------------------------------------------------------------------
(* The variables of the feed, the PDS client and the mock server, the page *)
(* limit and the turn of an AppView read stay in their sets.               *)
SkybaseTypeOK ==
  /\ activity \in Activities
  /\ FeedTypeOK /\ PdsTypeOK /\ MockTypeOK
  /\ limit \in 1..MaxPageLimit /\ turn \in 0..MaxPages

(* What an application starts ends, or waits for somebody else.  A call of *)
(* the PDS client comes to its last request, and from then on is done or   *)
(* waits for the server; a paged read of the AppView ends; a mock server   *)
(* that is dropped stops listening, and every connection left, those it    *)
(* accepted while it was told to stop and those that lost the abort in the *)
(* ring among them, is one whose client has yet to finish the handshake or *)
(* to take a frame.                                                        *)
ActivitiesEnd ==
  <>[](/\ activity = "pds" => \A r \in Requests : reqs[r].at # "ready"
       /\ activity = "appview" => ending # "none"
       /\ activity = "mock" /\ dropped => ~accepting /\ \A c \in Conns : conns[c] # "open")
=============================================================================
