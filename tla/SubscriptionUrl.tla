--------------------------- MODULE SubscriptionUrl ---------------------------
(***************************************************************************)
(* The subscription URL of a Jetstream client, as the builder methods of   *)
(* StreamConfig (src/src/ingest/streamer.rs) and IngesterConfig            *)
(* (consumer.rs) collect its parts and build_subscription_url_full, which  *)
(* both files have a copy of, puts them together by inserting text.        *)
(*                                                                         *)
(* A URL is a sequence of tokens <<kind, value>>.  A value is a number,    *)
(* and 0 stands for what is left out: a blank name, the cursor 0.  Names   *)
(* are percent-encoded, which keeps them apart from the marks around them  *)
(* and is undone by the server: a name is its number on both sides.  A     *)
(* parameter's token can stand anywhere in an endpoint: behind a token of  *)
(* kind text it is the end of a longer name ("precursor=").                *)
(***************************************************************************)
EXTENDS Naturals, SequencesExt

CONSTANTS
  Endpoints,   \* the endpoints of the applications, sequences of tokens
  Names,       \* names of collections and DIDs, 0 among them
  MaxParts     \* bound on the builder calls

VARIABLES
  config,      \* endpoint, collections, dids and cursor
  url          \* the URL built, <<>> before

urlVars == <<config, url>>

-----------------------------------------------------------------------------
Scheme == <<"scheme", 0>>
Slash  == <<"slash", 0>>
Query  == <<"query", 0>>
Amp    == <<"amp", 0>>

Has(tokens, kind) == \E i \in DOMAIN tokens : tokens[i][1] = kind

(* A URL has one question mark at most and ampersands behind it only.      *)
Kinds == {"wantedCollections", "wantedDids", "cursor"}
TokenKinds == Kinds \cup {"scheme", "host", "slash", "text", "query", "amp", "other"}

WellFormed(tokens) ==
  /\ tokens \in Seq(TokenKinds \X Nat)
  /\ \A i \in DOMAIN tokens :
       /\ tokens[i][1] \in {"scheme", "query", "amp"} => tokens[i][2] = 0
       /\ tokens[i][1] = "amp" => \E j \in 1..(i - 1) : tokens[j] = Query
       /\ tokens[i] = Query => \A j \in 1..(i - 1) : tokens[j] # Query

ASSUME UrlAssumption ==
  /\ \A endpoint \in Endpoints : WellFormed(endpoint)
  /\ Names \subseteq Nat

(* A host without a scheme is reached by wss.                              *)
WithScheme(tokens) ==
  IF tokens # <<>> /\ tokens[1][1] = "scheme" THEN tokens ELSE <<Scheme>> \o tokens

WithPath(tokens) ==
  IF Has(tokens, "slash") \/ Has(tokens, "query") THEN tokens ELSE Append(tokens, Slash)

(* Parameters of a kind whose name, with its "=", the endpoint has nowhere *)
(* in its text; blank ones left out.                                       *)
Added(tokens, kind, values) ==
  LET named[k \in 0..Len(values)] ==
        IF k = 0 THEN <<>>
        ELSE IF values[k] = 0 THEN named[k - 1] ELSE Append(named[k - 1], <<kind, values[k]>>)
  IN IF Has(tokens, kind) THEN <<>> ELSE named[Len(values)]

Joined(params) ==
  [k \in 1..(2 * Len(params) - 1) |-> IF k % 2 = 1 THEN params[(k + 1) \div 2] ELSE Amp]

(* A faulty variant of Attached: the endpoint's own query is overlooked.   *)
AttachedAnew(tokens, params) ==
  IF params = <<>> THEN tokens ELSE (tokens \o <<Query>>) \o Joined(params)

(* The parameters behind the URL, with a mark unless one is there.         *)
Attached(tokens, params) ==
  LET mark == IF Has(tokens, "query") THEN Amp ELSE Query
      open == tokens[Len(tokens)] \in {Query, Amp}
  IN IF params = <<>> THEN tokens
     ELSE tokens \o (IF open THEN <<>> ELSE <<mark>>) \o Joined(params)

BuildSubscriptionUrlFull(endpoint, collections, dids, cursor) ==
  LET base == WithPath(WithScheme(endpoint))
  IN Attached(base, Added(base, "wantedCollections", collections)
                      \o Added(base, "wantedDids", dids)
                      \o Added(base, "cursor", <<cursor>>))

-----------------------------------------------------------------------------
UrlInit ==
  /\ config = [endpoint |-> <<>>, collections |-> <<>>, dids |-> <<>>, cursor |-> 0]
  /\ url = <<>>

NewConfig(endpoint) ==
  /\ config.endpoint = <<>>
  /\ config' = [config EXCEPT !.endpoint = endpoint]
  /\ UNCHANGED url

Building == url = <<>> /\ config.endpoint # <<>>
Room(n) == Building /\ Len(config.collections) + Len(config.dids) + n <= MaxParts

WithCollection(name) ==
  Room(1) /\ config' = [config EXCEPT !.collections = Append(@, name)] /\ UNCHANGED url

(* The collections given before are forgotten.                             *)
WithCollections(names) ==
  Room(Len(names)) /\ config' = [config EXCEPT !.collections = names] /\ UNCHANGED url

WithDid(did) == Room(1) /\ config' = [config EXCEPT !.dids = Append(@, did)] /\ UNCHANGED url

WithDids(dids) ==
  Room(Len(dids)) /\ config' = [config EXCEPT !.dids = dids] /\ UNCHANGED url

WithReplayFrom(time) ==
  Building /\ config' = [config EXCEPT !.cursor = time] /\ UNCHANGED url

BuildUrl ==
  /\ Building
  /\ url' = BuildSubscriptionUrlFull(config.endpoint, config.collections, config.dids,
                                     config.cursor)
  /\ UNCHANGED config

UrlNext ==
  \/ \E endpoint \in Endpoints : NewConfig(endpoint)
  \/ \E name \in Names : WithCollection(name) \/ WithDid(name)
  \/ \E name, other \in Names : WithCollections(<<name, other>>) \/ WithDids(<<name, other>>)
  \/ \E time \in {0, 1} : WithReplayFrom(time)
  \/ BuildUrl

-----------------------------------------------------------------------------
(* What a server (external) takes from a URL: the parameters behind the    *)
(* first question mark, each behind that mark or an ampersand.             *)
Received(tokens, kind) ==
  {tokens[i][2] : i \in {j \in DOMAIN tokens :
     /\ tokens[j][1] = kind
     /\ j > 1
     /\ \/ tokens[j - 1] = Amp /\ Has(SubSeq(tokens, 1, j - 2), "query")
        \/ tokens[j - 1] = Query /\ ~Has(SubSeq(tokens, 1, j - 2), "query")}}

(* The name of a parameter as a part of some other text.                   *)
Masked(tokens, kind) == Has(tokens, kind) /\ Received(tokens, kind) = {}

(* The server is asked for what was configured: each kind of parameter     *)
(* arrives as the endpoint gives it, or else as the builder calls gave it, *)
(* whatever query the endpoint brings and however it ends.  An endpoint    *)
(* that has the name inside other text is excepted: its parameter is lost. *)
UrlCarries ==
  url # <<>> =>
    LET Given(kind) == Received(config.endpoint, kind)
        Expected(kind, values) ==
          IF Given(kind) # {} \/ Masked(config.endpoint, kind) THEN Given(kind)
          ELSE ToSet(values) \ {0}
    IN /\ url[1] = Scheme
       /\ Received(url, "wantedCollections") = Expected("wantedCollections", config.collections)
       /\ Received(url, "wantedDids") = Expected("wantedDids", config.dids)
       /\ Received(url, "cursor") = Expected("cursor", <<config.cursor>>)
=============================================================================
