---------------------------- MODULE AppViewReads ----------------------------
(***************************************************************************)
(* The paged reads of src/src/appview.rs: fetch_follows, fetch_followers   *)
(* and fetch_follow_records, each one call of paginate, which asks for     *)
(* page after page until an error, a page of which nothing is left, a page *)
(* without a cursor, or the largest number of pages.  An error leaves what *)
(* had been read: the caller cannot tell it from a short list.             *)
(*                                                                         *)
(* The server is external.  Its list is a sequence of good and bad entries *)
(* (without a subject or a key, in a list of records; without a DID, in    *)
(* one of profiles), and a page may hold fewer entries than asked for,     *)
(* down to none, and still come with a cursor.  "began" is an observation. *)
(* The reads that ask once and return nothing on a failure keep no state   *)
(* to model.                                                               *)
(***************************************************************************)
EXTENDS Naturals, Sequences

CONSTANTS
  Lists,        \* the server's lists: sequences of "good" and "bad"
  PageLimits,   \* the page limits of the callers
  MaxPageLimit, \* the largest the servers take, 100
  MaxPages      \* DEFAULT_MAX_PAGES

ASSUME AppViewAssumption ==
  /\ Lists \subseteq Seq({"good", "bad"})
  /\ PageLimits \subseteq Nat
  /\ MaxPageLimit \in Nat \ {0}
  /\ MaxPages \in Nat \ {0}

VARIABLES
  list,       \* what the server has
  filters,    \* whether extract drops the bad entries
  limit,      \* the limit of each page
  position,   \* the cursor: the place in the list the next page begins at
  began,      \* where the last page began
  turn,       \* pages asked for so far
  items,      \* the places of the entries the client has collected
  ending      \* why the read ended, "none" while it goes on

appviewVars == <<list, filters, limit, position, began, turn, items, ending>>

-----------------------------------------------------------------------------
(* u8::clamp(1, 100).                                                      *)
Clamped(n) == IF n < 1 THEN 1 ELSE IF n > MaxPageLimit THEN MaxPageLimit ELSE n

AppViewInit ==
  /\ list = <<>> /\ filters = TRUE /\ limit = 1
  /\ position = 1 /\ began = 1 /\ turn = 0 /\ items = <<>>
  /\ ending = "not begun"

(* The head of paginate.                                                   *)
Paginate(l, n, drops) ==
  /\ ending = "not begun"
  /\ list' = l /\ filters' = drops /\ limit' = Clamped(n)
  /\ ending' = "none"
  /\ UNCHANGED <<position, began, turn, items>>

(* Its callers.                                                            *)
FetchFollows(l, n) == Paginate(l, n, FALSE)
FetchFollowers(l, n) == Paginate(l, n, FALSE)
FetchFollowRecords(l, n) == Paginate(l, n, TRUE)

(* The places of a page that extract keeps.                                *)
Usable(first, last) ==
  LET kept[k \in (first - 1)..last] ==
        IF k < first THEN <<>>
        ELSE IF list[k] = "good" THEN Append(kept[k - 1], k) ELSE kept[k - 1]
  IN kept[last]

(* One bad profile makes the body of its page one that cannot be decoded.  *)
Decodes(first, last) == filters \/ \A k \in first..last : list[k] = "good"

(* get fails: no answer within the timeout, a status that is no success,   *)
(* or a body that cannot be decoded.                                       *)
PageFails ==
  /\ ending = "none"
  /\ turn' = turn + 1
  /\ ending' = "error"
  /\ UNCHANGED <<list, filters, limit, position, began, items>>

(* A faulty variant of AfterPage: a page that is not full is the last.     *)
AfterPageShort(count, cursor) ==
  IF count < limit THEN "complete" ELSE IF turn + 1 = MaxPages THEN "pages" ELSE "none"

(* Why paginate stops behind a page, if it does.                           *)
AfterPage(count, cursor) ==
  IF count = 0 \/ ~cursor THEN "complete"
  ELSE IF turn + 1 = MaxPages THEN "pages" ELSE "none"

(* The server's page of at most limit entries; it leaves the cursor out    *)
(* only when nothing is left, and perhaps not even then.                   *)
PageArrives ==
  /\ ending = "none"
  /\ \E size \in 0..limit, more \in BOOLEAN :
       LET last == position + size - 1
           page == Usable(position, last)
       IN /\ last <= Len(list) /\ (last < Len(list) => more)
          /\ Decodes(position, last)
          /\ items' = items \o page
          /\ turn' = turn + 1
          /\ began' = position /\ position' = last + 1
          /\ ending' = AfterPage(Len(page), more)
  /\ UNCHANGED <<list, filters, limit>>

AppViewNext ==
  \/ \E l \in Lists, n \in PageLimits :
       FetchFollows(l, n) \/ FetchFollowers(l, n) \/ FetchFollowRecords(l, n)
  \/ PageFails \/ PageArrives

-----------------------------------------------------------------------------
(* A paged read brings the usable entries in their order, each once, and   *)
(* brings them all unless a page failed, the largest number of pages was   *)
(* reached, or nothing in the last page could be used; profiles are never  *)
(* left out of the middle.                                                 *)
ReadEndsForCause ==
  /\ items = Usable(1, position - 1)
  /\ ~filters => Len(items) = position - 1
  /\ ending \notin {"not begun", "none"} /\ items # Usable(1, Len(list)) =>
       \/ ending = "error"
       \/ turn = MaxPages
       \/ Usable(began, position - 1) = <<>>
=============================================================================
