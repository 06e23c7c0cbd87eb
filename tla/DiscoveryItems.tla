--------------------------- MODULE DiscoveryItems ---------------------------
(* The items of one client: stored and scored by the fetches of its sources  *)
(* (the "storing" step of DiscoverySources), promoted to briefs or archived  *)
(* by reviewers, one by one or in bulk. Fetches and reviewers share only the *)
(* tables; a transaction here reads, and later writes and commits: it locks  *)
(* nothing it reads. A step is the code between two calls to the database.   *)
EXTENDS Integers, FiniteSets, Sequences

CONSTANTS
  Item,       \* contents by their raw hash; an item is the row with that hash
  Feed,       \* sources of the client, each fetched again and again
  Call,       \* reviewers' requests
  Single,     \*   those that promote one item, and not a list in bulk
  Outcome,    \* of scoring: scored or suppressed
  Limit,      \* DISCOVERY_BULK_SELECTION_LIMIT: items of one request
  None,       \* no brief, no source, no row
  Threshold   \* DISCOVERY_SCORING_PENDING_THRESHOLD

\* A place in a request's list; the brief that is made there has its name.
Job == Call \X (1..Limit)

ASSUME OutcomeAssumption ==
  Outcome \intersect {"absent", "pending", "promoted", "archived", "none"} = {}
ASSUME CallAssumption == Single \subseteq Call
ASSUME BoundAssumption == Limit \in Nat \ {0} /\ Threshold \in Nat /\ IsFiniteSet(Item)
ASSUME NoneAssumption == None \notin Item \union Feed \union Job

VARIABLES
  status,   \* discovery_items.status, or "absent"
  score,    \* discovery_scores.status_outcome
  source,   \* discovery_items.source_id
  brief,    \* discovery_items.brief_id
  briefs,   \* the briefs made from items that are still stored, until they are deleted
  reviews,  \* the item's rows of discovery_item_status_history as they committed
            \* (their created_at is taken before, and is left out)
  fetch,    \* where the fetch of each source is
  batch,    \*   the items it brings, stores, has yet to score
  call,     \* where each request is
  action,   \*   promote or archive
  wanted,   \*   the ids it lists, None where the row has gone
  result,   \*   the results so far, in the order of the list
  stale,    \*   the brief of the item it promotes has changed since it was read
  raced     \* items promoted on a stale read

item == <<status, score, source, brief, briefs, reviews, raced>>
fetching == <<fetch, batch>>
request == <<call, action, wanted, result, stale>>
vars == <<item, fetching, request>>

Reviewed == {"promoted", "archived"}
Review == [to : Reviewed, by : Job]
Lists(elements) == UNION {[1..n -> elements] : n \in 1..Limit}

\* The place a request is at, and the item there.
At(c) == Len(result[c]) + 1
Current(c) == wanted[c][At(c)]

TypeOK ==
  /\ status \in [Item -> Outcome \union Reviewed \union {"absent", "pending"}]
  /\ score \in [Item -> Outcome \union {"none"}]
  /\ source \in [Item -> Feed \union {None}]
  /\ brief \in [Item -> Job \union {None}]
  /\ briefs \subseteq Job
  /\ reviews \in [Item -> Seq(Review)]
  /\ raced \subseteq Item
  /\ fetch \in [Feed -> {"idle", "inserting", "scoring", "persisting", "resetting"}]
  /\ batch \in [Feed -> SUBSET Item]
  /\ call \in [Call -> {"idle", "next", "writing", "detail", "done"}]
  /\ action \in [Call -> {"promote", "archive"}]
  /\ wanted \in [Call -> Seq(Item \union {None})]
  /\ \A c \in Call : Len(wanted[c]) <= Limit
  /\ result \in [Call -> Seq({"success", "conflict", "failed", "unread"})]
  /\ stale \in [Call -> BOOLEAN]
  /\ \A c \in Call : /\ call[c] = "idle" => result[c] = <<>>
                     /\ At(c) \in DOMAIN wanted[c] <=> call[c] \in {"next", "writing", "detail"}

Init ==
  /\ status = [i \in Item |-> "absent"]
  /\ score = [i \in Item |-> "none"]
  /\ source = [i \in Item |-> None]
  /\ brief = [i \in Item |-> None]
  /\ briefs = {}
  /\ reviews = [i \in Item |-> <<>>]
  /\ raced = {}
  /\ fetch = [f \in Feed |-> "idle"]
  /\ batch = [f \in Feed |-> {}]
  /\ call = [c \in Call |-> "idle"]
  /\ action = [c \in Call |-> "archive"]
  /\ wanted = [c \in Call |-> <<>>]
  /\ result = [c \in Call |-> <<>>]
  /\ stale = [c \in Call |-> FALSE]

\* The briefs of items change: what other promotions have read of them is stale.
Outdated(c) ==
  /\ call[c] = "writing" /\ action[c] = "promote" /\ Current(c) # None
  /\ brief'[Current(c)] # brief[Current(c)]

Outdate(ended) ==
  stale' = [c \in Call |-> c \notin ended /\ (stale[c] \/ Outdated(c))]

-----------------------------------------------------------------------------
(* A fetch stores and scores.                                                *)

Pending == {i \in Item : status[i] = "pending"}

FetchGoes(f, place, items) ==
  /\ fetch' = [fetch EXCEPT ![f] = place]
  /\ batch' = [batch EXCEPT ![f] = items]

FetchEnds(f) == FetchGoes(f, "idle", {})

\* The adapter brings items; persistDiscoveryItems selects the known hashes.
Fetch(f) ==
  /\ fetch[f] = "idle"
  /\ \E found \in SUBSET Item :
       LET new == {i \in found : status[i] = "absent"} IN
         IF new = {} THEN FetchEnds(f) ELSE FetchGoes(f, "inserting", new)
  /\ UNCHANGED <<item, request>>

\* One INSERT, which the unique hash refuses as a whole when another fetch has
\* stored one of the items meanwhile. Without new items nothing is scored.
Insert(f) ==
  /\ fetch[f] = "inserting"
  /\ IF \A i \in batch[f] : status[i] = "absent"
       THEN /\ status' = [i \in Item |->
                            IF i \in batch[f] THEN "pending" ELSE status[i]]
            /\ source' = [i \in Item |-> IF i \in batch[f] THEN f ELSE source[i]]
            /\ FetchGoes(f, "scoring", batch[f])
       ELSE FetchEnds(f) /\ UNCHANGED <<status, source>>
  /\ UNCHANGED <<score, brief, briefs, reviews, raced, request>>

\* runInlineScoring, unless the feature is off or the backlog too long:
\* scoreDiscoveryItems computes every score, or answers with an error about some of
\* the items; any other error ends the scoring. The answer may be any, so that what
\* others do between the count and the answer makes no difference.
Score(f) ==
  /\ fetch[f] = "scoring"
  /\ \/ Cardinality(Pending) <= Threshold /\ FetchGoes(f, "persisting", batch[f])
     \/ /\ Cardinality(Pending) <= Threshold
        /\ \E failed \in SUBSET batch[f] \ {{}} : FetchGoes(f, "resetting", failed)
     \/ FetchEnds(f)
  /\ UNCHANGED <<item, request>>

\* upsertDiscoveryScore: a transaction for each item, in any order.
Persist(f, i, outcome) ==
  /\ fetch[f] = "persisting"
  /\ i \in batch[f]
  /\ score' = [score EXCEPT ![i] = outcome]
  /\ status' = [status EXCEPT ![i] = outcome]
  /\ IF batch[f] = {i} THEN FetchEnds(f) ELSE FetchGoes(f, "persisting", batch[f] \ {i})
  /\ UNCHANGED <<source, brief, briefs, reviews, raced, request>>

\* Mutant: the status of the item is written though its score is not.
PersistFails_Half(f, i) ==
  /\ fetch[f] = "persisting"
  /\ i \in batch[f]
  /\ \E outcome \in Outcome : status' = [status EXCEPT ![i] = outcome]
  /\ IF batch[f] = {i} THEN FetchEnds(f) ELSE FetchGoes(f, "persisting", batch[f] \ {i})
  /\ UNCHANGED <<score, source, brief, briefs, reviews, raced, request>>

\* One of the transactions fails; the others go on.
PersistFails(f, i) ==
  /\ fetch[f] = "persisting"
  /\ i \in batch[f]
  /\ IF batch[f] = {i} THEN FetchEnds(f) ELSE FetchGoes(f, "persisting", batch[f] \ {i})
  /\ UNCHANGED <<item, request>>

\* resetDiscoveryItemsToPending, whatever the status is by now.
Reset(f) ==
  /\ fetch[f] = "resetting"
  /\ status' = [i \in Item |-> IF i \in batch[f] THEN "pending" ELSE status[i]]
  /\ FetchEnds(f)
  /\ UNCHANGED <<score, source, brief, briefs, reviews, raced, request>>

\* The server restarts in the middle of a fetch.
Crash(f) ==
  /\ fetch[f] # "idle"
  /\ FetchEnds(f)
  /\ UNCHANGED <<item, request>>

\* The briefs that were made from an item.
Made(i) == {reviews[i][n].by : n \in DOMAIN reviews[i]}

\* deleteDiscoverySource: its items go with it, and with them their scores and
\* their history; what its fetch would still insert, score or reset is refused or
\* has no row. The source may be created again.
DeleteSource(f) ==
  LET gone == {i \in Item : source[i] = f}
      Without(default, old) == [i \in Item |-> IF i \in gone THEN default ELSE old[i]]
  IN /\ status' = Without("absent", status)
     /\ score' = Without("none", score)
     /\ source' = Without(None, source)
     /\ brief' = Without(None, brief)
     /\ reviews' = Without(<<>>, reviews)
     /\ briefs' = {b \in briefs : \A i \in gone : b \notin Made(i)}
     /\ raced' = raced \ gone
     /\ FetchEnds(f)
     /\ wanted' = [c \in Call |-> [n \in DOMAIN wanted[c] |->
                     IF wanted[c][n] \in gone THEN None ELSE wanted[c][n]]]
     /\ UNCHANGED <<call, action, result, stale>>

-----------------------------------------------------------------------------
(* A request goes through its list: executeDiscoveryBulkAction, or the       *)
(* promotion of one item. The list may name an item more than once.          *)

Request(c) ==
  /\ call[c] = "idle"
  /\ \E list \in Lists({i \in Item : status[i] # "absent"}), what \in {"promote", "archive"} :
       /\ c \in Single => what = "promote" /\ DOMAIN list = {1}
       /\ wanted' = [wanted EXCEPT ![c] = list]
       /\ action' = [action EXCEPT ![c] = what]
  /\ call' = [call EXCEPT ![c] = "next"]
  /\ UNCHANGED <<item, fetching, result, stale>>

\* Mutant: an item is promoted whether it has a brief or not.
Conflicts_Unchecked(c, i) == action[c] = "archive" /\ status[i] = "archived"

Conflicts(c, i) ==
  \/ action[c] = "promote" /\ brief[i] # None
  \/ action[c] = "archive" /\ status[i] = "archived"

\* Mutant: the request goes on after its last item.
Settle_GoesOn(c, outcome) ==
  /\ result' = [result EXCEPT ![c] = Append(@, outcome)]
  /\ call' = [call EXCEPT ![c] = IF At(c) \in DOMAIN wanted[c] THEN "next" ELSE "done"]
  /\ UNCHANGED <<action, wanted>>

\* The item has its result; on to the next one of the list.
Settle(c, outcome) ==
  /\ result' = [result EXCEPT ![c] = Append(@, outcome)]
  /\ call' = [call EXCEPT ![c] = IF At(c) + 1 \in DOMAIN wanted[c] THEN "next" ELSE "done"]
  /\ UNCHANGED <<action, wanted>>

\* The transaction reads the item; one without a row is reported as failed.
Read(c) ==
  /\ call[c] = "next"
  /\ \/ Current(c) = None /\ Settle(c, "failed")
     \/ Current(c) # None /\ Conflicts(c, Current(c)) /\ Settle(c, "conflict")
     \/ /\ Current(c) # None /\ ~Conflicts(c, Current(c))
        /\ call' = [call EXCEPT ![c] = "writing"]
        /\ UNCHANGED <<action, wanted, result>>
  /\ UNCHANGED <<item, fetching, stale>>

\* What promoteDiscoveryItem and archiveDiscoveryItem write of the item.
Mark(c, i) ==
  LET job == <<c, At(c)>> IN
  \/ /\ action[c] = "promote"
     /\ briefs' = briefs \union {job}
     /\ status' = [status EXCEPT ![i] = "promoted"]
     /\ brief' = [brief EXCEPT ![i] = job]
     /\ reviews' = [reviews EXCEPT ![i] = Append(@, [to |-> "promoted", by |-> job])]
  \/ /\ action[c] = "archive"
     /\ status' = [status EXCEPT ![i] = "archived"]
     /\ brief' = [brief EXCEPT ![i] = None]
     /\ reviews' = [reviews EXCEPT ![i] = Append(@, [to |-> "archived", by |-> job])]
     /\ UNCHANGED briefs

\* It writes by id and commits; a promotion then reads the item again.
Write(c) ==
  LET i == Current(c) IN
    /\ call[c] = "writing"
    /\ i # None
    /\ Mark(c, i)
    /\ raced' = IF stale[c] THEN raced \union {i} ELSE raced
    /\ Outdate({c})
    /\ IF action[c] = "promote"
         THEN call' = [call EXCEPT ![c] = "detail"] /\ UNCHANGED <<action, wanted, result>>
         ELSE Settle(c, "success")
    /\ UNCHANGED <<score, source, fetching>>

\* getDiscoveryItemDetail: without a row or a brief the promotion counts as failed.
Detail(c) ==
  /\ call[c] = "detail"
  /\ Settle(c, IF Current(c) = None \/ brief[Current(c)] = None THEN "failed" ELSE "success")
  /\ UNCHANGED <<item, fetching, stale>>

\* Reading it again fails: the promotion stands, and is reported as failed.
DetailFails(c) ==
  /\ call[c] = "detail"
  /\ Settle(c, "unread")
  /\ UNCHANGED <<item, fetching, stale>>

\* Mutant: what the request wrote before the failure stays.
WriteFails_Stays(c) ==
  /\ call[c] = "writing"
  /\ Current(c) # None
  /\ Mark(c, Current(c))
  /\ Settle(c, "failed")
  /\ Outdate({c})
  /\ UNCHANGED <<score, source, raced, fetching>>

\* The transaction fails, as it does for a row that has gone, and is rolled back;
\* the next item is tried.
WriteFails(c) ==
  /\ call[c] = "writing"
  /\ Settle(c, "failed")
  /\ UNCHANGED <<item, fetching>>
  /\ Outdate({c})

\* Mutant: the item goes on referring to the brief.
DeleteBrief_Keeps(b) ==
  /\ b \in briefs
  /\ briefs' = briefs \ {b}
  /\ UNCHANGED <<status, score, source, brief, reviews, raced, fetching, request>>

\* DELETE /api/briefs/[id]: deleting the row takes the reference off its item, and
\* nothing else: the status stays. The UPDATE that follows finds no item.
DeleteBrief(b) ==
  /\ b \in briefs
  /\ briefs' = briefs \ {b}
  /\ brief' = [i \in Item |-> IF brief[i] = b THEN None ELSE brief[i]]
  /\ Outdate({})
  /\ UNCHANGED <<status, score, source, reviews, raced, fetching, call, action, wanted,
                 result>>

FetchStep(f) ==
  \/ Insert(f) \/ Score(f) \/ Reset(f)
  \/ \E i \in Item : PersistFails(f, i) \/ \E outcome \in Outcome : Persist(f, i, outcome)

Next ==
  \/ \E f \in Feed : Fetch(f) \/ FetchStep(f) \/ Crash(f) \/ DeleteSource(f)
  \/ \E c \in Call : \/ Request(c) \/ Read(c) \/ Write(c) \/ Detail(c) \/ DetailFails(c)
                     \/ WriteFails(c)
  \/ \E b \in briefs : DeleteBrief(b)

Spec == Init /\ [][Next]_vars

-----------------------------------------------------------------------------
\* An item says it is scored or suppressed only with a score row that says the
\* same, whatever resets, reviews and half-failed batches came before.
ScoreBacksStatus == \A i \in Item : status[i] \in Outcome => score[i] = status[i]

IsPromotion(i, n) == n \in DOMAIN reviews[i] /\ reviews[i][n].to = "promoted"
IsArchival(i, n) == n \in DOMAIN reviews[i] /\ reviews[i][n].to = "archived"

\* An item is promoted again only where it was archived since, or the brief of the
\* promotion before has been deleted, or a promotion wrote on having read that there
\* is no brief, before another request made one: nothing else makes two briefs of one
\* item, neither scoring nor a list that names it twice.
BriefIsUnique ==
  \A i \in Item : \A m, n \in DOMAIN reviews[i] :
    IsPromotion(i, m) /\ IsPromotion(i, n) /\ m < n =>
      \/ i \in raced
      \/ reviews[i][m].by \notin briefs
      \/ \E k \in m..n : IsArchival(i, k)

\* The item refers to a brief exactly when the latest review to commit is a
\* promotion and its brief has not been deleted, and then to that brief, even where
\* scoring has overwritten the status since.
BriefIsLatest ==
  \A i \in Item :
    LET last == Len(reviews[i]) IN
      brief[i] = IF IsPromotion(i, last) /\ reviews[i][last].by \in briefs
                   THEN reviews[i][last].by ELSE None

\* What a request reports at a place of its list is what it did there to an item
\* that is still stored: a success is among the reviews once, a conflict never,
\* however often the list names the item; a promotion reported as failed that went
\* through all the same was undone since, by a later review (see BriefIsUnique) or by
\* the deletion of its brief, unless the item could not be read again.
ResultTellsWrites ==
  \A c \in Call : \A n \in DOMAIN result[c] : wanted[c][n] # None =>
    LET i == wanted[c][n]
        written == {m \in DOMAIN reviews[i] : reviews[i][m].by = <<c, n>>}
    IN /\ result[c][n] = "success" => Cardinality(written) = 1
       /\ result[c][n] = "conflict" => written = {}
       /\ result[c][n] = "failed" => \A m \in written :
            <<c, n>> \notin briefs \/ m < Len(reviews[i])
=============================================================================
