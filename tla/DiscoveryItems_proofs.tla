----------------------- MODULE DiscoveryItems_proofs -----------------------
(* For any items, sources and requests: what scoring, reviews, failed writes, *)
(* deletions and restarts leave in the tables fits together. Every review of  *)
(* an item carries the place in a request's list that it was made at, and a   *)
(* place makes one review at most, of the item it names: briefs and results   *)
(* are all related to the reviews, and so to each other.                      *)
EXTENDS DiscoveryItems, TLAPS, FiniteSetTheorems, SequenceTheorems

USE NoneAssumption

Results == {"success", "conflict", "failed", "unread"}

\* The rows of items, the fetches and the requests are well typed.
Rows ==
  /\ status \in [Item -> Outcome \union Reviewed \union {"absent", "pending"}]
  /\ score \in [Item -> Outcome \union {"none"}]
  /\ source \in [Item -> Feed \union {None}]
  /\ brief \in [Item -> Job \union {None}]
  /\ briefs \subseteq Job
  /\ reviews \in [Item -> Seq(Review)]
  /\ raced \subseteq Item

Fetches ==
  /\ fetch \in [Feed -> {"idle", "inserting", "scoring", "persisting", "resetting"}]
  /\ batch \in [Feed -> SUBSET Item]

Requests ==
  /\ call \in [Call -> {"idle", "next", "writing", "detail", "done"}]
  /\ action \in [Call -> {"promote", "archive"}]
  /\ wanted \in [Call -> Seq(Item \union {None})]
  /\ \A c \in Call : Len(wanted[c]) <= Limit
  /\ result \in [Call -> Seq(Results)]
  /\ stale \in [Call -> BOOLEAN]
  /\ \A c \in Call : /\ call[c] = "idle" => result[c] = <<>>
                     /\ At(c) \in DOMAIN wanted[c] <=> call[c] \in {"next", "writing", "detail"}

\* The type invariant is that of the rows, the fetches and the requests.
LEMMA TypeParts == TypeOK => Rows /\ Fetches /\ Requests
BY DEF TypeOK, Rows, Fetches, Requests, Results

LEMMA TypeWhole == (Rows /\ Fetches /\ Requests)' => TypeOK'
BY DEF TypeOK, Rows, Fetches, Requests, Results, At

LEMMA TypeInit == Init => TypeOK
<1> SUFFICES ASSUME Init PROVE TypeOK
  OBVIOUS
<1>1. Rows
  BY DEF Init, Rows
<1>2. Fetches
  BY DEF Init, Fetches
<1>3. Requests
  BY BoundAssumption DEF Init, Requests, At
<1> QED BY <1>1, <1>2, <1>3 DEF TypeOK, Rows, Fetches, Requests, Results

\* The place a request is at is the next one of its list.
LEMMA Places ==
  ASSUME Requests, NEW c \in Call
  PROVE  /\ Len(result[c]) \in Nat /\ DOMAIN result[c] = 1..Len(result[c])
         /\ Len(wanted[c]) \in Nat /\ DOMAIN wanted[c] = 1..Len(wanted[c])
         /\ At(c) = Len(result[c]) + 1
         /\ \A n \in DOMAIN wanted[c] : <<c, n>> \in Job /\ wanted[c][n] \in Item \union {None}
         /\ At(c) \in DOMAIN wanted[c] => <<c, At(c)>> \in Job /\ Current(c) \in Item \union {None}
<1>1. result[c] \in Seq(Results) /\ wanted[c] \in Seq(Item \union {None}) /\ Len(wanted[c]) <= Limit
  BY DEF Requests
<1>2. Limit \in Nat
  BY BoundAssumption
<1> QED BY <1>1, <1>2 DEF At, Current, Job

\* A request that notes an outcome is at its next place, or done.
LEMMA Settled ==
  ASSUME Requests, NEW c \in Call, NEW outcome \in Results, Settle(c, outcome),
         At(c) \in DOMAIN wanted[c]
  PROVE  /\ result' \in [Call -> Seq(Results)]
         /\ DOMAIN result'[c] = 1..At(c) /\ result'[c][At(c)] = outcome
         /\ \A n \in DOMAIN result[c] : result'[c][n] = result[c][n]
         /\ \A d \in Call : d # c => result'[d] = result[d] /\ call'[d] = call[d]
         /\ UNCHANGED <<action, wanted>>
         /\ At(c)' = At(c) + 1
         /\ \A d \in Call : d # c => At(d)' = At(d) /\ Current(d)' = Current(d)
         /\ call' \in [Call -> {"idle", "next", "writing", "detail", "done"}]
         /\ call'[c] \in {"next", "done"}
         /\ At(c) + 1 \in DOMAIN wanted[c] <=> call'[c] = "next"
<1>1. result[c] \in Seq(Results) /\ result'[c] = Append(result[c], outcome)
  BY DEF Settle, Requests
<1>2. /\ result'[c] \in Seq(Results) /\ Len(result'[c]) = Len(result[c]) + 1
      /\ DOMAIN result'[c] = 1..(Len(result[c]) + 1)
      /\ \A n \in DOMAIN result[c] : result'[c][n] = result[c][n]
      /\ result'[c][Len(result[c]) + 1] = outcome
  BY <1>1
<1>3. \A d \in Call : d # c => result'[d] = result[d] /\ call'[d] = call[d]
  BY DEF Settle, Requests
<1>4. call' \in [Call -> {"idle", "next", "writing", "detail", "done"}]
  BY DEF Settle, Requests
<1>5. call'[c] = IF At(c) + 1 \in DOMAIN wanted[c] THEN "next" ELSE "done"
  BY DEF Settle, Requests
<1>6. result' \in [Call -> Seq(Results)] /\ UNCHANGED <<action, wanted>>
  BY <1>2 DEF Settle, Requests
<1> QED BY <1>2, <1>3, <1>4, <1>5, <1>6 DEF At, Current

\* A request that notes an outcome keeps the types of the requests.
LEMMA TypeSettle ==
  ASSUME Requests, NEW c \in Call, NEW outcome \in Results, Settle(c, outcome),
         At(c) \in DOMAIN wanted[c], stale' \in [Call -> BOOLEAN]
  PROVE  Requests'
<1> DEFINE Placed(d) == /\ call[d] = "idle" => result[d] = <<>>
                        /\ At(d) \in DOMAIN wanted[d] <=> call[d] \in {"next", "writing", "detail"}
<1>1. ASSUME NEW d \in Call, d # c
      PROVE  Placed(d)'
  BY <1>1, Settled DEF Requests
<1>2. Placed(c)'
  BY Settled
<1>3. \A d \in Call : Placed(d)'
  BY <1>1, <1>2
<1>4. /\ call' \in [Call -> {"idle", "next", "writing", "detail", "done"}]
      /\ UNCHANGED <<action, wanted>> /\ result' \in [Call -> Seq(Results)]
  BY Settled
<1> QED BY <1>3, <1>4 DEF Requests, At

\* A list given by its places is a sequence.
LEMMA ListsAreSequences ==
  ASSUME NEW S, NEW n \in Nat, NEW s \in [1..n -> S]
  PROVE  s \in Seq(S) /\ Len(s) = n
<1>1. s \in Seq(S)
  BY SeqDef
<1>2. Len(s) \in Nat /\ DOMAIN s = 1..Len(s)
  BY <1>1
<1>3. 1..n = 1..Len(s)
  BY <1>2
<1> QED BY <1>1, <1>2, <1>3

\* A fetch leaves the requests and the reviews alone.
LEMMA TypeFetch ==
  ASSUME TypeOK, NEW f \in Feed, Fetch(f) \/ FetchStep(f) \/ Crash(f)
  PROVE  TypeOK' /\ UNCHANGED <<brief, briefs, reviews, raced, request>>
<1> Rows /\ Fetches /\ Requests
  BY TypeParts
<1>1. UNCHANGED <<brief, briefs, reviews, raced, request>>
  BY DEF Fetch, FetchStep, Insert, Score, Persist, PersistFails, Reset, Crash, item
<1>2. Fetches'
  <2>1. \E place \in {"idle", "inserting", "scoring", "persisting", "resetting"},
            items \in SUBSET Item : FetchGoes(f, place, items)
    <3>1. batch[f] \subseteq Item
      BY DEF Fetches
    <3>2. CASE Fetch(f) \/ Insert(f) \/ Reset(f) \/ Crash(f)
      BY <3>1, <3>2 DEF Fetch, Insert, Reset, Crash, FetchEnds
    <3>3. CASE Score(f)
      BY <3>1, <3>3 DEF Score, FetchEnds
    <3>4. ASSUME NEW i, \/ PersistFails(f, i)
                        \/ \E outcome \in Outcome : Persist(f, i, outcome)
          PROVE  FetchGoes(f, "idle", {}) \/ FetchGoes(f, "persisting", batch[f] \ {i})
      BY <3>4 DEF Persist, PersistFails, FetchEnds
    <3> QED BY <3>1, <3>2, <3>3, <3>4 DEF FetchStep
  <2> QED BY <2>1 DEF FetchGoes, Fetches
<1>3. status' \in [Item -> Outcome \union Reviewed \union {"absent", "pending"}]
  <2>1. CASE UNCHANGED status
    BY <2>1 DEF Rows
  <2>2. CASE Insert(f) \/ Reset(f)
    BY <2>2 DEF Insert, Reset, Rows
  <2>3. ASSUME NEW i, NEW outcome \in Outcome, Persist(f, i, outcome)
        PROVE  status' \in [Item -> Outcome \union Reviewed \union {"absent", "pending"}]
    BY <2>3 DEF Persist, Rows
  <2> QED BY <2>1, <2>2, <2>3 DEF Fetch, FetchStep, Score, PersistFails, Crash, item
<1>4. score' \in [Item -> Outcome \union {"none"}] /\ source' \in [Item -> Feed \union {None}]
  <2>1. CASE UNCHANGED <<score, source>>
    BY <2>1 DEF Rows
  <2>2. CASE Insert(f)
    <3>1. score' = score
      BY <2>2 DEF Insert
    <3>2. source' \in {source, [i \in Item |-> IF i \in batch[f] THEN f ELSE source[i]]}
      BY <2>2 DEF Insert
    <3>3. source' \in [Item -> Feed \union {None}]
      BY <3>2 DEF Rows
    <3> QED BY <3>1, <3>3 DEF Rows
  <2>3. ASSUME NEW i, NEW outcome \in Outcome, Persist(f, i, outcome)
        PROVE  score' \in [Item -> Outcome \union {"none"}] /\ source' = source
    BY <2>3 DEF Persist, Rows
  <2> QED BY <2>1, <2>2, <2>3 DEF Fetch, FetchStep, Score, PersistFails, Reset, Crash, item, Rows
<1>5. Rows' /\ Requests'
  BY <1>1, <1>3, <1>4 DEF Rows, Requests, request, At
<1> QED BY <1>1, <1>2, <1>5, TypeWhole

\* A deleted source takes its items with it, and their ids out of every list.
LEMMA TypeDeleteSource ==
  ASSUME TypeOK, NEW f \in Feed, DeleteSource(f)
  PROVE  TypeOK'
<1> Rows /\ Fetches /\ Requests
  BY TypeParts
<1>1. Rows'
  <2>1. <<>> \in Seq(Review)
    OBVIOUS
  <2> QED BY <2>1 DEF DeleteSource, Rows
<1>2. Fetches'
  BY DEF DeleteSource, FetchEnds, FetchGoes, Fetches
<1>3. ASSUME NEW c \in Call
      PROVE  /\ wanted'[c] \in Seq(Item \union {None}) /\ Len(wanted'[c]) = Len(wanted[c])
             /\ DOMAIN wanted'[c] = DOMAIN wanted[c]
  <2>1. /\ Len(wanted[c]) \in Nat /\ DOMAIN wanted[c] = 1..Len(wanted[c])
        /\ \A n \in DOMAIN wanted[c] : wanted[c][n] \in Item \union {None}
    BY Places
  <2>2. wanted'[c] \in [1..Len(wanted[c]) -> Item \union {None}]
    BY <2>1 DEF DeleteSource
  <2> QED BY <2>1, <2>2, ListsAreSequences
<1>4. DOMAIN wanted' = Call /\ wanted' = [c \in Call |-> wanted'[c]]
  BY DEF DeleteSource
<1>5. Requests'
  BY <1>3, <1>4 DEF DeleteSource, Requests, At
<1> QED BY <1>1, <1>2, <1>5, TypeWhole

\* What is outdated is a set of requests.
LEMMA TypeOutdate == ASSUME NEW ended, Requests, Outdate(ended) PROVE stale' \in [Call -> BOOLEAN]
BY DEF Outdate, Outdated, Requests

\* Requests leave fetches and scores alone.
LEMMA TypeRequest ==
  ASSUME TypeOK, NEW c \in Call,
         Request(c) \/ Read(c) \/ Write(c) \/ Detail(c) \/ DetailFails(c) \/ WriteFails(c)
  PROVE  TypeOK'
<1>0. Rows /\ Fetches /\ Requests
  BY TypeParts
<1> USE <1>0
<1>1. CASE Request(c)
  <2>1. Rows' /\ Fetches'
    BY <1>1 DEF Request, Rows, Fetches, item, fetching
  <2>2. PICK list \in Lists({j \in Item : status[j] # "absent"}), what \in {"promote", "archive"} :
          /\ wanted' = [wanted EXCEPT ![c] = list] /\ action' = [action EXCEPT ![c] = what]
          /\ call' = [call EXCEPT ![c] = "next"] /\ UNCHANGED <<result, stale>>
    BY <1>1 DEF Request
  <2>3. PICK n \in 1..Limit : list \in [1..n -> Item]
    BY DEF Lists
  <2>4. n \in Nat /\ Limit \in Nat /\ 1 <= n /\ n <= Limit
    BY BoundAssumption
  <2>5. list \in Seq(Item \union {None}) /\ Len(list) = n /\ DOMAIN list = 1..n
    <3>1. list \in Seq(Item) /\ Len(list) = n
      BY <2>3, <2>4, ListsAreSequences
    <3> QED BY <3>1, SeqMonotonic
  <2>6. result[c] = <<>> /\ Len(<<>>) = 0
    BY <1>0, <1>1 DEF Request, Requests
  <2> DEFINE Placed(d) == /\ call[d] = "idle" => result[d] = <<>>
                          /\ At(d) \in DOMAIN wanted[d] <=> call[d] \in {"next", "writing", "detail"}
  <2>7. Placed(c)'
    BY <2>2, <2>4, <2>5, <2>6 DEF Requests, At
  <2>8. ASSUME NEW d \in Call, d # c PROVE Placed(d)'
    <3>1. wanted'[d] = wanted[d] /\ call'[d] = call[d] /\ result' = result
      BY <2>2, <2>8 DEF Requests
    <3> QED BY <1>0, <3>1 DEF Requests, At
  <2>9. \A d \in Call : Placed(d)'
    BY <2>7, <2>8
  <2>10. Requests'
    BY <2>2, <2>4, <2>5, <2>9 DEF Requests, At
  <2> QED BY <2>1, <2>10, TypeWhole
<1>2. CASE Read(c)
  <2>1. Rows' /\ Fetches' /\ stale' \in [Call -> BOOLEAN] /\ At(c) \in DOMAIN wanted[c]
    BY <1>2 DEF Read, Rows, Fetches, Requests, item, fetching
  <2>2. CASE \E outcome \in {"failed", "conflict"} : Settle(c, outcome)
    BY <2>1, <2>2, TypeSettle, TypeWhole DEF Results
  <2>3. CASE call' = [call EXCEPT ![c] = "writing"] /\ UNCHANGED <<action, wanted, result>>
    <3>1. Requests'
      BY <1>2, <2>1, <2>3 DEF Requests, At, Read
    <3> QED BY <2>1, <3>1, TypeWhole
  <2> QED BY <1>2, <2>2, <2>3 DEF Read
<1>3. CASE Detail(c) \/ DetailFails(c) \/ WriteFails(c)
  <2>1. Rows' /\ Fetches' /\ At(c) \in DOMAIN wanted[c]
    BY <1>3 DEF Detail, DetailFails, WriteFails, Rows, Fetches, Requests, item, fetching
  <2>2. stale' \in [Call -> BOOLEAN]
    BY <1>3, TypeOutdate DEF Detail, DetailFails, WriteFails, Requests
  <2>3. \E outcome \in Results : Settle(c, outcome)
    BY <1>3 DEF Detail, DetailFails, WriteFails, Results
  <2> QED BY <2>1, <2>2, <2>3, TypeSettle, TypeWhole
<1>4. CASE Write(c)
  <2> DEFINE i == Current(c)
             job == <<c, At(c)>>
  <2>1. /\ At(c) \in DOMAIN wanted[c] /\ i \in Item /\ job \in Job
        /\ stale' \in [Call -> BOOLEAN] /\ UNCHANGED <<score, source, fetch, batch>>
    BY <1>4, Places, TypeOutdate DEF Write, Requests, fetching
  <2>2. \E to \in Reviewed, by \in {job, None} :
          /\ status' = [status EXCEPT ![i] = to] /\ brief' = [brief EXCEPT ![i] = by]
          /\ reviews' = [reviews EXCEPT ![i] = Append(@, [to |-> to, by |-> job])]
          /\ briefs' \in {briefs, briefs \union {job}}
    BY <1>4 DEF Write, Mark, Reviewed
  <2>3. raced' \subseteq Item
    BY <1>4, <2>1 DEF Write, Rows
  <2> HIDE DEF i, job
  <2>4. Rows' /\ Fetches'
    <3>1. \A to \in Reviewed : [to |-> to, by |-> job] \in Review
      BY <2>1 DEF Review
    <3>2. reviews' \in [Item -> Seq(Review)]
      BY <2>1, <2>2, <3>1 DEF Rows
    <3> QED BY <2>1, <2>2, <2>3, <3>2 DEF Rows, Fetches
  <2>5. Requests'
    <3>1. CASE action[c] = "promote"
      BY <1>4, <2>1, <3>1 DEF Write, Requests, At
    <3>2. CASE action[c] # "promote"
      BY <1>4, <2>1, <3>2, TypeSettle DEF Write, Results
    <3> QED BY <3>1, <3>2
  <2> QED BY <2>4, <2>5, TypeWhole
<1> QED BY <1>1, <1>2, <1>3, <1>4

\* A brief that is deleted leaves its item without one.
LEMMA TypeDeleteBrief ==
  ASSUME TypeOK, NEW b \in briefs, DeleteBrief(b)
  PROVE  TypeOK'
<1> Rows /\ Fetches /\ Requests
  BY TypeParts
<1>1. Rows' /\ Fetches'
  BY DEF DeleteBrief, Rows, Fetches, fetching
<1>2. stale' \in [Call -> BOOLEAN]
  BY TypeOutdate DEF DeleteBrief
<1>3. Requests'
  BY <1>2 DEF DeleteBrief, Requests, At
<1> QED BY <1>1, <1>3, TypeWhole

LEMMA TypeNext == TypeOK /\ [Next]_vars => TypeOK'
<1>1. CASE UNCHANGED vars
  BY <1>1 DEF vars, item, fetching, request, TypeOK, At
<1> QED BY <1>1, TypeFetch, TypeDeleteSource, TypeRequest, TypeDeleteBrief DEF Next

\* DiscoveryItems is well typed, and a request is at a place of its list until it is done.
THEOREM TypeCorrect == Spec => []TypeOK
BY TypeInit, TypeNext, PTL DEF Spec

-----------------------------------------------------------------------------
(* Scores and statuses.                                                      *)

ScoreInv == TypeOK /\ ScoreBacksStatus

\* A scored item keeps the score that gave it its status, as long as it is stored.
LEMMA ScoreNext == ScoreInv /\ [Next]_vars => ScoreBacksStatus'
<1> SUFFICES ASSUME ScoreInv, [Next]_vars, NEW i \in Item, status'[i] \in Outcome
             PROVE  score'[i] = status'[i]
  BY DEF ScoreBacksStatus
<1> Rows /\ "absent" \notin Outcome /\ "pending" \notin Outcome /\ Outcome \intersect Reviewed = {}
  BY TypeParts, OutcomeAssumption DEF ScoreInv, Reviewed
<1>1. CASE UNCHANGED <<status, score>>
  BY <1>1 DEF ScoreInv, ScoreBacksStatus
<1>2. ASSUME NEW f \in Feed, Insert(f) \/ Reset(f)
      PROVE  score'[i] = status'[i]
  <2>1. score' = score /\ (status'[i] = "pending" \/ status'[i] = status[i])
    BY <1>2 DEF Insert, Reset
  <2> QED BY <2>1 DEF ScoreInv, ScoreBacksStatus
<1>3. ASSUME NEW f \in Feed, NEW j \in Item, NEW outcome \in Outcome, Persist(f, j, outcome)
      PROVE  score'[i] = status'[i]
  BY <1>3 DEF Persist, Rows, ScoreInv, ScoreBacksStatus
<1>4. ASSUME NEW c \in Call, Write(c)
      PROVE  score'[i] = status'[i]
  <2>1. score' = score /\ (status'[i] \in Reviewed \/ status'[i] = status[i])
    BY <1>4 DEF Write, Mark, Rows, Reviewed
  <2> QED BY <2>1 DEF ScoreInv, ScoreBacksStatus
<1>5. ASSUME NEW f \in Feed, DeleteSource(f)
      PROVE  score'[i] = status'[i]
  <2>1. source[i] # f /\ score'[i] = score[i] /\ status'[i] = status[i]
    BY <1>5 DEF DeleteSource
  <2> QED BY <2>1 DEF ScoreInv, ScoreBacksStatus
<1> QED
  BY <1>1, <1>2, <1>3, <1>4, <1>5
     DEF Next, FetchStep, Fetch, Score, PersistFails, Crash, Request, Detail, DetailFails,
         WriteFails, Read, DeleteBrief, vars, item

\* An item that says it is scored or suppressed has a score row that says the same,
\* whatever resets, reviews and half-failed batches came before.
THEOREM ScoresBackStatuses == Spec => []ScoreBacksStatus
<1>1. Init => ScoreInv
  BY TypeInit, OutcomeAssumption DEF Init, ScoreInv, ScoreBacksStatus
<1>2. ScoreInv /\ [Next]_vars => ScoreInv'
  BY TypeNext, ScoreNext DEF ScoreInv
<1>3. ScoreInv => ScoreBacksStatus
  BY DEF ScoreInv
<1> QED BY <1>1, <1>2, <1>3, PTL DEF Spec

-----------------------------------------------------------------------------
(* The reviews: each has been made, at a place that names its item.          *)

\* The request is past this place, or has written there and reads again.
Past(c, n) == n < At(c) \/ (n = At(c) /\ call[c] = "detail")

Named ==
  \A i \in Item : \A m \in DOMAIN reviews[i] : \A c \in Call, n \in 1..Limit :
    reviews[i][m].by = <<c, n>> => Past(c, n) /\ n \in DOMAIN wanted[c] /\ wanted[c][n] = i

\* A place that a request is past stays so, and goes on naming its item.
Keeps ==
  \A c \in Call, n \in 1..Limit : Past(c, n) /\ n \in DOMAIN wanted[c] =>
    Past(c, n)' /\ n \in DOMAIN wanted'[c] /\ wanted'[c][n] = wanted[c][n]

HistoryInv == TypeOK /\ Named /\ BriefIsLatest

\* The reviews of an item, and the places they were made at.
LEMMA ReviewTypes ==
  ASSUME Rows, NEW i \in Item
  PROVE  /\ Len(reviews[i]) \in Nat /\ DOMAIN reviews[i] = 1..Len(reviews[i])
         /\ \A m \in DOMAIN reviews[i] :
              /\ reviews[i][m].to \in Reviewed /\ reviews[i][m].by \in Job
              /\ \E c \in Call, n \in 1..Limit : reviews[i][m].by = <<c, n>>
<1>1. reviews[i] \in Seq(Review)
  BY DEF Rows
<1>2. \A m \in DOMAIN reviews[i] : reviews[i][m] \in Review
  BY <1>1
<1> QED BY <1>1, <1>2 DEF Review, Job

\* A request at its place stays past the places it is past.
LEMMA RequestKeeps ==
  ASSUME TypeOK, NEW d \in Call,
         Request(d) \/ Read(d) \/ Write(d) \/ Detail(d) \/ DetailFails(d) \/ WriteFails(d)
  PROVE  Keeps
<1>0. Requests
  BY TypeParts
<1> SUFFICES ASSUME NEW c \in Call, NEW n \in 1..Limit, Past(c, n), n \in DOMAIN wanted[c]
             PROVE  Past(c, n)' /\ n \in DOMAIN wanted'[c] /\ wanted'[c][n] = wanted[c][n]
  BY DEF Keeps
<1>1. /\ Len(result[c]) \in Nat /\ At(c) = Len(result[c]) + 1 /\ n \in Nat /\ n >= 1
  <2>1. Len(result[c]) \in Nat /\ At(c) = Len(result[c]) + 1
    BY <1>0, Places
  <2>2. n \in Nat /\ n >= 1
    BY BoundAssumption
  <2> QED BY <2>1, <2>2
<1>2. CASE Request(d)
  <2>1. c # d
    <3>1. call[d] = "idle" /\ result[d] = <<>>
      BY <1>0, <1>2 DEF Request, Requests
    <3> QED BY <1>1, <3>1 DEF Past
  <2>2. wanted'[c] = wanted[c] /\ call'[c] = call[c] /\ result' = result
    BY <1>0, <1>2, <2>1 DEF Request, Requests
  <2> QED BY <2>2 DEF Past, At
<1>3. ASSUME NEW outcome \in Results, Settle(d, outcome), At(d) \in DOMAIN wanted[d]
      PROVE  Past(c, n)' /\ n \in DOMAIN wanted'[c] /\ wanted'[c][n] = wanted[c][n]
  <2>1. wanted' = wanted /\ At(d)' = At(d) + 1
        /\ (c # d => At(c)' = At(c) /\ call'[c] = call[c])
    BY <1>0, <1>3, Settled
  <2> QED BY <1>1, <2>1 DEF Past
<1>4. CASE Read(d) \/ Detail(d) \/ DetailFails(d) \/ WriteFails(d)
  <2>1. At(d) \in DOMAIN wanted[d]
    BY <1>0, <1>4 DEF Read, Detail, DetailFails, WriteFails, Requests
  <2>2. CASE \E outcome \in Results : Settle(d, outcome)
    BY <1>3, <2>1, <2>2
  <2>3. CASE Read(d) /\ call' = [call EXCEPT ![d] = "writing"] /\ UNCHANGED <<wanted, result>>
    <3>1. call[d] = "next" /\ call'[d] = "writing" /\ (c # d => call'[c] = call[c])
      BY <1>0, <2>3 DEF Read, Requests
    <3> QED BY <2>3, <3>1 DEF Past, At
  <2> QED BY <1>4, <2>2, <2>3 DEF Read, Detail, DetailFails, WriteFails, Results
<1>5. CASE Write(d)
  <2>1. At(d) \in DOMAIN wanted[d] /\ call[d] = "writing"
    BY <1>0, <1>5 DEF Write, Requests
  <2>2. CASE Settle(d, "success")
    BY <1>3, <2>1, <2>2 DEF Results
  <2>3. CASE call' = [call EXCEPT ![d] = "detail"] /\ UNCHANGED <<wanted, result>>
    <3>1. call'[d] = "detail" /\ (c # d => call'[c] = call[c])
      BY <1>0, <2>3 DEF Requests
    <3> QED BY <2>1, <2>3, <3>1 DEF Past, At
  <2> QED BY <1>5, <2>2, <2>3 DEF Write
<1> QED BY <1>2, <1>4, <1>5

\* Reviews and briefs change where a request writes, or a source or a brief is deleted.
LEMMA Steps ==
  ASSUME TypeOK, [Next]_vars
  PROVE  \/ \E f \in Feed : DeleteSource(f)
         \/ Keeps /\ \/ UNCHANGED <<brief, briefs, reviews, raced>>
                     \/ \E c \in Call : Write(c)
                     \/ \E b \in briefs : DeleteBrief(b)
<1>1. CASE UNCHANGED vars
  BY <1>1 DEF vars, item, request, Keeps, Past, At
<1>2. ASSUME NEW f \in Feed, Fetch(f) \/ FetchStep(f) \/ Crash(f)
      PROVE  Keeps /\ UNCHANGED <<brief, briefs, reviews, raced>>
  BY <1>2, TypeFetch DEF request, Keeps, Past, At
<1>3. ASSUME NEW b \in briefs, DeleteBrief(b)
      PROVE  Keeps
  BY <1>3 DEF DeleteBrief, Keeps, Past, At
<1>4. ASSUME NEW c \in Call,
             Request(c) \/ Read(c) \/ Write(c) \/ Detail(c) \/ DetailFails(c) \/ WriteFails(c)
      PROVE  Keeps /\ (Write(c) \/ UNCHANGED <<brief, briefs, reviews, raced>>)
  BY <1>4, RequestKeeps DEF Request, Read, Detail, DetailFails, WriteFails, item
<1> QED BY <1>1, <1>2, <1>3, <1>4 DEF Next

\* A write adds a review to its item, made at a place where there was none.
LEMMA WriteAdds ==
  ASSUME TypeOK, Named, NEW c \in Call, Write(c)
  PROVE  LET i == Current(c)
             job == <<c, At(c)>>
             new == Len(reviews[i]) + 1
         IN /\ i \in Item /\ job \in Job /\ At(c) \in 1..Limit
            /\ At(c) \in DOMAIN wanted[c] /\ wanted' = wanted
            /\ ~Past(c, At(c)) /\ \A n \in 1..Limit : n = At(c) => Past(c, n)'
            /\ \A j \in Item : \A m \in DOMAIN reviews[j] : reviews[j][m].by # job
            /\ \A j \in Item : j # i => reviews'[j] = reviews[j] /\ brief'[j] = brief[j]
            /\ Len(reviews'[i]) = new /\ DOMAIN reviews'[i] = 1..new
            /\ \A m \in 1..Len(reviews[i]) : reviews'[i][m] = reviews[i][m]
            /\ reviews'[i][new].by = job
            /\ \/ /\ action[c] = "promote" /\ reviews'[i][new].to = "promoted"
                  /\ briefs' = briefs \union {job} /\ brief'[i] = job
               \/ /\ action[c] = "archive" /\ reviews'[i][new].to = "archived"
                  /\ briefs' = briefs /\ brief'[i] = None
<1>0. Rows /\ Requests
  BY TypeParts
<1> DEFINE i == Current(c)
           job == <<c, At(c)>>
           new == Len(reviews[i]) + 1
<1>1. /\ call[c] = "writing" /\ At(c) \in DOMAIN wanted[c] /\ i \in Item /\ job \in Job
      /\ At(c) \in 1..Limit /\ Mark(c, i)
  <2>1. call[c] = "writing" /\ i # None /\ Mark(c, i)
    BY DEF Write
  <2>2. At(c) \in DOMAIN wanted[c]
    BY <1>0, <2>1 DEF Requests
  <2> QED BY <1>0, <2>1, <2>2, Places DEF Job
<1>2. wanted' = wanted /\ \A n \in 1..Limit : n = At(c) => Past(c, n)'
  <2>1. CASE Settle(c, "success")
    <3>1. wanted' = wanted /\ At(c)' = At(c) + 1 /\ At(c) \in Nat
      BY <1>0, <1>1, <2>1, Settled, Places DEF Results
    <3> QED BY <3>1 DEF Past
  <2>2. CASE call' = [call EXCEPT ![c] = "detail"] /\ UNCHANGED <<wanted, result>>
    BY <1>0, <2>2 DEF Past, At, Requests
  <2> QED BY <2>1, <2>2 DEF Write
<1>3. ~Past(c, At(c)) /\ \A j \in Item : \A m \in DOMAIN reviews[j] : reviews[j][m].by # job
  <2>1. ~Past(c, At(c))
    BY <1>0, <1>1, Places DEF Past
  <2> QED BY <1>1, <2>1 DEF Named
<1>4. PICK r \in {"promoted", "archived"} :
        /\ reviews' = [reviews EXCEPT ![i] = Append(@, [to |-> r, by |-> job])]
        /\ \/ /\ action[c] = "promote" /\ r = "promoted"
              /\ briefs' = briefs \union {job} /\ brief' = [brief EXCEPT ![i] = job]
           \/ /\ action[c] = "archive" /\ r = "archived"
              /\ briefs' = briefs /\ brief' = [brief EXCEPT ![i] = None]
  BY <1>1 DEF Mark
<1> HIDE DEF i, job
<1>5. /\ \A j \in Item : j # i => reviews'[j] = reviews[j] /\ brief'[j] = brief[j]
      /\ brief'[i] = IF action[c] = "promote" THEN job ELSE None
  BY <1>0, <1>1, <1>4 DEF Rows
<1>6. /\ reviews[i] \in Seq(Review) /\ reviews'[i] = Append(reviews[i], [to |-> r, by |-> job])
  BY <1>0, <1>1, <1>4 DEF Rows
<1>7. /\ Len(reviews'[i]) = new /\ DOMAIN reviews'[i] = 1..new
      /\ \A m \in 1..Len(reviews[i]) : reviews'[i][m] = reviews[i][m]
      /\ reviews'[i][new] = [to |-> r, by |-> job]
  BY <1>6
<1> QED BY <1>1, <1>2, <1>3, <1>4, <1>5, <1>7 DEF i, job

\* A deleted source takes all that is known of its items, and leaves the others, to which
\* none of its places refer.
LEMMA SourceDeleted ==
  ASSUME TypeOK, Named, NEW f \in Feed, DeleteSource(f), NEW i \in Item
  PROVE  /\ \/ reviews'[i] = <<>> /\ brief'[i] = None /\ source[i] = f
            \/ /\ source[i] # f /\ reviews'[i] = reviews[i] /\ brief'[i] = brief[i]
               /\ i \in raced' <=> i \in raced
               /\ \A m \in DOMAIN reviews[i] :
                    reviews[i][m].by \in briefs' <=> reviews[i][m].by \in briefs
         /\ \A c \in Call : /\ At(c)' = At(c) /\ call'[c] = call[c]
                            /\ DOMAIN wanted'[c] = DOMAIN wanted[c]
                            /\ \A n \in DOMAIN wanted[c] :
                                 wanted'[c][n] = i <=> wanted[c][n] = i /\ source[i] # f
<1>0. Rows /\ Requests
  BY TypeParts
<1>1. CASE source[i] = f
  BY <1>0, <1>1 DEF DeleteSource, At
<1>2. CASE source[i] # f
  <2>1. /\ reviews'[i] = reviews[i] /\ brief'[i] = brief[i] /\ (i \in raced' <=> i \in raced)
    BY <1>0, <1>2 DEF DeleteSource
  <2>2. ASSUME NEW m \in DOMAIN reviews[i], NEW j \in Item, source[j] = f
        PROVE  reviews[i][m].by \notin Made(j)
    <3> SUFFICES ASSUME NEW k \in DOMAIN reviews[j], reviews[j][k].by = reviews[i][m].by
                 PROVE  FALSE
      BY DEF Made
    <3>1. PICK c \in Call, n \in 1..Limit : reviews[i][m].by = <<c, n>>
      BY <1>0, <2>2, ReviewTypes
    <3>2. wanted[c][n] = i /\ wanted[c][n] = j
      BY <2>2, <3>1 DEF Named
    <3> QED BY <1>2, <2>2, <3>2
  <2>3. \A m \in DOMAIN reviews[i] : reviews[i][m].by \in briefs' <=> reviews[i][m].by \in briefs
    BY <2>2 DEF DeleteSource
  <2>4. \A c \in Call : /\ At(c)' = At(c) /\ call'[c] = call[c]
                        /\ DOMAIN wanted'[c] = DOMAIN wanted[c]
                        /\ \A n \in DOMAIN wanted[c] :
                             wanted'[c][n] = i <=> wanted[c][n] = i /\ source[i] # f
    BY <1>0, <1>2 DEF DeleteSource, At
  <2> QED BY <1>2, <2>1, <2>3, <2>4
<1> QED BY <1>1, <1>2

LEMMA NamedNext == TypeOK /\ Named /\ [Next]_vars => Named'
<1> SUFFICES ASSUME TypeOK, Named, [Next]_vars, NEW i \in Item, NEW m \in DOMAIN reviews'[i],
                    NEW c \in Call, NEW n \in 1..Limit, reviews'[i][m].by = <<c, n>>
             PROVE  Past(c, n)' /\ n \in DOMAIN wanted'[c] /\ wanted'[c][n] = i
  BY DEF Named
<1>1. ASSUME NEW f \in Feed, DeleteSource(f)
      PROVE  Past(c, n)' /\ n \in DOMAIN wanted'[c] /\ wanted'[c][n] = i
  <2>1. source[i] # f /\ reviews'[i] = reviews[i]
    BY <1>1, SourceDeleted
  <2>2. Past(c, n) /\ n \in DOMAIN wanted[c] /\ wanted[c][n] = i
    BY <2>1 DEF Named
  <2>3. /\ At(c)' = At(c) /\ call'[c] = call[c] /\ DOMAIN wanted'[c] = DOMAIN wanted[c]
        /\ wanted'[c][n] = i
    BY <1>1, <2>1, <2>2, SourceDeleted
  <2> QED BY <2>2, <2>3 DEF Past
<1>2. CASE Keeps /\ m \in DOMAIN reviews[i] /\ reviews'[i][m] = reviews[i][m]
  BY <1>2 DEF Keeps, Named
<1>3. ASSUME Keeps, NEW d \in Call, Write(d)
      PROVE  Past(c, n)' /\ n \in DOMAIN wanted'[c] /\ wanted'[c][n] = i
  <2> DEFINE new == Len(reviews[i]) + 1
  <2>0. Len(reviews[i]) \in Nat /\ DOMAIN reviews[i] = 1..Len(reviews[i])
    BY TypeParts, ReviewTypes
  <2>n. i # Current(d) => reviews'[i] = reviews[i]
    BY <1>3, WriteAdds
  <2>w. ASSUME i = Current(d)
        PROVE  /\ DOMAIN reviews'[i] = 1..new
               /\ \A k \in 1..Len(reviews[i]) : reviews'[i][k] = reviews[i][k]
               /\ reviews'[i][new].by = <<d, At(d)>>
    BY <1>3, <2>w, WriteAdds
  <2>p. /\ At(d) \in 1..Limit /\ At(d) \in DOMAIN wanted[d] /\ wanted' = wanted
        /\ \A k \in 1..Limit : k = At(d) => Past(d, k)'
    BY <1>3, WriteAdds
  <2>1. CASE i # Current(d) \/ m # new
    <3>1. m \in DOMAIN reviews[i] /\ reviews'[i][m] = reviews[i][m]
      BY <2>0, <2>1, <2>n, <2>w
    <3> QED BY <1>2, <1>3, <3>1
  <2>2. CASE i = Current(d) /\ m = new
    <3>1. c = d /\ n = At(d)
      BY <2>2, <2>w
    <3> QED BY <2>2, <2>p, <3>1 DEF Current
  <2> QED BY <2>1, <2>2
<1> QED BY <1>1, <1>2, <1>3, Steps DEF DeleteBrief

\* BriefIsLatest, of one item.
RefersToLatest(i) ==
  LET last == Len(reviews[i]) IN
    brief[i] = IF IsPromotion(i, last) /\ reviews[i][last].by \in briefs
                 THEN reviews[i][last].by ELSE None

LEMMA LatestNext == HistoryInv /\ [Next]_vars => BriefIsLatest'
<1> SUFFICES ASSUME HistoryInv, [Next]_vars, NEW i \in Item
             PROVE  RefersToLatest(i)'
  BY DEF BriefIsLatest, RefersToLatest
<1> DEFINE last == Len(reviews[i])
<1>0. /\ TypeOK /\ Named /\ Rows /\ last \in Nat /\ DOMAIN reviews[i] = 1..last
      /\ brief[i] = IF IsPromotion(i, last) /\ reviews[i][last].by \in briefs
                      THEN reviews[i][last].by ELSE None
      /\ last \in DOMAIN reviews[i] => reviews[i][last].by \in Job
  BY TypeParts, ReviewTypes DEF HistoryInv, BriefIsLatest
<1>1. CASE /\ brief'[i] = brief[i] /\ reviews'[i] = reviews[i]
           /\ \A m \in DOMAIN reviews[i] :
                reviews[i][m].by \in briefs' <=> reviews[i][m].by \in briefs
  BY <1>0, <1>1 DEF IsPromotion, RefersToLatest
<1>2. ASSUME NEW f \in Feed, DeleteSource(f)
      PROVE  RefersToLatest(i)'
  <2>1. CASE reviews'[i] = <<>> /\ brief'[i] = None
    BY <2>1 DEF IsPromotion, RefersToLatest
  <2> QED BY <1>0, <1>1, <1>2, <2>1, SourceDeleted
<1>3. ASSUME NEW c \in Call, Write(c)
      PROVE  RefersToLatest(i)'
  <2> DEFINE job == <<c, At(c)>>
  <2>w. /\ job \in Job /\ \A m \in DOMAIN reviews[i] : reviews[i][m].by # job
        /\ i # Current(c) => brief'[i] = brief[i] /\ reviews'[i] = reviews[i]
        /\ i = Current(c) => /\ Len(reviews'[i]) = last + 1 /\ DOMAIN reviews'[i] = 1..(last + 1)
                             /\ reviews'[i][last + 1].by = job
        /\ \/ /\ i = Current(c) => reviews'[i][last + 1].to = "promoted" /\ brief'[i] = job
              /\ briefs' = briefs \union {job}
           \/ /\ i = Current(c) => reviews'[i][last + 1].to = "archived" /\ brief'[i] = None
              /\ briefs' = briefs
    BY <1>0, <1>3, WriteAdds
  <2>1. CASE i # Current(c)
    BY <1>1, <2>1, <2>w
  <2>2. CASE i = Current(c)
    <3>1. last + 1 \in DOMAIN reviews'[i]
      BY <1>0, <2>2, <2>w
    <3> QED BY <2>2, <2>w, <3>1 DEF IsPromotion, RefersToLatest
  <2> QED BY <2>1, <2>2
<1>4. ASSUME NEW b \in briefs, DeleteBrief(b)
      PROVE  RefersToLatest(i)'
  <2>1. /\ brief'[i] = IF brief[i] = b THEN None ELSE brief[i]
        /\ reviews' = reviews /\ briefs' = briefs \ {b}
    BY <1>4 DEF DeleteBrief
  <2> QED BY <1>0, <2>1 DEF IsPromotion, RefersToLatest
<1> QED BY <1>0, <1>1, <1>2, <1>3, <1>4, Steps

LEMMA HistoryNext == HistoryInv /\ [Next]_vars => HistoryInv'
BY TypeNext, NamedNext, LatestNext DEF HistoryInv

LEMMA HistoryInvariant == Spec => []HistoryInv
<1>1. Init => HistoryInv
  BY TypeInit DEF Init, HistoryInv, Named, BriefIsLatest, IsPromotion
<1> QED BY <1>1, HistoryNext, PTL DEF Spec

\* An item refers to a brief exactly when its latest review to commit is a promotion
\* whose brief has not been deleted, and then to that brief: requests that overlap,
\* lists that name it twice, scoring and deletions leave no other brief on it.
THEOREM BriefsAreLatest == Spec => []BriefIsLatest
<1>1. HistoryInv => BriefIsLatest
  BY DEF HistoryInv
<1> QED BY <1>1, HistoryInvariant, PTL

-----------------------------------------------------------------------------
(* A second brief.                                                           *)

\* A promotion that has read no brief, of an item whose brief has not changed since.
Knows ==
  \A c \in Call : call[c] = "writing" /\ action[c] = "promote" /\ ~stale[c] /\ Current(c) # None =>
    brief[Current(c)] = None

BriefInv == HistoryInv /\ Knows /\ BriefIsUnique

LEMMA KnowsNext == HistoryInv /\ Knows /\ [Next]_vars => Knows'
<1> SUFFICES ASSUME HistoryInv, Knows, [Next]_vars, NEW c \in Call, call'[c] = "writing",
                    action'[c] = "promote", ~stale'[c], Current(c)' # None
             PROVE  brief'[Current(c)'] = None
  BY DEF Knows
<1>0. TypeOK /\ Named /\ Rows /\ Requests
  BY TypeParts DEF HistoryInv
<1>1. CASE UNCHANGED <<brief, request>>
  BY <1>1 DEF Knows, request, Current, At
<1>2. ASSUME NEW ended \in SUBSET Call, c \notin ended, Outdate(ended), Current(c)' = Current(c),
             call'[c] = call[c], action' = action
      PROVE  brief'[Current(c)'] = None
  <2>1. ~stale[c] /\ ~Outdated(c)
    BY <1>2 DEF Outdate
  <2> QED BY <1>2, <2>1 DEF Outdated, Knows
<1>3. ASSUME NEW f \in Feed, DeleteSource(f)
      PROVE  brief'[Current(c)'] = None
  <2>1. /\ At(c)' = At(c) /\ call[c] = "writing" /\ action[c] = "promote" /\ ~stale[c]
    BY <1>3 DEF DeleteSource, At
  <2>2. At(c) \in DOMAIN wanted[c] /\ Current(c) \in Item \union {None}
    BY <1>0, <2>1, Places DEF Requests
  <2>3. Current(c)' = IF Current(c) \in {i \in Item : source[i] = f} THEN None ELSE Current(c)
    BY <1>0, <1>3, <2>1, <2>2 DEF DeleteSource, Current
  <2>4. Current(c)' = Current(c) /\ Current(c) \in Item /\ source[Current(c)] # f
    BY <2>2, <2>3
  <2>5. brief'[Current(c)] = brief[Current(c)]
    BY <1>3, <2>4 DEF DeleteSource
  <2> QED BY <2>1, <2>4, <2>5 DEF Knows
<1>4. ASSUME NEW b \in briefs, DeleteBrief(b)
      PROVE  brief'[Current(c)'] = None
  <2>1. Outdate({}) /\ Current(c)' = Current(c) /\ call'[c] = call[c] /\ action' = action
    BY <1>4 DEF DeleteBrief, Current, At
  <2> QED BY <1>2, <2>1
<1>5. ASSUME NEW d \in Call, c # d, Write(d) \/ WriteFails(d)
      PROVE  brief'[Current(c)'] = None
  <2>1. Outdate({d}) /\ action' = action /\ wanted' = wanted
    BY <1>5 DEF Write, WriteFails, Settle
  <2>2. result'[c] = result[c] /\ call'[c] = call[c]
    BY <1>0, <1>5 DEF Write, WriteFails, Settle, Requests
  <2> QED BY <1>2, <1>5, <2>1, <2>2 DEF Current, At
<1>6. ASSUME NEW d \in Call, c # d, Request(d) \/ Read(d) \/ Detail(d) \/ DetailFails(d)
      PROVE  brief'[Current(c)'] = None
  <2>1. brief' = brief /\ stale' = stale
    BY <1>6 DEF Request, Read, Detail, DetailFails, item
  <2>2. /\ result'[c] = result[c] /\ call'[c] = call[c] /\ wanted'[c] = wanted[c]
        /\ action'[c] = action[c]
    BY <1>0, <1>6 DEF Request, Read, Detail, DetailFails, Settle, Requests
  <2> QED BY <2>1, <2>2 DEF Knows, Current, At
<1>7. CASE Read(c)
  <2>1. ~\E outcome \in Results : Settle(c, outcome)
    BY <1>0 DEF Settle, Requests
  <2>2. ~Conflicts(c, Current(c)) /\ UNCHANGED <<action, wanted, result, brief>>
    BY <1>7, <2>1 DEF Read, item, Results
  <2> QED BY <2>2 DEF Conflicts, Current, At
<1>8. ~Request(c) /\ ~Write(c) /\ ~Detail(c) /\ ~DetailFails(c) /\ ~WriteFails(c)
  BY <1>0 DEF Request, Write, Detail, DetailFails, WriteFails, Settle, Requests
<1>9. ASSUME NEW f \in Feed, Fetch(f) \/ FetchStep(f) \/ Crash(f)
      PROVE  brief'[Current(c)'] = None
  BY <1>0, <1>1, <1>9, TypeFetch
<1> QED BY <1>1, <1>3, <1>4, <1>5, <1>6, <1>7, <1>8, <1>9 DEF Next, vars, item

LEMMA UniqueNext == BriefInv /\ [Next]_vars => BriefIsUnique'
<1> SUFFICES ASSUME BriefInv, [Next]_vars, NEW i \in Item,
                    NEW m \in DOMAIN reviews'[i], NEW n \in DOMAIN reviews'[i],
                    reviews'[i][m].to = "promoted", reviews'[i][n].to = "promoted", m < n,
                    i \notin raced', reviews'[i][m].by \in briefs'
             PROVE  \E k \in m..n : k \in DOMAIN reviews'[i] /\ reviews'[i][k].to = "archived"
  BY DEF BriefIsUnique, IsPromotion, IsArchival
<1> DEFINE last == Len(reviews[i])
<1>0. /\ TypeOK /\ Named /\ HistoryInv /\ last \in Nat /\ DOMAIN reviews[i] = 1..last
      /\ \A k \in DOMAIN reviews[i] : reviews[i][k].to \in Reviewed /\ reviews[i][k].by \in Job
  BY TypeParts, ReviewTypes DEF BriefInv, HistoryInv
<1>1. ASSUME m \in DOMAIN reviews[i], n \in DOMAIN reviews[i], i \notin raced,
             reviews[i][m].by \in briefs,
             \A k \in DOMAIN reviews[i] :
               k \in DOMAIN reviews'[i] /\ reviews'[i][k] = reviews[i][k]
      PROVE  \E k \in m..n : k \in DOMAIN reviews'[i] /\ reviews'[i][k].to = "archived"
  BY <1>1 DEF BriefInv, BriefIsUnique, IsPromotion, IsArchival
<1>2. ASSUME NEW f \in Feed, DeleteSource(f)
      PROVE  \E k \in m..n : k \in DOMAIN reviews'[i] /\ reviews'[i][k].to = "archived"
  <2>1. /\ reviews'[i] = reviews[i] /\ (i \in raced' <=> i \in raced)
        /\ reviews[i][m].by \in briefs' <=> reviews[i][m].by \in briefs
    BY <1>0, <1>2, SourceDeleted
  <2> QED BY <1>1, <2>1
<1>3. CASE UNCHANGED <<brief, briefs, reviews, raced>> \/ \E b \in briefs : DeleteBrief(b)
  BY <1>1, <1>3 DEF DeleteBrief
<1>4. ASSUME NEW c \in Call, Write(c)
      PROVE  \E k \in m..n : k \in DOMAIN reviews'[i] /\ reviews'[i][k].to = "archived"
  <2> DEFINE job == <<c, At(c)>>
  <2>1. /\ i \notin raced /\ (i = Current(c) => ~stale[c])
        /\ call[c] = "writing" /\ Current(c) # None
    BY <1>4 DEF Write
  <2>2. /\ job \in Job /\ \A k \in DOMAIN reviews[i] : reviews[i][k].by # job
        /\ i # Current(c) => reviews'[i] = reviews[i]
        /\ briefs' \subseteq briefs \union {job}
    BY <1>0, <1>4, WriteAdds
  <2>3. ASSUME m \in DOMAIN reviews[i], n \in DOMAIN reviews[i],
               \A k \in DOMAIN reviews[i] :
                 k \in DOMAIN reviews'[i] /\ reviews'[i][k] = reviews[i][k]
        PROVE  \E k \in m..n : k \in DOMAIN reviews'[i] /\ reviews'[i][k].to = "archived"
    BY <1>1, <2>1, <2>2, <2>3
  <2>4. CASE i # Current(c)
    BY <2>2, <2>3, <2>4
  <2>5. CASE i = Current(c)
    <3>1. /\ DOMAIN reviews'[i] = 1..(last + 1)
          /\ \A k \in 1..last : reviews'[i][k] = reviews[i][k]
          /\ action[c] = "promote" \/ reviews'[i][last + 1].to = "archived"
      BY <1>0, <1>4, <2>5, WriteAdds
    <3>2. CASE n # last + 1
      <4>1. m \in 1..last /\ n \in 1..last
        BY <1>0, <3>1, <3>2
      <4> QED BY <1>0, <2>3, <3>1, <4>1
    <3>3. CASE n = last + 1
      <4>1. brief[i] = None
        BY <2>1, <2>5, <3>1, <3>3 DEF BriefInv, Knows
      <4>2. m \in 1..last /\ last \in 1..last /\ last \in m..n /\ last \in DOMAIN reviews'[i]
        BY <1>0, <3>1, <3>3
      <4>3. reviews[i][m].to = "promoted" /\ reviews[i][m].by \in briefs
        BY <1>0, <2>2, <3>1, <4>2
      <4>4. reviews[i][last].to = "archived" \/ reviews[i][last].by \notin briefs
        BY <1>0, <4>1, <4>2 DEF HistoryInv, BriefIsLatest, IsPromotion, Reviewed
      <4>5. CASE reviews[i][last].to = "archived"
        BY <3>1, <4>2, <4>5
      <4>6. CASE reviews[i][last].to = "promoted" /\ reviews[i][last].by \notin briefs
        <5>1. m # last /\ m < last
          BY <1>0, <4>2, <4>3, <4>6
        <5>2. \E k \in m..last : k \in DOMAIN reviews[i] /\ reviews[i][k].to = "archived"
          BY <1>0, <2>1, <4>2, <4>3, <4>6, <5>1 DEF BriefInv, BriefIsUnique, IsPromotion, IsArchival
        <5> QED BY <1>0, <3>1, <3>3, <4>2, <5>2
      <4> QED BY <1>0, <4>2, <4>4, <4>5, <4>6 DEF Reviewed
    <3> QED BY <3>2, <3>3
  <2> QED BY <2>4, <2>5
<1> QED BY <1>0, <1>2, <1>3, <1>4, Steps

\* An item is promoted again only where it was archived since, or the brief of the
\* promotion before has been deleted, or a promotion wrote on having read that there
\* is no brief, before another request made one.
THEOREM BriefsAreUnique == Spec => []BriefIsUnique
<1>1. Init => BriefInv
  BY TypeInit DEF Init, BriefInv, HistoryInv, Named, BriefIsLatest, Knows, BriefIsUnique, IsPromotion
<1>2. BriefInv /\ [Next]_vars => BriefInv'
  BY HistoryNext, KnowsNext, UniqueNext DEF BriefInv
<1>3. BriefInv => BriefIsUnique
  BY DEF BriefInv
<1> QED BY <1>1, <1>2, <1>3, PTL DEF Spec

-----------------------------------------------------------------------------
(* What a request reports.                                                   *)

\* The reviews of an item that were made at a place.
Written(i, c, n) == {m \in DOMAIN reviews[i] : reviews[i][m].by = <<c, n>>}

\* A promotion about to be read again has been written, once.
AtDetail ==
  \A c \in Call : call[c] = "detail" /\ Current(c) # None =>
    /\ action[c] = "promote"
    /\ \E m \in DOMAIN reviews[Current(c)] : /\ reviews[Current(c)][m].to = "promoted"
                                             /\ Written(Current(c), c, At(c)) = {m}

\* A result is that of a place of the list.
Listed == \A c \in Call : Len(result[c]) <= Len(wanted[c])

ResultInv == HistoryInv /\ Listed /\ AtDetail /\ ResultTellsWrites

\* A step keeps what was written at a place that the request is past, and the reviews
\* and the deletion that came after it.
LEMMA PastStays ==
  ASSUME HistoryInv, [Next]_vars, NEW c \in Call, NEW n \in 1..Limit, NEW i \in Item,
         Past(c, n), n \in DOMAIN wanted[c], wanted'[c][n] = i
  PROVE  /\ wanted[c][n] = i /\ Past(c, n)' /\ Written(i, c, n)' = Written(i, c, n)
         /\ \A m \in Written(i, c, n) :
              /\ reviews'[i][m] = reviews[i][m]
              /\ <<c, n>> \notin briefs \/ m < Len(reviews[i]) =>
                   <<c, n>> \notin briefs' \/ m < Len(reviews'[i])
<1>0. TypeOK /\ Named /\ Rows /\ Len(reviews[i]) \in Nat /\ DOMAIN reviews[i] = 1..Len(reviews[i])
  BY TypeParts, ReviewTypes DEF HistoryInv
<1>1. CASE reviews'[i] = reviews[i] /\ \A m \in Written(i, c, n) : <<c, n>> \in briefs' => <<c, n>> \in briefs
  <2>1. Written(i, c, n)' = Written(i, c, n)
    BY <1>1 DEF Written
  <2>2. wanted[c][n] = i /\ Past(c, n)'
    <3>1. CASE Keeps
      BY <3>1 DEF Keeps
    <3>2. ASSUME NEW f \in Feed, DeleteSource(f)
          PROVE  wanted[c][n] = i /\ Past(c, n)'
      BY <1>0, <3>2, SourceDeleted DEF Past
    <3> QED BY <1>0, <3>1, <3>2, Steps
  <2> QED BY <1>1, <2>1, <2>2
<1>2. ASSUME NEW f \in Feed, DeleteSource(f)
      PROVE  reviews'[i] = reviews[i] /\ \A m \in Written(i, c, n) : <<c, n>> \in briefs' => <<c, n>> \in briefs
  <2>1. source[i] # f
    BY <1>0, <1>2, SourceDeleted
  <2> QED BY <1>0, <1>2, <2>1, SourceDeleted DEF Written
<1>3. ASSUME NEW b \in briefs, DeleteBrief(b)
      PROVE  reviews'[i] = reviews[i] /\ \A m \in Written(i, c, n) : <<c, n>> \in briefs' => <<c, n>> \in briefs
  BY <1>3 DEF DeleteBrief
<1>4. ASSUME Keeps, NEW d \in Call, Write(d)
      PROVE  /\ wanted[c][n] = i /\ Past(c, n)' /\ Written(i, c, n)' = Written(i, c, n)
             /\ \A m \in Written(i, c, n) :
                  /\ reviews'[i][m] = reviews[i][m]
                  /\ <<c, n>> \notin briefs \/ m < Len(reviews[i]) =>
                       <<c, n>> \notin briefs' \/ m < Len(reviews'[i])
  <2> DEFINE job == <<d, At(d)>>
  <2>1. job # <<c, n>>
    BY <1>0, <1>4, WriteAdds
  <2>2. briefs' \subseteq briefs \union {job}
    BY <1>0, <1>4, WriteAdds
  <2>3. CASE i # Current(d)
    <3>1. reviews'[i] = reviews[i]
      BY <1>0, <1>4, <2>3, WriteAdds
    <3> QED BY <1>1, <2>1, <2>2, <3>1
  <2>4. CASE i = Current(d)
    <3> DEFINE new == Len(reviews[i]) + 1
    <3>0. Len(reviews'[i]) = new
      BY <1>0, <1>4, <2>4, WriteAdds
    <3>1. /\ DOMAIN reviews'[i] = 1..new
          /\ \A m \in 1..Len(reviews[i]) : reviews'[i][m] = reviews[i][m]
          /\ reviews'[i][new].by = job
      BY <1>0, <1>4, <2>4, WriteAdds
    <3>2. Written(i, c, n)' = Written(i, c, n)
      BY <1>0, <2>1, <3>1 DEF Written
    <3>3. wanted[c][n] = i /\ Past(c, n)'
      BY <1>4 DEF Keeps
    <3> QED BY <1>0, <2>1, <2>2, <3>0, <3>1, <3>2, <3>3 DEF Written
  <2> QED BY <2>3, <2>4
<1> QED BY <1>0, <1>1, <1>2, <1>3, <1>4, Steps

\* A request that has yet to write at its place has no review made there; one that
\* writes has one.
LEMMA WrittenOnce ==
  ASSUME HistoryInv, NEW c \in Call, At(c) \in DOMAIN wanted[c], Current(c) # None,
         call[c] # "detail"
  PROVE  /\ Current(c) \in Item /\ Written(Current(c), c, At(c)) = {}
         /\ Write(c) => \E m \in DOMAIN reviews'[Current(c)] :
              /\ reviews'[Current(c)][m].to = IF action[c] = "promote" THEN "promoted" ELSE "archived"
              /\ {k \in DOMAIN reviews'[Current(c)] : reviews'[Current(c)][k].by = <<c, At(c)>>} = {m}
<1> DEFINE i == Current(c)
           job == <<c, At(c)>>
<1>0. /\ TypeOK /\ Named /\ Requests /\ i \in Item /\ At(c) \in 1..Limit /\ At(c) \in Nat
      /\ Len(reviews[i]) \in Nat /\ DOMAIN reviews[i] = 1..Len(reviews[i])
  <2>1. TypeOK /\ Named /\ Rows /\ Requests
    BY TypeParts DEF HistoryInv
  <2>2. i \in Item /\ job \in Job /\ At(c) \in Nat
    BY <2>1, Places
  <2>3. At(c) \in 1..Limit
    BY <2>2 DEF Job
  <2> QED BY <2>1, <2>2, <2>3, ReviewTypes
<1>1. ~Past(c, At(c))
  BY <1>0 DEF Past
<1>2. \A m \in DOMAIN reviews[i] : reviews[i][m].by # job
  BY <1>0, <1>1 DEF Named
<1>3. ASSUME Write(c)
      PROVE  \E m \in DOMAIN reviews'[i] :
               /\ reviews'[i][m].to = IF action[c] = "promote" THEN "promoted" ELSE "archived"
               /\ {k \in DOMAIN reviews'[i] : reviews'[i][k].by = job} = {m}
  <2> DEFINE new == Len(reviews[i]) + 1
  <2>1. /\ DOMAIN reviews'[i] = 1..new
        /\ \A m \in 1..Len(reviews[i]) : reviews'[i][m] = reviews[i][m]
        /\ reviews'[i][new].by = job
    BY <1>0, <1>3, WriteAdds
  <2>2. reviews'[i][new].to = IF action[c] = "promote" THEN "promoted" ELSE "archived"
    BY <1>0, <1>3, WriteAdds
  <2>3. {k \in DOMAIN reviews'[i] : reviews'[i][k].by = job} = {new}
    BY <1>0, <1>2, <2>1
  <2> QED BY <1>0, <2>1, <2>2, <2>3
<1> QED BY <1>0, <1>2, <1>3 DEF Written

\* A step gives a request a result at its place, or leaves its results.
LEMMA Turns ==
  ASSUME TypeOK, [Next]_vars, NEW c \in Call
  PROVE  \/ /\ At(c) \in DOMAIN wanted[c] /\ wanted' = wanted
            /\ \/ Read(c) /\ Current(c) = None /\ Settle(c, "failed")
               \/ Read(c) /\ Settle(c, "conflict")
               \/ Write(c) /\ action[c] = "archive" /\ Settle(c, "success")
               \/ WriteFails(c) /\ Settle(c, "failed")
               \/ /\ Detail(c)
                  /\ Settle(c, IF Current(c) = None \/ brief[Current(c)] = None
                                 THEN "failed" ELSE "success")
               \/ DetailFails(c) /\ Settle(c, "unread")
         \/ /\ result'[c] = result[c]
            /\ call'[c] = "detail" =>
                 \/ call[c] = "detail" /\ action'[c] = action[c]
                 \/ /\ Write(c) /\ call[c] = "writing" /\ action[c] = "promote"
                    /\ UNCHANGED <<action, wanted>>
<1>0. Requests
  BY TypeParts
<1>1. CASE result' = result /\ call' = call /\ action' = action
  BY <1>1
<1>2. ASSUME NEW f \in Feed, Fetch(f) \/ FetchStep(f) \/ Crash(f) \/ DeleteSource(f)
      PROVE  result' = result /\ call' = call /\ action' = action
  BY <1>2, TypeFetch DEF DeleteSource, request
<1>3. ASSUME NEW b \in briefs, DeleteBrief(b)
      PROVE  result' = result /\ call' = call /\ action' = action
  BY <1>3 DEF DeleteBrief
<1>4. ASSUME NEW d \in Call, d # c,
             Request(d) \/ Read(d) \/ Write(d) \/ Detail(d) \/ DetailFails(d) \/ WriteFails(d)
      PROVE  result'[c] = result[c] /\ call'[c] = call[c] /\ action'[c] = action[c]
  BY <1>0, <1>4 DEF Request, Read, Write, Detail, DetailFails, WriteFails, Settle, Requests
<1>5. CASE Request(c)
  BY <1>0, <1>5 DEF Request, Requests
<1>6. ASSUME call[c] \in {"next", "writing", "detail"}
      PROVE  At(c) \in DOMAIN wanted[c]
  BY <1>0, <1>6 DEF Requests
<1>7. CASE Read(c)
  <2>1. CASE call' = [call EXCEPT ![c] = "writing"] /\ result' = result
    BY <1>0, <2>1 DEF Requests
  <2> QED BY <1>6, <1>7, <2>1 DEF Read, Settle
<1>8. CASE Write(c)
  <2>1. CASE action[c] = "promote"
    BY <1>0, <1>8, <2>1 DEF Write, Requests
  <2>2. CASE action[c] # "promote"
    <3>1. action[c] = "archive"
      BY <1>0, <2>2 DEF Requests
    <3> QED BY <1>6, <1>8, <3>1 DEF Write, Settle
  <2> QED BY <2>1, <2>2
<1>9. CASE Detail(c) \/ DetailFails(c) \/ WriteFails(c)
  BY <1>6, <1>9 DEF Detail, DetailFails, WriteFails, Settle
<1>10. CASE UNCHANGED vars
  BY <1>1, <1>10 DEF vars, request
<1> QED BY <1>1, <1>2, <1>3, <1>4, <1>5, <1>7, <1>8, <1>9, <1>10 DEF Next

LEMMA ListedNext == TypeOK /\ Listed /\ [Next]_vars => Listed'
<1> SUFFICES ASSUME TypeOK, Listed, [Next]_vars, NEW c \in Call
             PROVE  Len(result'[c]) <= Len(wanted'[c])
  BY DEF Listed
<1>0. Requests /\ Len(result[c]) \in Nat /\ Len(wanted[c]) \in Nat /\ Len(result[c]) <= Len(wanted[c])
  BY TypeParts, Places DEF Listed
<1>1. CASE result'[c] = result[c]
  <2>1. CASE wanted'[c] = wanted[c]
    BY <1>0, <1>1, <2>1
  <2>2. CASE result[c] = <<>>
    <3>1. Requests'
      BY TypeNext, TypeParts, PTL
    <3>2. Len(wanted'[c]) \in Nat
      BY <3>1 DEF Requests
    <3> QED BY <1>1, <2>2, <3>2
  <2>3. ASSUME NEW f \in Feed, DeleteSource(f)
        PROVE  Len(wanted'[c]) = Len(wanted[c])
    <3>1. Requests'
      BY TypeNext, TypeParts, PTL
    <3>2. Len(wanted'[c]) \in Nat /\ DOMAIN wanted'[c] = 1..Len(wanted'[c])
      BY <3>1 DEF Requests
    <3>3. DOMAIN wanted'[c] = 1..Len(wanted[c])
      BY <1>0, <2>3, Places DEF DeleteSource, Requests
    <3> QED BY <1>0, <3>2, <3>3
  <2>4. ASSUME NEW d \in Call, Request(d)
        PROVE  wanted'[c] = wanted[c] \/ result[c] = <<>>
    BY <1>0, <2>4 DEF Request, Requests
  <2>5. ASSUME NEW d \in Call,
               Read(d) \/ Write(d) \/ Detail(d) \/ DetailFails(d) \/ WriteFails(d)
        PROVE  wanted' = wanted
    BY <2>5 DEF Read, Write, Detail, DetailFails, WriteFails, Settle
  <2>6. ASSUME NEW f \in Feed, Fetch(f) \/ FetchStep(f) \/ Crash(f)
        PROVE  wanted' = wanted
    BY <2>6, TypeFetch DEF request
  <2> QED
    BY <1>0, <1>1, <2>1, <2>2, <2>3, <2>4, <2>5, <2>6 DEF Next, vars, request, DeleteBrief
<1>2. ASSUME At(c) \in DOMAIN wanted[c], wanted' = wanted, NEW outcome \in Results,
             Settle(c, outcome)
      PROVE  Len(result'[c]) <= Len(wanted'[c])
  <2>1. Len(result'[c]) = Len(result[c]) + 1
    <3>1. result[c] \in Seq(Results) /\ result'[c] = Append(result[c], outcome)
      BY <1>0, <1>2 DEF Settle, Requests
    <3> QED BY <3>1
  <2>2. Len(result[c]) + 1 <= Len(wanted[c])
    <3>1. Len(result[c]) + 1 \in 1..Len(wanted[c])
      BY <1>0, <1>2, Places
    <3> QED BY <1>0, <3>1
  <2> QED BY <1>2, <2>1, <2>2
<1> QED BY <1>1, <1>2, Turns DEF Results

LEMMA DetailNext == HistoryInv /\ AtDetail /\ [Next]_vars => AtDetail'
<1> SUFFICES ASSUME HistoryInv, AtDetail, [Next]_vars, NEW c \in Call, call'[c] = "detail",
                    Current(c)' # None
             PROVE  /\ action'[c] = "promote"
                    /\ \E m \in DOMAIN reviews'[Current(c)'] :
                         /\ reviews'[Current(c)'][m].to = "promoted"
                         /\ Written(Current(c), c, At(c))' = {m}
  BY DEF AtDetail
<1>0. TypeOK /\ Requests /\ Requests' /\ HistoryInv'
  BY TypeParts, TypeNext, HistoryNext, PTL DEF HistoryInv
<1>1. /\ result'[c] = result[c] /\ At(c)' = At(c)
      /\ \/ call[c] = "detail" /\ action'[c] = action[c]
         \/ /\ Write(c) /\ call[c] = "writing" /\ action[c] = "promote"
            /\ UNCHANGED <<action, wanted>>
  <2>1. ASSUME NEW outcome, Settle(c, outcome)
        PROVE  FALSE
    BY <1>0, <2>1 DEF Settle, Requests
  <2>2. /\ result'[c] = result[c]
        /\ \/ call[c] = "detail" /\ action'[c] = action[c]
           \/ /\ Write(c) /\ call[c] = "writing" /\ action[c] = "promote"
              /\ UNCHANGED <<action, wanted>>
    BY <1>0, <2>1, Turns
  <2> QED BY <2>2 DEF At
<1>2. CASE call[c] = "detail" /\ action'[c] = action[c]
  <2>1. /\ At(c) \in DOMAIN wanted[c] /\ At(c) \in DOMAIN wanted'[c]
        /\ Current(c)' = wanted'[c][At(c)] /\ At(c) \in 1..Limit
    <3>1. At(c) \in DOMAIN wanted[c] /\ At(c)' \in DOMAIN wanted'[c]
      BY <1>0, <1>2 DEF Requests
    <3>2. At(c) \in 1..Limit
      BY <1>0, <3>1, Places DEF Job
    <3> QED BY <1>1, <3>1, <3>2 DEF Current
  <2>2. PICK n \in 1..Limit : n = At(c)
    BY <2>1
  <2>3. PICK i \in Item : i = wanted'[c][n]
    <3>1. wanted'[c] \in Seq(Item \union {None})
      BY <1>0 DEF Requests
    <3> QED BY <2>1, <2>2, <3>1
  <2>4. /\ wanted[c][n] = i /\ Written(i, c, n)' = Written(i, c, n)
        /\ \A m \in Written(i, c, n) : reviews'[i][m] = reviews[i][m]
    <3>1. Past(c, n)
      BY <1>2, <2>2 DEF Past
    <3>2. n \in DOMAIN wanted[c] /\ wanted'[c][n] = i
      BY <2>1, <2>2, <2>3
    <3>3. /\ wanted[c][n] = i /\ Past(c, n)' /\ Written(i, c, n)' = Written(i, c, n)
          /\ \A m \in Written(i, c, n) :
               /\ reviews'[i][m] = reviews[i][m]
               /\ <<c, n>> \notin briefs \/ m < Len(reviews[i]) =>
                    <<c, n>> \notin briefs' \/ m < Len(reviews'[i])
      BY <3>1, <3>2, PastStays
    <3> QED BY <3>3
  <2>5. Current(c) = i /\ i # None
    BY <2>2, <2>4 DEF Current
  <2>6. PICK m \in DOMAIN reviews[i] : reviews[i][m].to = "promoted" /\ Written(i, c, n) = {m}
    BY <1>2, <2>2, <2>5 DEF AtDetail
  <2>7. m \in DOMAIN reviews'[i] /\ reviews'[i][m].to = "promoted"
    BY <2>4, <2>6 DEF Written
  <2>8. Current(c)' = i /\ Written(Current(c), c, At(c))' = {m}
    BY <1>1, <2>1, <2>2, <2>3, <2>4, <2>6 DEF Written
  <2>9. action'[c] = "promote"
    BY <1>2, <2>5 DEF AtDetail
  <2> QED BY <2>7, <2>8, <2>9
<1>3. CASE Write(c) /\ call[c] = "writing" /\ action[c] = "promote" /\ UNCHANGED <<action, wanted>>
  <2>1. Current(c)' = Current(c) /\ At(c) \in DOMAIN wanted[c]
    BY <1>0, <1>1, <1>3 DEF Current, Requests
  <2>2. PICK m \in DOMAIN reviews'[Current(c)] :
          /\ reviews'[Current(c)][m].to = "promoted"
          /\ {k \in DOMAIN reviews'[Current(c)] : reviews'[Current(c)][k].by = <<c, At(c)>>} = {m}
    BY <1>3, <2>1, WrittenOnce
  <2>3. Written(Current(c), c, At(c))' = {m}
    BY <1>1, <2>1, <2>2 DEF Written
  <2> QED BY <1>3, <2>1, <2>2, <2>3
<1> QED BY <1>1, <1>2, <1>3

\* What a result tells of the reviews of an item that were made at its place.
Told(i, c, n) ==
  /\ result[c][n] = "success" => Cardinality(Written(i, c, n)) = 1
  /\ result[c][n] = "conflict" => Written(i, c, n) = {}
  /\ result[c][n] = "failed" => \A m \in Written(i, c, n) :
       <<c, n>> \notin briefs \/ m < Len(reviews[i])

LEMMA TellsNext == ResultInv /\ [Next]_vars => ResultTellsWrites'
<1> SUFFICES ASSUME ResultInv, [Next]_vars, NEW c \in Call, NEW n \in DOMAIN result'[c],
                    NEW i, i = wanted'[c][n], i # None
             PROVE  Told(i, c, n)'
  BY DEF ResultTellsWrites, Told, Written
<1>0. HistoryInv /\ TypeOK /\ Requests /\ Requests' /\ Rows /\ Listed'
  BY TypeParts, TypeNext, ListedNext, PTL DEF ResultInv, HistoryInv
<1>1. i \in Item /\ n \in 1..Limit
  <2>1. /\ wanted'[c] \in Seq(Item \union {None}) /\ Len(wanted'[c]) <= Limit
        /\ result'[c] \in Seq(Results) /\ Len(result'[c]) <= Len(wanted'[c])
    BY <1>0 DEF Requests, Listed
  <2>2. Len(wanted'[c]) \in Nat /\ n \in 1..Len(wanted'[c])
    BY <2>1
  <2>3. n \in 1..Limit
    BY <2>1, <2>2, BoundAssumption
  <2> QED BY <2>1, <2>2, <2>3
<1>2. ASSUME n \in DOMAIN result[c], result'[c][n] = result[c][n]
      PROVE  Told(i, c, n)'
  <2>1. Past(c, n) /\ n \in DOMAIN wanted[c]
    <3>1. /\ Len(result[c]) \in Nat /\ n \in 1..Len(result[c]) /\ At(c) = Len(result[c]) + 1
          /\ Len(wanted[c]) \in Nat /\ DOMAIN wanted[c] = 1..Len(wanted[c])
          /\ Len(result[c]) <= Len(wanted[c])
      BY <1>0, <1>2, Places DEF ResultInv, Listed
    <3> QED BY <3>1 DEF Past
  <2>2. /\ wanted[c][n] = i /\ Past(c, n)' /\ Written(i, c, n)' = Written(i, c, n)
        /\ \A m \in Written(i, c, n) :
             /\ reviews'[i][m] = reviews[i][m]
             /\ <<c, n>> \notin briefs \/ m < Len(reviews[i]) =>
                  <<c, n>> \notin briefs' \/ m < Len(reviews'[i])
    BY <1>0, <1>1, <2>1, PastStays
  <2>3. Told(i, c, n)
    <3>1. wanted[c][n] # None
      BY <2>2
    <3>2. Told(wanted[c][n], c, n)
      BY <1>2, <3>1 DEF ResultInv, ResultTellsWrites, Told, Written
    <3> QED BY <2>2, <3>2
  <2> QED BY <1>2, <2>2, <2>3 DEF Told
<1>3. ASSUME At(c) \in DOMAIN wanted[c], NEW outcome \in Results, Settle(c, outcome)
      PROVE  /\ n # At(c) => Told(i, c, n)'
             /\ n = At(c) => result'[c][n] = outcome
             /\ wanted' = wanted
  <2>1. /\ DOMAIN result'[c] = 1..At(c) /\ \A k \in DOMAIN result[c] : result'[c][k] = result[c][k]
        /\ result'[c][At(c)] = outcome /\ wanted' = wanted
    BY <1>0, <1>3, Settled
  <2>2. n = At(c) \/ n \in DOMAIN result[c]
    <3>1. /\ Len(result[c]) \in Nat /\ DOMAIN result[c] = 1..Len(result[c])
          /\ At(c) = Len(result[c]) + 1
      BY <1>0, Places
    <3> QED BY <2>1, <3>1
  <2>3. n \in DOMAIN result[c] => Told(i, c, n)'
    BY <1>2, <2>1
  <2> QED BY <2>1, <2>2, <2>3
<1>4. ASSUME wanted' = wanted, n = At(c)
      PROVE  i = Current(c) /\ Current(c) # None
  BY <1>4 DEF Current
<1>5. ASSUME At(c) \in DOMAIN wanted[c], wanted' = wanted, reviews' = reviews,
             call[c] # "detail", n = At(c)
      PROVE  Written(i, c, n)' = {}
  BY <1>0, <1>4, <1>5, WrittenOnce DEF Written
<1>7. CASE At(c) \in DOMAIN wanted[c] /\ Current(c) = None /\ Settle(c, "failed")
  BY <1>3, <1>4, <1>7 DEF Results
<1>8. CASE At(c) \in DOMAIN wanted[c] /\ Read(c) /\ Settle(c, "conflict")
  <2>1. reviews' = reviews /\ call[c] = "next"
    BY <1>8 DEF Read, item
  <2>2. ASSUME n = At(c) PROVE Written(i, c, n)' = {} /\ result'[c][n] = "conflict"
    BY <1>3, <1>5, <1>8, <2>1, <2>2 DEF Results
  <2>3. n # At(c) => Told(i, c, n)'
    BY <1>3, <1>8 DEF Results
  <2> QED BY <2>2, <2>3 DEF Told
<1>9. CASE At(c) \in DOMAIN wanted[c] /\ WriteFails(c) /\ Settle(c, "failed")
  <2>1. reviews' = reviews /\ call[c] = "writing"
    BY <1>9 DEF WriteFails, item
  <2>2. ASSUME n = At(c) PROVE Written(i, c, n)' = {} /\ result'[c][n] = "failed"
    BY <1>3, <1>5, <1>9, <2>1, <2>2 DEF Results
  <2>3. n # At(c) => Told(i, c, n)'
    BY <1>3, <1>9 DEF Results
  <2> QED BY <2>2, <2>3 DEF Told
<1>10. CASE At(c) \in DOMAIN wanted[c] /\ Write(c) /\ Settle(c, "success")
  <2>1. ASSUME n = At(c) PROVE Told(i, c, n)'
    <3>1. call[c] # "detail" /\ wanted' = wanted /\ result'[c][n] = "success"
      BY <1>3, <1>10, <2>1 DEF Write, Results
    <3>2. i = Current(c) /\ Current(c) # None
      BY <1>4, <2>1, <3>1
    <3>3. PICK m : {k \in DOMAIN reviews'[Current(c)] : reviews'[Current(c)][k].by = <<c, At(c)>>} = {m}
      BY <1>0, <1>10, <3>1, <3>2, WrittenOnce
    <3>4. Written(i, c, n)' = {m}
      BY <2>1, <3>2, <3>3 DEF Written
    <3> QED BY <3>1, <3>4, FS_Singleton DEF Told
  <2>2. n # At(c) => Told(i, c, n)'
    BY <1>3, <1>10 DEF Results
  <2> QED BY <2>1, <2>2
<1>11. ASSUME At(c) \in DOMAIN wanted[c], Detail(c),
              NEW outcome \in Results, Settle(c, outcome),
              outcome = IF Current(c) = None \/ brief[Current(c)] = None THEN "failed" ELSE "success"
       PROVE  Told(i, c, n)'
  <2>1. ASSUME n = At(c) PROVE Told(i, c, n)'
    <3>1. wanted' = wanted /\ result'[c][n] = outcome
      BY <1>3, <1>11, <2>1
    <3>2. i = Current(c) /\ i # None /\ call[c] = "detail" /\ reviews' = reviews /\ briefs' = briefs
      BY <1>4, <1>11, <2>1, <3>1 DEF Detail, item
    <3>3. PICK m \in DOMAIN reviews[i] : reviews[i][m].to = "promoted" /\ Written(i, c, n) = {m}
      BY <2>1, <3>2 DEF ResultInv, AtDetail
    <3>4. Written(i, c, n)' = {m} /\ reviews[i][m].by = <<c, n>>
      BY <3>2, <3>3 DEF Written
    <3>5. CASE brief[i] = None
      <4>1. Len(reviews[i]) \in Nat /\ DOMAIN reviews[i] = 1..Len(reviews[i])
        BY <1>0, <1>1, ReviewTypes
      <4>2. reviews[i][m].by \in Job
        BY <1>0, <1>1, ReviewTypes
      <4>3. m < Len(reviews[i]) \/ <<c, n>> \notin briefs
        BY <1>0, <1>1, <3>3, <3>4, <3>5, <4>1, <4>2 DEF HistoryInv, BriefIsLatest, IsPromotion
      <4>4. result'[c][n] = "failed"
        BY <1>11, <3>1, <3>2, <3>5
      <4> QED BY <3>2, <3>4, <4>3, <4>4 DEF Told
    <3>6. CASE brief[i] # None
      <4>1. result'[c][n] = "success"
        BY <1>11, <3>1, <3>2, <3>6
      <4> QED BY <3>4, <4>1, FS_Singleton DEF Told
    <3> QED BY <3>5, <3>6
  <2>2. n # At(c) => Told(i, c, n)'
    BY <1>3, <1>11
  <2> QED BY <2>1, <2>2
<1>12. CASE At(c) \in DOMAIN wanted[c] /\ Settle(c, "unread")
  <2>1. n = At(c) => result'[c][n] = "unread"
    BY <1>3, <1>12 DEF Results
  <2>2. n # At(c) => Told(i, c, n)'
    BY <1>3, <1>12 DEF Results
  <2> QED BY <2>1, <2>2 DEF Told
<1>13. CASE result'[c] = result[c]
  BY <1>2, <1>13
<1> QED BY <1>0, <1>7, <1>8, <1>9, <1>10, <1>11, <1>12, <1>13, Turns DEF Results

\* What a request reports at a place of its list is what it did there to an item that is
\* still stored: a success is among the reviews once, a conflict never, and a promotion
\* reported as failed that was written was undone since, by a later review or by the
\* deletion of its brief.
THEOREM ResultsTellWrites == Spec => []ResultTellsWrites
<1>1. Init => ResultInv
  <2> SUFFICES ASSUME Init PROVE ResultInv
    OBVIOUS
  <2>1. HistoryInv
    BY TypeInit DEF Init, HistoryInv, Named, BriefIsLatest, IsPromotion
  <2>2. Listed /\ AtDetail /\ ResultTellsWrites
    BY DEF Init, Listed, AtDetail, ResultTellsWrites
  <2> QED BY <2>1, <2>2 DEF ResultInv
<1>2. ResultInv /\ [Next]_vars => ResultInv'
  BY HistoryNext, ListedNext, DetailNext, TellsNext DEF ResultInv, HistoryInv
<1>3. ResultInv => ResultTellsWrites
  BY DEF ResultInv
<1> QED BY <1>1, <1>2, <1>3, PTL DEF Spec
=============================================================================
