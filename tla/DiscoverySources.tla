-------------------------- MODULE DiscoverySources --------------------------
(* The ingestion of discovery sources (server/jobs/discovery): every few     *)
(* minutes each server lists the sources that are due, claims them one by    *)
(* one, fetches each with retries, stores what it found and releases it; a   *)
(* second task marks sources that have not been fetched for long. Servers    *)
(* share only the rows of discovery_sources. A step is the code between two  *)
(* calls to the database or to the source.                                   *)
(*                                                                           *)
(* Time is two flags of a source: it is due (nextFetchAt has passed), it is  *)
(* old (lastFetchCompletedAt, or createdAt before any fetch, is beyond the   *)
(* cutoff of the marking task). What a fetch stores is DiscoveryItems.       *)
EXTENDS Integers, FiniteSets

CONSTANTS
  Source,       \* sources: rows of discovery_sources
  Server,       \* servers; each runs one ingestion job at a time
  WorkerLimit,  \* DISCOVERY_INGEST_WORKERS
  MaxAttempts,  \* INGESTION_RETRY_MAX_ATTEMPTS
  Aging,        \* exploration bound: sources that may go unfetched for long
  MaxFailures,  \* exploration bound: higher failure counts are not told apart
  MaxFaults,    \* exploration bound: restarts and failing database calls
  None, Lost    \* of the claims

ASSUME WorkerAssumption == WorkerLimit \in Nat \ {0} /\ MaxAttempts \in Nat \ {0}
ASSUME AgingAssumption == Aging \subseteq Source
ASSUME FaultAssumption == MaxFailures \in Nat \ {0} /\ MaxFaults \in Nat
ASSUME ClaimAssumption == None \notin Server /\ Lost \notin Server /\ None # Lost

VARIABLES
  status,    \* lastFetchStatus, or "deleted"
  due,       \* nextFetchAt is not in the future
  old,       \* the last completion is beyond the cutoff
  failures,  \* consecutiveFailureCount
  queue,     \* a server's job: listed sources it has not launched yet
  pc,        \* where its task for a source is
  attempt,   \*   the attempt it is at
  success,   \*   what it is about to record
  seen,      \*   the failure count it has read
  rows,      \* the marking task: the failure counts it has read, by source
  lost,      \* sources whose claim has no holder any more
  faults     \* faults so far

row == <<status, due, old, failures>>
task == <<pc, attempt, success, seen>>
vars == <<row, queue, task, rows, lost, faults>>

Tasks(Value) == [Server -> [Source -> Value]]
Counts == 0..MaxFailures
Holding == {"fetching", "storing", "sleeping", "completing", "committing",
            "releasing", "updating"}

TypeOK ==
  /\ status \in [Source -> {"idle", "running", "success", "failure", "deleted"}]
  /\ due \in [Source -> BOOLEAN]
  /\ old \in [Source -> BOOLEAN]
  /\ failures \in [Source -> Counts]
  /\ queue \in [Server -> SUBSET Source]
  /\ pc \in Tasks(Holding \union {"away", "claiming"})
  /\ attempt \in Tasks(0..MaxAttempts)
  /\ success \in Tasks(BOOLEAN)
  /\ seen \in Tasks(Counts)
  /\ DOMAIN rows \subseteq Source /\ rows \in [DOMAIN rows -> Counts]
  /\ lost \in SUBSET Source
  /\ faults \in 0..MaxFaults

Each(value) == [s \in Source |-> value]

Init ==
  /\ status = Each("idle")
  /\ due = Each(TRUE)
  /\ old = Each(FALSE)
  /\ failures = Each(0)
  /\ queue = [v \in Server |-> {}]
  /\ pc = [v \in Server |-> Each("away")]
  /\ attempt = [v \in Server |-> Each(0)]
  /\ success = [v \in Server |-> Each(FALSE)]
  /\ seen = [v \in Server |-> Each(0)]
  /\ rows = [s \in {} |-> 0]
  /\ lost = {}
  /\ faults = 0

-----------------------------------------------------------------------------
(* The ingestion job.                                                        *)

Active(v) == {s \in Source : pc[v][s] # "away"}

\* The batch limit is left out: the sources due for longest are listed first, so that
\* a job takes up, in so many runs, every source that is due.
Listed == {s \in Source : due[s] /\ status[s] \notin {"running", "deleted"}}

\* listDiscoverySourcesDue, once the last job of this server has ended.
StartJob(v) ==
  /\ queue[v] = {} /\ Active(v) = {}
  /\ Listed # {}
  /\ queue' = [queue EXCEPT ![v] = Listed]
  /\ UNCHANGED <<row, task, rows, lost, faults>>

\* refill: launch the next source while a worker is free.
Launch(v, s) ==
  /\ s \in queue[v]
  /\ Cardinality(Active(v)) < WorkerLimit
  /\ queue' = [queue EXCEPT ![v] = @ \ {s}]
  /\ pc' = [pc EXCEPT ![v][s] = "claiming"]
  /\ UNCHANGED <<row, attempt, success, seen, rows, lost, faults>>

Goto(v, s, place) == pc' = [pc EXCEPT ![v][s] = place]

\* The task is over; nothing of it is read again.
Leave(v, s) ==
  /\ Goto(v, s, "away")
  /\ attempt' = [attempt EXCEPT ![v][s] = 0]
  /\ success' = [success EXCEPT ![v][s] = FALSE]
  /\ seen' = [seen EXCEPT ![v][s] = 0]

\* Mutant: a source that is due may be taken over.
Claimable_Overdue(s) == status[s] # "deleted" /\ due[s]

Claimable(s) == status[s] \notin {"running", "deleted"} /\ due[s]

\* Mutant: an UPDATE by id, without the condition.
Claim_ById(v, s) ==
  /\ pc[v][s] = "claiming"
  /\ status' = [status EXCEPT ![s] = "running"]
  /\ Goto(v, s, "fetching")
  /\ attempt' = [attempt EXCEPT ![v][s] = 1]
  /\ UNCHANGED <<due, old, failures, queue, success, seen, rows, lost, faults>>

\* claimDiscoverySourceForFetch: one conditional UPDATE.
Claim(v, s) ==
  /\ pc[v][s] = "claiming"
  /\ Claimable(s)
  /\ status' = [status EXCEPT ![s] = "running"]
  /\ Goto(v, s, "fetching")
  /\ attempt' = [attempt EXCEPT ![v][s] = 1]
  /\ UNCHANGED <<due, old, failures, queue, success, seen, rows, lost, faults>>

Skip(v, s) ==
  /\ pc[v][s] = "claiming"
  /\ ~Claimable(s)
  /\ Leave(v, s)
  /\ UNCHANGED <<row, queue, rows, lost, faults>>

Fault == faults < MaxFaults /\ faults' = faults + 1

\* The claim's call fails: the job counts the source as failed.
ClaimFails(v, s) ==
  /\ pc[v][s] = "claiming"
  /\ Fault
  /\ Leave(v, s)
  /\ UNCHANGED <<row, queue, rows, lost>>

\* The adapter answers with items.
FetchOk(v, s) ==
  /\ pc[v][s] = "fetching"
  /\ Goto(v, s, "storing")
  /\ attempt' = [attempt EXCEPT ![v][s] = 0]
  /\ UNCHANGED <<row, queue, success, seen, rows, lost, faults>>

\* saveDiscoveryItems and the inline scoring, which never throws.
StoreOk(v, s) ==
  /\ pc[v][s] = "storing"
  /\ status[s] # "deleted"
  /\ success' = [success EXCEPT ![v][s] = TRUE]
  /\ Goto(v, s, "completing")
  /\ UNCHANGED <<row, queue, attempt, seen, rows, lost, faults>>

\* A failure that is not worth another attempt: the adapter's, or an unknown
\* error on storing (of the items of a deleted source, always).
GiveUp(v, s) ==
  /\ pc[v][s] \in {"fetching", "storing"}
  /\ Goto(v, s, "completing")
  /\ attempt' = [attempt EXCEPT ![v][s] = 0]
  /\ UNCHANGED <<row, queue, success, seen, rows, lost, faults>>

\* Mutant: attempts are not limited.
Retry_Unlimited(v, s) ==
  /\ pc[v][s] = "fetching"
  /\ attempt' = [attempt EXCEPT ![v][s] = @ + 1]
  /\ Goto(v, s, "sleeping")
  /\ UNCHANGED <<row, queue, success, seen, rows, lost, faults>>

\* A transient failure of the adapter: sleep before the next attempt, holding the
\* claim.
Retry(v, s) ==
  /\ pc[v][s] = "fetching"
  /\ attempt[v][s] < MaxAttempts
  /\ attempt' = [attempt EXCEPT ![v][s] = @ + 1]
  /\ Goto(v, s, "sleeping")
  /\ UNCHANGED <<row, queue, success, seen, rows, lost, faults>>

WakeUp(v, s) ==
  /\ pc[v][s] = "sleeping"
  /\ Goto(v, s, "fetching")
  /\ UNCHANGED <<row, queue, attempt, success, seen, rows, lost, faults>>

-----------------------------------------------------------------------------
(* Completion: the failure count is read, then written with the outcome.     *)

\* completeDiscoverySourceFetch reads the row, and
\* releaseDiscoverySourceAfterFailedCompletion after it has failed. After a
\* success the count is not used.
ReadCount(v, s) ==
  /\ \/ pc[v][s] = "completing" /\ Goto(v, s, "committing")
     \/ pc[v][s] = "releasing" /\ Goto(v, s, "updating")
  /\ seen' = [seen EXCEPT ![v][s] = IF success[v][s] THEN 0 ELSE failures[s]]
  /\ UNCHANGED <<row, queue, attempt, success, rows, lost, faults>>

NextFailures(won, count) ==
  IF won THEN 0 ELSE IF count = MaxFailures THEN count ELSE count + 1

\* Mutant: the next fetch is not scheduled.
Record_Unscheduled(v, s) ==
  /\ Leave(v, s)
  /\ status' = [status EXCEPT ![s] = IF success[v][s] THEN "success" ELSE "failure"]
  /\ old' = [old EXCEPT ![s] = FALSE]
  /\ failures' = [failures EXCEPT ![s] = NextFailures(success[v][s], seen[v][s])]
  /\ UNCHANGED due

\* The UPDATE of either; it finds no row when the source has been deleted.
Record(v, s) ==
  /\ Leave(v, s)
  /\ IF status[s] = "deleted"
       THEN UNCHANGED row
       ELSE /\ status' = [status EXCEPT ![s] =
                            IF success[v][s] THEN "success" ELSE "failure"]
            /\ due' = [due EXCEPT ![s] = FALSE]
            /\ old' = [old EXCEPT ![s] = FALSE]
            /\ failures' = [failures EXCEPT ![s] =
                              NextFailures(success[v][s], seen[v][s])]

\* The transaction commits, with the row of discovery_ingest_runs, which needs
\* its source.
Complete(v, s) ==
  /\ pc[v][s] = "committing"
  /\ status[s] # "deleted"
  /\ Record(v, s)
  /\ UNCHANGED <<queue, rows, lost, faults>>

\* Mutant: a completion that failed is only logged.
CompleteFails_Leaves(v, s) ==
  /\ pc[v][s] \in {"completing", "committing"}
  /\ Fault
  /\ Leave(v, s)
  /\ UNCHANGED <<row, queue, rows, lost>>

\* The transaction is rolled back: fall back on the UPDATE alone.
CompleteFails(v, s) ==
  /\ pc[v][s] \in {"completing", "committing"}
  /\ \/ pc[v][s] = "committing" /\ status[s] = "deleted" /\ UNCHANGED faults
     \/ Fault
  /\ pc' = [pc EXCEPT ![v][s] = "releasing"]
  /\ seen' = [seen EXCEPT ![v][s] = 0]
  /\ UNCHANGED <<row, queue, attempt, success, rows, lost>>

Release(v, s) ==
  /\ pc[v][s] = "updating"
  /\ Record(v, s)
  /\ UNCHANGED <<queue, rows, lost, faults>>

\* The fallback fails as well, as it may while the database is away: the error is
\* logged and the task ends.
ReleaseFails(v, s) ==
  /\ pc[v][s] \in {"releasing", "updating"}
  /\ Leave(v, s)
  /\ lost' = lost \union {s}
  /\ UNCHANGED <<row, queue, rows, faults>>

\* The server restarts: its job and its tasks are gone, the rows stay.
Crash(v) ==
  /\ queue[v] # {} \/ Active(v) # {}
  /\ Fault
  /\ queue' = [queue EXCEPT ![v] = {}]
  /\ lost' = lost \union {s \in Source : pc[v][s] \in Holding}
  /\ pc' = [pc EXCEPT ![v] = Each("away")]
  /\ attempt' = [attempt EXCEPT ![v] = Each(0)]
  /\ success' = [success EXCEPT ![v] = Each(FALSE)]
  /\ seen' = [seen EXCEPT ![v] = Each(0)]
  /\ UNCHANGED <<row, rows>>

-----------------------------------------------------------------------------
(* The marking task, the routes, and time.                                   *)

Unfetched == {s \in Source : old[s] /\ status[s] \notin {"running", "deleted"}}

\* markStaleDiscoverySources: the SELECT, outside the transaction ...
FindStale ==
  /\ rows = [s \in {} |-> 0]
  /\ Unfetched # {}
  /\ rows' = [s \in Unfetched |-> failures[s]]
  /\ UNCHANGED <<row, queue, task, lost, faults>>

\* ... and the UPDATE of every row it returned, by id only.
MarkStale ==
  /\ rows # [s \in {} |-> 0]
  /\ failures' = [s \in Source |->
                    IF s \in DOMAIN rows /\ status[s] # "deleted"
                      THEN IF rows[s] > 0 THEN rows[s] ELSE 1
                      ELSE failures[s]]
  /\ rows' = [s \in {} |-> 0]
  /\ UNCHANGED <<status, due, old, queue, task, lost, faults>>

\* deleteDiscoverySource, claimed or not.
Delete(s) ==
  /\ status[s] # "deleted"
  /\ status' = [status EXCEPT ![s] = "deleted"]
  /\ due' = [due EXCEPT ![s] = FALSE]
  /\ old' = [old EXCEPT ![s] = FALSE]
  /\ failures' = [failures EXCEPT ![s] = 0]
  /\ UNCHANGED <<queue, task, rows, lost, faults>>

TimePasses(s) ==
  /\ status[s] # "deleted"
  /\ \/ ~due[s] /\ due' = [due EXCEPT ![s] = TRUE] /\ UNCHANGED old
     \/ s \in Aging /\ ~old[s] /\ old' = [old EXCEPT ![s] = TRUE] /\ UNCHANGED due
  /\ UNCHANGED <<status, failures, queue, task, rows, lost, faults>>

Step(v, s) ==
  \/ Claim(v, s) \/ Skip(v, s) \/ FetchOk(v, s) \/ StoreOk(v, s) \/ GiveUp(v, s)
  \/ Retry(v, s) \/ WakeUp(v, s) \/ ReadCount(v, s) \/ Complete(v, s)
  \/ CompleteFails(v, s) \/ Release(v, s)

Next ==
  \/ \E v \in Server : StartJob(v) \/ Crash(v)
  \/ \E v \in Server, s \in Source :
       Launch(v, s) \/ Step(v, s) \/ ClaimFails(v, s) \/ ReleaseFails(v, s)
  \/ FindStale \/ MarkStale
  \/ \E s \in Source : Delete(s) \/ TimePasses(s)

Spec == Init /\ [][Next]_vars

\* Every server runs its tasks on cadence and every call to the database or to
\* a source ends (adapters time out).
Fairness ==
  \A v \in Server :
    /\ WF_vars(StartJob(v))
    /\ \A s \in Source : WF_vars(Launch(v, s)) /\ WF_vars(Step(v, s))

FairSpec == Spec /\ Fairness

-----------------------------------------------------------------------------
Holds(v, s) == pc[v][s] \in Holding

\* Two servers never fetch one source at a time: each task between its claim
\* and its release is the only one for its source, however the servers' jobs,
\* restarts, failed releases and deletions interleave.
ClaimExclusive ==
  \A s \in Source : \A v, w \in Server : Holds(v, s) /\ Holds(w, s) => v = w

\* A row that says 'running' has a task that will release it, unless a restart
\* or a failed fallback has taken that task: no failed fetch, failed storing or
\* failed completion leaves a source claimed for ever.
RunningIsHeld ==
  \A s \in Source :
    status[s] = "running" => s \in lost \/ \E v \in Server : Holds(v, s)

\* A source that is due is fetched and released, whatever the other sources and
\* servers do, unless it is deleted or its claim lost: no claim is kept for ever
\* and no source is passed over for ever.
DueIsFetched == \A s \in Source : due[s] ~> ~due[s] \/ s \in lost

Holder ==
  [s \in Source |->
     IF \E v \in Server : Holds(v, s) THEN CHOOSE v \in Server : Holds(v, s)
     ELSE IF s \in lost THEN Lost ELSE None]

Claims == INSTANCE SourceClaims WITH Owner <- Server, holder <- Holder

\* The ingestion keeps the promise of SourceClaims: claims and releases
\* alternate, and a lost source is never had again.
ImplementsClaims == Claims!Spec
=============================================================================
