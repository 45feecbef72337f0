------------------------ MODULE EmbeddingRetryQueue ------------------------
(***************************************************************************)
(* The durable queue of missing embeddings (embedding_retry_queue.ts) and  *)
(* the workers that drain it (retry-worker.ts), one per process sharing    *)
(* the SQLite file.                                                        *)
(*                                                                         *)
(* A row's timestamps are kept relative to the clock: `due' is the number  *)
(* of ticks until next_attempt_at, `lease' the number until lease_until,   *)
(* both stopping at 0 ("<= now").  claimed_by and lease_until are always   *)
(* set and cleared together, so claimedBy = NoWorker stands for both being *)
(* NULL.  Texts are versions 1, 2, ... of a slot's source text.            *)
(***************************************************************************)
EXTENDS Integers, FiniteSets

CONSTANTS Workers, Jobs, NoWorker,
          MaxAttempts,   \* max_attempts (6 for every caller)
          LeaseTicks,    \* DEFAULT_LEASE_MS in ticks
          BackoffBase, BackoffCap,  \* BASE_BACKOFF_MS, MAX_BACKOFF_MS in ticks
          RetryAfterMax, \* bound: longest provider retryAt distance, in ticks
          BatchSize,     \* batchSize: rows claimed per run
          MaxText,       \* bound: texts written per slot
          MaxCrashes     \* bound: worker processes lost

ASSUME NoWorkerAssumption == NoWorker \notin Workers
ASSUME BoundsAssumption ==
  /\ MaxAttempts \in Nat \ {0}
  /\ LeaseTicks \in Nat \ {0}
  /\ BatchSize \in Nat \ {0}
  /\ {BackoffBase, BackoffCap, RetryAfterMax, MaxText, MaxCrashes} \subseteq Nat

VARIABLES row,      \* row[j]: the slot's row in embedding_retry_queue
          claims,   \* claims[w][j]: the row as worker w read it when claiming
          stopped,  \* stopped[w]: stop() was called
          crashes,  \* worker processes lost so far
          exists, version, vec  \* the target tables, as in VectorCompensation

qvars == <<row, claims, stopped, crashes>>

vars == <<row, claims, stopped, crashes, exists, version, vec>>

Status == {"absent", "pending", "in_progress", "failed", "succeeded"}

\* backoffMs: base doubled per attempt, capped.
BackoffTicks(attemptNo) ==
  LET raw == BackoffBase * 2 ^ (attemptNo - 1)
  IN  IF raw \in 0..BackoffCap THEN raw ELSE BackoffCap

Row == [status: Status, attempts: Nat, due: Nat, lease: Nat,
        claimedBy: Workers \cup {NoWorker}, text: Nat]
\* A worker's copy of a claimed row; text = 0 where it holds none.
Claim == [lease: Nat, attempts: Nat, text: Nat]

NoRow == [status |-> "absent", attempts |-> 0, due |-> 0, lease |-> 0,
          claimedBy |-> NoWorker, text |-> 0]
NoClaim == [lease |-> 0, attempts |-> 0, text |-> 0]
NoClaims == [j \in Jobs |-> NoClaim]

Typed ==
  /\ row \in [Jobs -> Row]
  /\ claims \in [Workers -> [Jobs -> Claim]]
  /\ stopped \in [Workers -> BOOLEAN]
  /\ crashes \in Nat
  /\ exists \in [Jobs -> BOOLEAN]
  /\ version \in [Jobs -> Nat]
  /\ vec \in [Jobs -> Nat]

\* No row, live or settled, has counted more attempts than it is allowed.
TypeOK == Typed /\ \A j \in Jobs : row[j].attempts \in 0..MaxAttempts

Init ==
  /\ row = [j \in Jobs |-> NoRow]
  /\ claims = [w \in Workers |-> NoClaims]
  /\ stopped = [w \in Workers |-> FALSE]
  /\ crashes = 0
  /\ exists = [j \in Jobs |-> FALSE]
  /\ version = [j \in Jobs |-> 0]
  /\ vec = [j \in Jobs |-> 0]

Active(j) == row[j].status \in {"pending", "in_progress"}
Holding(w, j) == claims[w][j].text # 0

\* The WHERE clause shared by the *Claimed updates and touchClaimHeld.
ClaimHeld(w, j) ==
  /\ row[j].status = "in_progress"
  /\ row[j].claimedBy = w
  /\ row[j].lease = claims[w][j].lease

\* Mutants of Enqueued: a terminal row is revived with the attempts it had; the
\* claim columns are left alone.
EnqueuedKeepsAttempts(r, text) ==
  [r EXCEPT !.status = IF @ \in {"pending", "in_progress"} THEN @ ELSE "pending",
            !.due = 0, !.lease = 0, !.claimedBy = NoWorker, !.text = text]

EnqueuedKeepsClaim(r, text) ==
  LET fresh == r.status \notin {"pending", "in_progress"}
  IN  [r EXCEPT !.status = IF fresh THEN "pending" ELSE @,
                !.attempts = IF fresh THEN 0 ELSE @,
                !.due = 0, !.text = text]

\* enqueue: INSERT .. ON CONFLICT DO UPDATE.  The claim is cleared and
\* next_attempt_at brought forward whatever the row's status; only a terminal
\* row goes back to pending with its attempts reset.
Enqueued(r, text) ==
  LET fresh == r.status \notin {"pending", "in_progress"}
  IN  [status |-> IF fresh THEN "pending" ELSE r.status,
       attempts |-> IF fresh THEN 0 ELSE r.attempts,
       due |-> 0, lease |-> 0, claimedBy |-> NoWorker, text |-> text]

\* A caller (capture, L2, L3, skill, feedback experience) writes the slot's
\* text without a vector and queues the slot.
WriteAndEnqueue(j) ==
  /\ version[j] < MaxText
  /\ version' = [version EXCEPT ![j] = @ + 1]
  /\ exists' = [exists EXCEPT ![j] = TRUE]
  /\ vec' = [vec EXCEPT ![j] = 0]
  /\ row' = [row EXCEPT ![j] = Enqueued(row[j], version[j] + 1)]
  /\ UNCHANGED <<claims, stopped, crashes>>

\* The same callers when a vector is at hand (embedded inline, or kept from
\* the previous text): the queue is not touched.
WriteWithVector(j) ==
  /\ version[j] < MaxText
  /\ version' = [version EXCEPT ![j] = @ + 1]
  /\ exists' = [exists EXCEPT ![j] = TRUE]
  /\ \E v \in {version[j] + 1, vec[j]} \ {0} : vec' = [vec EXCEPT ![j] = v]
  /\ UNCHANGED qvars

DeleteTarget(j) ==
  /\ exists[j]
  /\ exists' = [exists EXCEPT ![j] = FALSE]
  /\ vec' = [vec EXCEPT ![j] = 0]
  /\ UNCHANGED <<row, claims, stopped, crashes, version>>

\* Mutants of Due: leases never expire, or are not looked at.
DuePendingOnly == {j \in Jobs : row[j].status = "pending" /\ row[j].due = 0}
DueIgnoresLease == {j \in Jobs : Active(j) /\ row[j].due = 0}

\* claimDue's predicate.
Due == {j \in Jobs : /\ \/ row[j].status = "pending"
                        \/ /\ row[j].status = "in_progress"
                           /\ row[j].claimedBy # NoWorker
                           /\ row[j].lease = 0
                     /\ row[j].due = 0}

\* claimDue's UPDATE, and what it returns to the worker.
LeasedTo(w, r) == [r EXCEPT !.status = "in_progress", !.claimedBy = w,
                            !.lease = LeaseTicks]
Copy(r) == [lease |-> LeaseTicks, attempts |-> r.attempts, text |-> r.text]

\* At most BatchSize rows; when more are due, which come first depends on
\* timestamps the model does not keep.
Batches == {picked \in SUBSET Due :
              \/ picked = Due /\ Cardinality(picked) <= BatchSize
              \/ Cardinality(picked) = BatchSize}

\* tick -> runOnce -> claimDue: one run at a time per worker, none once
\* stopped.
ClaimDue(w) ==
  /\ ~stopped[w]
  /\ \A j \in Jobs : ~Holding(w, j)
  /\ \E picked \in Batches \ {{}} :
       /\ row' = [j \in Jobs |-> IF j \in picked THEN LeasedTo(w, row[j])
                                               ELSE row[j]]
       /\ claims' = [claims EXCEPT ![w] =
            [j \in Jobs |-> IF j \in picked THEN Copy(row[j]) ELSE NoClaim]]
  /\ UNCHANGED <<stopped, crashes, exists, version, vec>>

\* Mutant of AfterFailure: one attempt too many.
AfterFailureOffByOne(r, attemptNo, delay) ==
  [r EXCEPT !.status = IF attemptNo > MaxAttempts THEN "failed" ELSE "pending",
            !.attempts = attemptNo, !.due = delay,
            !.lease = 0, !.claimedBy = NoWorker]

\* markFailedClaimed / markRetryClaimed after attempt number attemptNo.
AfterFailure(r, attemptNo, delay) ==
  [r EXCEPT !.status = IF attemptNo >= MaxAttempts THEN "failed" ELSE "pending",
            !.attempts = attemptNo,
            !.due = IF attemptNo >= MaxAttempts THEN r.due ELSE delay,
            !.lease = 0, !.claimedBy = NoWorker]

\* processJob's catch block: recorded only while the claim is still held.
RecordFailure(w, j, retryAfter) ==
  LET attemptNo == claims[w][j].attempts + 1
      backoff == BackoffTicks(attemptNo)
      delay == IF retryAfter > backoff THEN retryAfter ELSE backoff
  IN  row' = IF ClaimHeld(w, j)
             THEN [row EXCEPT ![j] = AfterFailure(row[j], attemptNo, delay)]
             ELSE row

\* markSucceededClaimed.
AfterSuccess(r) == [r EXCEPT !.status = "succeeded", !.due = 0,
                             !.lease = 0, !.claimedBy = NoWorker]

Release(w, j) == claims' = [claims EXCEPT ![w][j] = NoClaim]

\* Mutant of EmbedStored: the claim is not checked inside the transaction.
EmbedStoredUnchecked(w, j) ==
  /\ Holding(w, j) /\ exists[j]
  /\ vec' = [vec EXCEPT ![j] = claims[w][j].text]
  /\ row' = [row EXCEPT ![j] = AfterSuccess(row[j])]
  /\ Release(w, j)
  /\ UNCHANGED <<stopped, crashes, exists, version>>

\* embedOne resolved, the claim is still this worker's and the target row is
\* there: vector and success are written in one transaction.
EmbedStored(w, j) ==
  /\ Holding(w, j) /\ ClaimHeld(w, j) /\ exists[j]
  /\ vec' = [vec EXCEPT ![j] = claims[w][j].text]
  /\ row' = [row EXCEPT ![j] = AfterSuccess(row[j])]
  /\ Release(w, j)
  /\ UNCHANGED <<stopped, crashes, exists, version>>

\* embedOne resolved, the claim is held but updateVector found no target row.
EmbedTargetMissing(w, j) ==
  /\ Holding(w, j) /\ ClaimHeld(w, j) /\ ~exists[j]
  /\ RecordFailure(w, j, 0)
  /\ Release(w, j)
  /\ UNCHANGED <<stopped, crashes, exists, version, vec>>

\* embedOne resolved after the claim was lost: nothing is written.
EmbedStale(w, j) ==
  /\ Holding(w, j) /\ ~ClaimHeld(w, j)
  /\ Release(w, j)
  /\ UNCHANGED <<row, stopped, crashes, exists, version, vec>>

\* embedOne rejected, with or without a provider retryAt.
EmbedRejected(w, j) ==
  /\ Holding(w, j)
  /\ \E retryAfter \in 0..RetryAfterMax : RecordFailure(w, j, retryAfter)
  /\ Release(w, j)
  /\ UNCHANGED <<stopped, crashes, exists, version, vec>>

\* stop(): no further run starts; the run in flight goes on.
Stop(w) ==
  /\ ~stopped[w]
  /\ stopped' = [stopped EXCEPT ![w] = TRUE]
  /\ UNCHANGED <<row, claims, crashes, exists, version, vec>>

\* The worker's process dies with its batch and is started again.
Crash(w) ==
  /\ crashes < MaxCrashes
  /\ crashes' = crashes + 1
  /\ claims' = [claims EXCEPT ![w] = NoClaims]
  /\ stopped' = [stopped EXCEPT ![w] = FALSE]
  /\ UNCHANGED <<row, exists, version, vec>>

Countdown(n) == IF n = 0 THEN 0 ELSE n - 1

\* Time passes.
Tick ==
  /\ \E j \in Jobs : row[j].due > 0 \/ row[j].lease > 0
  /\ row' = [j \in Jobs |-> [row[j] EXCEPT !.due = Countdown(@),
                                           !.lease = Countdown(@)]]
  /\ claims' = [w \in Workers |-> [j \in Jobs |->
                  [claims[w][j] EXCEPT !.lease = Countdown(@)]]]
  /\ UNCHANGED <<stopped, crashes, exists, version, vec>>

Finish(w, j) == \/ EmbedStored(w, j)
                \/ EmbedTargetMissing(w, j)
                \/ EmbedStale(w, j)
                \/ EmbedRejected(w, j)

Next ==
  \/ \E j \in Jobs : WriteAndEnqueue(j) \/ WriteWithVector(j) \/ DeleteTarget(j)
  \/ \E w \in Workers : ClaimDue(w) \/ Stop(w) \/ Crash(w)
  \/ \E w \in Workers, j \in Jobs : Finish(w, j)
  \/ Tick

Spec == Init /\ [][Next]_vars

\* The interval timer keeps firing, every embedOne settles, time passes.
Fairness ==
  /\ WF_vars(Tick)
  /\ \A w \in Workers : WF_vars(ClaimDue(w))
  /\ \A w \in Workers, j \in Jobs : WF_vars(Finish(w, j))

FairSpec == Spec /\ Fairness
-----------------------------------------------------------------------------
\* A row names a worker only while it is in progress, and a worker's copy of a
\* row it is still named on is the row as it stands: nobody re-queued the slot
\* with another text or counted an attempt behind its back.  (enqueue clears
\* the claim for this; retry-worker.ts trusts attempts and sourceText read
\* before the await.)
HeldClaimIsCurrent ==
  \A w \in Workers, j \in Jobs :
    row[j].claimedBy = w =>
      /\ row[j].status = "in_progress"
      /\ Holding(w, j) => /\ row[j].lease = claims[w][j].lease
                          /\ row[j].attempts = claims[w][j].attempts
                          /\ row[j].text = claims[w][j].text

\* attempts stays below max_attempts while a job can still be retried and
\* reaches it exactly when the job is failed.
AttemptsAccounted ==
  \A j \in Jobs : /\ Active(j) => row[j].attempts < MaxAttempts
                  /\ row[j].status = "failed" => row[j].attempts = MaxAttempts

\* While a lease runs no other worker gets the row; it can only be given back.
LeaseProtects ==
  [][\A j \in Jobs :
       row[j].claimedBy # NoWorker /\ row[j].lease > 0
         => row'[j].claimedBy \in {row[j].claimedBy, NoWorker}]_vars

\* The queue keeps VectorCompensation's promise: requests are answered once,
\* with the vector of the text asked for last, and each failure counts once.
ask == [j \in Jobs |-> IF Active(j) THEN row[j].text ELSE 0]
tries == [j \in Jobs |-> row[j].attempts]
Promise == INSTANCE VectorCompensation
KeepsPromise == Promise!Spec

\* A row left in progress with its claim wiped by a re-enqueue: claimDue skips
\* it, its worker's answer is stale, and enqueue does not make it pending.
Orphaned(j) == row[j].status = "in_progress" /\ row[j].claimedBy = NoWorker

NoWorkerLeft == \A w \in Workers : stopped[w]

\* An answer is awaited for a claim that is not held any more: its lease ran out
\* and another worker has the row, or it was queued again.
Superseded == \E w \in Workers, j \in Jobs : Holding(w, j) /\ ~ClaimHeld(w, j)

\* A queued slot ends in success or failure, whatever crashes and leases do,
\* unless every worker is stopped, a re-enqueue orphans the row, or the workers
\* take rows from each other for ever, each before the other's embed has settled.
SettlesUnlessOrphaned ==
  \/ []<>Superseded
  \/ \A j \in Jobs : Active(j) ~> (~Active(j) \/ NoWorkerLeft \/ Orphaned(j))
=============================================================================
