--------------------- MODULE EmbeddingRetryQueueProofs ---------------------
(***************************************************************************)
(* Proofs about EmbeddingRetryQueue, for every number of workers and slots *)
(* and every lease, backoff and batch size.                                *)
(***************************************************************************)
EXTENDS EmbeddingRetryQueue, TLAPS

\* What each operation makes of a row; the invariants below are preserved by
\* reading these facts off, without opening the records again.
LEMMA BackoffType ==
  ASSUME NEW n \in Nat
  PROVE  BackoffTicks(n) \in Nat
BY BoundsAssumption DEF BackoffTicks

LEMMA FailureType ==
  ASSUME NEW r \in Row, NEW n \in Nat, NEW d \in Nat
  PROVE  /\ AfterFailure(r, n, d) \in Row
         /\ AfterFailure(r, n, d).claimedBy = NoWorker
         /\ AfterFailure(r, n, d).attempts = n
         /\ AfterFailure(r, n, d).text = r.text
         /\ AfterFailure(r, n, d).status =
              IF n >= MaxAttempts THEN "failed" ELSE "pending"
BY DEF AfterFailure, Row, Status

LEMMA SuccessType ==
  ASSUME NEW r \in Row
  PROVE  /\ AfterSuccess(r) \in Row
         /\ AfterSuccess(r).claimedBy = NoWorker
         /\ AfterSuccess(r).status = "succeeded"
         /\ AfterSuccess(r).attempts = r.attempts
         /\ AfterSuccess(r).text = r.text
BY DEF AfterSuccess, Row, Status

LEMMA EnqueuedType ==
  ASSUME NEW r \in Row, NEW t \in Nat
  PROVE  /\ Enqueued(r, t) \in Row
         /\ Enqueued(r, t).claimedBy = NoWorker
         /\ Enqueued(r, t).text = t
         /\ Enqueued(r, t).status \in {"pending", "in_progress"}
         /\ Enqueued(r, t).attempts =
              IF r.status \in {"pending", "in_progress"} THEN r.attempts ELSE 0
BY DEF Enqueued, Row, Status

LEMMA LeasedType ==
  ASSUME NEW r \in Row, NEW w \in Workers
  PROVE  /\ LeasedTo(w, r) \in Row
         /\ LeasedTo(w, r).claimedBy = w
         /\ LeasedTo(w, r).status = "in_progress"
         /\ LeasedTo(w, r).lease = LeaseTicks
         /\ LeasedTo(w, r).attempts = r.attempts
         /\ LeasedTo(w, r).text = r.text
         /\ Copy(r) \in Claim
BY BoundsAssumption DEF LeasedTo, Copy, Row, Status, Claim

LEMMA CellTypes ==
  ASSUME Typed, NEW w \in Workers, NEW j \in Jobs
  PROVE  /\ row[j] \in Row
         /\ claims[w][j] \in Claim
         /\ claims[w][j].text \in Nat
         /\ claims[w][j].attempts \in Nat
         /\ version[j] + 1 \in Nat
BY DEF Typed, Claim

LEMMA CountdownType == \A n \in Nat : Countdown(n) \in Nat
BY DEF Countdown

LEMMA AnswerTypes ==
  ASSUME Typed, NEW w \in Workers, NEW j \in Jobs
  PROVE  \A d \in Nat :
           LET r == AfterFailure(row[j], claims[w][j].attempts + 1, d)
           IN  /\ r \in Row
               /\ r.claimedBy = NoWorker
               /\ r.attempts = claims[w][j].attempts + 1
               /\ r.text = row[j].text
               /\ r.status = IF claims[w][j].attempts + 1 >= MaxAttempts
                             THEN "failed" ELSE "pending"
<1>1. row[j] \in Row /\ claims[w][j].attempts + 1 \in Nat
  BY CellTypes
<1> QED BY <1>1, FailureType

\* RecordFailure replaces at most the slot's own row, by AfterFailure of it.
LEMMA RecordFailureEffect ==
  ASSUME Typed, NEW w \in Workers, NEW j \in Jobs, NEW ra \in Nat,
         RecordFailure(w, j, ra)
  PROVE  \/ ~ClaimHeld(w, j) /\ row' = row
         \/ /\ ClaimHeld(w, j)
            /\ \E d \in Nat : row' = [row EXCEPT ![j] =
                 AfterFailure(row[j], claims[w][j].attempts + 1, d)]
<1>1. claims[w][j].attempts + 1 \in Nat
  BY DEF Typed, Claim
<1>2. BackoffTicks(claims[w][j].attempts + 1) \in Nat
  BY <1>1, BackoffType
<1> QED BY <1>1, <1>2 DEF RecordFailure

\* Finishing a slot drops that one copy and touches no other.
LEMMA ReleaseEffect ==
  ASSUME Typed, NEW w \in Workers, NEW j \in Jobs, Release(w, j)
  PROVE  /\ claims' \in [Workers -> [Jobs -> Claim]]
         /\ claims'[w][j] = NoClaim
         /\ \A v \in Workers, k \in Jobs :
              v # w \/ k # j => claims'[v][k] = claims[v][k]
<1>1. NoClaim \in Claim
  BY DEF NoClaim, Claim
<1> QED BY <1>1 DEF Typed, Release

\* Every way of finishing a slot releases it, and answers at most its own row.
LEMMA FinishEffect ==
  ASSUME Typed, NEW w \in Workers, NEW j \in Jobs, Finish(w, j)
  PROVE  /\ Release(w, j)
         /\ UNCHANGED <<stopped, crashes, exists, version>>
         /\ \/ row' = row /\ vec' = vec
            \/ /\ ClaimHeld(w, j) /\ Holding(w, j) /\ exists[j]
               /\ vec' = [vec EXCEPT ![j] = claims[w][j].text]
               /\ row' = [row EXCEPT ![j] = AfterSuccess(row[j])]
            \/ /\ ClaimHeld(w, j) /\ Holding(w, j) /\ vec' = vec
               /\ \E d \in Nat : row' = [row EXCEPT ![j] =
                    AfterFailure(row[j], claims[w][j].attempts + 1, d)]
<1>1. CASE EmbedStored(w, j)
  BY <1>1 DEF EmbedStored
<1>2. CASE EmbedTargetMissing(w, j)
  BY <1>2, RecordFailureEffect DEF EmbedTargetMissing
<1>3. CASE EmbedStale(w, j)
  BY <1>3 DEF EmbedStale
<1>4. CASE EmbedRejected(w, j)
  <2>1. PICK ra \in 0..RetryAfterMax : RecordFailure(w, j, ra)
    BY <1>4 DEF EmbedRejected
  <2>2. ra \in Nat
    BY BoundsAssumption
  <2> QED BY <1>4, <2>1, <2>2, RecordFailureEffect DEF EmbedRejected
<1> QED BY <1>1, <1>2, <1>3, <1>4 DEF Finish

-----------------------------------------------------------------------------
\* Types are preserved.
LEMMA TypeInit == Init => Typed
BY DEF Init, Typed, NoRow, NoClaims, NoClaim, Row, Claim, Status

LEMMA TypeStep == Typed /\ [Next]_vars => Typed'
<1> SUFFICES ASSUME Typed, [Next]_vars PROVE Typed'
  OBVIOUS
<1>1. ASSUME NEW j \in Jobs, WriteAndEnqueue(j) PROVE Typed'
  <2>1. Enqueued(row[j], version[j] + 1) \in Row
    BY EnqueuedType DEF Typed
  <2> QED BY <1>1, <2>1 DEF Typed, WriteAndEnqueue
<1>2. ASSUME NEW j \in Jobs, WriteWithVector(j) PROVE Typed'
  BY <1>2 DEF Typed, WriteWithVector, qvars
<1>3. ASSUME NEW j \in Jobs, DeleteTarget(j) PROVE Typed'
  BY <1>3 DEF Typed, DeleteTarget
<1>4. ASSUME NEW w \in Workers, ClaimDue(w) PROVE Typed'
  <2>1. row' \in [Jobs -> Row]
    BY <1>4, LeasedType DEF Typed, ClaimDue
  <2>2. claims' \in [Workers -> [Jobs -> Claim]]
    <3>1. NoClaim \in Claim
      BY DEF NoClaim, Claim
    <3> QED BY <1>4, <3>1, LeasedType DEF Typed, ClaimDue
  <2> QED BY <1>4, <2>1, <2>2 DEF Typed, ClaimDue
<1>5. ASSUME NEW w \in Workers, Stop(w) PROVE Typed'
  BY <1>5 DEF Typed, Stop
<1>6. ASSUME NEW w \in Workers, Crash(w) PROVE Typed'
  BY <1>6 DEF Typed, Crash, NoClaims, NoClaim, Claim
<1>7. ASSUME NEW w \in Workers, NEW j \in Jobs, Finish(w, j) PROVE Typed'
  <2>1. claims' \in [Workers -> [Jobs -> Claim]]
    BY <1>7, FinishEffect, ReleaseEffect
  <2>2. \A d \in Nat :
          AfterFailure(row[j], claims[w][j].attempts + 1, d) \in Row
    BY AnswerTypes
  <2>3. AfterSuccess(row[j]) \in Row
    BY SuccessType DEF Typed
  <2>4. row' \in [Jobs -> Row]
    <3>1. \/ row' = row
          \/ row' = [row EXCEPT ![j] = AfterSuccess(row[j])]
          \/ \E d \in Nat : row' = [row EXCEPT ![j] =
                 AfterFailure(row[j], claims[w][j].attempts + 1, d)]
      BY <1>7, FinishEffect
    <3> QED BY <3>1, <2>2, <2>3 DEF Typed
  <2>5. vec' \in [Jobs -> Nat]
    <3>1. vec' = vec \/ vec' = [vec EXCEPT ![j] = claims[w][j].text]
      BY <1>7, FinishEffect
    <3> QED BY <3>1, CellTypes DEF Typed
  <2> QED BY <1>7, <2>1, <2>4, <2>5, FinishEffect DEF Typed
<1>8. ASSUME Tick PROVE Typed'
  <2>1. row' \in [Jobs -> Row]
    BY <1>8, CountdownType DEF Typed, Tick, Row
  <2>2. claims' \in [Workers -> [Jobs -> Claim]]
    <3>1. \A w \in Workers, j \in Jobs :
            [claims[w][j] EXCEPT !.lease = Countdown(@)] \in Claim
      BY CellTypes, CountdownType DEF Claim
    <3> QED BY <1>8, <3>1 DEF Tick
  <2> QED BY <1>8, <2>1, <2>2 DEF Typed, Tick
<1>9. ASSUME UNCHANGED vars PROVE Typed'
  BY <1>9 DEF Typed, vars
<1> QED BY <1>1, <1>2, <1>3, <1>4, <1>5, <1>6, <1>7, <1>8, <1>9 DEF Next

-----------------------------------------------------------------------------
\* The claim a worker is still named on is the row as it stands.
LEMMA HeldInit == Init => HeldClaimIsCurrent
BY NoWorkerAssumption DEF Init, HeldClaimIsCurrent, NoRow

LEMMA HeldStep ==
  Typed /\ HeldClaimIsCurrent /\ [Next]_vars => HeldClaimIsCurrent'
<1> SUFFICES ASSUME Typed, HeldClaimIsCurrent, [Next]_vars,
                    NEW v \in Workers, NEW k \in Jobs, row'[k].claimedBy = v
             PROVE  /\ row'[k].status = "in_progress"
                    /\ Holding(v, k)' =>
                         /\ row'[k].lease = claims'[v][k].lease
                         /\ row'[k].attempts = claims'[v][k].attempts
                         /\ row'[k].text = claims'[v][k].text
  BY DEF HeldClaimIsCurrent
<1> DEFINE Goal == /\ row'[k].status = "in_progress"
                   /\ Holding(v, k)' =>
                        /\ row'[k].lease = claims'[v][k].lease
                        /\ row'[k].attempts = claims'[v][k].attempts
                        /\ row'[k].text = claims'[v][k].text
<1>a. v # NoWorker
  BY NoWorkerAssumption
<1>b. ASSUME row'[k] = row[k], claims'[v][k] = claims[v][k] PROVE Goal
  BY <1>b DEF HeldClaimIsCurrent, Holding
<1>c. ASSUME row'[k] = row[k], claims'[v][k] = NoClaim PROVE Goal
  BY <1>c DEF HeldClaimIsCurrent, Holding, NoClaim
<1>1. ASSUME NEW j \in Jobs, WriteAndEnqueue(j) PROVE Goal
  <2>1. Enqueued(row[j], version[j] + 1).claimedBy = NoWorker
    <3>1. row[j] \in Row /\ version[j] + 1 \in Nat
      BY DEF Typed
    <3> QED BY <3>1, EnqueuedType
  <2>2. k # j
    BY <1>1, <2>1, <1>a DEF Typed, WriteAndEnqueue
  <2> QED BY <1>1, <2>2, <1>b DEF Typed, WriteAndEnqueue
<1>2. ASSUME NEW j \in Jobs, WriteWithVector(j) \/ DeleteTarget(j) PROVE Goal
  BY <1>2, <1>b DEF WriteWithVector, DeleteTarget, qvars
<1>3. ASSUME NEW w \in Workers, ClaimDue(w) PROVE Goal
  <2>1. PICK picked \in SUBSET Jobs :
          /\ row' = [j \in Jobs |-> IF j \in picked THEN LeasedTo(w, row[j])
                                                 ELSE row[j]]
          /\ claims' = [claims EXCEPT ![w] =
               [j \in Jobs |-> IF j \in picked THEN Copy(row[j]) ELSE NoClaim]]
    BY <1>3 DEF ClaimDue, Batches, Due
  <2>2. CASE k \in picked
    <3>1. row'[k] = LeasedTo(w, row[k])
      BY <2>1, <2>2
    <3>2. v = w
      BY <3>1, LeasedType DEF Typed
    <3>3. claims'[v][k] = Copy(row[k])
      BY <2>1, <2>2, <3>2 DEF Typed
    <3> QED BY <3>1, <3>2, <3>3, LeasedType DEF Typed, Copy
  <2>3. CASE k \notin picked /\ v = w
    <3>1. row'[k] = row[k] /\ claims'[v][k] = NoClaim
      BY <2>1, <2>3 DEF Typed
    <3> QED BY <3>1, <1>c
  <2>4. CASE k \notin picked /\ v # w
    <3>1. row'[k] = row[k] /\ claims'[v][k] = claims[v][k]
      BY <2>1, <2>4 DEF Typed
    <3> QED BY <3>1, <1>b
  <2> QED BY <2>2, <2>3, <2>4
<1>4. ASSUME NEW w \in Workers, Stop(w) PROVE Goal
  BY <1>4, <1>b DEF Stop
<1>5. ASSUME NEW w \in Workers, Crash(w) PROVE Goal
  <2>1. row' = row /\ claims'[v][k] \in {claims[v][k], NoClaim}
    BY <1>5 DEF Crash, NoClaims, Typed
  <2> QED BY <2>1, <1>b, <1>c
<1>6. ASSUME NEW w \in Workers, NEW j \in Jobs, Finish(w, j) PROVE Goal
  <2>1. claims'[v][k] \in {claims[v][k], NoClaim}
    BY <1>6, FinishEffect, ReleaseEffect
  <2>2. row'[k] = row[k] \/ row'[k].claimedBy = NoWorker
    <3>1. \A d \in Nat : AfterFailure(row[j], claims[w][j].attempts + 1, d)
                            .claimedBy = NoWorker
      BY AnswerTypes
    <3>2. AfterSuccess(row[j]).claimedBy = NoWorker
      BY SuccessType DEF Typed
    <3>3. \/ row' = row
          \/ row' = [row EXCEPT ![j] = AfterSuccess(row[j])]
          \/ \E d \in Nat : row' = [row EXCEPT ![j] =
                 AfterFailure(row[j], claims[w][j].attempts + 1, d)]
      BY <1>6, FinishEffect
    <3> QED BY <3>1, <3>2, <3>3 DEF Typed
  <2> QED BY <2>1, <2>2, <1>a, <1>b, <1>c
<1>7. ASSUME Tick PROVE Goal
  <2>1. /\ row'[k] = [row[k] EXCEPT !.due = Countdown(@), !.lease = Countdown(@)]
        /\ claims'[v][k] = [claims[v][k] EXCEPT !.lease = Countdown(@)]
    BY <1>7 DEF Tick
  <2>2. /\ row'[k].status = row[k].status
        /\ row'[k].attempts = row[k].attempts
        /\ row'[k].text = row[k].text
        /\ row'[k].claimedBy = row[k].claimedBy
        /\ row'[k].lease = Countdown(row[k].lease)
    BY <2>1 DEF Typed, Row
  <2>3. /\ claims'[v][k].text = claims[v][k].text
        /\ claims'[v][k].attempts = claims[v][k].attempts
        /\ claims'[v][k].lease = Countdown(claims[v][k].lease)
    BY <2>1 DEF Typed, Claim
  <2> QED BY <2>2, <2>3 DEF HeldClaimIsCurrent, Holding
<1>8. ASSUME UNCHANGED vars PROVE Goal
  BY <1>8, <1>b DEF vars
<1> QED BY <1>1, <1>2, <1>3, <1>4, <1>5, <1>6, <1>7, <1>8 DEF Next

\* A worker's answer to a claim it still holds is about the text queued last
\* and the attempts counted so far, however workers, crashes, expired leases
\* and re-enqueues interleave.
THEOREM HeldClaimCorrect == Spec => []HeldClaimIsCurrent
<1>1. Init => Typed /\ HeldClaimIsCurrent
  BY TypeInit, HeldInit
<1>2. Typed /\ HeldClaimIsCurrent /\ [Next]_vars
        => (Typed /\ HeldClaimIsCurrent)'
  BY TypeStep, HeldStep
<1> QED BY <1>1, <1>2, PTL DEF Spec
-----------------------------------------------------------------------------
\* Attempts are counted against the limit exactly.
LEMMA AttemptsInit == Init => AttemptsAccounted
BY DEF Init, AttemptsAccounted, Active, NoRow

LEMMA AttemptsStep ==
  Typed /\ HeldClaimIsCurrent /\ AttemptsAccounted /\ [Next]_vars
    => AttemptsAccounted'
<1> SUFFICES ASSUME Typed, HeldClaimIsCurrent, AttemptsAccounted, [Next]_vars,
                    NEW k \in Jobs
             PROVE  /\ row'[k].status \in {"pending", "in_progress"}
                         => row'[k].attempts < MaxAttempts
                    /\ row'[k].status = "failed" => row'[k].attempts = MaxAttempts
  BY DEF AttemptsAccounted, Active
<1> DEFINE Goal == /\ row'[k].status \in {"pending", "in_progress"}
                        => row'[k].attempts < MaxAttempts
                   /\ row'[k].status = "failed" => row'[k].attempts = MaxAttempts
<1>a. ASSUME row'[k].status = row[k].status, row'[k].attempts = row[k].attempts
      PROVE  Goal
  BY <1>a DEF AttemptsAccounted, Active
<1>1. ASSUME NEW j \in Jobs, WriteAndEnqueue(j) PROVE Goal
  <2>1. CASE k = j
    <3>1. row[k] \in Row /\ version[k] + 1 \in Nat
      BY DEF Typed
    <3>2. row'[k] = Enqueued(row[k], version[k] + 1)
      BY <1>1, <2>1 DEF Typed, WriteAndEnqueue
    <3>3. /\ row'[k].status \in {"pending", "in_progress"}
          /\ row'[k].attempts = IF Active(k) THEN row[k].attempts ELSE 0
      BY <3>1, <3>2, EnqueuedType DEF Active
    <3> QED BY <3>3, BoundsAssumption DEF AttemptsAccounted, Active
  <2>2. CASE k # j
    BY <1>1, <2>2, <1>a DEF Typed, WriteAndEnqueue
  <2> QED BY <2>1, <2>2
<1>2. ASSUME NEW j \in Jobs, WriteWithVector(j) \/ DeleteTarget(j) PROVE Goal
  BY <1>2, <1>a DEF WriteWithVector, DeleteTarget, qvars
<1>3. ASSUME NEW w \in Workers, ClaimDue(w) PROVE Goal
  <2>1. PICK picked \in SUBSET Due :
          row' = [j \in Jobs |-> IF j \in picked THEN LeasedTo(w, row[j])
                                                 ELSE row[j]]
    BY <1>3 DEF ClaimDue, Batches
  <2>2. CASE k \in picked
    <3>1. row'[k].status = "in_progress" /\ row'[k].attempts = row[k].attempts
      BY <2>1, <2>2, LeasedType DEF Typed
    <3> QED BY <2>2, <3>1 DEF AttemptsAccounted, Active, Due
  <2>3. CASE k \notin picked
    BY <2>1, <2>3, <1>a
  <2> QED BY <2>2, <2>3
<1>4. ASSUME NEW w \in Workers, Stop(w) \/ Crash(w) PROVE Goal
  BY <1>4, <1>a DEF Stop, Crash
<1>5. ASSUME NEW w \in Workers, NEW j \in Jobs, Finish(w, j) PROVE Goal
  <2>1. CASE row' = row \/ k # j
    <3>1. row'[k] = row[k]
      BY <1>5, <2>1, FinishEffect DEF Typed
    <3> QED BY <3>1, <1>a
  <2>2. CASE k = j /\ row' = [row EXCEPT ![j] = AfterSuccess(row[j])]
    BY <2>2, SuccessType DEF Typed
  <2>3. ASSUME k = j, ClaimHeld(w, j), Holding(w, j), NEW d \in Nat,
               row' = [row EXCEPT ![j] =
                 AfterFailure(row[j], claims[w][j].attempts + 1, d)]
        PROVE  Goal
    <3>1. row[j].attempts = claims[w][j].attempts /\ Active(j)
      BY <2>3 DEF HeldClaimIsCurrent, ClaimHeld, Active
    <3>2. row[j].attempts < MaxAttempts /\ row[j].attempts \in Nat
      BY <3>1 DEF AttemptsAccounted, Typed, Row
    <3>3. /\ row'[k].attempts = claims[w][j].attempts + 1
          /\ row'[k].status = IF claims[w][j].attempts + 1 >= MaxAttempts
                              THEN "failed" ELSE "pending"
      BY <2>3, AnswerTypes DEF Typed
    <3> QED BY <3>1, <3>2, <3>3, BoundsAssumption
  <2> QED BY <1>5, <2>1, <2>2, <2>3, FinishEffect
<1>6. ASSUME Tick PROVE Goal
  <2>1. row'[k] = [row[k] EXCEPT !.due = Countdown(@), !.lease = Countdown(@)]
    BY <1>6 DEF Tick
  <2> QED BY <2>1, <1>a DEF Typed, Row
<1>7. ASSUME UNCHANGED vars PROVE Goal
  BY <1>7, <1>a DEF vars
<1> QED BY <1>1, <1>2, <1>3, <1>4, <1>5, <1>6, <1>7 DEF Next

\* A job is failed after exactly MaxAttempts recorded failures and retried only
\* below that, although workers count from copies read before the await.
THEOREM AttemptsCorrect == Spec => []AttemptsAccounted
<1> DEFINE IInv == Typed /\ HeldClaimIsCurrent /\ AttemptsAccounted
<1>1. Init => IInv
  BY TypeInit, HeldInit, AttemptsInit
<1>2. IInv /\ [Next]_vars => IInv'
  BY TypeStep, HeldStep, AttemptsStep
<1>3. IInv => AttemptsAccounted
  OBVIOUS
<1> QED BY <1>1, <1>2, <1>3, PTL DEF Spec

\* A row that is neither live nor failed after a step kept its attempts.
LEMMA SettledKeepsAttempts ==
  ASSUME Typed, [Next]_vars, NEW k \in Jobs,
         row'[k].status \notin {"pending", "in_progress", "failed"}
  PROVE  row'[k].attempts = row[k].attempts
<1>1. ASSUME NEW j \in Jobs, WriteAndEnqueue(j) PROVE row'[k] = row[k]
  <2>1. row[j] \in Row /\ version[j] + 1 \in Nat
    BY DEF Typed
  <2>2. Enqueued(row[j], version[j] + 1).status \in {"pending", "in_progress"}
    BY <2>1, EnqueuedType
  <2> QED BY <1>1, <2>2 DEF Typed, WriteAndEnqueue
<1>2. ASSUME NEW j \in Jobs, WriteWithVector(j) \/ DeleteTarget(j)
      PROVE  row'[k] = row[k]
  BY <1>2 DEF WriteWithVector, DeleteTarget, qvars
<1>3. ASSUME NEW w \in Workers, ClaimDue(w) PROVE row'[k] = row[k]
  BY <1>3, LeasedType DEF Typed, ClaimDue
<1>4. ASSUME NEW w \in Workers, Stop(w) \/ Crash(w) PROVE row'[k] = row[k]
  BY <1>4 DEF Stop, Crash
<1>5. ASSUME NEW w \in Workers, NEW j \in Jobs, Finish(w, j)
      PROVE  row'[k].attempts = row[k].attempts
  <2>1. \A d \in Nat : AfterFailure(row[j], claims[w][j].attempts + 1, d).status
                         \in {"failed", "pending"}
    BY AnswerTypes
  <2>2. AfterSuccess(row[j]).attempts = row[j].attempts
    BY SuccessType DEF Typed
  <2>3. \/ row' = row
        \/ row' = [row EXCEPT ![j] = AfterSuccess(row[j])]
        \/ \E d \in Nat : row' = [row EXCEPT ![j] =
               AfterFailure(row[j], claims[w][j].attempts + 1, d)]
    BY <1>5, FinishEffect
  <2> QED BY <2>1, <2>2, <2>3 DEF Typed
<1>6. ASSUME Tick PROVE row'[k].attempts = row[k].attempts
  BY <1>6 DEF Tick, Typed, Row
<1>7. ASSUME UNCHANGED vars PROVE row'[k] = row[k]
  BY <1>7 DEF vars
<1> QED BY <1>1, <1>2, <1>3, <1>4, <1>5, <1>6, <1>7 DEF Next

\* The variables keep their types, and no row, live or settled, ever counts
\* more attempts than max_attempts: a settled one was below it when it settled,
\* and one that is revived starts again from none.
THEOREM TypeCorrect == Spec => []TypeOK
<1> DEFINE Below == \A k \in Jobs : row[k].attempts \in 0..MaxAttempts
           IInv == Typed /\ HeldClaimIsCurrent /\ AttemptsAccounted /\ Below
<1>1. Init => IInv
  BY TypeInit, HeldInit, AttemptsInit, BoundsAssumption DEF Init, NoRow
<1>2. IInv /\ [Next]_vars => IInv'
  <2> SUFFICES ASSUME IInv, [Next]_vars PROVE IInv'
    OBVIOUS
  <2>1. Typed' /\ HeldClaimIsCurrent' /\ AttemptsAccounted'
    BY TypeStep, HeldStep, AttemptsStep
  <2>2. ASSUME NEW k \in Jobs PROVE row'[k].attempts \in 0..MaxAttempts
    <3>1. row'[k].attempts \in Nat
      BY <2>1 DEF Typed, Row
    <3>2. CASE row'[k].status \in {"pending", "in_progress", "failed"}
      BY <2>1, <3>1, <3>2, BoundsAssumption DEF AttemptsAccounted, Active
    <3>3. CASE row'[k].status \notin {"pending", "in_progress", "failed"}
      BY <3>3, SettledKeepsAttempts
    <3> QED BY <3>2, <3>3
  <2> QED BY <2>1, <2>2
<1>3. IInv => TypeOK
  BY DEF TypeOK
<1> QED BY <1>1, <1>2, <1>3, PTL DEF Spec

-----------------------------------------------------------------------------
\* A running lease keeps other workers off the row.
LEMMA LeaseStep ==
  Typed /\ HeldClaimIsCurrent /\ [Next]_vars =>
    \A j \in Jobs : row[j].claimedBy # NoWorker /\ row[j].lease > 0
                     => row'[j].claimedBy \in {row[j].claimedBy, NoWorker}
<1> SUFFICES ASSUME Typed, HeldClaimIsCurrent, [Next]_vars, NEW k \in Jobs,
                    row[k].claimedBy # NoWorker, row[k].lease > 0
             PROVE  row'[k].claimedBy \in {row[k].claimedBy, NoWorker}
  OBVIOUS
<1> DEFINE Goal == row'[k].claimedBy \in {row[k].claimedBy, NoWorker}
<1>1. ASSUME NEW j \in Jobs, WriteAndEnqueue(j) PROVE Goal
  <2>1. row[j] \in Row /\ version[j] + 1 \in Nat
    BY DEF Typed
  <2>2. Enqueued(row[j], version[j] + 1).claimedBy = NoWorker
    BY <2>1, EnqueuedType
  <2> QED BY <1>1, <2>2 DEF Typed, WriteAndEnqueue
<1>2. ASSUME NEW j \in Jobs, WriteWithVector(j) \/ DeleteTarget(j) PROVE Goal
  BY <1>2 DEF WriteWithVector, DeleteTarget, qvars
<1>3. ASSUME NEW w \in Workers, ClaimDue(w) PROVE Goal
  <2>1. PICK picked \in SUBSET Due :
          row' = [j \in Jobs |-> IF j \in picked THEN LeasedTo(w, row[j])
                                                 ELSE row[j]]
    BY <1>3 DEF ClaimDue, Batches
  <2>2. row[k].status = "in_progress"
    BY DEF HeldClaimIsCurrent, Typed, Row
  <2>3. k \notin picked
    BY <2>2 DEF Due, Typed, Row
  <2> QED BY <2>1, <2>3
<1>4. ASSUME NEW w \in Workers, Stop(w) \/ Crash(w) PROVE Goal
  BY <1>4 DEF Stop, Crash
<1>5. ASSUME NEW w \in Workers, NEW j \in Jobs, Finish(w, j) PROVE Goal
  <2>1. \A d \in Nat : AfterFailure(row[j], claims[w][j].attempts + 1, d)
                          .claimedBy = NoWorker
    BY AnswerTypes
  <2>2. AfterSuccess(row[j]).claimedBy = NoWorker
    BY SuccessType DEF Typed
  <2>3. \/ row' = row
        \/ row' = [row EXCEPT ![j] = AfterSuccess(row[j])]
        \/ \E d \in Nat : row' = [row EXCEPT ![j] =
               AfterFailure(row[j], claims[w][j].attempts + 1, d)]
    BY <1>5, FinishEffect
  <2> QED BY <2>1, <2>2, <2>3 DEF Typed
<1>6. ASSUME Tick PROVE Goal
  <2>1. row'[k] = [row[k] EXCEPT !.due = Countdown(@), !.lease = Countdown(@)]
    BY <1>6 DEF Tick
  <2> QED BY <2>1 DEF Typed, Row
<1>7. ASSUME UNCHANGED vars PROVE Goal
  BY <1>7 DEF vars
<1> QED BY <1>1, <1>2, <1>3, <1>4, <1>5, <1>6, <1>7 DEF Next

\* No worker is given a row whose lease is running in another's name.
THEOREM LeaseCorrect == Spec => LeaseProtects
<1>1. Init => Typed /\ HeldClaimIsCurrent
  BY TypeInit, HeldInit
<1>2. Typed /\ HeldClaimIsCurrent /\ [Next]_vars
        => (Typed /\ HeldClaimIsCurrent)'
  BY TypeStep, HeldStep
<1> QED BY <1>1, <1>2, LeaseStep, PTL DEF Spec, LeaseProtects
-----------------------------------------------------------------------------
\* Each step of the queue is a step of VectorCompensation or leaves it alone.
\* First, what a change of rows means for the abstract request and its count.
LEMMA OneRowChanges ==
  ASSUME NEW j \in Jobs, \A k \in Jobs \ {j} : row'[k] = row[k]
  PROVE  /\ ask' = [ask EXCEPT ![j] =
                      IF row'[j].status \in {"pending", "in_progress"}
                      THEN row'[j].text ELSE 0]
         /\ tries' = [tries EXCEPT ![j] = row'[j].attempts]
<1>1. ASSUME NEW k \in Jobs, k # j
      PROVE  /\ (IF Active(k) THEN row[k].text ELSE 0)'
                  = (IF Active(k) THEN row[k].text ELSE 0)
             /\ row'[k].attempts = row[k].attempts
  BY <1>1 DEF Active
<1> QED BY <1>1 DEF ask, tries, Active

LEMMA NoRequestChanges ==
  ASSUME \A k \in Jobs : /\ row'[k].text = row[k].text
                          /\ row'[k].attempts = row[k].attempts
                          /\ Active(k)' = Active(k)
  PROVE  ask' = ask /\ tries' = tries
BY DEF ask, tries

LEMMA PromiseInit == Init => Promise!Init
BY DEF Init, Promise!Init, ask, tries, NoRow, Active

\* A queued row asks for a text that was written: 0 is never a request.
QueuedHasText == \A j \in Jobs : Active(j) => row[j].text # 0

LEMMA TextStep == Typed /\ QueuedHasText /\ [Next]_vars => QueuedHasText'
<1> SUFFICES ASSUME Typed, QueuedHasText, [Next]_vars, NEW k \in Jobs,
                    row'[k].status \in {"pending", "in_progress"}
             PROVE  row'[k].text # 0
  BY DEF QueuedHasText, Active
<1>a. ASSUME row'[k].text = row[k].text, Active(k) PROVE row'[k].text # 0
  BY <1>a DEF QueuedHasText
<1>1. ASSUME NEW j \in Jobs, WriteAndEnqueue(j) PROVE row'[k].text # 0
  <2>1. row[j] \in Row /\ version[j] + 1 \in Nat /\ version[j] + 1 # 0
    BY DEF Typed
  <2>2. CASE k = j
    <3>1. row'[k] = Enqueued(row[j], version[j] + 1)
      BY <1>1, <2>2 DEF Typed, WriteAndEnqueue
    <3>2. Enqueued(row[j], version[j] + 1).text = version[j] + 1
      BY <2>1, EnqueuedType
    <3> QED BY <2>1, <3>1, <3>2
  <2>3. CASE k # j
    BY <1>1, <2>3, <1>a DEF Typed, WriteAndEnqueue, Active
  <2> QED BY <2>2, <2>3
<1>2. ASSUME NEW j \in Jobs, WriteWithVector(j) \/ DeleteTarget(j)
      PROVE  row'[k].text # 0
  BY <1>2, <1>a DEF WriteWithVector, DeleteTarget, qvars, Active
<1>3. ASSUME NEW w \in Workers, ClaimDue(w) PROVE row'[k].text # 0
  <2>1. PICK picked \in SUBSET Due :
          row' = [j \in Jobs |-> IF j \in picked THEN LeasedTo(w, row[j])
                                                 ELSE row[j]]
    BY <1>3 DEF ClaimDue, Batches
  <2>2. CASE k \in picked
    <3>1. row'[k].text = row[k].text
      BY <2>1, <2>2, LeasedType DEF Typed
    <3> QED BY <2>2, <3>1, <1>a DEF Due, Active
  <2>3. CASE k \notin picked
    BY <2>1, <2>3, <1>a DEF Active
  <2> QED BY <2>2, <2>3
<1>4. ASSUME NEW w \in Workers, Stop(w) \/ Crash(w) PROVE row'[k].text # 0
  BY <1>4, <1>a DEF Stop, Crash, Active
<1>5. ASSUME NEW w \in Workers, NEW j \in Jobs, Finish(w, j)
      PROVE  row'[k].text # 0
  <2>1. CASE row' = row \/ k # j
    <3>1. row'[k] = row[k]
      BY <1>5, <2>1, FinishEffect DEF Typed
    <3> QED BY <3>1, <1>a DEF Active
  <2>2. CASE k = j /\ row' = [row EXCEPT ![j] = AfterSuccess(row[j])]
    BY <2>2, SuccessType DEF Typed
  <2>3. ASSUME k = j, ClaimHeld(w, j), NEW d \in Nat,
               row' = [row EXCEPT ![j] =
                 AfterFailure(row[j], claims[w][j].attempts + 1, d)]
        PROVE  row'[k].text # 0
    <3>1. row'[k].text = row[k].text
      BY <2>3, AnswerTypes DEF Typed
    <3> QED BY <3>1, <2>3, <1>a DEF ClaimHeld, Active
  <2> QED BY <1>5, <2>1, <2>2, <2>3, FinishEffect
<1>6. ASSUME Tick PROVE row'[k].text # 0
  <2>1. row'[k] = [row[k] EXCEPT !.due = Countdown(@), !.lease = Countdown(@)]
    BY <1>6 DEF Tick
  <2> QED BY <2>1, <1>a DEF Typed, Row, Active
<1>7. ASSUME UNCHANGED vars PROVE row'[k].text # 0
  BY <1>7, <1>a DEF vars, Active
<1> QED BY <1>1, <1>2, <1>3, <1>4, <1>5, <1>6, <1>7 DEF Next

LEMMA PromiseStep ==
  Typed /\ HeldClaimIsCurrent /\ QueuedHasText /\ [Next]_vars
    => Promise!Next \/ UNCHANGED Promise!vars
<1> SUFFICES ASSUME Typed, HeldClaimIsCurrent, QueuedHasText, [Next]_vars
             PROVE  Promise!Next \/ UNCHANGED Promise!vars
  OBVIOUS
<1>a. \A k \in Jobs : /\ ask[k] = (IF Active(k) THEN row[k].text ELSE 0)
                      /\ tries[k] = row[k].attempts
  BY DEF ask, tries, Active
<1>1. ASSUME NEW j \in Jobs, WriteAndEnqueue(j) PROVE Promise!Request(j)
  <2>1. row[j] \in Row /\ version[j] + 1 \in Nat
    BY DEF Typed
  <2>2. row'[j] = Enqueued(row[j], version[j] + 1)
    BY <1>1 DEF Typed, WriteAndEnqueue
  <2>3. \A k \in Jobs \ {j} : row'[k] = row[k]
    BY <1>1 DEF Typed, WriteAndEnqueue
  <2>4. /\ row'[j].status \in {"pending", "in_progress"}
        /\ row'[j].text = version[j] + 1
        /\ row'[j].attempts = IF Active(j) THEN row[j].attempts ELSE 0
    BY <2>1, <2>2, EnqueuedType DEF Active
  <2>5. ask' = [ask EXCEPT ![j] = version[j] + 1]
    BY <2>3, <2>4, OneRowChanges
  <2>6. row'[j].attempts = IF ask[j] = 0 THEN 0 ELSE tries[j]
    BY <2>4, <1>a DEF QueuedHasText
  <2>7. tries' = [tries EXCEPT ![j] = IF ask[j] = 0 THEN 0 ELSE @]
    BY <2>3, <2>6, OneRowChanges
  <2> QED BY <1>1, <2>5, <2>7 DEF WriteAndEnqueue, Promise!Request
<1>2. ASSUME NEW j \in Jobs, WriteWithVector(j) PROVE Promise!WriteThrough(j)
  BY <1>2, NoRequestChanges DEF WriteWithVector, qvars, Promise!WriteThrough, Active
<1>3. ASSUME NEW j \in Jobs, DeleteTarget(j) PROVE Promise!Delete(j)
  BY <1>3, NoRequestChanges DEF DeleteTarget, Promise!Delete, Active
<1>4. ASSUME NEW w \in Workers, ClaimDue(w) PROVE UNCHANGED Promise!vars
  <2>1. PICK picked \in SUBSET Due :
          row' = [j \in Jobs |-> IF j \in picked THEN LeasedTo(w, row[j])
                                                 ELSE row[j]]
    BY <1>4 DEF ClaimDue, Batches
  <2>2. ASSUME NEW k \in Jobs
        PROVE  /\ row'[k].text = row[k].text /\ row'[k].attempts = row[k].attempts
               /\ Active(k)' = Active(k)
    <3>1. CASE k \in picked
      <4>1. row'[k] = LeasedTo(w, row[k]) /\ Active(k)
        BY <2>1, <3>1 DEF Due, Active
      <4>2. row[k] \in Row
        BY DEF Typed
      <4>3. /\ row'[k].text = row[k].text /\ row'[k].attempts = row[k].attempts
            /\ row'[k].status = "in_progress"
        BY <4>1, <4>2, LeasedType
      <4> QED BY <4>1, <4>3 DEF Active
    <3>2. CASE k \notin picked
      BY <2>1, <3>2 DEF Active
    <3> QED BY <3>1, <3>2
  <2>3. ask' = ask /\ tries' = tries
    BY <2>2, NoRequestChanges
  <2> QED BY <1>4, <2>3 DEF ClaimDue, Promise!vars
<1>5. ASSUME NEW w \in Workers, Stop(w) \/ Crash(w) PROVE UNCHANGED Promise!vars
  BY <1>5, NoRequestChanges DEF Stop, Crash, Promise!vars, Active
<1>6. ASSUME NEW w \in Workers, NEW j \in Jobs, Finish(w, j)
      PROVE  Promise!Fulfil(j) \/ Promise!RecordFailure(j) \/ UNCHANGED Promise!vars
  <2>0. UNCHANGED <<stopped, crashes, exists, version>>
    BY <1>6, FinishEffect
  <2>1. CASE row' = row /\ vec' = vec
    BY <2>0, <2>1, NoRequestChanges DEF Promise!vars, Active
  <2>2. CASE /\ ClaimHeld(w, j) /\ Holding(w, j) /\ exists[j]
             /\ vec' = [vec EXCEPT ![j] = claims[w][j].text]
             /\ row' = [row EXCEPT ![j] = AfterSuccess(row[j])]
    <3>1. Active(j) /\ row[j].text = claims[w][j].text
      BY <2>2 DEF ClaimHeld, Active, HeldClaimIsCurrent
    <3>2. ask[j] = claims[w][j].text /\ ask[j] # 0
      BY <2>2, <3>1, <1>a DEF Holding
    <3>3. \A k \in Jobs \ {j} : row'[k] = row[k]
      BY <2>2 DEF Typed
    <3>4. row'[j].status = "succeeded" /\ row'[j].attempts = tries[j]
      <4>1. row[j] \in Row /\ row'[j] = AfterSuccess(row[j])
        BY <2>2 DEF Typed
      <4> QED BY <4>1, SuccessType, <1>a
    <3>5. ask' = [ask EXCEPT ![j] = 0]
      BY <3>3, <3>4, OneRowChanges
    <3>6. tries' = [tries EXCEPT ![j] = tries[j]]
      BY <3>3, <3>4, OneRowChanges
    <3>7. tries' = tries
      BY <3>6 DEF tries
    <3> QED BY <2>0, <2>2, <3>2, <3>5, <3>7 DEF Promise!Fulfil
  <2>3. ASSUME ClaimHeld(w, j), Holding(w, j), vec' = vec, NEW d \in Nat,
               row' = [row EXCEPT ![j] =
                 AfterFailure(row[j], claims[w][j].attempts + 1, d)]
        PROVE  Promise!RecordFailure(j)
    <3>1. /\ Active(j) /\ row[j].text = claims[w][j].text
          /\ row[j].attempts = claims[w][j].attempts
      BY <2>3 DEF ClaimHeld, Active, HeldClaimIsCurrent
    <3>2. /\ ask[j] = claims[w][j].text /\ ask[j] # 0
          /\ tries[j] = claims[w][j].attempts
      BY <2>3, <3>1, <1>a DEF Holding
    <3>3. \A k \in Jobs \ {j} : row'[k] = row[k]
      BY <2>3 DEF Typed
    <3>4. /\ row'[j].attempts = claims[w][j].attempts + 1
          /\ row'[j].text = row[j].text
          /\ row'[j].status = IF claims[w][j].attempts + 1 >= MaxAttempts
                              THEN "failed" ELSE "pending"
      BY <2>3, AnswerTypes DEF Typed
    <3>5. ask' = [ask EXCEPT ![j] = IF tries[j] + 1 >= MaxAttempts THEN 0 ELSE @]
      BY <3>1, <3>2, <3>3, <3>4, OneRowChanges
    <3>6. tries' = [tries EXCEPT ![j] = @ + 1]
      BY <3>2, <3>3, <3>4, OneRowChanges
    <3> QED BY <2>0, <2>3, <3>2, <3>5, <3>6 DEF Promise!RecordFailure
  <2> QED BY <1>6, <2>1, <2>2, <2>3, FinishEffect
<1>7. ASSUME Tick PROVE UNCHANGED Promise!vars
  <2>1. ASSUME NEW k \in Jobs
        PROVE  /\ row'[k].text = row[k].text /\ row'[k].attempts = row[k].attempts
               /\ Active(k)' = Active(k)
    <3>1. row'[k] = [row[k] EXCEPT !.due = Countdown(@), !.lease = Countdown(@)]
      BY <1>7 DEF Tick
    <3> QED BY <3>1 DEF Typed, Row, Active
  <2>2. ask' = ask /\ tries' = tries
    BY <2>1, NoRequestChanges
  <2> QED BY <1>7, <2>2 DEF Tick, Promise!vars
<1>8. ASSUME UNCHANGED vars PROVE UNCHANGED Promise!vars
  BY <1>8, NoRequestChanges DEF vars, Promise!vars, Active
<1> QED BY <1>1, <1>2, <1>3, <1>4, <1>5, <1>6, <1>7, <1>8 DEF Next, Promise!Next

\* Workers, leases, crashes and re-enqueues implement the promise of
\* VectorCompensation: each request is answered at most once and with the
\* vector of the text asked for last, and each failure is counted once.
THEOREM QueueKeepsPromise == Spec => KeepsPromise
<1> DEFINE IInv == Typed /\ HeldClaimIsCurrent /\ QueuedHasText
<1>1. Init => IInv
  <2>1. Init => QueuedHasText
    BY DEF Init, QueuedHasText, Active, NoRow
  <2> QED BY <2>1, TypeInit, HeldInit
<1>2. IInv /\ [Next]_vars => IInv'
  BY TypeStep, HeldStep, TextStep
<1>3. IInv /\ [Next]_vars => [Promise!Next]_(Promise!vars)
  BY PromiseStep
<1> QED BY <1>1, <1>2, <1>3, PromiseInit, PTL DEF Spec, KeepsPromise, Promise!Spec
=============================================================================
