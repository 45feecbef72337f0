----------------------- MODULE DecisionFeedbackProofs -----------------------
(***************************************************************************)
(* Proofs about DecisionFeedback, for all tools, feedbacks and policies,   *)
(* every cooldown, window and threshold: the types hold, no repair job is  *)
(* stranded, repairs of a tool keep their distance and start from streaks  *)
(* of failures, evidence adds up and guidance stands.                      *)
(***************************************************************************)
EXTENDS DecisionFeedback, SequenceTheorems, FiniteSetTheorems, TLAPS

Frame == [stage : Stage, context : SUBSET Contexts, started : Nat, ids : SUBSET Policies]

\* What the queue's job has seen while it awaits its draft still holds: the rows
\* of its tool are a cooldown older than itself.
DraftIsDue ==
  run["queue"].stage = "drafting" =>
    \A t \in run["queue"].context : \A i \in DOMAIN repairs[t] :
      run["queue"].started - repairs[t][i] >= Cooldown

\* Only the queue repairs tools.
ContextsApart ==
  /\ run["queue"].context \subseteq Tools
  /\ \A f \in Feedbacks : run[f].context \subseteq Texts

QueueTypes ==
  /\ now \in Nat /\ queue \in Seq(Tools)
  /\ run \in [Runner -> Frame]
  /\ repairs \in [Contexts -> Seq(Nat)]

QueueInv ==
  QueueTypes /\ ContextsApart /\ NoJobStranded /\ DraftIsDue /\ RepairsKeepTheirDistance

PolicyTypes == policy \in [Policies -> Row \cup {NoRow, Gone}]
PolicyInv   == PolicyTypes /\ EvidenceAddsUp

IInv == QueueInv /\ PolicyInv

-----------------------------------------------------------------------------
(* The queue.                                                              *)

LEMMA QueueFrame == QueueInv /\ UNCHANGED <<now, queue, run, repairs>> => QueueInv'
BY DEF QueueInv, QueueTypes, ContextsApart, NoJobStranded, DraftIsDue, RepairsKeepTheirDistance

\* A repair that begins is not idle, and awaits a draft only off its cooldown.
LEMMA BegunFrames ==
  ASSUME QueueTypes, NEW r \in Runner, NEW c \in Contexts, NEW frame \in Begun(r, c)
  PROVE  /\ frame \in Frame /\ frame.stage # "idle" /\ frame.context = {c}
         /\ frame.stage = "drafting" =>
              /\ frame.started = now
              /\ \A i \in DOMAIN repairs[c] : now - repairs[c][i] >= Cooldown
<1>1. /\ now \in Nat /\ Cooldown \in Nat
      /\ repairs[c] \in Seq(Nat)
  BY FeedbackAssumption DEF QueueTypes
<1>2. CASE \E ok \in BOOLEAN :
             frame = [stage |-> After(r, ok), context |-> {c}, started |-> now, ids |-> {}]
  <2>1. PICK ok \in BOOLEAN :
          frame = [stage |-> After(r, ok), context |-> {c}, started |-> now, ids |-> {}]
    BY <1>2
  <2>2. After(r, ok) \in {"learning", "clearing", "next"}
    BY DEF After
  <2>3. frame.stage \notin {"idle", "drafting"} /\ frame.context = {c}
    BY <2>1, <2>2
  <2>4. frame \in Frame
    BY <1>1, <2>1, <2>2 DEF Frame, Stage
  <2> QED BY <2>3, <2>4
<1>3. CASE /\ ~OnCooldown(c)
           /\ \E ids \in SUBSET {p \in Policies : policy[p].status = "active"} :
                frame = [stage |-> "drafting", context |-> {c}, started |-> now, ids |-> ids]
  <2>1. frame \in Frame /\ frame.stage = "drafting" /\ frame.context = {c} /\ frame.started = now
    BY <1>1, <1>3 DEF Frame, Stage
  <2>2. \A i \in DOMAIN repairs[c] : repairs[c][i] \in Nat /\ ~(now - repairs[c][i] < Cooldown)
    BY <1>1, <1>3, ElementOfSeq, LenProperties DEF OnCooldown
  <2> QED BY <1>1, <2>1, <2>2
<1> QED BY <1>2, <1>3 DEF Begun

LEMMA PumpKeeps ==
  ASSUME QueueInv, NEW jobs \in Seq(Tools), jobs # <<>>, Pump(jobs), UNCHANGED <<now, repairs>>
  PROVE  QueueInv'
<1>1. Head(jobs) \in Tools /\ Tail(jobs) \in Seq(Tools)
  BY HeadTailProperties
<1>2. Head(jobs) \in Contexts /\ "queue" \in Runner /\ "queue" \notin Feedbacks
  BY <1>1, FeedbackAssumption DEF Contexts, Runner
<1>3. PICK frame \in Begun("queue", Head(jobs)) : run' = [run EXCEPT !["queue"] = frame]
  BY DEF Pump
<1>4. /\ frame \in Frame /\ frame.stage # "idle" /\ frame.context = {Head(jobs)}
      /\ frame.stage = "drafting" =>
           /\ frame.started = now
           /\ \A i \in DOMAIN repairs[Head(jobs)] : now - repairs[Head(jobs)][i] >= Cooldown
  BY <1>2, <1>3, BegunFrames DEF QueueInv
<1>5. run'["queue"] = frame /\ \A f \in Feedbacks : run'[f] = run[f]
  BY <1>2, <1>3 DEF QueueInv, QueueTypes, Runner
<1>6. QueueTypes'
  BY <1>1, <1>2, <1>3, <1>4 DEF QueueInv, QueueTypes, Pump
<1>7. ContextsApart' /\ NoJobStranded'
  BY <1>1, <1>4, <1>5 DEF QueueInv, ContextsApart, NoJobStranded
<1>8. DraftIsDue'
  BY <1>4, <1>5 DEF DraftIsDue
<1> QED BY <1>6, <1>7, <1>8 DEF QueueInv, RepairsKeepTheirDistance

\* The frame of the queue changes, and it does not begin a draft.
LEMMA QueueGoesOn ==
  ASSUME QueueInv, NEW frame \in Frame, run' = [run EXCEPT !["queue"] = frame],
         frame.context \subseteq Tools, frame.stage # "drafting",
         frame.stage = "idle" => queue = <<>>, UNCHANGED <<now, queue, repairs>>
  PROVE  QueueInv'
<1>1. "queue" \in Runner /\ "queue" \notin Feedbacks
  BY FeedbackAssumption DEF Runner
<1>2. run'["queue"] = frame /\ \A f \in Feedbacks : run'[f] = run[f]
  BY <1>1 DEF QueueInv, QueueTypes, Runner
<1>3. QueueTypes'
  BY <1>1 DEF QueueInv, QueueTypes
<1> QED
  BY <1>2, <1>3 DEF QueueInv, ContextsApart, NoJobStranded, DraftIsDue, RepairsKeepTheirDistance

\* The frame of a feedback changes, and its context is a text.
LEMMA FeedbackGoesOn ==
  ASSUME QueueInv, NEW f \in Feedbacks, NEW frame \in Frame, run' = [run EXCEPT ![f] = frame],
         frame.context \subseteq Texts, UNCHANGED <<now, queue, repairs>>
  PROVE  QueueInv'
<1>1. "queue" # f /\ "queue" \in Runner /\ f \in Runner
  BY FeedbackAssumption DEF Runner
<1>2. run'["queue"] = run["queue"]
  BY <1>1 DEF QueueInv, QueueTypes
<1>3. \A g \in Feedbacks : run'[g] = IF g = f THEN frame ELSE run[g]
  BY <1>1 DEF QueueInv, QueueTypes, Runner
<1>4. QueueTypes'
  BY <1>1 DEF QueueInv, QueueTypes
<1> QED
  BY <1>2, <1>3, <1>4
     DEF QueueInv, ContextsApart, NoJobStranded, DraftIsDue, RepairsKeepTheirDistance

\* A burst is enqueued, or begun if nothing is in flight.
LEMMA EnqueueKeeps ==
  ASSUME QueueInv, NEW t \in Tools, Enqueue(t), UNCHANGED <<now, repairs>>
  PROVE  QueueInv'
<1>1. Append(queue, t) \in Seq(Tools) /\ Append(queue, t) # <<>>
  BY AppendProperties DEF QueueInv, QueueTypes
<1>2. CASE run["queue"].stage = "idle"
  BY <1>1, <1>2, PumpKeeps DEF Enqueue
<1>3. CASE run["queue"].stage # "idle"
  <2>1. queue' = Append(queue, t) /\ UNCHANGED <<now, run, repairs>>
    BY <1>3 DEF Enqueue
  <2> QED
    BY <1>1, <1>3, <2>1
       DEF QueueInv, QueueTypes, ContextsApart, NoJobStranded, DraftIsDue, RepairsKeepTheirDistance
<1> QED BY <1>2, <1>3

\* A draft has been answered and no row is written.
LEMMA UnansweredKeeps ==
  ASSUME QueueInv, NEW r \in Runner, run[r].stage = "drafting", NEW ok \in BOOLEAN,
         run' = [run EXCEPT ![r].stage = After(r, ok), ![r].ids = {}],
         UNCHANGED <<now, queue, repairs>>
  PROVE  QueueInv'
<1> DEFINE frame == [run[r] EXCEPT !.stage = After(r, ok), !.ids = {}]
<1>1. run[r] \in Frame
  BY DEF QueueInv, QueueTypes
<1>2. run' = [run EXCEPT ![r] = frame]
  OBVIOUS
<1>3. After(r, ok) \in {"learning", "clearing", "next"}
  BY DEF After
<1>4. frame \in Frame /\ frame.context = run[r].context /\ frame.stage \notin {"idle", "drafting"}
  BY <1>1, <1>3 DEF Frame, Stage
<1>5. CASE r = "queue"
  BY <1>2, <1>4, <1>5, QueueGoesOn DEF QueueInv, ContextsApart
<1>6. CASE r \in Feedbacks
  BY <1>2, <1>4, <1>6, FeedbackGoesOn DEF QueueInv, ContextsApart
<1> QED BY <1>5, <1>6 DEF Runner

\* A row is written, at the time its repair began: for a tool, only by the queue.
LEMMA RowWritten ==
  ASSUME QueueInv, NEW r \in Runner, run[r].stage = "drafting", NEW c \in run[r].context,
         NEW ok \in BOOLEAN, run' = [run EXCEPT ![r].stage = After(r, ok), ![r].ids = {}],
         repairs' = [repairs EXCEPT ![c] = Append(@, run[r].started)], UNCHANGED <<now, queue>>
  PROVE  QueueInv'
<1> DEFINE frame == [run[r] EXCEPT !.stage = After(r, ok), !.ids = {}]
<1>1. /\ run[r] \in Frame /\ run[r].started \in Nat /\ c \in Contexts
      /\ repairs[c] \in Seq(Nat) /\ Cooldown \in Nat
      /\ "queue" \in Runner /\ "queue" \notin Feedbacks
  BY FeedbackAssumption DEF QueueInv, QueueTypes, Frame, Runner
<1>2. After(r, ok) \in {"learning", "clearing", "next"}
  BY DEF After
<1>3. run' = [run EXCEPT ![r] = frame]
  OBVIOUS
<1>4. frame \in Frame /\ frame.context = run[r].context /\ frame.stage \notin {"idle", "drafting"}
  BY <1>1, <1>2 DEF Frame, Stage
<1>5. repairs' \in [Contexts -> Seq(Nat)]
  <2>1. Append(repairs[c], run[r].started) \in Seq(Nat)
    BY <1>1, AppendProperties
  <2> QED BY <2>1 DEF QueueInv, QueueTypes
<1>6. QueueTypes'
  BY <1>1, <1>3, <1>4, <1>5 DEF QueueInv, QueueTypes
<1>7. \A q \in Runner : run'[q] = IF q = r THEN frame ELSE run[q]
  BY <1>1, <1>3 DEF QueueInv, QueueTypes
<1>8. ContextsApart'
  BY <1>1, <1>4, <1>7 DEF QueueInv, ContextsApart, Runner
<1>9. CASE r = "queue"
  <2>1. NoJobStranded' /\ DraftIsDue'
    BY <1>1, <1>4, <1>7, <1>9 DEF NoJobStranded, DraftIsDue
  <2>2. \A i \in DOMAIN repairs[c] : run[r].started - repairs[c][i] >= Cooldown
    BY <1>9 DEF QueueInv, DraftIsDue
  <2>3. RepairsKeepTheirDistance'
    <3> SUFFICES ASSUME NEW t \in Tools, NEW i \in DOMAIN repairs'[t], NEW j \in DOMAIN repairs'[t],
                        i < j
                 PROVE  repairs'[t][j] - repairs'[t][i] >= Cooldown
      BY DEF RepairsKeepTheirDistance
    <3>1. CASE t # c
      <4>1. repairs'[t] = repairs[t]
        BY <3>1 DEF QueueInv, QueueTypes, Contexts
      <4> QED BY <4>1 DEF QueueInv, RepairsKeepTheirDistance
    <3>2. CASE t = c
      <4>1. repairs'[t] = Append(repairs[c], run[r].started)
        BY <1>1, <3>2 DEF QueueInv, QueueTypes
      <4>2. /\ i \in 1 .. Len(repairs[c]) + 1 /\ j \in 1 .. Len(repairs[c]) + 1
            /\ Len(repairs[c]) \in Nat /\ DOMAIN repairs[c] = 1 .. Len(repairs[c])
        BY <1>1, <4>1, AppendProperties, LenProperties
      <4>3. i \in DOMAIN repairs[c] /\ repairs'[t][i] = repairs[c][i]
        BY <1>1, <4>1, <4>2, AppendProperties
      <4>4. CASE j = Len(repairs[c]) + 1
        BY <1>1, <2>2, <4>1, <4>3, <4>4, AppendProperties
      <4>5. CASE j # Len(repairs[c]) + 1
        <5>1. j \in DOMAIN repairs[c] /\ repairs'[t][j] = repairs[c][j]
          BY <1>1, <4>1, <4>2, <4>5, AppendProperties
        <5> QED BY <3>2, <4>3, <5>1 DEF QueueInv, RepairsKeepTheirDistance
      <4> QED BY <4>4, <4>5
    <3> QED BY <3>1, <3>2
  <2> QED BY <1>6, <1>8, <2>1, <2>3 DEF QueueInv
<1>10. CASE r \in Feedbacks
  <2>1. c \in Texts
    BY <1>10 DEF QueueInv, ContextsApart
  <2>2. \A t \in Tools : repairs'[t] = repairs[t]
    BY <2>1, FeedbackAssumption DEF QueueInv, QueueTypes, Contexts
  <2>3. run'["queue"] = run["queue"]
    BY <1>1, <1>7, <1>10
  <2>4. NoJobStranded' /\ DraftIsDue' /\ RepairsKeepTheirDistance'
    BY <2>2, <2>3
       DEF QueueInv, ContextsApart, NoJobStranded, DraftIsDue, RepairsKeepTheirDistance
  <2> QED BY <1>6, <1>8, <2>4 DEF QueueInv
<1> QED BY <1>9, <1>10 DEF Runner

LEMMA QueueInit == Init => QueueInv
<1> SUFFICES ASSUME Init PROVE QueueInv
  OBVIOUS
<1>1. Idle \in Frame /\ Idle.stage = "idle" /\ Idle.context = {}
  BY DEF Idle, Frame, Stage
<1>2. "queue" \in Runner /\ \A f \in Feedbacks : f \in Runner
  BY DEF Runner
<1>3. <<>> \in Seq(Tools) /\ <<>> \in Seq(Nat) /\ DOMAIN <<>> = {}
  BY EmptySeq
<1>4. QueueTypes
  BY <1>1, <1>3 DEF Init, QueueTypes
<1>5. \A t \in Tools : repairs[t] = <<>>
  BY DEF Init, Contexts
<1> QED
  BY <1>1, <1>2, <1>3, <1>4, <1>5
     DEF Init, QueueInv, ContextsApart, NoJobStranded, DraftIsDue, RepairsKeepTheirDistance

LEMMA QueueStep == QueueInv /\ [Next]_vars => QueueInv'
<1> SUFFICES ASSUME QueueInv, [Next]_vars PROVE QueueInv'
  OBVIOUS
<1>1. ASSUME NEW t \in Tools, NEW e \in Episodes, Fail(t, e) PROVE QueueInv'
  <2>1. CASE Enqueue(t)
    BY <1>1, <2>1, EnqueueKeeps DEF Fail
  <2>2. CASE UNCHANGED <<queue, run>>
    BY <1>1, <2>2, QueueFrame DEF Fail
  <2> QED BY <1>1, <2>1, <2>2 DEF Fail
<1>2. ASSUME NEW t \in Tools, NEW e \in Episodes, Succeed(t, e) PROVE QueueInv'
  BY <1>2, QueueFrame DEF Succeed
<1>3. ASSUME NEW r \in Runner, DraftAnswered(r) PROVE QueueInv'
  <2>1. CASE /\ \E ok \in BOOLEAN : run' = [run EXCEPT ![r].stage = After(r, ok), ![r].ids = {}]
             /\ UNCHANGED repairs
    BY <1>3, <2>1, UnansweredKeeps DEF DraftAnswered
  <2>2. CASE \E c \in run[r].context, done \in SUBSET run[r].ids :
               /\ repairs' = [repairs EXCEPT ![c] = Append(@, run[r].started)]
               /\ run' = [run EXCEPT ![r].stage = After(r, done = run[r].ids), ![r].ids = {}]
    <3>1. PICK c \in run[r].context, done \in SUBSET run[r].ids :
            /\ repairs' = [repairs EXCEPT ![c] = Append(@, run[r].started)]
            /\ run' = [run EXCEPT ![r].stage = After(r, done = run[r].ids), ![r].ids = {}]
      BY <2>2
    <3>2. PICK ok \in BOOLEAN : run' = [run EXCEPT ![r].stage = After(r, ok), ![r].ids = {}]
      BY <3>1
    <3> QED BY <1>3, <3>1, <3>2, RowWritten DEF DraftAnswered
  <2> QED BY <1>3, <2>1, <2>2 DEF DraftAnswered
<1>4. CASE Clear
  <2>1. [Idle EXCEPT !.stage = "next"] \in Frame
    BY DEF Idle, Frame, Stage
  <2> QED BY <1>4, <2>1, QueueGoesOn DEF Clear, Idle
<1>5. CASE NextJob
  <2>1. CASE queue # <<>>
    BY <1>5, <2>1, PumpKeeps DEF NextJob, QueueInv, QueueTypes
  <2>2. CASE queue = <<>>
    <3>1. [Idle EXCEPT !.stage = "leaving"] \in Frame
      BY DEF Idle, Frame, Stage
    <3> QED BY <1>5, <2>2, <3>1, QueueGoesOn DEF NextJob, Idle
  <2> QED BY <2>1, <2>2
<1>6. CASE Leave
  <2>1. CASE queue # <<>>
    BY <1>6, <2>1, PumpKeeps DEF Leave, HandOver, QueueInv, QueueTypes
  <2>2. CASE queue = <<>>
    <3>1. Idle \in Frame
      BY DEF Idle, Frame, Stage
    <3> QED BY <1>6, <2>2, <3>1, QueueGoesOn DEF Leave, HandOver, Idle
  <2> QED BY <2>1, <2>2
<1>7. ASSUME NEW f \in Feedbacks, NEW text \in Texts, Submit(f, text) PROVE QueueInv'
  <2>1. f \in Runner /\ text \in Contexts
    BY DEF Runner, Contexts
  <2>2. PICK frame \in Begun(f, text) : run' = [run EXCEPT ![f] = frame]
    BY <1>7 DEF Submit
  <2>3. frame \in Frame /\ frame.context = {text}
    BY <2>1, <2>2, BegunFrames DEF QueueInv
  <2> QED BY <1>7, <2>2, <2>3, FeedbackGoesOn DEF Submit
<1>8. ASSUME NEW f \in Feedbacks, Learn(f) PROVE QueueInv'
  <2>1. [Idle EXCEPT !.stage = "flushing"] \in Frame
    BY DEF Idle, Frame, Stage
  <2> QED BY <1>8, <2>1, FeedbackGoesOn DEF Learn, Idle
<1>9. ASSUME NEW f \in Feedbacks, Return(f) PROVE QueueInv'
  <2>1. Idle \in Frame
    BY DEF Idle, Frame, Stage
  <2> QED BY <1>9, <2>1, FeedbackGoesOn DEF Return, Idle
<1>10. ASSUME NEW p \in Policies, EditGuidance(p) \/ Delete(p) PROVE QueueInv'
  BY <1>10, QueueFrame DEF EditGuidance, Delete
<1>11. ASSUME NEW p \in Policies, NEW status \in Live \cup {"archived"}, SetStatus(p, status)
       PROVE  QueueInv'
  BY <1>11, QueueFrame DEF SetStatus
<1>12. CASE Tick
  <2>1. now' \in Nat /\ UNCHANGED <<queue, run, repairs>>
    BY <1>12 DEF Tick, QueueInv, QueueTypes
  <2> QED
    BY <2>1 DEF QueueInv, QueueTypes, ContextsApart, NoJobStranded, DraftIsDue, RepairsKeepTheirDistance
<1>13. CASE Restart
  <2>1. Idle \in Frame /\ Idle.stage = "idle" /\ Idle.context = {}
    BY DEF Idle, Frame, Stage
  <2>2. "queue" \in Runner /\ \A f \in Feedbacks : f \in Runner
    BY DEF Runner
  <2>3. <<>> \in Seq(Tools)
    BY EmptySeq
  <2> QED
    BY <1>13, <2>1, <2>2, <2>3
       DEF Restart, QueueInv, QueueTypes, ContextsApart, NoJobStranded, DraftIsDue, RepairsKeepTheirDistance
<1>14. CASE UNCHANGED vars
  BY <1>14, QueueFrame DEF vars
<1> QED
  BY <1>1, <1>2, <1>3, <1>4, <1>5, <1>6, <1>7, <1>8, <1>9, <1>10, <1>11, <1>12, <1>13, <1>14
     DEF Next

-----------------------------------------------------------------------------
(* The policies.                                                           *)

\* What a row says of its evidence.
Sound(row) == row.polarity = SummedUp(row.heard)

\* A policy is left alone, or deleted, or becomes a sound row that has all the
\* guidance there was.
Moves(p) ==
  \/ policy'[p] \in {policy[p], Gone}
  \/ /\ policy'[p] \in Row /\ Sound(policy'[p]) /\ policy[p] # Gone
     /\ Exists(p) => policy[p].guidance \subseteq policy'[p].guidance

LEMMA ExistsIsRow == ASSUME PolicyTypes, NEW p \in Policies, Exists(p) PROVE policy[p] \in Row
BY DEF PolicyTypes, Exists

\* Folding in the polarity of one more feedback sums up what was heard and it.
LEMMA MergedSumsUp ==
  ASSUME NEW heard, NEW b \in {"positive", "negative", "neutral"}
  PROVE  MergedPolarity(SummedUp(heard), b) = SummedUp(heard \cup {b})
BY DEF MergedPolarity, SummedUp

LEMMA SummedUpPolarity == \A heard : SummedUp(heard) \in Polarity
BY DEF SummedUp, Polarity

LEMMA DraftTypes ==
  ASSUME NEW draft \in Draft
  PROVE  /\ draft.type \in {"success", "instruction", "verifier"}
         /\ draft.polarity \in {"positive", "negative", "neutral"}
         /\ draft.eligible \in BOOLEAN
<1>1. CASE draft = [type |-> "success", polarity |-> "positive", eligible |-> TRUE]
  BY <1>1
<1>2. CASE draft \in [type : {"instruction", "verifier"}, polarity : {"negative", "neutral"},
                      eligible : {FALSE}]
  BY <1>2
<1> QED BY <1>1, <1>2 DEF Draft

LEMMA MergedIsSound ==
  ASSUME NEW row \in Row, Sound(row), NEW draft \in Draft, NEW line \in Lines
  PROVE  /\ Merged(row, draft, line) \in Row /\ Sound(Merged(row, draft, line))
         /\ row.guidance \subseteq Merged(row, draft, line).guidance
<1> DEFINE new == Merged(row, draft, line)
<1>1. /\ row.guidance \in SUBSET Lines /\ row.heard \in SUBSET Polarity /\ row.eligible \in BOOLEAN
      /\ row.type \in {"success", "instruction", "verifier", "validated"}
  BY DEF Row
<1>2. /\ draft.polarity \in {"positive", "negative", "neutral"} /\ draft.polarity \in Polarity
      /\ draft.eligible \in BOOLEAN
  BY DraftTypes DEF Polarity
<1>3. MergedPolarity(row.polarity, draft.polarity) = SummedUp(row.heard \cup {draft.polarity})
  BY <1>2, MergedSumsUp DEF Sound
<1>4. MergedPolarity(row.polarity, draft.polarity) \in Polarity
  BY <1>3, SummedUpPolarity
<1>5. /\ new.polarity = MergedPolarity(row.polarity, draft.polarity)
      /\ new.heard = row.heard \cup {draft.polarity} /\ new.guidance = row.guidance \cup {line}
  BY DEF Merged
<1>6. new \in Row
  BY <1>1, <1>2, <1>4 DEF Merged, Row, Live
<1> QED BY <1>3, <1>5, <1>6 DEF Sound

LEMMA FreshIsSound ==
  ASSUME NEW status \in Live, NEW draft \in Draft, NEW line \in Lines
  PROVE  Fresh(status, draft, line) \in Row /\ Sound(Fresh(status, draft, line))
<1>1. /\ draft.type \in {"success", "instruction", "verifier"} /\ draft.eligible \in BOOLEAN
      /\ draft.polarity \in {"positive", "negative", "neutral"} /\ draft.polarity \in Polarity
  BY DraftTypes DEF Polarity
<1>2. Fresh(status, draft, line) \in Row
  BY <1>1 DEF Fresh, Row
<1>3. SummedUp({draft.polarity}) = draft.polarity
  BY <1>1 DEF SummedUp
<1> QED BY <1>2, <1>3 DEF Fresh, Sound

\* A row whose guidance grows, or whose status changes, is as sound as it was.
LEMMA EditIsSound ==
  ASSUME NEW row \in Row, Sound(row), NEW line \in Lines, NEW status \in Live \cup {"archived"}
  PROVE  /\ [row EXCEPT !.guidance = @ \cup {line}] \in Row
         /\ Sound([row EXCEPT !.guidance = @ \cup {line}])
         /\ row.guidance \subseteq [row EXCEPT !.guidance = @ \cup {line}].guidance
         /\ [row EXCEPT !.status = status] \in Row
         /\ Sound([row EXCEPT !.status = status])
         /\ row.guidance = [row EXCEPT !.status = status].guidance
BY DEF Row, Sound

\* One policy is written.
LEMMA OneMoves ==
  ASSUME PolicyTypes, NEW p \in Policies, NEW row, policy' = [policy EXCEPT ![p] = row],
         \/ row = Gone
         \/ /\ row \in Row /\ Sound(row) /\ policy[p] # Gone
            /\ Exists(p) => policy[p].guidance \subseteq row.guidance
  PROVE  PolicyTypes' /\ \A q \in Policies : Moves(q)
<1>1. PolicyTypes'
  BY DEF PolicyTypes
<1>2. \A q \in Policies : policy'[q] = IF q = p THEN row ELSE policy[q]
  BY DEF PolicyTypes
<1> QED BY <1>1, <1>2 DEF Moves

LEMMA PolicyStep ==
  QueueInv /\ PolicyInv /\ [Next]_vars => PolicyTypes' /\ \A p \in Policies : Moves(p)
<1> SUFFICES ASSUME QueueInv, PolicyInv, [Next]_vars
             PROVE  PolicyTypes' /\ \A p \in Policies : Moves(p)
  OBVIOUS
<1>1. PolicyTypes /\ \A p \in Policies : Exists(p) => policy[p] \in Row /\ Sound(policy[p])
  BY ExistsIsRow DEF PolicyInv, EvidenceAddsUp, Sound
<1>2. "viewer" \in Lines /\ Contexts \subseteq Lines
  BY DEF Lines
<1>3. \A r \in Runner : run[r].context \subseteq Lines
  BY <1>2 DEF QueueInv, QueueTypes, Frame
<1>4. CASE UNCHANGED policy
  BY <1>1, <1>4 DEF PolicyTypes, Moves
<1>5. ASSUME NEW r \in Runner, NEW c \in run[r].context, NEW done \in SUBSET run[r].ids,
             policy' = [p \in Policies |-> IF p \in done THEN Attached(p, c) ELSE policy[p]]
      PROVE  PolicyTypes' /\ \A p \in Policies : Moves(p)
  <2>1. c \in Lines
    BY <1>3
  <2>2. ASSUME NEW p \in Policies
        PROVE  policy'[p] \in Row \cup {NoRow, Gone} /\ Moves(p)
    <3>1. CASE p \in done /\ Exists(p)
      <4>1. policy[p] \in Row /\ Sound(policy[p]) /\ policy[p] # Gone
        BY <1>1, <3>1 DEF Exists
      <4>2. policy'[p] = [policy[p] EXCEPT !.guidance = @ \cup {c}]
        BY <1>5, <3>1 DEF Attached
      <4> QED BY <2>1, <4>1, <4>2, EditIsSound DEF Moves, Live
    <3>2. CASE ~(p \in done /\ Exists(p))
      <4>1. policy'[p] = policy[p]
        BY <1>5, <3>2 DEF Attached
      <4> QED BY <1>1, <4>1 DEF PolicyTypes, Moves
    <3> QED BY <3>1, <3>2
  <2> QED BY <1>5, <2>2 DEF PolicyTypes
<1>6. ASSUME NEW f \in Feedbacks, NEW draft \in Draft, NEW line \in run[f].context,
             NEW p \in Policies, policy[p].status \in Live, Exists(p),
             policy' = [policy EXCEPT ![p] = Merged(@, draft, line)]
      PROVE  PolicyTypes' /\ \A q \in Policies : Moves(q)
  <2>1. line \in Lines /\ policy[p] \in Row /\ Sound(policy[p]) /\ policy[p] # Gone
    BY <1>1, <1>3, <1>6 DEF Runner, Exists
  <2> QED BY <1>1, <1>6, <2>1, MergedIsSound, OneMoves
<1>7. ASSUME NEW f \in Feedbacks, NEW draft \in Draft, NEW line \in run[f].context,
             NEW p \in Unused, NEW status \in Live,
             policy' = [policy EXCEPT ![p] = Fresh(status, draft, line)]
      PROVE  PolicyTypes' /\ \A q \in Policies : Moves(q)
  <2>1. line \in Lines /\ p \in Policies /\ ~Exists(p) /\ policy[p] # Gone
    BY <1>3 DEF Runner, Unused, Exists, NoRow, Gone
  <2> QED BY <1>1, <1>7, <2>1, FreshIsSound, OneMoves
<1>8. ASSUME NEW f \in Feedbacks, Learn(f) PROVE PolicyTypes' /\ \A p \in Policies : Moves(p)
  <2>1. \A p \in Policies : policy[p].status \in Live => Exists(p)
    BY DEF Live, Exists, NoRow, Gone
  <2>2. CASE UNCHANGED policy
    BY <1>4, <2>2
  <2>3. CASE ~UNCHANGED policy
    <3>1. PICK draft \in Draft, line \in run[f].context :
            \/ \E p \in {q \in Policies : policy[q].status \in Live} :
                 policy' = [policy EXCEPT ![p] = Merged(@, draft, line)]
            \/ \E p \in Unused, status \in Live :
                 policy' = [policy EXCEPT ![p] = Fresh(status, draft, line)]
      BY <1>8, <2>3 DEF Learn
    <3>2. CASE \E p \in {q \in Policies : policy[q].status \in Live} :
                 policy' = [policy EXCEPT ![p] = Merged(@, draft, line)]
      <4>1. PICK p \in Policies :
              policy[p].status \in Live /\ policy' = [policy EXCEPT ![p] = Merged(@, draft, line)]
        BY <3>2
      <4> QED BY <1>6, <2>1, <4>1
    <3>3. CASE \E p \in Unused, status \in Live :
                 policy' = [policy EXCEPT ![p] = Fresh(status, draft, line)]
      <4>1. PICK p \in Unused, status \in Live :
              policy' = [policy EXCEPT ![p] = Fresh(status, draft, line)]
        BY <3>3
      <4> QED BY <1>7, <4>1
    <3> QED BY <3>1, <3>2, <3>3
  <2> QED BY <2>2, <2>3
<1>9. ASSUME NEW r \in Runner, DraftAnswered(r)
      PROVE  PolicyTypes' /\ \A p \in Policies : Moves(p)
  <2>1. CASE UNCHANGED policy
    BY <1>4, <2>1
  <2>2. CASE ~UNCHANGED policy
    <3>1. PICK c \in run[r].context, done \in SUBSET run[r].ids :
            policy' = [p \in Policies |-> IF p \in done THEN Attached(p, c) ELSE policy[p]]
      BY <1>9, <2>2 DEF DraftAnswered
    <3> QED BY <1>5, <3>1
  <2> QED BY <2>1, <2>2
<1>10. ASSUME NEW p \in Policies, EditGuidance(p)
       PROVE  PolicyTypes' /\ \A q \in Policies : Moves(q)
  <2>1. policy[p] \in Row /\ Sound(policy[p]) /\ policy[p] # Gone
    BY <1>1, <1>10 DEF EditGuidance, Exists
  <2>2. policy' = [policy EXCEPT ![p] = [policy[p] EXCEPT !.guidance = @ \cup {"viewer"}]]
    BY <1>10 DEF EditGuidance
  <2> QED BY <1>1, <1>2, <2>1, <2>2, EditIsSound, OneMoves DEF Live
<1>11. ASSUME NEW p \in Policies, NEW status \in Live \cup {"archived"}, SetStatus(p, status)
       PROVE  PolicyTypes' /\ \A q \in Policies : Moves(q)
  <2>1. policy[p] \in Row /\ Sound(policy[p]) /\ policy[p] # Gone
    BY <1>1, <1>11 DEF SetStatus, Exists
  <2>2. policy' = [policy EXCEPT ![p] = [policy[p] EXCEPT !.status = status]]
    BY <1>11 DEF SetStatus
  <2> QED BY <1>1, <1>2, <2>1, <2>2, EditIsSound, OneMoves
<1>12. ASSUME NEW p \in Policies, Delete(p) PROVE PolicyTypes' /\ \A q \in Policies : Moves(q)
  BY <1>1, <1>12, OneMoves DEF Delete
<1>13. CASE \/ \E t \in Tools, e \in Episodes : Fail(t, e) \/ Succeed(t, e)
            \/ Clear \/ NextJob \/ Leave \/ Tick \/ Restart \/ UNCHANGED vars
            \/ \E f \in Feedbacks : Return(f) \/ \E text \in Texts : Submit(f, text)
  BY <1>4, <1>13 DEF Fail, Succeed, Clear, NextJob, Leave, Tick, Restart, Return, Submit, vars
<1> QED BY <1>8, <1>9, <1>10, <1>11, <1>12, <1>13 DEF Next

LEMMA PolicyInit == Init => PolicyInv
<1> SUFFICES ASSUME Init PROVE PolicyInv
  OBVIOUS
<1>1. Induced \in Row /\ Sound(Induced) /\ "positive" \in Induced.heard
  BY DEF Induced, Row, Live, Polarity, Sound, SummedUp
<1>2. \A p \in Policies : policy[p] = IF p = 1 THEN Induced ELSE NoRow
  BY DEF Init
<1>3. PolicyTypes
  BY <1>1 DEF Init, PolicyTypes
<1> QED BY <1>1, <1>2, <1>3 DEF PolicyInv, EvidenceAddsUp, Exists, Sound

LEMMA PolicyInvStep == QueueInv /\ PolicyInv /\ [Next]_vars => PolicyInv'
<1> SUFFICES ASSUME QueueInv, PolicyInv, [Next]_vars PROVE PolicyInv'
  OBVIOUS
<1>1. PolicyTypes' /\ \A p \in Policies : Moves(p)
  BY PolicyStep
<1>2. ASSUME NEW p \in Policies, Exists(p)' PROVE Sound(policy'[p])
  BY <1>1, <1>2 DEF Moves, Exists, PolicyInv, EvidenceAddsUp, Sound
<1>3. \A row : Sound(row) /\ HasSuccessAnchor(row) => "positive" \in row.heard
  BY DEF Sound, HasSuccessAnchor, SummedUp
<1> QED BY <1>1, <1>2, <1>3 DEF PolicyInv, EvidenceAddsUp, Sound

LEMMA Invariant == Spec => []IInv
<1>1. Init => IInv
  BY QueueInit, PolicyInit DEF IInv
<1>2. IInv /\ [Next]_vars => IInv'
  BY QueueStep, PolicyInvStep DEF IInv
<1> QED BY <1>1, <1>2, PTL DEF Spec

\* The polarity of a policy sums up the feedback it was made of and has taken in,
\* in whatever order the drafts came back, and only a policy that has worked once
\* counts as anchored in a success: mergePolarity and mergePolicy of
\* feedback-builder.ts, hasSuccessAnchor of eligibility.ts.
THEOREM EvidenceCorrect == Spec => []EvidenceAddsUp
<1>1. IInv => EvidenceAddsUp
  BY DEF IInv, PolicyInv
<1> QED BY <1>1, Invariant, PTL

\* No repair, experience or edit loses a line of guidance that another has
\* written, and none brings a deleted policy back: attachRepairToPolicies of
\* feedback.ts, mergePolicy, and editPolicyGuidance of memory-core.ts.
THEOREM GuidanceCorrect == Spec => GuidanceStands
<1>1. IInv /\ [Next]_vars =>
        \A p \in Policies :
          /\ policy[p] = Gone => policy'[p] = Gone
          /\ Exists(p) => policy'[p] = Gone \/ policy[p].guidance \subseteq policy'[p].guidance
  BY PolicyStep DEF IInv, Moves
<1> QED BY <1>1, Invariant, PTL DEF Spec, GuidanceStands

-----------------------------------------------------------------------------
(* The frames of the repairs and the times of the rows.                    *)

Written == {p \in Policies : policy[p] # NoRow}

\* A repair has begun before now, and the policies it means to write exist or
\* have existed; no row is from the future.
FrameTimes ==
  /\ \A r \in Runner : run[r].started <= now /\ run[r].ids \subseteq Written
  /\ \A c \in Contexts : \A i \in DOMAIN repairs[c] : repairs[c][i] <= now

\* A frame stays what it was, is emptied, or begins now with policies there are.
FrameMoves(r) ==
  \/ run'[r].started = run[r].started /\ run'[r].ids \subseteq run[r].ids
  \/ run'[r].started \in {0, now} /\ run'[r].ids \subseteq Written

LEMMA BegunMoves ==
  ASSUME QueueInv, NEW r \in Runner, NEW c, NEW q, NEW frame \in Begun(q, c),
         run' = [run EXCEPT ![r] = frame]
  PROVE  \A x \in Runner : FrameMoves(x)
<1>1. frame.started = now /\ frame.ids \subseteq Written
  <2>1. \A p \in Policies : policy[p].status = "active" => policy[p] # NoRow
    BY DEF NoRow
  <2>2. CASE \E ok \in BOOLEAN :
               frame = [stage |-> After(q, ok), context |-> {c}, started |-> now, ids |-> {}]
    BY <2>2
  <2>3. CASE \E ids \in SUBSET {p \in Policies : policy[p].status = "active"} :
               frame = [stage |-> "drafting", context |-> {c}, started |-> now, ids |-> ids]
    <3>1. PICK ids \in SUBSET {p \in Policies : policy[p].status = "active"} :
            frame = [stage |-> "drafting", context |-> {c}, started |-> now, ids |-> ids]
      BY <2>3
    <3>2. frame.started = now /\ frame.ids = ids BY <3>1
    <3> QED BY <2>1, <3>2 DEF Written
  <2> QED BY <2>2, <2>3 DEF Begun
<1> QED BY <1>1 DEF QueueInv, QueueTypes, FrameMoves

LEMMA PumpMoves ==
  ASSUME QueueInv, NEW jobs, Pump(jobs)
  PROVE  \A x \in Runner : FrameMoves(x)
<1>1. PICK frame \in Begun("queue", Head(jobs)) : run' = [run EXCEPT !["queue"] = frame]
  BY DEF Pump
<1> QED BY <1>1, BegunMoves DEF Runner

LEMMA StillMoves ==
  ASSUME UNCHANGED run PROVE \A x \in Runner : FrameMoves(x)
BY DEF FrameMoves

LEMMA EmptyMoves ==
  ASSUME QueueInv, NEW r \in Runner, NEW stage \in Stage,
         run' = [run EXCEPT ![r] = [Idle EXCEPT !.stage = stage]]
  PROVE  \A x \in Runner : FrameMoves(x)
BY DEF QueueInv, QueueTypes, Idle, FrameMoves

LEMMA FramesStep ==
  ASSUME QueueInv, [Next]_vars
  PROVE  /\ \A r \in Runner : FrameMoves(r)
         /\ \/ repairs' = repairs
            \/ \E r \in Runner : \E c \in run[r].context :
                 repairs' = [repairs EXCEPT ![c] = Append(@, run[r].started)]
<1>0. run \in [Runner -> Frame] /\ "queue" \in Runner
  BY DEF QueueInv, QueueTypes, Runner
<1>1. ASSUME NEW t \in Tools, NEW e \in Episodes, Fail(t, e) \/ Succeed(t, e)
      PROVE  (\A r \in Runner : FrameMoves(r)) /\ repairs' = repairs
  <2>1. UNCHANGED run \/ \E jobs : Pump(jobs)
    BY <1>1 DEF Fail, Succeed, Enqueue
  <2> QED BY <1>1, <2>1, PumpMoves, StillMoves DEF Fail, Succeed
<1>2. ASSUME NEW r \in Runner, DraftAnswered(r)
      PROVE  /\ \A x \in Runner : FrameMoves(x)
             /\ \/ repairs' = repairs
                \/ \E c \in run[r].context :
                     repairs' = [repairs EXCEPT ![c] = Append(@, run[r].started)]
  <2>1. PICK stage : run' = [run EXCEPT ![r].stage = stage, ![r].ids = {}]
    BY <1>2 DEF DraftAnswered
  <2>2. \A x \in Runner : run'[x].started = run[x].started /\ run'[x].ids \subseteq run[x].ids
    BY <1>0, <2>1 DEF Frame
  <2> QED BY <1>2, <2>2 DEF DraftAnswered, FrameMoves
<1>3. CASE Clear \/ NextJob \/ Leave
  <2>1. \/ \E jobs : Pump(jobs)
        \/ \E stage \in Stage : run' = [run EXCEPT !["queue"] = [Idle EXCEPT !.stage = stage]]
    <3>1. [Idle EXCEPT !.stage = "idle"] = Idle /\ {"idle", "next", "leaving"} \subseteq Stage
      BY DEF Idle, Stage
    <3> QED BY <1>3, <3>1 DEF Clear, NextJob, Leave, HandOver
  <2> QED BY <1>0, <1>3, <2>1, PumpMoves, EmptyMoves DEF Clear, NextJob, Leave
<1>4. ASSUME NEW f \in Feedbacks, NEW text \in Texts, Submit(f, text)
      PROVE  (\A r \in Runner : FrameMoves(r)) /\ repairs' = repairs
  BY <1>4, BegunMoves DEF Submit, Runner
<1>5. ASSUME NEW f \in Feedbacks, Learn(f) \/ Return(f)
      PROVE  (\A r \in Runner : FrameMoves(r)) /\ repairs' = repairs
  <2>1. \E stage \in Stage : run' = [run EXCEPT ![f] = [Idle EXCEPT !.stage = stage]]
    <3>1. [Idle EXCEPT !.stage = "idle"] = Idle /\ {"idle", "flushing"} \subseteq Stage
      BY DEF Idle, Stage
    <3> QED BY <1>5, <3>1 DEF Learn, Return
  <2> QED BY <1>5, <2>1, EmptyMoves DEF Learn, Return, Runner
<1>6. CASE Restart
  <2>1. repairs' = repairs /\ \A r \in Runner : run'[r].started = 0 /\ run'[r].ids = {}
    BY <1>6 DEF Restart, Idle
  <2> QED BY <2>1 DEF FrameMoves
<1>7. CASE \/ \E p \in Policies :
                \/ EditGuidance(p) \/ Delete(p)
                \/ \E status \in Live \cup {"archived"} : SetStatus(p, status)
           \/ Tick \/ UNCHANGED vars
  <2>1. UNCHANGED <<run, repairs>>
    BY <1>7 DEF EditGuidance, Delete, SetStatus, Tick, vars
  <2> QED BY <2>1, StillMoves
<1> QED BY <1>1, <1>2, <1>3, <1>4, <1>5, <1>6, <1>7 DEF Next

LEMMA FrameTimesStep ==
  ASSUME QueueInv, QueueInv', PolicyInv, FrameTimes, [Next]_vars
  PROVE  FrameTimes'
<1>1. /\ now \in Nat /\ now' \in Nat /\ now <= now'
  <2>1. now' = now \/ now' = now + 1
    BY DEF Next, Fail, Succeed, DraftAnswered, Clear, NextJob, Leave, Submit, Learn, Return,
           EditGuidance, SetStatus, Delete, Tick, Restart, vars
  <2> QED BY <2>1 DEF QueueInv, QueueTypes
<1>2. Written \subseteq Written'
  <2>1. \A row \in Row : row # NoRow
    <3>1. \A row \in Row : row.status \in {"candidate", "active", "archived"} BY DEF Row, Live
    <3> QED BY <3>1 DEF NoRow
  <2>2. NoRow # Gone
    <3>1. NoRow.status # Gone.status BY DEF NoRow, Gone
    <3> QED BY <3>1
  <2> QED BY <2>1, <2>2, PolicyStep DEF Moves, Written
<1>3. \A r \in Runner : run[r].started \in Nat /\ run'[r].started \in Nat
  BY DEF QueueInv, QueueTypes, Frame
<1>4. \A r \in Runner : run'[r].started <= now' /\ run'[r].ids \subseteq Written'
  <2> SUFFICES ASSUME NEW r \in Runner
               PROVE  run'[r].started <= now' /\ run'[r].ids \subseteq Written'
    OBVIOUS
  <2>1. FrameMoves(r) BY FramesStep
  <2>2. run'[r].ids \subseteq Written' BY <1>2, <2>1 DEF FrameMoves, FrameTimes
  <2>3. run'[r].started <= now
    BY <1>1, <1>3, <2>1 DEF FrameMoves, FrameTimes
  <2> QED BY <1>1, <1>3, <2>2, <2>3
<1>5. ASSUME NEW c \in Contexts, NEW i \in DOMAIN repairs'[c] PROVE repairs'[c][i] <= now'
  <2>1. /\ repairs[c] \in Seq(Nat) /\ repairs'[c] \in Seq(Nat)
        /\ \A j \in DOMAIN repairs[c] : repairs[c][j] \in Nat /\ repairs[c][j] <= now
    BY ElementOfSeq, LenProperties DEF QueueInv, QueueTypes, FrameTimes
  <2>2. CASE repairs'[c] = repairs[c]
    BY <1>1, <1>5, <2>1, <2>2
  <2>3. ASSUME NEW r \in Runner, repairs'[c] = Append(repairs[c], run[r].started)
        PROVE  repairs'[c][i] <= now'
    <3>1. run[r].started \in Nat /\ run[r].started <= now BY <1>3 DEF FrameTimes
    <3>2. repairs'[c][i] = run[r].started \/ (i \in DOMAIN repairs[c] /\ repairs'[c][i] = repairs[c][i])
      BY <1>5, <2>1, <2>3, <3>1, AppendProperties, LenProperties
    <3> QED BY <1>1, <2>1, <3>1, <3>2
  <2>4. \/ repairs'[c] = repairs[c]
        \/ \E r \in Runner : repairs'[c] = Append(repairs[c], run[r].started)
    <3>1. repairs \in [Contexts -> Seq(Nat)] BY DEF QueueInv, QueueTypes
    <3> QED BY <3>1, FramesStep
  <2> QED BY <2>2, <2>3, <2>4
<1> QED BY <1>4, <1>5 DEF FrameTimes

-----------------------------------------------------------------------------
(* The signals.                                                            *)

Seen == [episode : Episodes, step : 1 .. MaxSteps, ok : BOOLEAN]

SignalTypes ==
  /\ step \in [Episodes -> 0 .. MaxSteps] /\ tracked \subseteq Tools
  /\ failures \in [Tools -> SUBSET [episode : Episodes, step : 1 .. MaxSteps, ok : {FALSE}]]
  /\ success \in [Tools -> SUBSET (1 .. MaxSteps)]
  /\ seen \in [Tools -> SUBSET Seen]

\* What the tracker holds of a tool was seen since its entry was cleared; steps
\* are numbered upwards; and the last success is the latest there was.
Remembers(t) ==
  /\ \A a, b \in success[t] : a = b
  /\ failures[t] # {} => t \in tracked
  /\ failures[t] \subseteq seen[t] /\ IsFiniteSet(seen[t])
  /\ \A o \in seen[t] : o.step <= step[o.episode]
  /\ OfOneEpisode(seen[t]) =>
       \A o \in seen[t] : o.ok => \E s \in success[t] : o.step <= s

SignalInv == SignalTypes /\ \A t \in Tools : Remembers(t)

LEMMA CountedSignals ==
  ASSUME SignalInv, NEW t \in Tools, NEW e \in Episodes, NEW ok \in BOOLEAN, Counted(t, e, ok)
  PROVE  /\ step'[e] \in 1 .. MaxSteps /\ step[e] < step'[e]
         /\ step' \in [Episodes -> 0 .. MaxSteps] /\ \A x \in Episodes : step[x] <= step'[x]
         /\ Outcome(e, step'[e], ok) \in Seen
         /\ Outcome(e, step'[e], ok).episode = e /\ Outcome(e, step'[e], ok).step = step'[e]
         /\ Outcome(e, step'[e], ok).ok = ok
         /\ seen'[t] = seen[t] \cup {Outcome(e, step'[e], ok)} /\ IsFiniteSet(seen'[t])
         /\ seen' \in [Tools -> SUBSET Seen]
         /\ \A x \in Tools : x # t => seen'[x] = seen[x]
         /\ \A o \in seen'[t] : o.step <= step'[o.episode]
<1>0. MaxSteps \in Nat BY FeedbackAssumption
<1>1. step[e] \in 0 .. MaxSteps /\ step[e] < MaxSteps /\ step' = [step EXCEPT ![e] = step[e] + 1]
  BY DEF SignalInv, SignalTypes, Counted
<1>2. step'[e] = step[e] + 1 /\ step'[e] \in 1 .. MaxSteps /\ step[e] < step'[e]
  BY <1>0, <1>1 DEF SignalInv, SignalTypes
<1>3. step' \in [Episodes -> 0 .. MaxSteps] /\ \A x \in Episodes : step[x] <= step'[x]
  BY <1>0, <1>1, <1>2 DEF SignalInv, SignalTypes
<1>4. PICK o : o = Outcome(e, step'[e], ok) OBVIOUS
<1>5. o \in Seen /\ o.episode = e /\ o.step = step'[e] /\ o.ok = ok
  BY <1>2, <1>4 DEF Outcome, Seen
<1>6. /\ seen'[t] = seen[t] \cup {o} /\ seen' \in [Tools -> SUBSET Seen]
      /\ \A x \in Tools : x # t => seen'[x] = seen[x]
  BY <1>4, <1>5 DEF Counted, SignalInv, SignalTypes
<1>7. IsFiniteSet(seen'[t])
  BY <1>6, FS_AddElement DEF SignalInv, Remembers
<1>8. ASSUME NEW x \in seen'[t] PROVE x.step <= step'[x.episode]
  <2>1. CASE x = o
    BY <1>0, <1>2, <1>5, <2>1
  <2>2. CASE x \in seen[t]
    <3>1. x.step <= step[x.episode] /\ x.episode \in Episodes /\ x.step \in 1 .. MaxSteps
      BY <2>2 DEF SignalInv, SignalTypes, Remembers, Seen
    <3> QED BY <1>0, <1>3, <3>1 DEF SignalInv, SignalTypes
  <2> QED BY <1>6, <1>8, <2>1, <2>2
<1> QED BY <1>2, <1>3, <1>4, <1>5, <1>6, <1>7, <1>8

\* A tool of which nothing is counted is remembered as before.
LEMMA RemembersStill ==
  ASSUME SignalInv, NEW t \in Tools, step' \in [Episodes -> 0 .. MaxSteps],
         \A x \in Episodes : step[x] <= step'[x],
         failures'[t] = failures[t], success'[t] = success[t], seen'[t] = seen[t],
         tracked \subseteq tracked'
  PROVE  Remembers(t)'
<1>0. MaxSteps \in Nat BY FeedbackAssumption
<1>1. \A o \in seen[t] : o.step <= step'[o.episode]
  <2> SUFFICES ASSUME NEW o \in seen[t] PROVE o.step <= step'[o.episode]
    OBVIOUS
  <2>1. o.step <= step[o.episode] /\ o.episode \in Episodes /\ o.step \in 1 .. MaxSteps
    BY DEF SignalInv, SignalTypes, Remembers, Seen
  <2> QED BY <1>0, <2>1 DEF SignalInv, SignalTypes
<1> QED BY <1>1 DEF SignalInv, Remembers, OfOneEpisode

LEMMA FailSignals ==
  ASSUME SignalInv, NEW t \in Tools, NEW e \in Episodes, Fail(t, e)
  PROVE  SignalInv'
<1>0. MaxSteps \in Nat BY FeedbackAssumption
<1>a. Counted(t, e, FALSE) BY DEF Fail
<1>1. PICK o : o = Outcome(e, step'[e], FALSE) OBVIOUS
<1>2. /\ o \in Seen /\ o.step \in 1 .. MaxSteps /\ o.episode = e /\ o.ok = FALSE
      /\ step' \in [Episodes -> 0 .. MaxSteps] /\ \A x \in Episodes : step[x] <= step'[x]
      /\ seen'[t] = seen[t] \cup {o} /\ IsFiniteSet(seen'[t])
      /\ seen' \in [Tools -> SUBSET Seen] /\ \A x \in Tools : x # t => seen'[x] = seen[x]
      /\ \A x \in seen'[t] : x.step <= step'[x.episode]
  BY <1>a, <1>1, CountedSignals
<1>3. /\ success' = success /\ tracked' = tracked \cup {t}
      /\ failures' = [failures EXCEPT ![t] = Pruned(failures[t], step'[e]) \cup {o}]
  BY <1>1 DEF Fail
<1>4. o \in [episode : Episodes, step : 1 .. MaxSteps, ok : {FALSE}]
  BY <1>2, <1>1 DEF Outcome
<1>5. Pruned(failures[t], step'[e]) \subseteq failures[t] BY DEF Pruned
<1>6. SignalTypes'
  BY <1>2, <1>3, <1>4, <1>5 DEF SignalInv, SignalTypes
<1>7. Remembers(t)'
  <2>1. failures'[t] \subseteq seen'[t]
    BY <1>2, <1>3, <1>5 DEF SignalInv, SignalTypes, Remembers
  <2>2. OfOneEpisode(seen'[t]) => OfOneEpisode(seen[t])
    BY <1>2 DEF OfOneEpisode
  <2>3. OfOneEpisode(seen'[t]) => \A x \in seen'[t] : x.ok => \E s \in success'[t] : x.step <= s
    BY <1>2, <1>3, <2>2 DEF SignalInv, Remembers
  <2> QED BY <1>2, <1>3, <2>1, <2>3 DEF SignalInv, Remembers
<1>8. ASSUME NEW x \in Tools, x # t PROVE Remembers(x)'
  BY <1>2, <1>3, <1>8, RemembersStill DEF SignalInv, SignalTypes
<1> QED BY <1>6, <1>7, <1>8 DEF SignalInv

LEMMA SucceedSignals ==
  ASSUME SignalInv, NEW t \in Tools, NEW e \in Episodes, Succeed(t, e)
  PROVE  SignalInv'
<1>0. MaxSteps \in Nat BY FeedbackAssumption
<1>a. Counted(t, e, TRUE) BY DEF Succeed
<1>1. PICK o : o = Outcome(e, step'[e], TRUE) OBVIOUS
<1>2. /\ o \in Seen /\ o.step = step'[e] /\ step'[e] \in 1 .. MaxSteps /\ o.episode = e
      /\ step' \in [Episodes -> 0 .. MaxSteps] /\ \A x \in Episodes : step[x] <= step'[x]
      /\ seen'[t] = seen[t] \cup {o} /\ IsFiniteSet(seen'[t])
      /\ seen' \in [Tools -> SUBSET Seen] /\ \A x \in Tools : x # t => seen'[x] = seen[x]
      /\ \A x \in seen'[t] : x.step <= step'[x.episode]
  BY <1>a, <1>1, CountedSignals
<1>3. /\ success' = [success EXCEPT ![t] = {step'[e]}] /\ tracked' = tracked
      /\ failures' = [failures EXCEPT ![t] = Since(failures[t], step'[e])]
  BY DEF Succeed
<1>5. Since(failures[t], step'[e]) \subseteq failures[t] BY DEF Since
<1>6. SignalTypes'
  BY <1>2, <1>3, <1>5 DEF SignalInv, SignalTypes
<1>7. Remembers(t)'
  <2>0. success'[t] = {step'[e]} /\ failures'[t] \subseteq failures[t]
    BY <1>3, <1>5 DEF SignalInv, SignalTypes
  <2>1. failures'[t] \subseteq seen'[t] /\ (failures'[t] # {} => t \in tracked')
    BY <1>2, <1>3, <2>0 DEF SignalInv, Remembers
  <2>3. ASSUME OfOneEpisode(seen'[t]), NEW x \in seen'[t]
        PROVE  \E s \in success'[t] : x.step <= s
    <3>1. x.episode = e BY <1>2, <2>3 DEF OfOneEpisode
    <3> QED BY <1>2, <2>0, <3>1
  <2> QED BY <1>2, <2>0, <2>1, <2>3 DEF Remembers
<1>8. ASSUME NEW x \in Tools, x # t PROVE Remembers(x)'
  BY <1>2, <1>3, <1>8, RemembersStill DEF SignalInv, SignalTypes
<1> QED BY <1>6, <1>7, <1>8 DEF SignalInv

LEMMA SignalStep ==
  ASSUME SignalInv, [Next]_vars
  PROVE  SignalInv'
<1>0. MaxSteps \in Nat BY FeedbackAssumption
<1>1. CASE UNCHANGED signals
  BY <1>1 DEF signals, SignalInv, SignalTypes, Remembers
<1>2. ASSUME Clear PROVE SignalInv'
  <2>1. PICK t : \/ UNCHANGED signals
                 \/ /\ t \in tracked /\ tracked' = tracked \ {t} /\ step' = step
                    /\ failures' = [failures EXCEPT ![t] = {}]
                    /\ success' = [success EXCEPT ![t] = {}]
                    /\ seen' = [seen EXCEPT ![t] = {}]
    BY <1>2 DEF Clear, signals
  <2>2. CASE t \in tracked /\ ~UNCHANGED signals
    <3>1. t \in Tools BY <2>2 DEF SignalInv, SignalTypes
    <3>2. SignalTypes'
      BY <2>1, <2>2, <3>1 DEF SignalInv, SignalTypes
    <3>3. Remembers(t)'
      <4>1. failures'[t] = {} /\ success'[t] = {} /\ seen'[t] = {}
        BY <2>1, <2>2, <3>1 DEF SignalInv, SignalTypes
      <4> QED BY <4>1, FS_EmptySet DEF Remembers
    <3>4. ASSUME NEW x \in Tools, x # t PROVE Remembers(x)'
      <4>1. /\ failures'[x] = failures[x] /\ success'[x] = success[x] /\ seen'[x] = seen[x]
            /\ step' = step /\ (x \in tracked => x \in tracked')
        BY <2>1, <2>2, <3>4 DEF SignalInv, SignalTypes
      <4> QED BY <4>1 DEF SignalInv, Remembers
    <3> QED BY <3>2, <3>3, <3>4 DEF SignalInv
  <2> QED BY <1>1, <2>1, <2>2
<1>3. ASSUME Restart PROVE SignalInv'
  <2>1. /\ \A t \in Tools : failures'[t] = {} /\ success'[t] = {} /\ seen'[t] = {}
        /\ SignalTypes'
    BY <1>0, <1>3 DEF Restart, SignalTypes
  <2> QED BY <2>1, FS_EmptySet DEF SignalInv, Remembers
<1> QED
  BY <1>1, <1>2, <1>3, FailSignals, SucceedSignals
  DEF Next, DraftAnswered, NextJob, Leave, Submit, Learn, Return, EditGuidance, SetStatus,
      Delete, Tick, vars

LEMMA SignalInit == Init => SignalInv
<1> SUFFICES ASSUME Init PROVE SignalInv
  OBVIOUS
<1>1. \A t \in Tools : failures[t] = {} /\ success[t] = {} /\ seen[t] = {}
  BY DEF Init
<1>2. SignalTypes BY FeedbackAssumption DEF Init, SignalTypes
<1> QED BY <1>1, <1>2, FS_EmptySet DEF SignalInv, Remembers

-----------------------------------------------------------------------------
(* What follows for the types and for the bursts.                          *)

LEMMA FrameTimesInit == Init => FrameTimes
BY DEF Init, FrameTimes, Idle

LEMMA AllInvariant == Spec => [](IInv /\ FrameTimes /\ SignalInv)
<1>1. IInv /\ IInv' /\ FrameTimes /\ [Next]_vars => FrameTimes'
  BY FrameTimesStep DEF IInv
<1>2. SignalInv /\ [Next]_vars => SignalInv' BY SignalStep
<1> QED BY <1>1, <1>2, FrameTimesInit, SignalInit, Invariant, PTL DEF Spec

LEMMA TypesHold == IInv /\ FrameTimes /\ SignalInv => TypeOK
<1> SUFFICES ASSUME IInv, FrameTimes, SignalInv PROVE TypeOK
  OBVIOUS
<1>0. now \in Nat /\ MaxSteps \in Nat BY FeedbackAssumption DEF IInv, QueueInv, QueueTypes
<1>1. \A t \in Tools : Cardinality(success[t]) <= 1 /\ (failures[t] # {} => t \in tracked)
  <2> SUFFICES ASSUME NEW t \in Tools
               PROVE  Cardinality(success[t]) <= 1 /\ (failures[t] # {} => t \in tracked)
    OBVIOUS
  <2>0. /\ \A a, b \in success[t] : a = b
        /\ failures[t] # {} => t \in tracked
    BY DEF SignalInv, Remembers
  <2>1. CASE success[t] = {} BY <2>0, <2>1, FS_EmptySet
  <2>2. CASE success[t] # {}
    <3>1. PICK s : success[t] = {s} BY <2>0, <2>2
    <3>2. Cardinality({s}) = 1 BY FS_Singleton
    <3> QED BY <2>0, <3>1, <3>2
  <2> QED BY <2>1, <2>2
<1>2. ASSUME NEW r \in Runner
      PROVE  /\ run[r].stage \in Stage /\ run[r].context \subseteq Contexts
             /\ run[r].started \in 0 .. now
             /\ run[r].ids \subseteq {p \in Policies : policy[p] # NoRow}
  <2>1. run[r] \in Frame BY DEF IInv, QueueInv, QueueTypes
  <2> QED BY <1>0, <2>1 DEF Frame, FrameTimes, Written
<1>3. repairs \in [Contexts -> Seq(0 .. now)]
  <2>1. repairs \in [Contexts -> Seq(Nat)] BY DEF IInv, QueueInv, QueueTypes
  <2>2. ASSUME NEW c \in Contexts PROVE repairs[c] \in Seq(0 .. now)
    <3>1. PICK n \in Nat : repairs[c] \in [1 .. n -> Nat]
      BY <2>1, SeqDef
    <3>2. \A i \in 1 .. n : repairs[c][i] \in 0 .. now
      BY <1>0, <3>1 DEF FrameTimes
    <3>3. repairs[c] \in [1 .. n -> 0 .. now] BY <3>1, <3>2
    <3> QED BY <3>3, SeqDef
  <2> QED BY <2>1, <2>2
<1>4. /\ step \in [Episodes -> Nat] /\ tracked \subseteq Tools
      /\ failures \in [Tools -> SUBSET [episode : Episodes, step : 1 .. MaxSteps, ok : {FALSE}]]
      /\ success \in [Tools -> SUBSET (1 .. MaxSteps)]
  <2>1. \A n \in 0 .. MaxSteps : n \in Nat BY <1>0
  <2>2. step \in [Episodes -> Nat] BY <2>1 DEF SignalInv, SignalTypes
  <2> QED BY <2>2 DEF SignalInv, SignalTypes
<1> QED
  BY <1>0, <1>1, <1>2, <1>3, <1>4 DEF TypeOK, IInv, QueueInv, QueueTypes, PolicyInv, PolicyTypes

\* Every variable keeps its type, a repair job that waits has somebody who will
\* take it, and the repairs of a tool are a cooldown apart, restarts included:
\* pump and drain of subscriber.ts, and isOnCooldown of feedback.ts before and
\* after the draft.
THEOREM RepairsCorrect == Spec => []RepairsAddUp
<1>1. IInv /\ FrameTimes /\ SignalInv => RepairsAddUp
  BY TypesHold DEF IInv, QueueInv, RepairsAddUp
<1> QED BY <1>1, AllInvariant, PTL

\* A failure that starts a job is the last of a streak.
LEMMA FailIsAStreak ==
  ASSUME SignalInv, NEW t \in Tools, NEW e \in Episodes, Fail(t, e),
         IsBurst(t, failures'[t], step'[e]), OfOneEpisode(seen'[t])
  PROVE  /\ Cardinality(Recent(seen'[t])) >= Threshold
         /\ \A other \in Recent(seen'[t]) : ~other.ok
<1>0. MaxSteps \in Nat /\ Window \in Nat \ {0} /\ Threshold \in Nat BY FeedbackAssumption
<1>a. Counted(t, e, FALSE) BY DEF Fail
<1>1. PICK n : n = step'[e] OBVIOUS
<1>2. PICK o : o = Outcome(e, step'[e], FALSE) OBVIOUS
<1>3. /\ o \in Seen /\ o.step = n /\ n \in 1 .. MaxSteps /\ o.episode = e /\ o.ok = FALSE
      /\ seen'[t] = seen[t] \cup {o} /\ IsFiniteSet(seen'[t])
      /\ seen' \in [Tools -> SUBSET Seen]
      /\ \A x \in seen'[t] : x.step <= step'[x.episode]
  BY <1>a, <1>1, <1>2, CountedSignals
<1>4. \A x \in seen'[t] : x.episode = e /\ x.step \in 1 .. MaxSteps /\ x.step <= n
  BY <1>1, <1>3 DEF OfOneEpisode, Seen
<1>5. Recent(seen'[t]) = {x \in seen'[t] : x.step > n - Window}
  <2>1. \A x \in seen'[t] : x.step > n - Window => \A y \in seen'[t] : x.step > y.step - Window
    BY <1>0, <1>3, <1>4
  <2>2. \A x \in seen'[t] : (\A y \in seen'[t] : x.step > y.step - Window) => x.step > n - Window
    BY <1>3
  <2> QED BY <2>1, <2>2 DEF Recent
<1>6. failures'[t] \subseteq Recent(seen'[t])
  <2>1. failures'[t] = Pruned(failures[t], n) \cup {o}
    BY <1>1, <1>2 DEF Fail, SignalInv, SignalTypes
  <2>2. \A x \in Pruned(failures[t], n) : x \in seen'[t] /\ x.step > n - Window
    BY <1>3 DEF Pruned, InWindow, SignalInv, Remembers
  <2>3. o.step > n - Window BY <1>0, <1>3
  <2> QED BY <1>3, <1>5, <2>1, <2>2, <2>3
<1>7. Cardinality(failures'[t]) <= Cardinality(Recent(seen'[t]))
  <2>1. IsFiniteSet(Recent(seen'[t])) BY <1>3, <1>5, FS_Subset
  <2> QED BY <1>6, <2>1, FS_Subset
<1>8. Cardinality(Recent(seen'[t])) >= Threshold
  <2>1. IsFiniteSet(Recent(seen'[t])) BY <1>3, <1>5, FS_Subset
  <2>2. IsFiniteSet(failures'[t]) BY <1>6, <2>1, FS_Subset
  <2>3. Cardinality(failures'[t]) \in Nat /\ Cardinality(Recent(seen'[t])) \in Nat
    BY <2>1, <2>2, FS_CardinalityType
  <2>4. Cardinality(failures'[t]) >= Threshold BY DEF IsBurst
  <2> QED BY <1>0, <1>7, <2>3, <2>4
<1>9. ASSUME NEW x \in Recent(seen'[t]), x.ok PROVE FALSE
  <2>1. x \in seen[t] /\ x.step > n - Window BY <1>3, <1>5, <1>9
  <2>2. OfOneEpisode(seen[t]) BY <1>3 DEF OfOneEpisode
  <2>3. PICK s \in success[t] : x.step <= s
    BY <1>9, <2>1, <2>2 DEF SignalInv, Remembers
  <2>4. ~InWindow(s, n)
    BY <1>1, <2>3 DEF IsBurst
  <2>5. s \in 1 .. MaxSteps BY DEF SignalInv, SignalTypes
  <2> QED BY <1>0, <1>3, <1>4, <2>1, <2>3, <2>4, <2>5 DEF InWindow
<1> QED BY <1>8, <1>9

\* A repair job starts from a streak: as many failures of one tool within the
\* window as the threshold says, and no success among them, whatever recordFailure
\* and recordSuccess of signals.ts have pruned since the tool was cleared.
THEOREM BurstCorrect == Spec => BurstIsAStreak
<1>1. ASSUME SignalInv, [Next]_vars, NEW t \in Tools, NEW o \in seen'[t] \ seen[t],
             <<queue, run>>' # <<queue, run>>, OfOneEpisode(seen'[t])
      PROVE  /\ Cardinality(Recent(seen'[t])) >= Threshold
             /\ \A other \in Recent(seen'[t]) : ~other.ok
  <2>1. ASSUME NEW x \in Tools, NEW e \in Episodes, Fail(x, e)
        PROVE  /\ Cardinality(Recent(seen'[t])) >= Threshold
               /\ \A other \in Recent(seen'[t]) : ~other.ok
    <3>0. Counted(x, e, FALSE) BY <2>1 DEF Fail
    <3>a. \A y \in Tools : y # x => seen'[y] = seen[y] BY <1>1, <3>0, CountedSignals
    <3>1. x = t BY <1>1, <3>a
    <3>2. IsBurst(t, failures'[t], step'[e]) BY <1>1, <2>1, <3>1 DEF Fail
    <3> QED BY <1>1, <2>1, <3>1, <3>2, FailIsAStreak
  <2>2. ASSUME UNCHANGED seen PROVE FALSE BY <1>1, <2>2
  <2>3. ASSUME Clear \/ Restart PROVE FALSE
    <3>1. seen'[t] \subseteq seen[t]
      <4>1. PICK x : seen' = seen \/ seen' = [seen EXCEPT ![x] = {}] \/ seen' = [y \in Tools |-> {}]
        BY <2>3 DEF Clear, Restart
      <4> QED BY <1>1, <4>1 DEF SignalInv, SignalTypes
    <3> QED BY <1>1, <3>1
  <2>4. \A x \in Tools, e \in Episodes : ~Succeed(x, e)
    BY <1>1 DEF Succeed
  <2> QED
    BY <1>1, <2>1, <2>2, <2>3, <2>4
    DEF Next, DraftAnswered, NextJob, Leave, Submit, Learn, Return, EditGuidance, SetStatus,
        Delete, Tick, signals, vars
<1>2. SignalInv /\ [Next]_vars =>
        [\A t \in Tools : \A o \in seen'[t] \ seen[t] :
           <<queue, run>>' # <<queue, run>> /\ OfOneEpisode(seen'[t]) =>
             /\ Cardinality(Recent(seen'[t])) >= Threshold
             /\ \A other \in Recent(seen'[t]) : ~other.ok]_vars
  BY <1>1
<1> QED BY <1>2, AllInvariant, PTL DEF Spec, BurstIsAStreak
=============================================================================
