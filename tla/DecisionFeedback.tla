-------------------------- MODULE DecisionFeedback --------------------------
(***************************************************************************)
(* What failing tools and complaining users leave behind:                  *)
(* core/feedback/signals.ts, subscriber.ts, feedback.ts, evidence.ts,      *)
(* core/experience/feedback-builder.ts, and submitFeedback of              *)
(* memory-core.ts from the end of its reward run on.                       *)
(*                                                                         *)
(* Enough failures of one tool within a window of steps are a burst, and a *)
(* burst is a repair job in the one queue of the subscriber.  A user's     *)
(* feedback runs a repair of its own beside the queue, then makes an       *)
(* experience of it, and then waits for the queue.  A repair looks at the  *)
(* cooldown of its context and at the evidence, awaits a draft, writes a   *)
(* row of decision_repairs, and adds its line to the policies the evidence *)
(* comes from.                                                             *)
(*                                                                         *)
(* A tool stands for a tool in a session: its key in the tracker and its   *)
(* context hash.  The context of a feedback is its text.  The line a       *)
(* repair writes is named by its context.                                  *)
(***************************************************************************)
EXTENDS Integers, Sequences, FiniteSets

CONSTANTS
  Tools, Episodes, Feedbacks, Texts,
  MaxPolicies,               \* bound on the policies there ever are
  Threshold, Window,         \* failureThreshold, failureWindow
  Cooldown,                  \* cooldownMs, in ticks
  MaxSteps,                  \* bound on the tool calls of an episode
  MaxTime,                   \* bound on the clock
  MaxEvents                  \* bound on feedback, edits and restarts together

Policies == 1 .. MaxPolicies
Contexts == Tools \cup Texts
Lines    == Contexts \cup {"viewer"}

ASSUME FeedbackAssumption ==
  /\ {Threshold, Window} \subseteq Nat \ {0}
  /\ {MaxPolicies, Cooldown, MaxSteps, MaxTime, MaxEvents} \subseteq Nat
  /\ Tools \cap Texts = {} /\ "viewer" \notin Contexts /\ "queue" \notin Feedbacks

VARIABLES
  now,
  step,       \* toolStepByEpisode
  failures,   \* states: the occurrences of each tool
  tracked,    \* the tools that have an entry in states
  success,    \* successes: the last one, if there is one
  seen,       \* history: the outcomes of a tool since its entry was cleared
  queue,      \* the tools whose repair jobs wait
  run,        \* the frame of the queue's job, and of each feedback
  repairs,    \* decision_repairs: the time stamps of each context's rows
  policy,     \* the policies table
  events

signals == <<step, failures, tracked, success, seen>>
vars == <<now, signals, queue, run, repairs, policy, events>>

Polarity == {"positive", "negative", "neutral", "mixed"}
Draft    == {[type |-> "success", polarity |-> "positive", eligible |-> TRUE]}
  \cup [type : {"instruction", "verifier"}, polarity : {"negative", "neutral"}, eligible : {FALSE}]
Live     == {"candidate", "active"}
Row      == [status : Live \cup {"archived"}, guidance : SUBSET Lines,
             type : {"success", "instruction", "verifier", "validated"}, polarity : Polarity,
             eligible : BOOLEAN, heard : SUBSET Polarity]
NoRow    == [status |-> "none"]
Gone     == [status |-> "deleted"]
Runner   == Feedbacks \cup {"queue"}
Stage    == {"idle", "drafting", "clearing", "next", "leaving", "learning", "flushing"}
Idle     == [stage |-> "idle", context |-> {}, started |-> 0, ids |-> {}]

\* A policy induced from traces counts as one that has worked.
Induced == [status |-> "active", guidance |-> {}, type |-> "success",
            polarity |-> "positive", eligible |-> TRUE, heard |-> {"positive"}]

Init ==
  /\ now = 0
  /\ step = [e \in Episodes |-> 0]
  /\ failures = [t \in Tools |-> {}] /\ tracked = {}
  /\ success = [t \in Tools |-> {}] /\ seen = [t \in Tools |-> {}]
  /\ queue = <<>>
  /\ run = [r \in Runner |-> Idle]
  /\ repairs = [c \in Contexts |-> <<>>]
  /\ policy = [p \in Policies |-> IF p = 1 THEN Induced ELSE NoRow]
  /\ events = 0

Event     == events < MaxEvents /\ events' = events + 1
Exists(p) == policy[p] \notin {NoRow, Gone}
Unused    == {p \in Policies : policy[p] = NoRow /\ \A q \in 1 .. p - 1 : policy[q] # NoRow}

-----------------------------------------------------------------------------
(* A repair, up to the draft it awaits.                                    *)

\* Mutant: only feedback cools down.
OnCooldownTexts(c) == c \in Texts /\ \E i \in DOMAIN repairs[c] : now - repairs[c][i] < Cooldown

\* isOnCooldown: the latest row of the context.
OnCooldown(c) == \E i \in DOMAIN repairs[c] : now - repairs[c][i] < Cooldown

\* A job that has failed does not clear its signals; a feedback goes on.
After(r, ok) == IF r # "queue" THEN "learning" ELSE IF ok THEN "clearing" ELSE "next"

\* The frames a repair can have then: it is skipped, for the cooldown or for want
\* of evidence, a statement has failed, or it awaits a draft about some active
\* policies.
Begun(r, c) ==
  LET frame(stage, ids) == [stage |-> stage, context |-> {c}, started |-> now, ids |-> ids]
  IN  {frame(After(r, ok), {}) : ok \in BOOLEAN}
      \cup IF OnCooldown(c) THEN {}
           ELSE {frame("drafting", ids) :
                   ids \in SUBSET {p \in Policies : policy[p].status = "active"}}

\* pump and drain: the first of the jobs begins.
Pump(jobs) ==
  /\ queue' = Tail(jobs)
  /\ \E frame \in Begun("queue", Head(jobs)) : run' = [run EXCEPT !["queue"] = frame]

Enqueue(t) ==
  IF run["queue"].stage = "idle" THEN Pump(Append(queue, t))
  ELSE queue' = Append(queue, t) /\ UNCHANGED run

-----------------------------------------------------------------------------
(* Outcomes of tools.                                                      *)

\* A step of an episode is taken once: no two outcomes of a tool are the same.
Outcome(e, s, ok) == [episode |-> e, step |-> s, ok |-> ok]

Counted(t, e, ok) ==
  /\ step[e] < MaxSteps
  /\ step' = [step EXCEPT ![e] = @ + 1]
  /\ seen' = [seen EXCEPT ![t] = @ \cup {Outcome(e, step'[e], ok)}]

InWindow(s, latest) == s > latest - Window

Pruned(occurrences, latest) == {o \in occurrences : InWindow(o.step, latest)}
Since(occurrences, first)   == {o \in occurrences : o.step >= first}

\* Mutant: only the number of failures counts.
IsBurstAnyway(t, occurrences, latest) == Cardinality(occurrences) >= Threshold

IsBurst(t, occurrences, latest) ==
  /\ Cardinality(occurrences) >= Threshold
  /\ ~ \E s \in success[t] : InWindow(s, latest)

\* recordFailure, and triggerFromBurst
Fail(t, e) ==
  /\ Counted(t, e, FALSE)
  /\ failures' = [failures EXCEPT ![t] =
       Pruned(@, step'[e]) \cup {Outcome(e, step'[e], FALSE)}]
  /\ tracked' = tracked \cup {t}
  /\ IF IsBurst(t, failures'[t], step'[e]) THEN Enqueue(t) ELSE UNCHANGED <<queue, run>>
  /\ UNCHANGED <<now, success, repairs, policy, events>>

\* recordSuccess
Succeed(t, e) ==
  /\ Counted(t, e, TRUE)
  /\ success' = [success EXCEPT ![t] = {step'[e]}]
  /\ failures' = [failures EXCEPT ![t] = Since(@, step'[e])]
  /\ UNCHANGED <<now, tracked, queue, run, repairs, policy, events>>

-----------------------------------------------------------------------------
(* A repair after its draft, and the jobs behind it.                       *)

\* Mutant: the new line takes the place of the old ones.
AttachedOver(p, line) ==
  IF Exists(p) THEN [policy[p] EXCEPT !.guidance = {line}] ELSE policy[p]

\* attachRepairToPolicies, for one policy as it is then.
Attached(p, line) ==
  IF Exists(p) THEN [policy[p] EXCEPT !.guidance = @ \cup {line}] ELSE policy[p]

\* There is no draft; or a row is inserted, and then the policies are updated one
\* by one, unless a statement fails.
DraftAnswered(r) ==
  /\ run[r].stage = "drafting"
  /\ \/ /\ \E ok \in BOOLEAN : run' = [run EXCEPT ![r].stage = After(r, ok), ![r].ids = {}]
        /\ UNCHANGED <<repairs, policy>>
     \/ \E c \in run[r].context, done \in SUBSET run[r].ids :
          /\ repairs' = [repairs EXCEPT ![c] = Append(@, run[r].started)]
          /\ policy' = [p \in Policies |-> IF p \in done THEN Attached(p, c) ELSE policy[p]]
          /\ run' = [run EXCEPT ![r].stage = After(r, done = run[r].ids), ![r].ids = {}]
  /\ UNCHANGED <<now, signals, queue, events>>

\* signals.clear, for the context of the job
Clear ==
  /\ run["queue"].stage = "clearing"
  /\ LET t == CHOOSE t \in Tools : run["queue"].context = {t}
     IN  IF t \in tracked
         THEN /\ tracked' = tracked \ {t}
              /\ failures' = [failures EXCEPT ![t] = {}]
              /\ success' = [success EXCEPT ![t] = {}]
              /\ seen' = [seen EXCEPT ![t] = {}]
         ELSE UNCHANGED <<tracked, failures, success, seen>>
  /\ run' = [run EXCEPT !["queue"] = [Idle EXCEPT !.stage = "next"]]
  /\ UNCHANGED <<now, step, queue, repairs, policy, events>>

\* drain looks at the queue again.
NextJob ==
  /\ run["queue"].stage = "next"
  /\ IF queue # <<>> THEN Pump(queue)
     ELSE run' = [run EXCEPT !["queue"] = [Idle EXCEPT !.stage = "leaving"]] /\ UNCHANGED queue
  /\ UNCHANGED <<now, signals, repairs, policy, events>>

\* Mutant: there is no successor.
HandOverNobody == run' = [run EXCEPT !["queue"] = Idle] /\ UNCHANGED queue

\* Mutant: inflight is not the promise whose finally this is.
HandOverKept == UNCHANGED <<run, queue>>

\* The finally callback: a job that came after drain had seen an empty queue.
HandOver ==
  IF queue # <<>> THEN Pump(queue)
  ELSE run' = [run EXCEPT !["queue"] = Idle] /\ UNCHANGED queue

Leave ==
  /\ run["queue"].stage = "leaving"
  /\ HandOver
  /\ UNCHANGED <<now, signals, repairs, policy, events>>

-----------------------------------------------------------------------------
(* A feedback of the user.                                                 *)

\* submitFeedback, after its reward run: submitUserFeedback.
Submit(f, text) ==
  /\ run[f].stage = "idle" /\ Event
  /\ \E frame \in Begun(f, text) : run' = [run EXCEPT ![f] = frame]
  /\ UNCHANGED <<now, signals, queue, repairs, policy>>

\* Mutant: the latest feedback decides.
MergedPolarityLatest(a, b) == b

\* mergePolarity
MergedPolarity(a, b) ==
  IF a = b \/ b = "neutral" THEN a ELSE IF a = "neutral" THEN b ELSE "mixed"

\* mergePolicy
Merged(row, draft, line) ==
  LET polarity == MergedPolarity(row.polarity, draft.polarity)
      eligible == row.eligible \/ draft.eligible
  IN  [status |-> "active", guidance |-> row.guidance \cup {line},
       type |-> IF eligible /\ polarity = "mixed" THEN "validated" ELSE row.type,
       polarity |-> polarity, eligible |-> eligible, heard |-> row.heard \cup {draft.polarity}]

Fresh(status, draft, line) ==
  [status |-> status, guidance |-> {line}, type |-> draft.type, polarity |-> draft.polarity,
   eligible |-> draft.eligible, heard |-> {draft.polarity}]

\* runFeedbackExperience, once the model and the embedder have answered: nothing
\* is to be learned, the policy that is similar by now takes the draft in, or a new
\* one is made of it.
Learn(f) ==
  /\ run[f].stage = "learning"
  /\ \/ UNCHANGED policy
     \/ \E draft \in Draft, line \in run[f].context :
          \/ \E p \in {q \in Policies : policy[q].status \in Live} :
               policy' = [policy EXCEPT ![p] = Merged(@, draft, line)]
          \/ \E p \in Unused, status \in Live :
               policy' = [policy EXCEPT ![p] = Fresh(status, draft, line)]
  /\ run' = [run EXCEPT ![f] = [Idle EXCEPT !.stage = "flushing"]]
  /\ UNCHANGED <<now, signals, queue, repairs, events>>

\* flush: its loop ends when nothing is in flight and nothing waits.
Return(f) ==
  /\ run[f].stage = "flushing"
  /\ run["queue"].stage = "idle" /\ queue = <<>>
  /\ run' = [run EXCEPT ![f] = Idle]
  /\ UNCHANGED <<now, signals, queue, repairs, policy, events>>

-----------------------------------------------------------------------------
(* The viewer, the clock, and the loss of the process.                     *)

\* editPolicyGuidance
EditGuidance(p) ==
  /\ Exists(p) /\ "viewer" \notin policy[p].guidance /\ Event
  /\ policy' = [policy EXCEPT ![p].guidance = @ \cup {"viewer"}]
  /\ UNCHANGED <<now, signals, queue, run, repairs>>

\* setPolicyStatus
SetStatus(p, status) ==
  /\ Exists(p) /\ policy[p].status # status /\ Event
  /\ policy' = [policy EXCEPT ![p].status = status]
  /\ UNCHANGED <<now, signals, queue, run, repairs>>

\* deletePolicy
Delete(p) ==
  /\ Exists(p) /\ Event
  /\ policy' = [policy EXCEPT ![p] = Gone]
  /\ UNCHANGED <<now, signals, queue, run, repairs>>

Tick ==
  /\ now < MaxTime /\ now' = now + 1
  /\ UNCHANGED <<signals, queue, run, repairs, policy, events>>

Restart ==
  /\ Event
  /\ step' = [e \in Episodes |-> 0]
  /\ failures' = [t \in Tools |-> {}] /\ tracked' = {}
  /\ success' = [t \in Tools |-> {}] /\ seen' = [t \in Tools |-> {}]
  /\ queue' = <<>> /\ run' = [r \in Runner |-> Idle]
  /\ UNCHANGED <<now, repairs, policy>>

Next ==
  \/ \E t \in Tools, e \in Episodes : Fail(t, e) \/ Succeed(t, e)
  \/ \E r \in Runner : DraftAnswered(r)
  \/ Clear \/ NextJob \/ Leave
  \/ \E f \in Feedbacks :
       \/ \E text \in Texts : Submit(f, text)
       \/ Learn(f) \/ Return(f)
  \/ \E p \in Policies :
       \/ EditGuidance(p) \/ Delete(p)
       \/ \E status \in Live \cup {"archived"} : SetStatus(p, status)
  \/ Tick \/ Restart

Spec == Init /\ [][Next]_vars

\* The model and the embedder answer or time out, and the event loop goes on.
FairSpec ==
  /\ Spec
  /\ \A r \in Runner : WF_vars(DraftAnswered(r))
  /\ WF_vars(Clear) /\ WF_vars(NextJob) /\ WF_vars(Leave)
  /\ \A f \in Feedbacks : WF_vars(Learn(f)) /\ WF_vars(Return(f))

-----------------------------------------------------------------------------
(* Properties.                                                             *)

TypeOK ==
  /\ now \in Nat /\ step \in [Episodes -> Nat] /\ tracked \subseteq Tools
  /\ failures \in [Tools -> SUBSET [episode : Episodes, step : 1 .. MaxSteps, ok : {FALSE}]]
  /\ success \in [Tools -> SUBSET (1 .. MaxSteps)]
  /\ \A t \in Tools : Cardinality(success[t]) <= 1 /\ (failures[t] # {} => t \in tracked)
  /\ queue \in Seq(Tools)
  /\ \A r \in Runner :
       /\ run[r].stage \in Stage /\ run[r].context \subseteq Contexts
       /\ run[r].started \in 0 .. now
       /\ run[r].ids \subseteq {p \in Policies : policy[p] # NoRow}
  /\ repairs \in [Contexts -> Seq(0 .. now)]
  /\ policy \in [Policies -> Row \cup {NoRow, Gone}]

\* "Hand ownership directly to a successor so that job cannot remain stranded
\* while the subscriber appears idle" (subscriber.ts): a repair job that waits has
\* somebody who will take it, whenever it came.
NoJobStranded == run["queue"].stage = "idle" => queue = <<>>

\* The cooldown is read before a draft is awaited and the row is written after:
\* because jobs wait for one another, the repairs of a tool are still a cooldown
\* apart, a restart included.
RepairsKeepTheirDistance ==
  \A t \in Tools : \A i, j \in DOMAIN repairs[t] :
    i < j => repairs[t][j] - repairs[t][i] >= Cooldown

\* Both, and the types: a job is neither forgotten nor done twice.
RepairsAddUp == TypeOK /\ NoJobStranded /\ RepairsKeepTheirDistance

OfOneEpisode(outcomes) == \A a, b \in outcomes : a.episode = b.episode

\* The outcomes of the last window of steps.
Recent(outcomes) ==
  {o \in outcomes : \A other \in outcomes : o.step > other.step - Window}

\* A job is enqueued, or begun, for a tool that has failed as often as the
\* threshold says within the window and has not succeeded there; whatever the
\* tracker has pruned and trimmed since it was cleared.  (Steps are counted anew in
\* every episode: only the outcomes of one episode can be compared.)
BurstIsAStreak ==
  [][\A t \in Tools :
       \A o \in seen'[t] \ seen[t] :
         <<queue, run>>' # <<queue, run>> /\ OfOneEpisode(seen'[t]) =>
           /\ Cardinality(Recent(seen'[t])) >= Threshold
           /\ \A other \in Recent(seen'[t]) : ~other.ok]_vars

\* Guidance is written by repairs that have awaited a draft, by experiences and by
\* the viewer: none of them loses a line of another, and none brings a deleted
\* policy back.
GuidanceStands ==
  [][\A p \in Policies :
       /\ policy[p] = Gone => policy'[p] = Gone
       /\ Exists(p) => policy'[p] = Gone \/ policy[p].guidance \subseteq policy'[p].guidance]_vars

\* The polarity that sums up what was heard, in whatever order.
SummedUp(heard) ==
  IF {"positive", "negative"} \subseteq heard THEN "mixed"
  ELSE IF "positive" \in heard THEN "positive"
  ELSE IF "negative" \in heard THEN "negative" ELSE "neutral"

\* hasSuccessAnchor of core/skill/eligibility.ts
HasSuccessAnchor(row) ==
  row.eligible /\ row.type # "instruction" /\ row.polarity \in {"positive", "mixed"}

\* A policy's evidence is what its feedback said, in any order; and a skill is
\* made only of one that has worked at least once.
EvidenceAddsUp ==
  \A p \in Policies : Exists(p) =>
    /\ policy[p].polarity = SummedUp(policy[p].heard)
    /\ HasSuccessAnchor(policy[p]) => "positive" \in policy[p].heard

\* submitFeedback waits for every repair there is, and returns.
FeedbackReturns == \A f \in Feedbacks : run[f].stage # "idle" ~> run[f].stage = "idle"
=============================================================================
