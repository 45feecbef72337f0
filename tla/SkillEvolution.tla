--------------------------- MODULE SkillEvolution ---------------------------
(***************************************************************************)
(* How policies become skills, and how skills are tried, promoted and      *)
(* archived: core/skill/skill.ts, subscriber.ts, eligibility.ts,           *)
(* packager.ts, lifecycle.ts and the tables skills and skill_trials.       *)
(*                                                                         *)
(* A run over a policy reads the policy and its skill, awaits the model    *)
(* for a draft, awaits the embedder, and writes the whole row of the       *)
(* skill.  Triggered runs wait in one queue; a run asked for by a feedback *)
(* does not.  In the meantime trials are recorded and judged, the hourly   *)
(* lifecycle tick promotes and archives, and the viewer edits.             *)
(*                                                                         *)
(* eta is "low" (below archiveEta, which is minEtaForRetrieval by default) *)
(* or "fair".  The time stamps updatedAt of a skill and of its policy are  *)
(* compared, never read: a skill is current when its own is not older.     *)
(***************************************************************************)
EXTENDS Integers, Sequences, FiniteSets, SequencesExt

CONSTANTS
  Policies, Episodes,
  MaxSkills,         \* bound on the skills that are ever crystallized
  CandidateTrials,
  MaxEvents          \* bound on everything that comes from outside, trials excepted

Skills  == 1 .. MaxSkills
NoSkill == 0

ASSUME SkillAssumption ==
  /\ IsFiniteSet(Policies)
  /\ MaxSkills \in Nat /\ CandidateTrials \in Nat \ {0} /\ MaxEvents \in Nat

VARIABLES
  policy,     \* what a policy is good for
  skill,      \* the skills table
  trial,      \* the pending rows of skill_trials
  run,        \* the frame of the queue's run and of the manual one
  queue,      \* queued: the policies whose runs are asked for
  waiting,    \* pendingRewardPolicies
  cooling,    \* the policies whose lastRewardRunAt is within cooldownMs
  judged,     \* how often a trial of each skill has passed or failed
  happened,   \* which of the rarer things have happened
  events      \* how many events there have been

vars == <<policy, skill, trial, run, queue, waiting, cooling, judged, happened, events>>

Eta    == {"low", "fair"}
Live   == {"candidate", "active"}
Row    == [status : Live \cup {"archived"}, policy : Policies, eta : Eta, guided : BOOLEAN,
           attempted : Nat, passed : Nat, current : BOOLEAN]
NoRow  == [status |-> "none"]
Gone   == [status |-> "deleted"]
Rare   == {"manual", "reactivated"}
Runner == {"queue", "manual"}
Stage  == {"idle", "drafting", "embedding", "next", "leaving"}
Idle   == [stage |-> "idle", policy |-> {}, copy |-> NoSkill, row |-> NoRow, behind |-> FALSE]

Init ==
  /\ policy = [p \in Policies |-> "inactive"]
  /\ skill = [s \in Skills |-> NoRow]
  /\ trial = {}
  /\ run = [r \in Runner |-> Idle]
  /\ queue = <<>>
  /\ waiting = {} /\ cooling = {}
  /\ judged = [s \in Skills |-> 0]
  /\ happened = {} /\ events = 0

Event == events < MaxEvents /\ events' = events + 1

Exists(s) == skill[s] \notin {NoRow, Gone}
Unused    == {s \in Skills : skill[s] = NoRow /\ \A t \in 1 .. s - 1 : skill[t] # NoRow}

-----------------------------------------------------------------------------
(* A run, up to its first await.                                           *)

Over(r) == [Idle EXCEPT !.stage = IF r = "queue" THEN "next" ELSE "idle"]

\* Mutant: only the skills in use count.
IndexActive(p, rows) == {s \in Skills : rows[s].status = "active" /\ rows[s].policy = p}

\* Mutant: the archived ones count too.
IndexAll(p, rows) ==
  {s \in Skills : rows[s].status \in Live \cup {"archived"} /\ rows[s].policy = p}

\* buildSkillIndex
Index(p, rows) == {s \in Skills : rows[s].status \in Live /\ rows[s].policy = p}

\* The frames a run over p can have then: a policy that is not worth a skill,
\* one whose skill is current, or one without evidence ends it.
Begun(r, p, rows, worth) ==
  LET drafting(s) == [stage |-> "drafting", policy |-> {p}, copy |-> s,
                      row |-> IF s = NoSkill THEN NoRow ELSE rows[s], behind |-> FALSE]
  IN  IF worth[p] # "good" THEN {Over(r)}
      ELSE IF Index(p, rows) = {} THEN {Over(r), drafting(NoSkill)}
      ELSE {Over(r)} \cup {drafting(s) : s \in {t \in Index(p, rows) : ~rows[t].current}}

\* triggerRun for each policy in turn: the first one starts drain, unless a drain
\* is under way; the others are queued.
Trigger(asked, frames, rows, worth) ==
  LET all == queue \o asked
  IN  IF asked # <<>> /\ run["queue"].stage = "idle"
      THEN /\ queue' = Tail(all)
           /\ \E frame \in Begun("queue", Head(all), rows, worth) :
                run' = [frames EXCEPT !["queue"] = frame]
      ELSE queue' = all /\ run' = frames

-----------------------------------------------------------------------------
(* What triggers runs.                                                     *)

\* l2.policy.induced, or l2.policy.updated: the policy is newer than its skills,
\* and than a row whose time stamp a run has already taken.
PolicyUpdate(p) ==
  /\ Event
  /\ \E worth \in {"inactive", "weak", "good"}, induced \in BOOLEAN :
       /\ policy' = [policy EXCEPT ![p] = worth]
       /\ skill' = [s \in Skills |-> IF Exists(s) /\ skill[s].policy = p
                                     THEN [skill[s] EXCEPT !.current = FALSE] ELSE skill[s]]
       /\ Trigger(IF induced \/ worth # "inactive" THEN <<p>> ELSE <<>>,
                  [r \in Runner |-> IF run[r].stage = "embedding" /\ run[r].policy = {p}
                                    THEN [run[r] EXCEPT !.behind = TRUE] ELSE run[r]],
                  skill', policy')
  /\ UNCHANGED <<trial, waiting, cooling, judged, happened>>

\* scheduleRewardRuns: the policies out of their cooldown get a run, the others wait.
Schedule(pending, rows) ==
  LET due == pending \ cooling
  IN  /\ waiting' = pending \ due
      /\ cooling' = cooling \cup due
      /\ \E asked \in SetToSeqs(due) : Trigger(asked, run, rows, policy)

\* Mutant: no verdict counts as a failure.
JudgedHarshly(outcome) == TRUE

Judged(outcome) == outcome \in {"pass", "fail"}

\* applyTrial; what a failed trial makes of eta is data.  (A passed one leaves it
\* above 1 / (attempted + 2), which is fair within the bounds here.)
Tried(row, passed, eta) ==
  LET attempted == row.attempted + 1
      status == IF row.status = "candidate" /\ attempted >= CandidateTrials
                THEN IF eta = "fair" THEN "active" ELSE "archived"
                ELSE row.status
  IN  [row EXCEPT !.attempted = attempted, !.passed = @ + (IF passed THEN 1 ELSE 0),
         !.eta = eta, !.current = TRUE,
         !.status = IF status = "active" /\ eta = "low" THEN "archived" ELSE status]

\* skills.upsert is INSERT OR REPLACE: the trials of the row that is replaced are
\* deleted with it.
TrialsWithout(replaced) == {t \in trial : t[1] \notin replaced}

\* reward.updated: the pending trials of the episode are resolved, and the policies
\* it is linked to are to be looked at again.
Reward(e) ==
  /\ Event
  /\ \E outcome \in {"pass", "fail", "unknown"}, eta \in [Skills -> Eta],
        related \in SUBSET {p \in Policies : policy[p] # "inactive"} :
       LET tried == {s \in Skills : <<s, e>> \in trial}
           hit   == IF Judged(outcome) THEN tried ELSE {}
       IN  /\ \A s \in Skills \ hit : eta[s] = "low"
           /\ outcome = "pass" => \A s \in hit : eta[s] = "fair"
           /\ skill' = [s \in Skills |-> IF s \in hit THEN Tried(skill[s], outcome = "pass", eta[s])
                                         ELSE skill[s]]
           /\ judged' = [s \in Skills |->
                IF s \in tried /\ outcome # "unknown" THEN judged[s] + 1 ELSE judged[s]]
           /\ trial' = {t \in TrialsWithout(hit) : t[2] # e}
           /\ Schedule(waiting \cup related, skill')
  /\ UNCHANGED <<policy, happened>>

\* The cooldown of a policy ends, and later the timer looks again.
CooldownEnds(p) ==
  /\ p \in cooling
  /\ cooling' = cooling \ {p}
  /\ UNCHANGED <<policy, skill, trial, run, queue, waiting, judged, happened, events>>

\* Mutant: no timer is armed for the policies that wait.
Unarmed == {}

Armed == waiting \ cooling

TimerFires ==
  /\ Armed # {}
  /\ Schedule(waiting, skill)
  /\ UNCHANGED <<policy, skill, trial, judged, happened, events>>

\* runOnce after a feedback on the policy, beside the queue.  Bound: one at a time.
ManualRun(p) ==
  /\ run["manual"].stage = "idle" /\ policy[p] # "inactive"
  /\ Event /\ happened' = happened \cup {"manual"}
  /\ \E frame \in Begun("manual", p, skill, policy) : run' = [run EXCEPT !["manual"] = frame]
  /\ UNCHANGED <<policy, skill, trial, queue, waiting, cooling, judged>>

-----------------------------------------------------------------------------
(* A run after its awaits.                                                 *)

\* The draft is there and is accepted, and buildSkillRow has taken the time; or
\* there is none, and the run is over.
DraftAnswered(r) ==
  /\ run[r].stage = "drafting"
  /\ run' = [run EXCEPT ![r] = Over(r)] \/ run' = [run EXCEPT ![r].stage = "embedding"]
  /\ UNCHANGED <<policy, skill, trial, queue, waiting, cooling, judged, happened, events>>

\* The row of a rebuild: a candidate, with the counters of the skill as the run
\* has read it.
Rebuilt(frame, guided) ==
  [frame.row EXCEPT !.status = "candidate", !.guided = guided, !.current = ~frame.behind,
     !.eta = IF frame.row.attempted > 0 THEN @ ELSE "fair"]

Crystallized(frame, guided) ==
  [status |-> "candidate", policy |-> CHOOSE p \in Policies : frame.policy = {p}, eta |-> "fair",
   guided |-> guided, attempted |-> 0, passed |-> 0, current |-> ~frame.behind]

\* The vector is there, or is not: the row is written.  The name the model chose
\* may be that of another skill, whose row is then replaced too.
Written(r) ==
  \E s \in IF run[r].copy = NoSkill THEN Unused ELSE {run[r].copy}, guided \in BOOLEAN :
  \E namesake \in SUBSET {t \in Skills \ {s} : Exists(t)} :
    /\ Cardinality(namesake) <= 1
    /\ skill' = [t \in Skills |->
         IF t = s THEN IF run[r].copy = NoSkill THEN Crystallized(run[r], guided)
                       ELSE Rebuilt(run[r], guided)
         ELSE IF t \in namesake THEN Gone ELSE skill[t]]
    /\ trial' = TrialsWithout(namesake \cup {s})

Save(r) ==
  /\ run[r].stage = "embedding"
  /\ Written(r) \/ UNCHANGED <<skill, trial>>   \* the statement may fail
  /\ run' = [run EXCEPT ![r] = Over(r)]
  /\ UNCHANGED <<policy, queue, waiting, cooling, judged, happened, events>>

\* drain looks at the queue again.
AfterRun ==
  IF queue = <<>>
  THEN run' = [run EXCEPT !["queue"].stage = "leaving"] /\ UNCHANGED queue
  ELSE /\ queue' = Tail(queue)
       /\ \E frame \in Begun("queue", Head(queue), skill, policy) :
            run' = [run EXCEPT !["queue"] = frame]

NextItem ==
  /\ run["queue"].stage = "next"
  /\ AfterRun
  /\ UNCHANGED <<policy, skill, trial, waiting, cooling, judged, happened, events>>

\* inflight is cleared one microtask after drain has looked for the last time.
Leave ==
  /\ run["queue"].stage = "leaving"
  /\ run' = [run EXCEPT !["queue"].stage = "idle"]
  /\ UNCHANGED <<policy, skill, trial, queue, waiting, cooling, judged, happened, events>>

-----------------------------------------------------------------------------
(* Trials, the lifecycle tick, the viewer, and the loss of the process.    *)

\* memos_skill_get: recordSkillTrial.
Try(s, e) ==
  /\ Exists(s) /\ <<s, e>> \notin trial
  /\ trial' = trial \cup {<<s, e>>}
  /\ UNCHANGED <<policy, skill, run, queue, waiting, cooling, judged, happened, events>>

\* shouldPromoteCandidate
Promotable(row) == row.status = "candidate" /\ row.eta = "fair" /\ ~row.guided

\* lifecycleTick: which skills have been idle long enough is data.
LifecycleTick ==
  /\ Event
  /\ \E idle \in SUBSET {s \in Skills : skill[s].status = "active" /\ skill[s].eta = "low"} :
       skill' = [s \in Skills |->
         IF Exists(s) /\ Promotable(skill[s])
         THEN [skill[s] EXCEPT !.status = "active", !.current = TRUE]
         ELSE IF s \in idle THEN [skill[s] EXCEPT !.status = "archived", !.current = TRUE]
         ELSE skill[s]]
  /\ skill' # skill
  /\ UNCHANGED <<policy, trial, run, queue, waiting, cooling, judged, happened>>

\* archiveSkill and reactivateSkill
SetStatus(s, status) ==
  /\ Exists(s) /\ skill[s].status # status
  /\ Event /\ happened' = happened \cup (IF status = "active" THEN {"reactivated"} ELSE {})
  /\ skill' = [skill EXCEPT ![s].status = status, ![s].current = TRUE]
  /\ UNCHANGED <<policy, trial, run, queue, waiting, cooling, judged>>

Delete(s) ==
  /\ Exists(s)
  /\ Event
  /\ skill' = [skill EXCEPT ![s] = Gone]
  /\ trial' = TrialsWithout({s})
  /\ UNCHANGED <<policy, run, queue, waiting, cooling, judged, happened>>

Crash ==
  /\ Event
  /\ run' = [r \in Runner |-> Idle]
  /\ queue' = <<>> /\ waiting' = {} /\ cooling' = {}
  /\ UNCHANGED <<policy, skill, trial, judged, happened>>

RunStep(r) == DraftAnswered(r) \/ Save(r)

Next ==
  \/ \E p \in Policies : PolicyUpdate(p) \/ CooldownEnds(p) \/ ManualRun(p)
  \/ \E e \in Episodes : Reward(e)
  \/ \E r \in Runner : RunStep(r)
  \/ TimerFires \/ NextItem \/ Leave \/ LifecycleTick \/ Crash
  \/ \E s \in Skills :
       \/ \E e \in Episodes : Try(s, e)
       \/ \E status \in {"active", "archived"} : SetStatus(s, status)
       \/ Delete(s)

Spec == Init /\ [][Next]_vars

\* The model and the embedder answer or time out, time passes, the event loop goes on.
FairSpec ==
  /\ Spec
  /\ \A r \in Runner : WF_vars(RunStep(r))
  /\ \A p \in Policies : WF_vars(CooldownEnds(p))
  /\ WF_vars(TimerFires) /\ WF_vars(NextItem) /\ WF_vars(Leave)

-----------------------------------------------------------------------------
(* Properties.                                                             *)

TypeOK ==
  /\ policy \in [Policies -> {"inactive", "weak", "good"}]
  /\ skill \in [Skills -> Row \cup {NoRow, Gone}]
  /\ trial \subseteq {s \in Skills : Exists(s)} \X Episodes
  /\ \A r \in Runner :
       /\ run[r].stage \in Stage
       /\ run[r].copy # NoSkill => run[r].row \in Row /\ {run[r].row.policy} = run[r].policy
  /\ queue \in Seq(Policies)
  /\ waiting \subseteq Policies /\ cooling \subseteq Policies
  /\ judged \in [Skills -> Nat] /\ happened \subseteq Rare

\* A skill is never credited with a trial nobody judged, whatever copy of its
\* counters a run writes back.
CreditIsJudged ==
  \A s \in Skills : Exists(s) => /\ skill[s].passed <= skill[s].attempted
                                 /\ skill[s].attempted <= judged[s]

\* Runs are queued so that a policy has one live skill; only a run beside the
\* queue, or a skill the viewer brings back, makes a second one.
OneLiveSkill ==
  happened = {} => \A p \in Policies : Cardinality(Index(p, skill)) <= 1

\* Both, and the types: runs over one policy neither forge a credit nor a second skill.
SkillsAddUp == TypeOK /\ CreditIsJudged /\ OneLiveSkill

\* An archived or deleted skill comes back by the viewer, or by the end of a run
\* that read it before.
RetiredStands ==
  [][\A s \in Skills :
       skill[s].status \in {"archived", "deleted"} /\ skill'[s].status \in Live =>
         \/ SetStatus(s, "active")
         \/ \E r \in Runner : run[r].copy = s /\ run[r].row.status \in Live]_vars

\* "A reward event received during cooldown is coalesced and drained when that
\* policy becomes eligible" (core/skill/ALGORITHMS.md).
WaitingPolicyRuns == \A p \in Policies : p \in waiting ~> p \notin waiting
=============================================================================
