----------------------------- MODULE WorldModels -----------------------------
(***************************************************************************)
(* How policies become world models: core/memory/l3/l3.ts, subscriber.ts,  *)
(* cluster.ts and merge.ts.                                                *)
(*                                                                         *)
(* A run takes the eligible policies, forms clusters of one domain key,    *)
(* and asks the model for a draft of each in turn, unless the domain is in *)
(* its cooldown or the cluster has failed before and has to wait, or is in *)
(* quarantine.  The draft is merged into a world model or becomes a new    *)
(* one.  Events of L2 start runs of a loop that keeps one replay queued; a *)
(* feedback starts a run of its own, or none if one is under way.          *)
(*                                                                         *)
(* Cooldowns, failures and quarantines are rows of the kv table: they      *)
(* outlive the process.  A run reads the time once, when it begins.        *)
(***************************************************************************)
EXTENDS Integers, FiniteSets

CONSTANTS
  Policies,      \* records with a key (domainKeyOf) and its tag (domainTags[0])
  MinPolicies,
  MaxFailures,   \* MAX_FAILURE_ATTEMPTS
  MaxModels,     \* bound on the world models that are ever created
  MaxEvents      \* bound on policy changes, feedbacks, edits and losses together

Models   == 1 .. MaxModels
Keys     == {p.key : p \in Policies}
Tags     == {p.tag : p \in Policies}
Clusters == {c \in SUBSET Policies :
               Cardinality(c) >= MinPolicies /\ \A p, q \in c : p.key = q.key}

ASSUME WorldModelAssumption ==
  /\ IsFiniteSet(Policies)
  /\ \A p, q \in Policies : p.key = q.key => p.tag = q.tag
  /\ {MinPolicies, MaxFailures} \subseteq Nat \ {0} /\ {MaxModels, MaxEvents} \subseteq Nat

VARIABLES
  eligible,   \* the active policies with enough gain and support
  model,      \* the world_model table
  retry,      \* kv l3.retry.<cluster>: failures and quarantine
  resting,    \* the clusters whose nextRetryAt has not come
  cooling,    \* kv l3.lastRun.<tag>: the tags in their cooldown
  run,        \* the frame of the loop's run and of the manual one
  queued,     \* a replay is queued
  asked,      \* drafts asked for, for each cluster since it last succeeded
  written,    \* world models written, for each tag since its cooldown began
  losses,     \* answers lost, with the process or to a write that throws
  events

vars == <<eligible, model, retry, resting, cooling, run, queued, asked, written, losses, events>>

Row    == [status : {"active", "archived"}, policies : SUBSET Policies]
NoRow  == [status |-> "none"]
Gone   == [status |-> "deleted"]
Retry  == [failures : 0 .. MaxFailures, quarantined : BOOLEAN]
NoRetry == [failures |-> 0, quarantined |-> FALSE]
Runner == {"loop", "manual"}
Stage  == {"idle", "clusters", "drafting", "next", "leaving"}
Idle   == [stage |-> "idle", left |-> {}, cluster |-> {}, resting |-> {}, cooling |-> {}]

Init ==
  /\ eligible = {}
  /\ model = [m \in Models |-> NoRow]
  /\ retry = [c \in Clusters |-> NoRetry]
  /\ resting = {} /\ cooling = {}
  /\ run = [r \in Runner |-> Idle]
  /\ queued = FALSE
  /\ asked = [c \in Clusters |-> 0]
  /\ written = [t \in Tags |-> 0]
  /\ losses = 0 /\ events = 0

Event == events < MaxEvents /\ events' = events + 1

TagOf(c)  == (CHOOSE p \in c : TRUE).tag
Exists(m) == model[m] \notin {NoRow, Gone}
Unused    == {m \in Models : model[m] = NoRow /\ \A n \in 1 .. m - 1 : model[n] # NoRow}
Inflight  == \E r \in Runner : run[r].stage # "idle"

-----------------------------------------------------------------------------
(* Runs begin.                                                             *)

\* clusterPolicies: the strict cohort, or the whole bucket; which is data.
Cohorts(key, pool) ==
  {c \in SUBSET {p \in pool : p.key = key} : Cardinality(c) >= MinPolicies}

\* The frames of a run that begins with these policies: a cluster for each
\* bucket that is large enough.
Begun(pool) ==
  LET keys == {k \in Keys : Cohorts(k, pool) # {}}
  IN  {[stage |-> "clusters", left |-> {cohort[k] : k \in keys}, cluster |-> {},
        resting |-> resting, cooling |-> cooling] :
         cohort \in {f \in [keys -> SUBSET pool] : \A k \in keys : f[k] \in Cohorts(k, pool)}}

\* scheduleRun: the run begins, or is what a run under way is followed by.
Schedule(pool) ==
  IF Inflight THEN queued' = TRUE /\ UNCHANGED run
  ELSE /\ queued' = FALSE
       /\ \E frame \in Begun(pool) : run' = [run EXCEPT !["loop"] = frame]

\* l2.policy.induced, or l2.policy.updated of an active policy: a policy may have
\* become eligible.
PolicyActivated(p) ==
  /\ Event
  /\ eligible' \in {eligible, eligible \cup {p}}
  /\ Schedule(eligible')
  /\ UNCHANGED <<model, retry, resting, cooling, asked, written, losses>>

\* A policy is archived, or loses its gain: nothing is scheduled.
PolicyRetired(p) ==
  /\ p \in eligible
  /\ Event
  /\ eligible' = eligible \ {p}
  /\ UNCHANGED <<model, retry, resting, cooling, run, queued, asked, written, losses>>

\* Mutant: runOnce does not look for a run under way.
FreeForced == run["manual"].stage = "idle"

Free == ~Inflight

\* runOnce after a feedback.
ManualRun ==
  /\ Free
  /\ Event
  /\ \E frame \in Begun(eligible) : run' = [run EXCEPT !["manual"] = frame]
  /\ UNCHANGED <<eligible, model, retry, resting, cooling, queued, asked, written, losses>>

-----------------------------------------------------------------------------
(* One cluster.                                                            *)

\* By the time the run has read, and what it has done itself.
Blocked(r, c) ==
  \/ TagOf(c) \in run[r].cooling
  \/ retry[c].quarantined
  \/ c \in run[r].resting

\* The cluster is passed over; without a centroid or a model it is in any case.
Skip(r, c) == run' = [run EXCEPT ![r].left = @ \ {c}] /\ UNCHANGED asked

Ask(r, c) ==
  /\ ~Blocked(r, c)
  /\ run' = [run EXCEPT ![r].left = @ \ {c}, ![r].cluster = c, ![r].stage = "drafting"]
  /\ asked' = [asked EXCEPT ![c] = @ + 1]

NextCluster(r) ==
  /\ run[r].stage = "clusters"
  /\ \E c \in run[r].left : Skip(r, c) \/ Ask(r, c)
  /\ UNCHANGED <<eligible, model, retry, resting, cooling, queued, written, losses, events>>

\* Mutant: one failure too many.
AfterFailureOffByOne(state, quarantine) ==
  LET failures == IF state.failures < MaxFailures THEN state.failures + 1 ELSE MaxFailures
  IN  [failures |-> failures, quarantined |-> quarantine \/ state.failures >= MaxFailures]

AfterFailure(state, quarantine) ==
  LET failures == IF state.failures < MaxFailures THEN state.failures + 1 ELSE MaxFailures
  IN  [failures |-> failures, quarantined |-> quarantine \/ failures >= MaxFailures]

\* pickByPolicyOverlap: at least 0.6 of the smaller one is shared.
AboutTheSame(c) ==
  {m \in Models : /\ model[m].status = "active"
                  /\ LET q == model[m].policies
                         smaller == IF Cardinality(c) < Cardinality(q) THEN c ELSE q
                     IN  10 * Cardinality(c \cap q) >= 6 * Cardinality(smaller)}

\* gatherMergeCandidates and chooseMergeTarget, after the draft: the draft may name
\* a model it supersedes, archived or not; otherwise policies decide, then vectors.
Write(c) ==
  \/ \E m \in Models : Exists(m) /\ model' = [model EXCEPT ![m].policies = @ \cup c]
  \/ \E m \in Unused :
       /\ AboutTheSame(c) = {}
       /\ model' = [model EXCEPT ![m] = [status |-> "active", policies |-> c]]

\* A write counts that falls into the cooldown of its domain.
WriteCounts(t) == IF t \in cooling THEN [written EXCEPT ![t] = @ + 1] ELSE written

\* recordFailure: the model failed, the prompt was too large for it, or a write threw:
\* that of the row, or one after it, the row then being written all the same.
Fail(r) ==
  LET c == run[r].cluster
  IN  /\ UNCHANGED model \/ Write(c)
      /\ written' = WriteCounts(TagOf(c))
      /\ \E quarantine \in BOOLEAN : retry' = [retry EXCEPT ![c] = AfterFailure(@, quarantine)]
      /\ resting' = resting \cup {c}
      /\ run' = [run EXCEPT ![r].stage = "clusters", ![r].cluster = {}, ![r].resting = @ \cup {c}]
      /\ UNCHANGED <<cooling, asked>>

Save(r) ==
  LET c == run[r].cluster
  IN  /\ Write(c)
      /\ cooling' = cooling \cup {TagOf(c)}
      /\ retry' = [retry EXCEPT ![c] = NoRetry]
      /\ resting' = resting \ {c}
      /\ run' = [run EXCEPT ![r].stage = "clusters", ![r].cluster = {},
                            ![r].cooling = @ \cup {TagOf(c)}]
      /\ asked' = [asked EXCEPT ![c] = 0]
      /\ written' = [written EXCEPT ![TagOf(c)] = @ + 1]

DraftAnswered(r) ==
  /\ run[r].stage = "drafting"
  /\ Fail(r) \/ Save(r)
  /\ UNCHANGED <<eligible, queued, losses, events>>

-----------------------------------------------------------------------------
(* Runs end.                                                               *)

\* triggerRun has nothing to do with the replay that may have been queued.
End(r) == run' = [run EXCEPT ![r] = [Idle EXCEPT !.stage = IF r = "loop" THEN "next" ELSE "idle"]]

RunEnds(r) ==
  /\ run[r].stage = "clusters" /\ run[r].left = {}
  /\ End(r)
  /\ UNCHANGED <<eligible, model, retry, resting, cooling, queued, asked, written,
                 losses, events>>

\* A write of the kv table throws after the draft: that of the failure, of the
\* cooldown, or of the retry row after the cooldown.  runSafely ends the run.
RunBreaks(r) ==
  /\ run[r].stage = "drafting"
  /\ Event /\ losses' = losses + 1
  /\ LET c == run[r].cluster
     IN  \/ /\ UNCHANGED model \/ Write(c)
            /\ written' = WriteCounts(TagOf(c)) /\ UNCHANGED cooling
         \/ /\ Write(c)
            /\ cooling' = cooling \cup {TagOf(c)}
            /\ written' = [written EXCEPT ![TagOf(c)] = @ + 1]
  /\ End(r)
  /\ UNCHANGED <<eligible, retry, resting, queued, asked>>

\* drainQueuedRuns
AfterRun ==
  IF queued
  THEN queued' = FALSE /\ \E frame \in Begun(eligible) : run' = [run EXCEPT !["loop"] = frame]
  ELSE run' = [run EXCEPT !["loop"].stage = "leaving"] /\ UNCHANGED queued

Replay ==
  /\ run["loop"].stage = "next"
  /\ AfterRun
  /\ UNCHANGED <<eligible, model, retry, resting, cooling, asked, written, losses, events>>

\* inflight is cleared one microtask after the loop has looked for the last time.
Leave ==
  /\ run["loop"].stage = "leaving"
  /\ run' = [run EXCEPT !["loop"] = Idle]
  /\ UNCHANGED <<eligible, model, retry, resting, cooling, queued, asked, written,
                 losses, events>>

-----------------------------------------------------------------------------
(* Time, the viewer, and the loss of the process.                          *)

CooldownEnds(t) ==
  /\ t \in cooling
  /\ cooling' = cooling \ {t}
  /\ written' = [written EXCEPT ![t] = 0]
  /\ UNCHANGED <<eligible, model, retry, resting, run, queued, asked, losses, events>>

RetryComes(c) ==
  /\ c \in resting
  /\ resting' = resting \ {c}
  /\ UNCHANGED <<eligible, model, retry, cooling, run, queued, asked, written, losses,
                 events>>

\* archiveWorldModel, unarchiveWorldModel and deleteWorldModel
Edit(m) ==
  /\ Exists(m)
  /\ Event
  /\ \/ model' = [model EXCEPT ![m] = Gone]
     \/ model' = [model EXCEPT ![m].status = IF @ = "active" THEN "archived" ELSE "active"]
  /\ UNCHANGED <<eligible, retry, resting, cooling, run, queued, asked, written, losses>>

Crash ==
  /\ Event /\ losses' = losses + 1
  /\ run' = [r \in Runner |-> Idle]
  /\ queued' = FALSE
  /\ UNCHANGED <<eligible, model, retry, resting, cooling, asked, written>>

RunStep(r) == NextCluster(r) \/ DraftAnswered(r) \/ RunEnds(r) \/ RunBreaks(r)

Next ==
  \/ \E p \in Policies : PolicyActivated(p) \/ PolicyRetired(p)
  \/ \E r \in Runner : RunStep(r)
  \/ ManualRun \/ Replay \/ Leave \/ Crash
  \/ \E t \in Tags : CooldownEnds(t)
  \/ \E c \in Clusters : RetryComes(c)
  \/ \E m \in Models : Edit(m)

Spec == Init /\ [][Next]_vars

-----------------------------------------------------------------------------
(* Properties.                                                             *)

TypeOK ==
  /\ eligible \subseteq Policies
  /\ model \in [Models -> Row \cup {NoRow, Gone}]
  /\ retry \in [Clusters -> Retry]
  /\ resting \subseteq Clusters /\ cooling \subseteq Tags
  /\ \A r \in Runner :
       /\ run[r].stage \in Stage
       /\ run[r].left \subseteq Clusters /\ run[r].cluster \in Clusters \cup {{}}
       /\ run[r].resting \subseteq Clusters /\ run[r].cooling \subseteq Tags
  /\ queued \in BOOLEAN
  /\ asked \in [Clusters -> Nat] /\ written \in [Tags -> Nat]
  /\ losses \in Nat /\ events \in 0 .. MaxEvents

\* The model is asked for a draft of the same policies at most MaxFailures times
\* without success, whatever starts the runs; each loss of the process, and each
\* outcome that cannot be recorded, may cost one answer.
AttemptsBounded == \A c \in Clusters : asked[c] <= MaxFailures + losses

\* In one cooldown of a domain one world model of it is written, also when several
\* clusters share the domain, runs come from several sides, or some break off.  (A
\* model whose run fails after the write begins no cooldown.)
OneWritePerCooldown == \A t \in Tags : written[t] <= 1

\* Both limits hold, with the types, for the runs of the loop and of feedbacks taken together.
LimitsHold == TypeOK /\ AttemptsBounded /\ OneWritePerCooldown
=============================================================================
