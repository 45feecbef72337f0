-------------------------- MODULE WorldModelsProofs --------------------------
(***************************************************************************)
(* Proofs about WorldModels, for all policies and every limit: however the *)
(* runs of the loop and of feedbacks are started, and whatever they have   *)
(* read before a draft comes, the attempts of a cluster are bounded and a  *)
(* domain is written once in its cooldown.                                 *)
(***************************************************************************)
EXTENDS WorldModels, FiniteSetTheorems, TLAPS

Frame == [stage : Stage, left : SUBSET Clusters, cluster : Clusters \cup {{}},
          resting : SUBSET Clusters, cooling : SUBSET Tags]

Drafting(c) == \E r \in Runner : run[r].stage = "drafting" /\ run[r].cluster = c

\* At most one run is under way.
Alone == \A r, s \in Runner : run[r].stage # "idle" /\ run[s].stage # "idle" => r = s

\* A cluster that has failed often enough is in quarantine, and an attempt that is
\* not a failure yet is under way or was lost.
Counted ==
  \A c \in Clusters :
    /\ retry[c].failures >= MaxFailures => retry[c].quarantined
    /\ asked[c] <= retry[c].failures + losses + (IF Drafting(c) THEN 1 ELSE 0)

\* What a run has read of the cooldowns errs on the side of waiting.
Cautious ==
  \A r \in Runner : run[r].stage \in {"clusters", "drafting"} => cooling \subseteq run[r].cooling

\* A draft is awaited only of a cluster that was free to be asked, and still is.
Allowed ==
  \A r \in Runner : run[r].stage = "drafting" =>
    /\ run[r].cluster \in Clusters
    /\ ~retry[run[r].cluster].quarantined
    /\ TagOf(run[r].cluster) \notin run[r].cooling

Rested == \A t \in Tags : written[t] <= IF t \in cooling THEN 1 ELSE 0

IInv ==
  /\ TypeOK /\ run \in [Runner -> Frame]
  /\ Alone /\ Counted /\ Cautious /\ Allowed /\ Rested

-----------------------------------------------------------------------------
(* Clusters and frames.                                                    *)

LEMMA ClusterHasTag ==
  ASSUME NEW c \in Clusters
  PROVE  c # {} /\ c \subseteq Policies /\ TagOf(c) \in Tags
<1>1. c \in SUBSET Policies /\ Cardinality(c) >= MinPolicies BY DEF Clusters
<1>2. c # {} BY <1>1, FS_EmptySet, WorldModelAssumption
<1> QED BY <1>1, <1>2 DEF TagOf, Tags

LEMMA IdleIs ==
  /\ Idle \in Frame /\ Idle.stage = "idle"
  /\ [Idle EXCEPT !.stage = "next"] \in Frame
  /\ [Idle EXCEPT !.stage = "next"].stage = "next"
BY DEF Idle, Frame, Stage

LEMMA BegunIs ==
  ASSUME IInv, NEW pool \in SUBSET Policies, NEW frame \in Begun(pool)
  PROVE  frame \in Frame /\ frame.stage = "clusters" /\ frame.cooling = cooling
<1> DEFINE keys == {k \in Keys : Cohorts(k, pool) # {}}
<1>1. PICK cohort \in [keys -> SUBSET pool] :
        /\ \A k \in keys : cohort[k] \in Cohorts(k, pool)
        /\ frame = [stage |-> "clusters", left |-> {cohort[k] : k \in keys}, cluster |-> {},
                    resting |-> resting, cooling |-> cooling]
  BY DEF Begun
<1>2. \A k \in keys : cohort[k] \in Clusters BY <1>1 DEF Cohorts, Clusters
<1>3. {cohort[k] : k \in keys} \subseteq Clusters BY <1>2
<1>4. resting \subseteq Clusters /\ cooling \subseteq Tags BY DEF IInv, TypeOK
<1>5. "clusters" \in Stage BY DEF Stage
<1> HIDE DEF keys
<1> QED BY <1>1, <1>3, <1>4, <1>5 DEF Frame

LEMMA FrameTypes ==
  ASSUME NEW frames \in [Runner -> Frame]
  PROVE  \A r \in Runner :
           /\ frames[r].stage \in Stage
           /\ frames[r].left \subseteq Clusters /\ frames[r].cluster \in Clusters \cup {{}}
           /\ frames[r].resting \subseteq Clusters /\ frames[r].cooling \subseteq Tags
<1>1. \A f \in Frame : /\ f.stage \in Stage
                       /\ f.left \subseteq Clusters /\ f.cluster \in Clusters \cup {{}}
                       /\ f.resting \subseteq Clusters /\ f.cooling \subseteq Tags
  BY DEF Frame
<1> QED BY <1>1

LEMMA TypesAfter ==
  ASSUME IInv, run' \in [Runner -> Frame],
         eligible' \subseteq Policies, model' \in [Models -> Row \cup {NoRow, Gone}],
         retry' \in [Clusters -> Retry], resting' \subseteq Clusters, cooling' \subseteq Tags,
         queued' \in BOOLEAN, asked' \in [Clusters -> Nat], written' \in [Tags -> Nat],
         losses' \in Nat, events' \in 0 .. MaxEvents
  PROVE  TypeOK'
<1>1. \A r \in Runner :
        /\ run'[r].stage \in Stage
        /\ run'[r].left \subseteq Clusters /\ run'[r].cluster \in Clusters \cup {{}}
        /\ run'[r].resting \subseteq Clusters /\ run'[r].cooling \subseteq Tags
  BY FrameTypes
<1> QED BY <1>1 DEF TypeOK

LEMMA Replaced ==
  ASSUME IInv, NEW r \in Runner, NEW f \in Frame, run' = [run EXCEPT ![r] = f]
  PROVE  /\ run' \in [Runner -> Frame] /\ run'[r] = f
         /\ \A s \in Runner : s # r => run'[s] = run[s]
BY DEF IInv

\* Another frame for the run under way, or for one that begins: as long as it does
\* not ask for a draft, only its cooldowns matter.
LEMMA QuietFrame ==
  ASSUME IInv, NEW r \in Runner, NEW f \in Frame, run' = [run EXCEPT ![r] = f],
         \A s \in Runner : s # r => run[s].stage = "idle",
         run[r].stage # "drafting", f.stage # "drafting",
         f.stage = "clusters" => cooling \subseteq f.cooling,
         UNCHANGED <<retry, cooling, asked, written, losses>>
  PROVE  /\ run' \in [Runner -> Frame]
         /\ Alone' /\ Counted' /\ Cautious' /\ Allowed' /\ Rested'
<1>1. /\ run' \in [Runner -> Frame] /\ run'[r] = f
      /\ \A s \in Runner : s # r => run'[s] = run[s]
  BY Replaced
<1>2. Alone' BY <1>1 DEF Alone
<1>3. \A s \in Runner : run[s].stage # "drafting" /\ run'[s].stage # "drafting" BY <1>1
<1>4. \A c \in Clusters : ~Drafting(c) /\ ~Drafting(c)' BY <1>3 DEF Drafting
<1>5. Counted'
  <2> SUFFICES ASSUME NEW c \in Clusters
               PROVE  (/\ retry[c].failures >= MaxFailures => retry[c].quarantined
                       /\ asked[c] <= retry[c].failures + losses + (IF Drafting(c) THEN 1 ELSE 0))'
    BY DEF Counted
  <2> QED BY <1>4 DEF IInv, Counted
<1>6. Cautious' BY <1>1 DEF Cautious, IInv
<1>7. Allowed' BY <1>3 DEF Allowed
<1>8. Rested' BY DEF IInv, Rested
<1> QED BY <1>1, <1>2, <1>5, <1>6, <1>7, <1>8

LEMMA FrameStays ==
  ASSUME IInv, UNCHANGED <<run, retry, cooling, asked, written, losses>>
  PROVE  /\ run' \in [Runner -> Frame]
         /\ Alone' /\ Counted' /\ Cautious' /\ Allowed' /\ Rested'
BY DEF IInv, Alone, Counted, Drafting, Cautious, Allowed, Rested

LEMMA OthersIdle ==
  ASSUME IInv, NEW r \in Runner, run[r].stage # "idle"
  PROVE  \A s \in Runner : s # r => run[s].stage = "idle"
BY DEF IInv, Alone

-----------------------------------------------------------------------------
(* Runs begin.                                                             *)

LEMMA InitIInv == Init => IInv
<1> SUFFICES ASSUME Init PROVE IInv OBVIOUS
<1>1. \A r \in Runner : run[r].stage = "idle" BY IdleIs DEF Init
<1>2. run \in [Runner -> Frame] BY IdleIs DEF Init
<1>3. \A c \in Clusters : retry[c] = NoRetry /\ asked[c] = 0 /\ ~Drafting(c)
  BY <1>1 DEF Init, Drafting
<1>4. NoRetry \in Retry /\ NoRetry.failures = 0 /\ ~NoRetry.quarantined
  BY WorldModelAssumption DEF NoRetry, Retry
<1>5. TypeOK
  <2>1. \A r \in Runner :
          /\ run[r].stage \in Stage
          /\ run[r].left \subseteq Clusters /\ run[r].cluster \in Clusters \cup {{}}
          /\ run[r].resting \subseteq Clusters /\ run[r].cooling \subseteq Tags
    BY <1>2, FrameTypes
  <2>2. /\ eligible \subseteq Policies /\ resting \subseteq Clusters /\ cooling \subseteq Tags
        /\ model \in [Models -> Row \cup {NoRow, Gone}] /\ queued \in BOOLEAN
    BY DEF Init
  <2>3. /\ retry \in [Clusters -> Retry] /\ asked \in [Clusters -> Nat]
        /\ written \in [Tags -> Nat] /\ losses \in Nat
    BY <1>4 DEF Init
  <2>4. events \in 0 .. MaxEvents BY WorldModelAssumption DEF Init
  <2> QED BY <2>1, <2>2, <2>3, <2>4 DEF TypeOK
<1>6. Alone /\ Cautious /\ Allowed BY <1>1 DEF Alone, Cautious, Allowed
<1>7. Counted
  <2>1. ~(0 >= MaxFailures) BY WorldModelAssumption
  <2>2. losses = 0 BY DEF Init
  <2> QED BY <2>1, <2>2, <1>3, <1>4 DEF Counted
<1>8. Rested BY DEF Init, Rested
<1> QED BY <1>2, <1>5, <1>6, <1>7, <1>8 DEF IInv

LEMMA RunBegins ==
  ASSUME IInv, NEW r \in Runner, NEW pool \in SUBSET Policies, NEW frame \in Begun(pool),
         ~Inflight \/ (r = "loop" /\ run["loop"].stage = "next"),
         run' = [run EXCEPT ![r] = frame],
         UNCHANGED <<retry, cooling, asked, written, losses>>
  PROVE  /\ run' \in [Runner -> Frame]
         /\ Alone' /\ Counted' /\ Cautious' /\ Allowed' /\ Rested'
<1>1. frame \in Frame /\ frame.stage = "clusters" /\ frame.cooling = cooling BY BegunIs
<1>2. \A s \in Runner : s # r => run[s].stage = "idle"
  <2>1. CASE ~Inflight BY <2>1 DEF Inflight
  <2>2. CASE r = "loop" /\ run["loop"].stage = "next" BY <2>2, OthersIdle
  <2> QED BY <2>1, <2>2
<1>3. run[r].stage # "drafting" BY DEF Inflight
<1> QED BY <1>1, <1>2, <1>3, QuietFrame

LEMMA PolicyActivatedKeeps ==
  ASSUME IInv, NEW p \in Policies, PolicyActivated(p) PROVE IInv'
<1>1. eligible' \in SUBSET Policies BY DEF PolicyActivated, IInv, TypeOK
<1>2. UNCHANGED <<model, retry, resting, cooling, asked, written, losses>> BY DEF PolicyActivated
<1>3. Schedule(eligible') BY DEF PolicyActivated
<1>4. /\ run' \in [Runner -> Frame]
      /\ Alone' /\ Counted' /\ Cautious' /\ Allowed' /\ Rested'
  <2>1. CASE Inflight BY <2>1, <1>2, <1>3, FrameStays DEF Schedule
  <2>2. CASE ~Inflight
    <3>1. PICK frame \in Begun(eligible') : run' = [run EXCEPT !["loop"] = frame]
      BY <2>2, <1>3 DEF Schedule
    <3>2. "loop" \in Runner BY DEF Runner
    <3> QED BY <3>1, <3>2, <2>2, <1>1, <1>2, RunBegins
  <2> QED BY <2>1, <2>2
<1>5. queued' \in BOOLEAN BY <1>3 DEF Schedule
<1>6. events' \in 0 .. MaxEvents
  BY WorldModelAssumption DEF PolicyActivated, Event, IInv, TypeOK
<1>7. TypeOK' BY <1>1, <1>2, <1>4, <1>5, <1>6, TypesAfter DEF IInv, TypeOK
<1> QED BY <1>4, <1>7 DEF IInv

LEMMA PolicyRetiredKeeps ==
  ASSUME IInv, NEW p \in Policies, PolicyRetired(p) PROVE IInv'
<1>1. UNCHANGED <<model, retry, resting, cooling, run, queued, asked, written, losses>>
  BY DEF PolicyRetired
<1>2. /\ run' \in [Runner -> Frame]
      /\ Alone' /\ Counted' /\ Cautious' /\ Allowed' /\ Rested'
  BY <1>1, FrameStays
<1>3. eligible' \subseteq Policies /\ events' \in 0 .. MaxEvents
  BY WorldModelAssumption DEF PolicyRetired, Event, IInv, TypeOK
<1>4. TypeOK' BY <1>1, <1>2, <1>3, TypesAfter DEF IInv, TypeOK
<1> QED BY <1>2, <1>4 DEF IInv

LEMMA ManualRunKeeps == ASSUME IInv, ManualRun PROVE IInv'
<1>1. UNCHANGED <<eligible, model, retry, resting, cooling, queued, asked, written, losses>>
  BY DEF ManualRun
<1>2. eligible \in SUBSET Policies BY DEF IInv, TypeOK
<1>3. /\ run' \in [Runner -> Frame]
      /\ Alone' /\ Counted' /\ Cautious' /\ Allowed' /\ Rested'
  <2>1. PICK frame \in Begun(eligible) : run' = [run EXCEPT !["manual"] = frame]
    BY DEF ManualRun
  <2>2. "manual" \in Runner /\ ~Inflight BY DEF Runner, ManualRun, Free
  <2> QED BY <2>1, <2>2, <1>1, <1>2, RunBegins
<1>4. events' \in 0 .. MaxEvents BY WorldModelAssumption DEF ManualRun, Event, IInv, TypeOK
<1>5. TypeOK' BY <1>1, <1>3, <1>4, TypesAfter DEF IInv, TypeOK
<1> QED BY <1>3, <1>5 DEF IInv

-----------------------------------------------------------------------------
(* One cluster.                                                            *)

LEMMA AskIs ==
  ASSUME IInv, NEW r \in Runner, NEW c \in Clusters, Ask(r, c)
  PROVE  \E f \in Frame : /\ run' = [run EXCEPT ![r] = f]
                          /\ f.stage = "drafting" /\ f.cluster = c /\ f.cooling = run[r].cooling
<1> DEFINE f == [run[r] EXCEPT !.left = @ \ {c}, !.cluster = c, !.stage = "drafting"]
<1>1. run[r] \in Frame /\ run \in [Runner -> Frame] BY DEF IInv
<1>2. f \in Frame /\ f.stage = "drafting" /\ f.cluster = c /\ f.cooling = run[r].cooling
  BY <1>1 DEF Frame, Stage
<1>3. run' = [run EXCEPT ![r] = f] BY <1>1 DEF Ask
<1> HIDE DEF f
<1> QED BY <1>2, <1>3

\* A draft is asked for: the cluster is free, so that it has failed fewer times than
\* it may, and no other run awaits a draft.
LEMMA AskKeeps ==
  ASSUME IInv, NEW r \in Runner, NEW c \in Clusters, run[r].stage = "clusters", Ask(r, c),
         UNCHANGED <<retry, cooling, written, losses>>
  PROVE  /\ run' \in [Runner -> Frame] /\ asked' \in [Clusters -> Nat]
         /\ Alone' /\ Counted' /\ Cautious' /\ Allowed' /\ Rested'
<1>1. PICK f \in Frame : /\ run' = [run EXCEPT ![r] = f]
                         /\ f.stage = "drafting" /\ f.cluster = c /\ f.cooling = run[r].cooling
  BY AskIs
<1>2. /\ run' \in [Runner -> Frame] /\ run'[r] = f
      /\ \A s \in Runner : s # r => run'[s] = run[s]
  BY <1>1, Replaced
<1>3. \A s \in Runner : s # r => run[s].stage = "idle" BY OthersIdle
<1>4. asked' = [asked EXCEPT ![c] = @ + 1] /\ asked \in [Clusters -> Nat]
  BY DEF Ask, IInv, TypeOK
<1>5. TagOf(c) \notin run[r].cooling /\ ~retry[c].quarantined BY DEF Ask, Blocked
<1>6. Alone' BY <1>2, <1>3 DEF Alone
<1>7. Counted'
  <2>1. Drafting(c)' BY <1>1, <1>2 DEF Drafting
  <2>2. \A d \in Clusters : ~Drafting(d) BY <1>3 DEF Drafting
  <2> SUFFICES ASSUME NEW d \in Clusters
               PROVE  (/\ retry[d].failures >= MaxFailures => retry[d].quarantined
                       /\ asked[d] <= retry[d].failures + losses + (IF Drafting(d) THEN 1 ELSE 0))'
    BY DEF Counted
  <2>3. retry[d].failures \in Nat /\ losses \in Nat /\ asked[d] \in Nat
    BY DEF IInv, TypeOK, Retry
  <2>4. /\ retry[d].failures >= MaxFailures => retry[d].quarantined
        /\ asked[d] <= retry[d].failures + losses
    BY <2>2, <2>3 DEF IInv, Counted
  <2>5. CASE d = c BY <2>1, <2>3, <2>4, <2>5, <1>4
  <2>6. CASE d # c BY <2>3, <2>4, <2>6, <1>4
  <2> QED BY <2>5, <2>6
<1>8. Cautious' BY <1>1, <1>2 DEF Cautious, IInv
<1>9. Allowed' BY <1>1, <1>2, <1>3, <1>5 DEF Allowed
<1>10. Rested' BY DEF IInv, Rested
<1>11. asked' \in [Clusters -> Nat] BY <1>4
<1> QED BY <1>2, <1>6, <1>7, <1>8, <1>9, <1>10, <1>11

LEMMA NextClusterKeeps == ASSUME IInv, NEW r \in Runner, NextCluster(r) PROVE IInv'
<1>1. UNCHANGED <<eligible, model, retry, resting, cooling, queued, written, losses, events>>
  BY DEF NextCluster
<1>2. run[r].stage = "clusters" BY DEF NextCluster
<1>3. PICK c \in run[r].left : Skip(r, c) \/ Ask(r, c) BY DEF NextCluster
<1>4. c \in Clusters BY <1>3 DEF IInv, TypeOK
<1>5. /\ run' \in [Runner -> Frame] /\ asked' \in [Clusters -> Nat]
      /\ Alone' /\ Counted' /\ Cautious' /\ Allowed' /\ Rested'
  <2>1. CASE Ask(r, c) BY <2>1, <1>1, <1>2, <1>4, AskKeeps
  <2>2. CASE Skip(r, c)
    <3> DEFINE f == [run[r] EXCEPT !.left = @ \ {c}]
    <3>1. run[r] \in Frame /\ run \in [Runner -> Frame] BY DEF IInv
    <3>2. f \in Frame /\ f.stage = "clusters" /\ f.cooling = run[r].cooling
      BY <3>1, <1>2 DEF Frame
    <3>3. run' = [run EXCEPT ![r] = f] BY <3>1, <2>2 DEF Skip
    <3>4. cooling \subseteq run[r].cooling BY <1>2 DEF IInv, Cautious
    <3>5. \A s \in Runner : s # r => run[s].stage = "idle" BY <1>2, OthersIdle
    <3>6. UNCHANGED asked /\ asked \in [Clusters -> Nat] BY <2>2 DEF Skip, IInv, TypeOK
    <3> HIDE DEF f
    <3>7. /\ run' \in [Runner -> Frame]
          /\ Alone' /\ Counted' /\ Cautious' /\ Allowed' /\ Rested'
      BY <3>2, <3>3, <3>4, <3>5, <3>6, <1>1, <1>2, QuietFrame
    <3> QED BY <3>6, <3>7
  <2> QED BY <1>3, <2>1, <2>2
<1>6. TypeOK' BY <1>1, <1>5, TypesAfter DEF IInv, TypeOK
<1> QED BY <1>5, <1>6 DEF IInv

\* The draft has come, or failed: no draft is awaited any more, and none but the one
\* of this cluster was.
LEMMA AnswerCame ==
  ASSUME IInv, NEW r \in Runner, run[r].stage = "drafting",
         NEW f \in Frame, f.stage = "clusters", cooling' \subseteq f.cooling,
         run' = [run EXCEPT ![r] = f]
  PROVE  /\ run' \in [Runner -> Frame] /\ Alone' /\ Cautious' /\ Allowed'
         /\ \A c \in Clusters : ~Drafting(c)' /\ (c # run[r].cluster => ~Drafting(c))
<1>1. /\ run' \in [Runner -> Frame] /\ run'[r] = f
      /\ \A s \in Runner : s # r => run'[s] = run[s]
  BY Replaced
<1>2. \A s \in Runner : s # r => run[s].stage = "idle" BY OthersIdle
<1>3. Alone' BY <1>1, <1>2 DEF Alone
<1>4. Cautious' BY <1>1, <1>2 DEF Cautious
<1>5. Allowed' BY <1>1, <1>2 DEF Allowed
<1>6. \A c \in Clusters : ~Drafting(c)' /\ (c # run[r].cluster => ~Drafting(c))
  BY <1>1, <1>2 DEF Drafting
<1> QED BY <1>1, <1>3, <1>4, <1>5, <1>6

\* What is known of the cluster a draft is awaited of: it may fail once more.
LEMMA DraftedIs ==
  ASSUME IInv, NEW r \in Runner, run[r].stage = "drafting"
  PROVE  LET c == run[r].cluster
         IN  /\ c \in Clusters /\ TagOf(c) \in Tags
             /\ TagOf(c) \notin run[r].cooling /\ TagOf(c) \notin cooling
             /\ retry[c] \in Retry /\ retry[c].failures < MaxFailures
             /\ asked[c] <= retry[c].failures + losses + 1
<1> DEFINE c == run[r].cluster
<1>1. c \in Clusters /\ ~retry[c].quarantined /\ TagOf(c) \notin run[r].cooling
  BY DEF IInv, Allowed
<1>2. TagOf(c) \in Tags BY <1>1, ClusterHasTag
<1>3. cooling \subseteq run[r].cooling BY DEF IInv, Cautious
<1>4. retry[c] \in Retry /\ asked[c] \in Nat /\ losses \in Nat BY <1>1 DEF IInv, TypeOK
<1>5. retry[c].failures \in Nat /\ MaxFailures \in Nat
  BY <1>4, WorldModelAssumption DEF Retry
<1>6. retry[c].failures < MaxFailures BY <1>1, <1>5 DEF IInv, Counted
<1>7. asked[c] <= retry[c].failures + losses + 1
  <2>1. Drafting(c) BY DEF Drafting
  <2> QED BY <1>1, <2>1 DEF IInv, Counted
<1> QED BY <1>1, <1>2, <1>3, <1>4, <1>6, <1>7

LEMMA AfterFailureIs ==
  ASSUME NEW state \in Retry, state.failures < MaxFailures, NEW quarantine \in BOOLEAN
  PROVE  LET next == AfterFailure(state, quarantine)
         IN  /\ next \in Retry /\ next.failures = state.failures + 1
             /\ next.failures >= MaxFailures => next.quarantined
<1> DEFINE next == AfterFailure(state, quarantine)
<1>1. state.failures \in Nat /\ MaxFailures \in Nat BY WorldModelAssumption DEF Retry
<1>2. /\ next.failures = state.failures + 1
      /\ next.quarantined = (quarantine \/ state.failures + 1 >= MaxFailures)
      /\ next = [failures |-> state.failures + 1,
                 quarantined |-> quarantine \/ state.failures + 1 >= MaxFailures]
  BY <1>1 DEF AfterFailure
<1>3. next \in Retry
  <2>1. state.failures + 1 \in 0 .. MaxFailures BY <1>1
  <2>2. (quarantine \/ state.failures + 1 >= MaxFailures) \in BOOLEAN OBVIOUS
  <2> QED BY <1>2, <2>1, <2>2 DEF Retry
<1>4. next.failures >= MaxFailures => next.quarantined BY <1>2
<1> QED BY <1>2, <1>3, <1>4

LEMMA WriteTypes ==
  ASSUME IInv, NEW c \in Clusters, Write(c)
  PROVE  model' \in [Models -> Row \cup {NoRow, Gone}]
<1>1. model \in [Models -> Row \cup {NoRow, Gone}] BY DEF IInv, TypeOK
<1>2. c \subseteq Policies BY ClusterHasTag
<1>3. ASSUME NEW m \in Models, Exists(m), model' = [model EXCEPT ![m].policies = @ \cup c]
      PROVE  model' \in [Models -> Row \cup {NoRow, Gone}]
  <2>1. model[m] \in Row BY <1>1, <1>3 DEF Exists
  <2>2. [model[m] EXCEPT !.policies = @ \cup c] \in Row BY <1>2, <2>1 DEF Row
  <2> QED BY <1>1, <1>3, <2>2
<1>4. ASSUME NEW m \in Unused,
             model' = [model EXCEPT ![m] = [status |-> "active", policies |-> c]]
      PROVE  model' \in [Models -> Row \cup {NoRow, Gone}]
  <2>1. [status |-> "active", policies |-> c] \in Row BY <1>2 DEF Row
  <2> QED BY <1>1, <1>4, <2>1 DEF Unused
<1> QED BY <1>3, <1>4 DEF Write

LEMMA FailKeeps ==
  ASSUME IInv, NEW r \in Runner, run[r].stage = "drafting", Fail(r),
         UNCHANGED <<eligible, queued, losses, events>>
  PROVE  IInv'
<1> DEFINE c == run[r].cluster
<1>1. /\ c \in Clusters /\ retry[c] \in Retry /\ retry[c].failures < MaxFailures
      /\ asked[c] <= retry[c].failures + losses + 1
  BY DraftedIs
<1>2. PICK quarantine \in BOOLEAN :
        retry' = [retry EXCEPT ![c] = AfterFailure(retry[c], quarantine)]
  BY DEF Fail
<1>3. PICK next \in Retry : /\ retry' = [retry EXCEPT ![c] = next]
                            /\ next.failures = retry[c].failures + 1
                            /\ next.failures >= MaxFailures => next.quarantined
  BY <1>1, <1>2, AfterFailureIs
<1>4. retry \in [Clusters -> Retry] /\ retry' \in [Clusters -> Retry]
  BY <1>3 DEF IInv, TypeOK
<1>5. PICK f \in Frame : /\ run' = [run EXCEPT ![r] = f]
                         /\ f.stage = "clusters" /\ f.cooling = run[r].cooling
  <2> DEFINE f == [run[r] EXCEPT !.stage = "clusters", !.cluster = {}, !.resting = @ \cup {c}]
  <2>1. run[r] \in Frame /\ run \in [Runner -> Frame] BY DEF IInv
  <2>2. f \in Frame /\ f.stage = "clusters" /\ f.cooling = run[r].cooling
    BY <2>1, <1>1 DEF Frame, Stage
  <2>3. run' = [run EXCEPT ![r] = f] BY <2>1 DEF Fail
  <2> HIDE DEF f
  <2> QED BY <2>2, <2>3
<1>6. /\ UNCHANGED <<cooling, asked, written>> /\ resting' = resting \cup {c}
  <2>1. TagOf(c) \notin cooling BY DraftedIs
  <2> QED BY <2>1 DEF Fail, WriteCounts
<1>13. model' \in [Models -> Row \cup {NoRow, Gone}]
  BY <1>1, WriteTypes DEF Fail, IInv, TypeOK
<1>7. cooling' \subseteq f.cooling BY <1>5, <1>6 DEF IInv, Cautious
<1>8. /\ run' \in [Runner -> Frame] /\ Alone' /\ Cautious' /\ Allowed'
      /\ \A d \in Clusters : ~Drafting(d)' /\ (d # c => ~Drafting(d))
  BY <1>5, <1>7, AnswerCame
<1>9. Counted'
  <2> SUFFICES ASSUME NEW d \in Clusters
               PROVE  (/\ retry[d].failures >= MaxFailures => retry[d].quarantined
                       /\ asked[d] <= retry[d].failures + losses + (IF Drafting(d) THEN 1 ELSE 0))'
    BY DEF Counted
  <2>1. /\ retry[d].failures \in Nat /\ losses \in Nat /\ asked[d] \in Nat
        /\ asked'[d] = asked[d] /\ losses' = losses
    BY <1>4, <1>6 DEF IInv, TypeOK, Retry
  <2>2. CASE d = c
    <3>1. retry'[d] = next BY <1>1, <1>3, <1>4, <2>2
    <3> QED BY <3>1, <2>1, <2>2, <1>1, <1>3, <1>8
  <2>3. CASE d # c
    <3>1. retry'[d] = retry[d] BY <1>3, <1>4, <2>3
    <3>2. /\ retry[d].failures >= MaxFailures => retry[d].quarantined
          /\ asked[d] <= retry[d].failures + losses
      BY <1>8, <2>1, <2>3 DEF IInv, Counted
    <3> QED BY <3>1, <3>2, <2>1, <1>8
  <2> QED BY <2>2, <2>3
<1>10. Rested' BY <1>6 DEF IInv, Rested
<1>11. resting' \subseteq Clusters BY <1>1, <1>6 DEF IInv, TypeOK
<1>12. TypeOK' BY <1>4, <1>6, <1>8, <1>11, <1>13, TypesAfter DEF IInv, TypeOK
<1> QED BY <1>8, <1>9, <1>10, <1>12 DEF IInv

\* The domain was not in its cooldown, now or when the run read it: nothing has been
\* written in one that lasts.
LEMMA SaveKeeps ==
  ASSUME IInv, NEW r \in Runner, run[r].stage = "drafting", Save(r),
         UNCHANGED <<eligible, queued, losses, events>>
  PROVE  IInv'
<1> DEFINE c == run[r].cluster
           t == TagOf(c)
<1>1. /\ c \in Clusters /\ t \in Tags /\ t \notin run[r].cooling /\ t \notin cooling
  BY DraftedIs
<1>2. /\ Write(c) /\ cooling' = cooling \cup {t} /\ retry' = [retry EXCEPT ![c] = NoRetry]
      /\ resting' = resting \ {c} /\ asked' = [asked EXCEPT ![c] = 0]
      /\ written' = [written EXCEPT ![t] = @ + 1]
  BY DEF Save
<1>3. /\ retry \in [Clusters -> Retry] /\ asked \in [Clusters -> Nat]
      /\ written \in [Tags -> Nat] /\ cooling \subseteq Tags /\ losses \in Nat
  BY DEF IInv, TypeOK
<1>4. NoRetry \in Retry /\ NoRetry.failures = 0 /\ MaxFailures \in Nat \ {0}
  BY WorldModelAssumption DEF NoRetry, Retry
<1> HIDE DEF t
<1>5. PICK f \in Frame : /\ run' = [run EXCEPT ![r] = f]
                         /\ f.stage = "clusters" /\ f.cooling = run[r].cooling \cup {t}
  <2> DEFINE f == [run[r] EXCEPT !.stage = "clusters", !.cluster = {}, !.cooling = @ \cup {t}]
  <2>1. run[r] \in Frame /\ run \in [Runner -> Frame] BY DEF IInv
  <2>2. f \in Frame /\ f.stage = "clusters" /\ f.cooling = run[r].cooling \cup {t}
    BY <2>1, <1>1 DEF Frame, Stage
  <2>3. run' = [run EXCEPT ![r] = f] BY <2>1 DEF Save, t
  <2> HIDE DEF f
  <2> QED BY <2>2, <2>3
<1>6. cooling' \subseteq f.cooling
  <2>1. cooling \subseteq run[r].cooling BY DEF IInv, Cautious
  <2> QED BY <2>1, <1>2, <1>5
<1>7. /\ run' \in [Runner -> Frame] /\ Alone' /\ Cautious' /\ Allowed'
      /\ \A d \in Clusters : ~Drafting(d)' /\ (d # c => ~Drafting(d))
  BY <1>5, <1>6, AnswerCame
<1>8. Counted'
  <2> SUFFICES ASSUME NEW d \in Clusters
               PROVE  (/\ retry[d].failures >= MaxFailures => retry[d].quarantined
                       /\ asked[d] <= retry[d].failures + losses + (IF Drafting(d) THEN 1 ELSE 0))'
    BY DEF Counted
  <2>1. CASE d = c BY <1>2, <1>3, <1>4, <1>7, <2>1
  <2>2. CASE d # c
    <3>1. retry'[d] = retry[d] /\ asked'[d] = asked[d] BY <1>2, <1>3, <2>2
    <3>2. retry[d].failures \in Nat /\ asked[d] \in Nat BY <1>3 DEF Retry
    <3>3. /\ retry[d].failures >= MaxFailures => retry[d].quarantined
          /\ asked[d] <= retry[d].failures + losses
      BY <3>2, <1>3, <1>7, <2>2 DEF IInv, Counted
    <3> QED BY <3>1, <3>2, <3>3, <1>3, <1>7
  <2> QED BY <2>1, <2>2
<1>9. Rested'
  <2>1. written[t] = 0 BY <1>1, <1>3 DEF IInv, Rested
  <2>2. ASSUME NEW u \in Tags PROVE written'[u] <= IF u \in cooling' THEN 1 ELSE 0
    <3>1. CASE u = t BY <3>1, <2>1, <1>1, <1>2, <1>3
    <3>2. CASE u # t BY <3>2, <1>2, <1>3 DEF IInv, Rested
    <3> QED BY <3>1, <3>2
  <2> QED BY <2>2 DEF Rested
<1>10. model' \in [Models -> Row \cup {NoRow, Gone}] BY <1>1, <1>2, WriteTypes
<1>11. /\ retry' \in [Clusters -> Retry] /\ asked' \in [Clusters -> Nat]
       /\ written' \in [Tags -> Nat] /\ cooling' \subseteq Tags /\ resting' \subseteq Clusters
  BY <1>1, <1>2, <1>3, <1>4 DEF IInv, TypeOK
<1>12. TypeOK' BY <1>7, <1>10, <1>11, TypesAfter DEF IInv, TypeOK
<1> QED BY <1>7, <1>8, <1>9, <1>12 DEF IInv

LEMMA DraftAnsweredKeeps == ASSUME IInv, NEW r \in Runner, DraftAnswered(r) PROVE IInv'
<1>1. run[r].stage = "drafting" /\ UNCHANGED <<eligible, queued, losses, events>>
  BY DEF DraftAnswered
<1>2. CASE Fail(r) BY <1>1, <1>2, FailKeeps
<1>3. CASE Save(r) BY <1>1, <1>3, SaveKeeps
<1> QED BY <1>2, <1>3 DEF DraftAnswered

-----------------------------------------------------------------------------
(* Runs end.                                                               *)

LEMMA EndIs ==
  ASSUME NEW r \in Runner, End(r)
  PROVE  \E f \in Frame : f.stage \in {"idle", "next"} /\ run' = [run EXCEPT ![r] = f]
<1>1. [Idle EXCEPT !.stage = "idle"] = Idle BY DEF Idle
<1>2. CASE r = "loop" BY <1>2, IdleIs DEF End
<1>3. CASE r # "loop" BY <1>1, <1>3, IdleIs DEF End
<1> QED BY <1>2, <1>3

LEMMA RunEndsKeeps == ASSUME IInv, NEW r \in Runner, RunEnds(r) PROVE IInv'
<1>1. UNCHANGED <<eligible, model, retry, resting, cooling, queued, asked, written,
                  losses, events>>
  BY DEF RunEnds
<1>3. PICK f \in Frame : f.stage \in {"idle", "next"} /\ run' = [run EXCEPT ![r] = f]
  BY EndIs DEF RunEnds
<1>4. run[r].stage = "clusters" BY DEF RunEnds
<1>5. \A s \in Runner : s # r => run[s].stage = "idle" BY <1>4, OthersIdle
<1>6. /\ run' \in [Runner -> Frame]
      /\ Alone' /\ Counted' /\ Cautious' /\ Allowed' /\ Rested'
  BY <1>1, <1>3, <1>4, <1>5, QuietFrame
<1>7. TypeOK' BY <1>1, <1>6, TypesAfter DEF IInv, TypeOK
<1> QED BY <1>6, <1>7 DEF IInv

\* Whatever could not be recorded of a draft, it is one of the losses, and no cooldown
\* lasted in which its model was written.
LEMMA RunBreaksKeeps == ASSUME IInv, NEW r \in Runner, RunBreaks(r) PROVE IInv'
<1> DEFINE c == run[r].cluster
           t == TagOf(c)
<1>1. /\ run[r].stage = "drafting" /\ losses' = losses + 1 /\ Event
      /\ UNCHANGED <<eligible, retry, resting, queued, asked>>
  BY DEF RunBreaks
<1>2. c \in Clusters /\ t \in Tags /\ t \notin cooling
  BY <1>1, DraftedIs
<1>3. /\ UNCHANGED model \/ Write(c)
      /\ \/ UNCHANGED <<cooling, written>>
         \/ cooling' = cooling \cup {t} /\ written' = [written EXCEPT ![t] = @ + 1]
  BY <1>2 DEF RunBreaks, WriteCounts
<1> HIDE DEF t
<1>4. /\ written \in [Tags -> Nat] /\ cooling \subseteq Tags /\ losses \in Nat
      /\ retry \in [Clusters -> Retry] /\ asked \in [Clusters -> Nat]
  BY DEF IInv, TypeOK
<1>5. PICK f \in Frame : f.stage \in {"idle", "next"} /\ run' = [run EXCEPT ![r] = f]
  BY EndIs DEF RunBreaks
<1>6. /\ run' \in [Runner -> Frame] /\ run'[r] = f
      /\ \A s \in Runner : s # r => run'[s] = run[s]
  BY <1>5, Replaced
<1>7. \A s \in Runner : s # r => run[s].stage = "idle" BY <1>1, OthersIdle
<1>8. \A s \in Runner : run'[s].stage \in {"idle", "next"} BY <1>5, <1>6, <1>7
<1>9. Alone' /\ Cautious' /\ Allowed'
  BY <1>6, <1>7, <1>8 DEF Alone, Cautious, Allowed
<1>10. Counted'
  <2> SUFFICES ASSUME NEW d \in Clusters
               PROVE  (/\ retry[d].failures >= MaxFailures => retry[d].quarantined
                       /\ asked[d] <= retry[d].failures + losses + (IF Drafting(d) THEN 1 ELSE 0))'
    BY DEF Counted
  <2>1. retry[d].failures \in Nat /\ asked[d] \in Nat BY <1>4 DEF Retry
  <2>2. /\ retry[d].failures >= MaxFailures => retry[d].quarantined
        /\ asked[d] <= retry[d].failures + losses + 1
    BY <2>1, <1>4 DEF IInv, Counted
  <2>3. ~Drafting(d)' BY <1>8 DEF Drafting
  <2> QED BY <1>1, <1>4, <2>1, <2>2, <2>3
<1>11. Rested'
  <2>1. CASE UNCHANGED <<cooling, written>> BY <2>1 DEF IInv, Rested
  <2>2. CASE cooling' = cooling \cup {t} /\ written' = [written EXCEPT ![t] = @ + 1]
    <3>1. written[t] = 0 BY <1>2, <1>4 DEF IInv, Rested
    <3>2. ASSUME NEW u \in Tags PROVE written'[u] <= IF u \in cooling' THEN 1 ELSE 0
      <4>1. CASE u = t BY <4>1, <3>1, <2>2, <1>2, <1>4
      <4>2. CASE u # t BY <4>2, <2>2, <1>4 DEF IInv, Rested
      <4> QED BY <4>1, <4>2
    <3> QED BY <3>2 DEF Rested
  <2> QED BY <1>3, <2>1, <2>2
<1>12. model' \in [Models -> Row \cup {NoRow, Gone}]
  BY <1>2, <1>3, WriteTypes DEF IInv, TypeOK
<1>13. written' \in [Tags -> Nat] /\ cooling' \subseteq Tags /\ losses' \in Nat
  BY <1>1, <1>2, <1>3, <1>4
<1>14. events' \in 0 .. MaxEvents BY <1>1, WorldModelAssumption DEF Event, IInv, TypeOK
<1>15. TypeOK' BY <1>1, <1>6, <1>12, <1>13, <1>14, TypesAfter DEF IInv, TypeOK
<1> QED BY <1>6, <1>9, <1>10, <1>11, <1>15 DEF IInv

LEMMA ReplayKeeps == ASSUME IInv, Replay PROVE IInv'
<1>1. UNCHANGED <<eligible, model, retry, resting, cooling, asked, written, losses, events>>
  BY DEF Replay
<1>2. run["loop"].stage = "next" /\ "loop" \in Runner BY DEF Replay, Runner
<1>3. eligible \in SUBSET Policies BY DEF IInv, TypeOK
<1>4. /\ run' \in [Runner -> Frame]
      /\ Alone' /\ Counted' /\ Cautious' /\ Allowed' /\ Rested'
  <2>1. CASE queued
    <3>1. PICK frame \in Begun(eligible) : run' = [run EXCEPT !["loop"] = frame]
      BY <2>1 DEF Replay, AfterRun
    <3> QED BY <3>1, <1>1, <1>2, <1>3, RunBegins
  <2>2. CASE ~queued
    <3> DEFINE f == [run["loop"] EXCEPT !.stage = "leaving"]
    <3>1. run["loop"] \in Frame /\ run \in [Runner -> Frame] BY <1>2 DEF IInv
    <3>2. f \in Frame /\ f.stage = "leaving" BY <3>1 DEF Frame, Stage
    <3>3. run' = [run EXCEPT !["loop"] = f] BY <3>1, <2>2 DEF Replay, AfterRun
    <3>4. \A s \in Runner : s # "loop" => run[s].stage = "idle" BY <1>2, OthersIdle
    <3> HIDE DEF f
    <3> QED BY <3>2, <3>3, <3>4, <1>1, <1>2, QuietFrame
  <2> QED BY <2>1, <2>2
<1>5. queued' \in BOOLEAN BY DEF Replay, AfterRun, IInv, TypeOK
<1>6. TypeOK' BY <1>1, <1>4, <1>5, TypesAfter DEF IInv, TypeOK
<1> QED BY <1>4, <1>6 DEF IInv

LEMMA LeaveKeeps == ASSUME IInv, Leave PROVE IInv'
<1>1. UNCHANGED <<eligible, model, retry, resting, cooling, queued, asked, written,
                  losses, events>>
  BY DEF Leave
<1>2. /\ run["loop"].stage = "leaving" /\ "loop" \in Runner
      /\ run' = [run EXCEPT !["loop"] = Idle]
  BY DEF Leave, Runner
<1>3. \A s \in Runner : s # "loop" => run[s].stage = "idle" BY <1>2, OthersIdle
<1>4. /\ run' \in [Runner -> Frame]
      /\ Alone' /\ Counted' /\ Cautious' /\ Allowed' /\ Rested'
  BY <1>1, <1>2, <1>3, IdleIs, QuietFrame
<1>5. TypeOK' BY <1>1, <1>4, TypesAfter DEF IInv, TypeOK
<1> QED BY <1>4, <1>5 DEF IInv

-----------------------------------------------------------------------------
(* Time, the viewer, and the loss of the process.                          *)

LEMMA CooldownEndsKeeps == ASSUME IInv, NEW t \in Tags, CooldownEnds(t) PROVE IInv'
<1>1. /\ UNCHANGED <<eligible, model, retry, resting, run, queued, asked, losses, events>>
      /\ cooling' = cooling \ {t} /\ written' = [written EXCEPT ![t] = 0]
  BY DEF CooldownEnds
<1>2. run' \in [Runner -> Frame] /\ Alone' /\ Counted' /\ Allowed'
  BY <1>1 DEF IInv, Alone, Counted, Drafting, Allowed
<1>3. Cautious' BY <1>1 DEF IInv, Cautious
<1>4. Rested' BY <1>1 DEF IInv, TypeOK, Rested
<1>5. written' \in [Tags -> Nat] /\ cooling' \subseteq Tags BY <1>1 DEF IInv, TypeOK
<1>6. TypeOK' BY <1>1, <1>2, <1>5, TypesAfter DEF IInv, TypeOK
<1> QED BY <1>2, <1>3, <1>4, <1>6 DEF IInv

LEMMA RetryComesKeeps == ASSUME IInv, NEW c \in Clusters, RetryComes(c) PROVE IInv'
<1>1. /\ UNCHANGED <<eligible, model, retry, cooling, run, queued, asked, written, losses,
                     events>>
      /\ resting' = resting \ {c}
  BY DEF RetryComes
<1>2. /\ run' \in [Runner -> Frame]
      /\ Alone' /\ Counted' /\ Cautious' /\ Allowed' /\ Rested'
  BY <1>1, FrameStays
<1>3. TypeOK' BY <1>1, <1>2, TypesAfter DEF IInv, TypeOK
<1> QED BY <1>2, <1>3 DEF IInv

LEMMA EditKeeps == ASSUME IInv, NEW m \in Models, Edit(m) PROVE IInv'
<1>1. UNCHANGED <<eligible, retry, resting, cooling, run, queued, asked, written, losses>>
  BY DEF Edit
<1>2. /\ run' \in [Runner -> Frame]
      /\ Alone' /\ Counted' /\ Cautious' /\ Allowed' /\ Rested'
  BY <1>1, FrameStays
<1>3. model' \in [Models -> Row \cup {NoRow, Gone}]
  <2>1. model \in [Models -> Row \cup {NoRow, Gone}] BY DEF IInv, TypeOK
  <2>2. model[m] \in Row BY <2>1 DEF Edit, Exists
  <2>3. PICK row \in Row \cup {Gone} : model' = [model EXCEPT ![m] = row]
    <3>1. CASE model' = [model EXCEPT ![m] = Gone] BY <3>1
    <3>2. CASE model' = [model EXCEPT ![m].status = IF @ = "active" THEN "archived" ELSE "active"]
      <4>1. [model[m] EXCEPT !.status = IF @ = "active" THEN "archived" ELSE "active"] \in Row
        BY <2>2 DEF Row
      <4> QED BY <3>2, <4>1
    <3> QED BY <3>1, <3>2 DEF Edit
  <2> QED BY <2>1, <2>3
<1>4. events' \in 0 .. MaxEvents BY WorldModelAssumption DEF Edit, Event, IInv, TypeOK
<1>5. TypeOK' BY <1>1, <1>2, <1>3, <1>4, TypesAfter DEF IInv, TypeOK
<1> QED BY <1>2, <1>5 DEF IInv

\* A draft that was awaited is an attempt no failure will be recorded for: the crash
\* answers for it.
LEMMA CrashKeeps == ASSUME IInv, Crash PROVE IInv'
<1>1. /\ UNCHANGED <<eligible, model, retry, resting, cooling, asked, written>>
      /\ losses' = losses + 1 /\ queued' = FALSE /\ run' = [r \in Runner |-> Idle]
  BY DEF Crash
<1>2. run' \in [Runner -> Frame] /\ \A r \in Runner : run'[r].stage = "idle"
  BY <1>1, IdleIs
<1>3. Alone' /\ Cautious' /\ Allowed' BY <1>2 DEF Alone, Cautious, Allowed
<1>4. Counted'
  <2> SUFFICES ASSUME NEW d \in Clusters
               PROVE  (/\ retry[d].failures >= MaxFailures => retry[d].quarantined
                       /\ asked[d] <= retry[d].failures + losses + (IF Drafting(d) THEN 1 ELSE 0))'
    BY DEF Counted
  <2>1. retry[d].failures \in Nat /\ asked[d] \in Nat /\ losses \in Nat
    BY DEF IInv, TypeOK, Retry
  <2>2. /\ retry[d].failures >= MaxFailures => retry[d].quarantined
        /\ asked[d] <= retry[d].failures + losses + 1
    BY <2>1 DEF IInv, Counted
  <2>3. ~Drafting(d)' BY <1>2 DEF Drafting
  <2> QED BY <1>1, <2>1, <2>2, <2>3
<1>5. Rested' BY <1>1 DEF IInv, Rested
<1>6. losses' \in Nat /\ events' \in 0 .. MaxEvents
  BY WorldModelAssumption DEF Crash, Event, IInv, TypeOK
<1>7. TypeOK' BY <1>1, <1>2, <1>6, TypesAfter DEF IInv, TypeOK
<1> QED BY <1>2, <1>3, <1>4, <1>5, <1>7 DEF IInv

-----------------------------------------------------------------------------
(* The limits.                                                             *)

LEMMA NextKeeps == ASSUME IInv, [Next]_vars PROVE IInv'
<1>1. CASE \E p \in Policies : PolicyActivated(p) \/ PolicyRetired(p)
  BY <1>1, PolicyActivatedKeeps, PolicyRetiredKeeps
<1>2. CASE \E r \in Runner : RunStep(r)
  BY <1>2, NextClusterKeeps, DraftAnsweredKeeps, RunEndsKeeps, RunBreaksKeeps DEF RunStep
<1>3. CASE ManualRun BY <1>3, ManualRunKeeps
<1>4. CASE Replay BY <1>4, ReplayKeeps
<1>5. CASE Leave BY <1>5, LeaveKeeps
<1>6. CASE Crash BY <1>6, CrashKeeps
<1>7. CASE \E t \in Tags : CooldownEnds(t) BY <1>7, CooldownEndsKeeps
<1>8. CASE \E c \in Clusters : RetryComes(c) BY <1>8, RetryComesKeeps
<1>9. CASE \E m \in Models : Edit(m) BY <1>9, EditKeeps
<1>10. CASE UNCHANGED vars
  <2>1. UNCHANGED <<eligible, model, retry, resting, cooling, run, queued, asked, written,
                    losses, events>>
    BY <1>10 DEF vars
  <2>2. /\ run' \in [Runner -> Frame]
        /\ Alone' /\ Counted' /\ Cautious' /\ Allowed' /\ Rested'
    BY <2>1, FrameStays
  <2>3. TypeOK' BY <2>1, <2>2, TypesAfter DEF IInv, TypeOK
  <2> QED BY <2>2, <2>3 DEF IInv
<1> QED BY <1>1, <1>2, <1>3, <1>4, <1>5, <1>6, <1>7, <1>8, <1>9, <1>10 DEF Next

\* A draft that is awaited was asked for below the limit, one that is not has been
\* counted as a failure or is one of the losses.
LEMMA Limits == ASSUME IInv PROVE LimitsHold
<1>1. AttemptsBounded
  <2> SUFFICES ASSUME NEW c \in Clusters PROVE asked[c] <= MaxFailures + losses
    BY DEF AttemptsBounded
  <2>1. /\ retry[c].failures \in 0 .. MaxFailures /\ asked[c] \in Nat /\ losses \in Nat
        /\ MaxFailures \in Nat
    BY WorldModelAssumption DEF IInv, TypeOK, Retry
  <2>2. CASE Drafting(c)
    <3>1. PICK r \in Runner : run[r].stage = "drafting" /\ run[r].cluster = c
      BY <2>2 DEF Drafting
    <3>2. retry[c].failures < MaxFailures /\ asked[c] <= retry[c].failures + losses + 1
      BY <3>1, DraftedIs
    <3> QED BY <3>2, <2>1
  <2>3. CASE ~Drafting(c)
    <3>1. asked[c] <= retry[c].failures + losses BY <2>1, <2>3 DEF IInv, Counted
    <3> QED BY <3>1, <2>1
  <2> QED BY <2>2, <2>3
<1>2. OneWritePerCooldown
  <2>1. \A t \in Tags : written[t] \in Nat BY DEF IInv, TypeOK
  <2> QED BY <2>1 DEF IInv, Rested, OneWritePerCooldown
<1> QED BY <1>1, <1>2 DEF LimitsHold, IInv

\* Whatever starts the runs, and whatever they have read before a draft comes, the
\* model is asked for a draft of one cluster at most MaxFailures times without success
\* (more only for answers that were lost), a domain is written once in a
\* cooldown, and every variable keeps its type.
THEOREM LimitsCorrect == Spec => []LimitsHold
<1>1. IInv /\ [Next]_vars => IInv' BY NextKeeps
<1>2. IInv => LimitsHold BY Limits
<1> QED BY <1>1, <1>2, InitIInv, PTL DEF Spec
=============================================================================
