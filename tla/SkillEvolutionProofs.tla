------------------------ MODULE SkillEvolutionProofs ------------------------
(***************************************************************************)
(* Proofs about SkillEvolution, for all policies, skills and episodes and  *)
(* every number of trials a candidate needs: the types hold, no credit is  *)
(* forged, a policy has one live skill while runs are queued, and only the *)
(* viewer or a run that had read it brings a retired skill back.           *)
(***************************************************************************)
EXTENDS SkillEvolution, SequenceTheorems, FiniteSetTheorems, TLAPS

Frame == [stage : Stage, policy : SUBSET Policies, copy : Skills \cup {NoSkill},
          row : Row \cup {NoRow}, behind : BOOLEAN]
Busy  == {"drafting", "embedding"}

Table == [Skills -> Row \cup {NoRow, Gone}]

Lists ==
  /\ policy \in [Policies -> {"inactive", "weak", "good"}]
  /\ queue \in Seq(Policies)
  /\ waiting \subseteq Policies /\ cooling \subseteq Policies /\ happened \subseteq Rare

Types ==
  /\ Lists /\ skill \in Table /\ run \in [Runner -> Frame] /\ judged \in [Skills -> Nat]
  /\ trial \subseteq {s \in Skills : Exists(s)} \X Episodes

\* A run works on one policy; the row it has read was live, is of that policy, and
\* its credit is covered by verdicts on its skill, of which there can only be more.
Sound(frame, verdicts) ==
  /\ frame.stage \in Busy => \E p \in Policies : frame.policy = {p}
  /\ frame.copy # NoSkill =>
       /\ frame.row \in Row /\ {frame.row.policy} = frame.policy
       /\ frame.row.status \in Live
       /\ frame.row.passed <= frame.row.attempted
       /\ frame.row.attempted <= verdicts[frame.copy]

\* No row claims more trials than there were verdicts.
Credited(rows, verdicts) ==
  \A s \in Skills : rows[s] \in Row =>
    rows[s].passed <= rows[s].attempted /\ rows[s].attempted <= verdicts[s]

\* While a run is under way the only live skill its policy can have is the one it
\* has read.
Owns(frame, rows) ==
  frame.stage \in Busy =>
    \A p \in Policies : frame.policy = {p} => Index(p, rows) \subseteq {frame.copy}

OneLive(rows) == \A p \in Policies : \A s, t \in Index(p, rows) : s = t

\* Until the viewer or a run beside the queue steps in, the queue's run is alone.
QueueAlone ==
  happened = {} =>
    /\ run["manual"].stage = "idle"
    /\ OneLive(skill) /\ Owns(run["queue"], skill)

IInv ==
  /\ Types /\ Credited(skill, judged) /\ QueueAlone
  /\ \A r \in Runner : Sound(run[r], judged)

-----------------------------------------------------------------------------
(* Rows, frames and the runs that are triggered.                           *)

LEMMA Statuses ==
  /\ NoRow.status = "none" /\ Gone.status = "deleted"
  /\ \A row \in Row : row.status \in {"candidate", "active", "archived"} /\ row \notin {NoRow, Gone}
<1>1. NoRow.status = "none" /\ Gone.status = "deleted" BY DEF NoRow, Gone
<1>2. \A row \in Row : row.status \in {"candidate", "active", "archived"} BY DEF Row, Live
<1> QED BY <1>1, <1>2

LEMMA LiveIsRow ==
  ASSUME NEW rows \in Table, NEW s \in Skills, rows[s].status \in Live
  PROVE  rows[s] \in Row /\ rows[s].policy \in Policies
<1>1. rows[s] \in Row BY Statuses DEF Table, Live
<1> QED BY <1>1 DEF Row

LEMMA OverIs ==
  ASSUME NEW r \in Runner
  PROVE  /\ Over(r) \in Frame /\ Over(r).stage \notin Busy /\ Over(r).copy = NoSkill
         /\ r = "manual" => Over(r).stage = "idle"
<1>1. PICK stage \in {"next", "idle"} :
        Over(r) = [Idle EXCEPT !.stage = stage] /\ (r = "manual" => stage = "idle")
  BY DEF Over
<1>2. Idle \in Frame /\ Idle.copy = NoSkill BY DEF Idle, Frame, Stage
<1>3. Over(r) \in Frame /\ Over(r).stage = stage /\ Over(r).copy = NoSkill
  BY <1>1, <1>2 DEF Frame, Stage
<1> QED BY <1>1, <1>3 DEF Busy

\* A frame that is not busy and has read nothing is sound, and owns nothing.
LEMMA AtRest ==
  ASSUME NEW frame, frame.stage \notin Busy, frame.copy = NoSkill
  PROVE  /\ \A verdicts : Sound(frame, verdicts)
         /\ \A rows : Owns(frame, rows)
BY DEF Sound, Owns

\* What a run reads is sound, and what it may own if nothing else has.
LEMMA BegunIs ==
  ASSUME NEW rows \in Table, NEW r \in Runner, NEW p \in Policies, NEW worth, NEW verdicts,
         Credited(rows, verdicts), NEW frame \in Begun(r, p, rows, worth)
  PROVE  /\ frame \in Frame /\ Sound(frame, verdicts)
         /\ OneLive(rows) => Owns(frame, rows)
<1>1. CASE frame = Over(r)
  BY <1>1, OverIs, AtRest
<1>2. CASE /\ Index(p, rows) = {}
           /\ frame = [stage |-> "drafting", policy |-> {p}, copy |-> NoSkill,
                       row |-> NoRow, behind |-> FALSE]
  <2>1. frame \in Frame BY <1>2 DEF Frame, Stage
  <2>2. Sound(frame, verdicts) BY <1>2 DEF Sound
  <2>3. Owns(frame, rows) BY <1>2 DEF Owns
  <2> QED BY <2>1, <2>2, <2>3
<1>3. ASSUME NEW s \in Index(p, rows),
             frame = [stage |-> "drafting", policy |-> {p}, copy |-> s,
                      row |-> rows[s], behind |-> FALSE]
      PROVE  /\ frame \in Frame /\ Sound(frame, verdicts)
             /\ OneLive(rows) => Owns(frame, rows)
  <2>1. s \in Skills /\ rows[s].status \in Live /\ rows[s].policy = p BY DEF Index
  <2>2. rows[s] \in Row BY <2>1, LiveIsRow
  <2>3. frame \in Frame BY <1>3, <2>1, <2>2 DEF Frame, Stage
  <2>4. Sound(frame, verdicts) BY <1>3, <2>1, <2>2 DEF Sound, Credited
  <2>5. OneLive(rows) => Owns(frame, rows) BY <1>3 DEF Owns, OneLive
  <2> QED BY <2>3, <2>4, <2>5
<1>4. \A s \in Skills : s # NoSkill
  BY SkillAssumption DEF Skills, NoSkill
<1>5. \/ frame = Over(r)
      \/ /\ Index(p, rows) = {}
         /\ frame = [stage |-> "drafting", policy |-> {p}, copy |-> NoSkill,
                     row |-> NoRow, behind |-> FALSE]
      \/ \E s \in Index(p, rows) :
           frame = [stage |-> "drafting", policy |-> {p}, copy |-> s,
                    row |-> rows[s], behind |-> FALSE]
  <2>1. CASE worth[p] # "good" BY <2>1 DEF Begun
  <2>2. CASE worth[p] = "good" /\ Index(p, rows) = {} BY <2>2 DEF Begun
  <2>3. CASE worth[p] = "good" /\ Index(p, rows) # {}
    <3>1. \A s \in Index(p, rows) : s # NoSkill BY <1>4 DEF Index
    <3> QED BY <2>3, <3>1 DEF Begun
  <2> QED BY <2>1, <2>2, <2>3
<1> QED BY <1>1, <1>2, <1>3, <1>5

LEMMA TriggerIs ==
  ASSUME queue \in Seq(Policies), NEW asked \in Seq(Policies), NEW frames, NEW rows, NEW worth,
         Trigger(asked, frames, rows, worth)
  PROVE  /\ queue' \in Seq(Policies)
         /\ \/ run' = frames
            \/ \E p \in Policies : \E frame \in Begun("queue", p, rows, worth) :
                 run' = [frames EXCEPT !["queue"] = frame]
<1>1. PICK all : all = queue \o asked OBVIOUS
<1>2. all \in Seq(Policies) /\ (asked # <<>> => all # <<>>)
  BY <1>1, ConcatProperties, LenProperties, EmptySeq
<1>3. CASE asked # <<>> /\ run["queue"].stage = "idle"
  <2>1. Head(all) \in Policies /\ Tail(all) \in Seq(Policies)
    BY <1>2, <1>3, HeadTailProperties
  <2> QED BY <1>1, <1>3, <2>1 DEF Trigger
<1>4. CASE ~(asked # <<>> /\ run["queue"].stage = "idle")
  BY <1>1, <1>2, <1>4 DEF Trigger
<1> QED BY <1>3, <1>4

\* All that is used of a run that is begun by a trigger, or of drain's next one.
LEMMA RunsGoOn ==
  ASSUME NEW frames \in [Runner -> Frame], NEW rows \in Table, NEW verdicts, NEW worth,
         Credited(rows, verdicts), \A r \in Runner : Sound(frames[r], verdicts),
         \/ run' = frames
         \/ \E p \in Policies : \E frame \in Begun("queue", p, rows, worth) :
              run' = [frames EXCEPT !["queue"] = frame]
  PROVE  /\ run' \in [Runner -> Frame] /\ \A r \in Runner : Sound(run'[r], verdicts)
         /\ run'["manual"] = frames["manual"]
         /\ OneLive(rows) /\ Owns(frames["queue"], rows) => Owns(run'["queue"], rows)
<1>1. CASE run' = frames BY <1>1
<1>2. ASSUME NEW p \in Policies, NEW frame \in Begun("queue", p, rows, worth),
             run' = [frames EXCEPT !["queue"] = frame]
      PROVE  /\ run' \in [Runner -> Frame] /\ \A r \in Runner : Sound(run'[r], verdicts)
             /\ run'["manual"] = frames["manual"]
             /\ OneLive(rows) /\ Owns(frames["queue"], rows) => Owns(run'["queue"], rows)
  <2>1. "queue" \in Runner /\ "manual" \in Runner BY DEF Runner
  <2>2. /\ frame \in Frame /\ Sound(frame, verdicts)
        /\ OneLive(rows) => Owns(frame, rows)
    BY <2>1, BegunIs
  <2> QED BY <1>2, <2>1, <2>2
<1> QED BY <1>1, <1>2

LEMMA SomeOrder ==
  ASSUME NEW due \in SUBSET Policies, NEW asked \in SetToSeqs(due)
  PROVE  asked \in Seq(Policies)
<1>1. IsFiniteSet(due) BY SkillAssumption, FS_Subset
<1>2. Cardinality(due) \in Nat BY <1>1, FS_CardinalityType
<1>3. asked \in [1 .. Cardinality(due) -> due] BY DEF SetToSeqs
<1>4. asked \in [1 .. Cardinality(due) -> Policies] BY <1>3
<1> QED BY <1>2, <1>4, SeqDef

\* No skill becomes live that was not, so nothing is owned that was not.
Retiring(rows, before) ==
  \A s \in Skills : rows[s].status \in Live =>
    before[s].status \in Live /\ rows[s].policy = before[s].policy

LEMMA RetiringKeeps ==
  ASSUME NEW rows, NEW before, Retiring(rows, before)
  PROVE  /\ OneLive(before) => OneLive(rows)
         /\ \A frame : Owns(frame, before) => Owns(frame, rows)
<1>1. \A p \in Policies : Index(p, rows) \subseteq Index(p, before) BY DEF Index, Retiring
<1> QED BY <1>1 DEF OneLive, Owns

-----------------------------------------------------------------------------
(* The steps.                                                              *)

\* Every step leaves rows that are covered by verdicts, and some frames of which
\* at most the queue's begins anew.
LEMMA StepKeeps ==
  ASSUME IInv, Lists', skill' \in Table, judged' \in [Skills -> Nat],
         trial' \subseteq {s \in Skills : Exists(s)'} \X Episodes,
         Credited(skill', judged'),
         NEW frames \in [Runner -> Frame], NEW worth, \A r \in Runner : Sound(frames[r], judged'),
         \/ run' = frames
         \/ \E p \in Policies : \E frame \in Begun("queue", p, skill', worth) :
              run' = [frames EXCEPT !["queue"] = frame],
         happened' = {} =>
           /\ frames["manual"].stage = "idle"
           /\ OneLive(skill') /\ Owns(frames["queue"], skill')
  PROVE  IInv'
<1>1. /\ run' \in [Runner -> Frame] /\ \A r \in Runner : Sound(run'[r], judged')
      /\ run'["manual"] = frames["manual"]
      /\ OneLive(skill') /\ Owns(frames["queue"], skill') => Owns(run'["queue"], skill')
  BY RunsGoOn
<1>2. Types' BY <1>1 DEF Types
<1>3. QueueAlone' BY <1>1 DEF QueueAlone, OneLive, Owns, Index
<1> QED BY <1>1, <1>2, <1>3 DEF IInv, Sound, Credited

\* A step that begins no run and makes no skill live.
LEMMA FramesKept ==
  ASSUME IInv, Lists', run' \in [Runner -> Frame], skill' \in Table, UNCHANGED judged,
         trial' \subseteq {s \in Skills : Exists(s)'} \X Episodes,
         Credited(skill', judged), Retiring(skill', skill), happened \subseteq happened',
         happened' = {} => run'["manual"].stage = "idle",
         \A r \in Runner :
           run'[r] = run[r] \/ (run'[r].stage \notin Busy /\ run'[r].copy = NoSkill)
  PROVE  IInv'
<1>1. \A r \in Runner : Sound(run'[r], judged')
  BY AtRest DEF IInv
<1>2. ASSUME happened' = {}
      PROVE  OneLive(skill') /\ Owns(run'["queue"], skill')
  <2>1. OneLive(skill) /\ Owns(run["queue"], skill) /\ "queue" \in Runner
    BY <1>2 DEF IInv, QueueAlone, Runner
  <2>2. Owns(run'["queue"], skill) BY <2>1, AtRest
  <2> QED BY <2>1, <2>2, RetiringKeeps
<1> QED BY <1>1, <1>2, StepKeeps DEF IInv, Types

LEMMA StillRetiring == Retiring(skill, skill)
BY DEF Retiring

LEMMA PolicyUpdateKeeps ==
  ASSUME IInv, NEW p \in Policies, PolicyUpdate(p)
  PROVE  IInv'
<1>1. PICK worth \in {"inactive", "weak", "good"}, induced \in BOOLEAN :
        /\ policy' = [policy EXCEPT ![p] = worth]
        /\ Trigger(IF induced \/ worth # "inactive" THEN <<p>> ELSE <<>>,
                   [r \in Runner |-> IF run[r].stage = "embedding" /\ run[r].policy = {p}
                                     THEN [run[r] EXCEPT !.behind = TRUE] ELSE run[r]],
                   skill', policy')
  BY DEF PolicyUpdate
<1>2. PICK frames : frames = [r \in Runner |->
        IF run[r].stage = "embedding" /\ run[r].policy = {p}
        THEN [run[r] EXCEPT !.behind = TRUE] ELSE run[r]]
  OBVIOUS
<1>3. PICK asked : asked = IF induced \/ worth # "inactive" THEN <<p>> ELSE <<>>
  OBVIOUS
<1>4. asked \in Seq(Policies) /\ Trigger(asked, frames, skill', policy')
  <2>1. <<p>> \in Seq(Policies) /\ <<>> \in Seq(Policies) OBVIOUS
  <2> QED BY <1>1, <1>2, <1>3, <2>1
<1>5. skill' = [s \in Skills |-> IF Exists(s) /\ skill[s].policy = p
                                 THEN [skill[s] EXCEPT !.current = FALSE] ELSE skill[s]]
  BY DEF PolicyUpdate
<1>6. ASSUME NEW s \in Skills
      PROVE  /\ skill[s] \in Row => /\ skill'[s] \in Row /\ skill'[s].status = skill[s].status
                                    /\ skill'[s].policy = skill[s].policy
                                    /\ skill'[s].attempted = skill[s].attempted
                                    /\ skill'[s].passed = skill[s].passed
             /\ skill[s] \notin Row => skill'[s] = skill[s]
  <2>1. skill[s] \in Row \cup {NoRow, Gone} BY DEF IInv, Types, Table
  <2>2. CASE skill[s] \in Row
    BY <1>5, <2>2 DEF Row
  <2>3. CASE skill[s] \notin Row
    BY <1>5, <2>1, <2>3 DEF Exists
  <2> QED BY <2>2, <2>3
<1>7. skill' \in Table /\ Credited(skill', judged) /\ Retiring(skill', skill)
  <2>1. skill' \in Table BY <1>5, <1>6 DEF IInv, Types, Table
  <2>2. Retiring(skill', skill) BY <1>6 DEF Retiring
  <2>3. Credited(skill', judged) BY <1>6 DEF IInv, Credited
  <2> QED BY <2>1, <2>2, <2>3
<1>8. \A s \in Skills : Exists(s) => Exists(s)'
  BY <1>6, Statuses DEF Exists, IInv, Types, Table
<1>9. ASSUME NEW r \in Runner
      PROVE  /\ frames[r] \in Frame /\ frames[r].stage = run[r].stage
             /\ frames[r].policy = run[r].policy /\ frames[r].copy = run[r].copy
             /\ frames[r].row = run[r].row
  BY <1>2 DEF IInv, Types, Frame
<1>10. frames \in [Runner -> Frame] /\ \A r \in Runner : Sound(frames[r], judged)
  <2>1. frames \in [Runner -> Frame] BY <1>2, <1>9
  <2> QED BY <1>9, <2>1 DEF IInv, Sound
<1>11. happened = {} => /\ frames["manual"].stage = "idle"
                        /\ OneLive(skill') /\ Owns(frames["queue"], skill')
  <2> SUFFICES ASSUME happened = {}
               PROVE  /\ frames["manual"].stage = "idle"
                      /\ OneLive(skill') /\ Owns(frames["queue"], skill')
    OBVIOUS
  <2>1. {"queue", "manual"} \subseteq Runner BY DEF Runner
  <2>2. /\ run["manual"].stage = "idle"
        /\ OneLive(skill') /\ Owns(run["queue"], skill')
    BY <1>7, RetiringKeeps DEF IInv, QueueAlone
  <2> QED BY <1>9, <2>1, <2>2 DEF Owns
<1>12. /\ queue' \in Seq(Policies)
       /\ \/ run' = frames
          \/ \E q \in Policies : \E frame \in Begun("queue", q, skill', policy') :
               run' = [frames EXCEPT !["queue"] = frame]
  BY <1>4, TriggerIs DEF IInv, Types, Lists
<1>13. /\ Lists' /\ judged' = judged /\ happened' = happened
       /\ trial' \subseteq {s \in Skills : Exists(s)'} \X Episodes
  <2>1. UNCHANGED <<trial, waiting, cooling, judged, happened>> BY DEF PolicyUpdate
  <2>2. Lists' BY <1>1, <1>12, <2>1 DEF IInv, Types, Lists
  <2> QED BY <1>8, <2>1, <2>2 DEF IInv, Types
<1> QED BY <1>7, <1>10, <1>11, <1>12, <1>13, StepKeeps DEF IInv, Types

LEMMA ScheduleIs ==
  ASSUME IInv, NEW pending \in SUBSET Policies, NEW rows, Schedule(pending, rows)
  PROVE  /\ waiting' \subseteq Policies /\ cooling' \subseteq Policies
         /\ queue' \in Seq(Policies)
         /\ \/ run' = run
            \/ \E p \in Policies : \E frame \in Begun("queue", p, rows, policy) :
                 run' = [run EXCEPT !["queue"] = frame]
<1>1. pending \ cooling \in SUBSET Policies OBVIOUS
<1>2. PICK asked \in SetToSeqs(pending \ cooling) : Trigger(asked, run, rows, policy)
  BY DEF Schedule
<1>3. asked \in Seq(Policies) BY <1>1, <1>2, SomeOrder
<1>4. waiting' \subseteq Policies /\ cooling' \subseteq Policies
  BY DEF Schedule, IInv, Types, Lists
<1> QED BY <1>2, <1>3, <1>4, TriggerIs DEF IInv, Types, Lists

LEMMA TriedIs ==
  ASSUME NEW row \in Row, NEW passed \in BOOLEAN, NEW eta \in Eta
  PROVE  /\ Tried(row, passed, eta) \in Row /\ Tried(row, passed, eta).policy = row.policy
         /\ Tried(row, passed, eta).attempted = row.attempted + 1
         /\ Tried(row, passed, eta).passed \in {row.passed, row.passed + 1}
         /\ Tried(row, passed, eta).status \in Live => row.status \in Live
<1>1. PICK status \in Live \cup {"archived"} :
        /\ Tried(row, passed, eta) =
             [row EXCEPT !.attempted = row.attempted + 1,
                         !.passed = row.passed + (IF passed THEN 1 ELSE 0),
                         !.eta = eta, !.current = TRUE, !.status = status]
        /\ status \in Live => row.status \in Live
  <2>1. row.status \in {"candidate", "active", "archived"} BY Statuses
  <2> QED BY <2>1 DEF Tried, Live
<1>2. row.attempted \in Nat /\ row.passed \in Nat BY DEF Row
<1>3. PICK k \in {0, 1} : k = IF passed THEN 1 ELSE 0 OBVIOUS
<1>4. PICK attempted \in Nat, successes \in Nat :
        attempted = row.attempted + 1 /\ successes = row.passed + k
  BY <1>2, <1>3
<1>5. Tried(row, passed, eta) =
        [row EXCEPT !.attempted = attempted, !.passed = successes, !.eta = eta,
                    !.current = TRUE, !.status = status]
  BY <1>1, <1>3, <1>4
<1>6. Tried(row, passed, eta) \in Row
  BY <1>5 DEF Row
<1> QED BY <1>1, <1>2, <1>3, <1>4, <1>5, <1>6 DEF Row

\* A verdict tries the skills whose trials of the episode are pending.
LEMMA RewardIs ==
  ASSUME IInv, NEW e \in Episodes, Reward(e)
  PROVE  \E hit \in SUBSET {s \in Skills : skill[s] \in Row},
            related \in SUBSET {p \in Policies : policy[p] # "inactive"} :
           /\ skill' = [s \in Skills |-> skill'[s]]
           /\ judged' = [s \in Skills |-> judged'[s]]
           /\ \A s \in hit :
                /\ skill'[s] \in Row /\ skill'[s].policy = skill[s].policy
                /\ skill'[s].attempted = skill[s].attempted + 1
                /\ skill'[s].passed \in {skill[s].passed, skill[s].passed + 1}
                /\ skill'[s].status \in Live => skill[s].status \in Live
                /\ judged'[s] = judged[s] + 1
           /\ \A s \in Skills \ hit :
                skill'[s] = skill[s] /\ judged'[s] \in {judged[s], judged[s] + 1}
           /\ trial' \subseteq trial
           /\ Schedule(waiting \cup related, skill')
<1>b. PICK outcome \in {"pass", "fail", "unknown"}, eta \in [Skills -> Eta],
           related \in SUBSET {p \in Policies : policy[p] # "inactive"} :
        LET tried == {s \in Skills : <<s, e>> \in trial}
            hit   == IF Judged(outcome) THEN tried ELSE {}
        IN  /\ \A s \in Skills \ hit : eta[s] = "low"
            /\ outcome = "pass" => \A s \in hit : eta[s] = "fair"
            /\ skill' = [s \in Skills |-> IF s \in hit THEN Tried(skill[s], outcome = "pass", eta[s])
                                          ELSE skill[s]]
            /\ judged' = [s \in Skills |->
                 IF s \in tried /\ outcome # "unknown" THEN judged[s] + 1 ELSE judged[s]]
            /\ trial' = {t \in TrialsWithout(hit) : t[2] # e}
            /\ Schedule(waiting \cup related, skill')
  BY DEF Reward
<1>a. PICK tried : tried = {s \in Skills : <<s, e>> \in trial} OBVIOUS
<1>c. PICK hit : hit = (IF Judged(outcome) THEN tried ELSE {}) OBVIOUS
<1>1. /\ skill' = [s \in Skills |-> IF s \in hit THEN Tried(skill[s], outcome = "pass", eta[s])
                                    ELSE skill[s]]
      /\ judged' = [s \in Skills |->
           IF s \in tried /\ outcome # "unknown" THEN judged[s] + 1 ELSE judged[s]]
      /\ trial' = {t \in TrialsWithout(hit) : t[2] # e}
      /\ Schedule(waiting \cup related, skill')
  BY <1>a, <1>b, <1>c
<1>2. /\ hit \subseteq {s \in Skills : skill[s] \in Row} /\ hit \subseteq tried
      /\ outcome = "unknown" => hit = {}
  <2>1. \A s \in tried : s \in Skills /\ skill[s] \in Row
    BY <1>a DEF IInv, Types, Table, Exists
  <2> QED BY <1>c, <2>1 DEF Judged
<1>3. ASSUME NEW s \in Skills
      PROVE  /\ s \in hit => /\ skill'[s] \in Row /\ skill'[s].policy = skill[s].policy
                             /\ skill'[s].attempted = skill[s].attempted + 1
                             /\ skill'[s].passed \in {skill[s].passed, skill[s].passed + 1}
                             /\ skill'[s].status \in Live => skill[s].status \in Live
                             /\ judged'[s] = judged[s] + 1
             /\ s \notin hit => skill'[s] = skill[s] /\ judged'[s] \in {judged[s], judged[s] + 1}
  <2>1. CASE s \in hit
    <3>1. skill[s] \in Row /\ (outcome = "pass") \in BOOLEAN /\ eta[s] \in Eta
      BY <1>2, <2>1
    <3>2. skill'[s] = Tried(skill[s], outcome = "pass", eta[s]) BY <1>1, <2>1
    <3>3. judged'[s] = judged[s] + 1 BY <1>1, <1>2, <2>1
    <3>4. PICK row \in Row : row = skill[s] BY <3>1
    <3>5. PICK passed \in BOOLEAN : passed = (outcome = "pass") OBVIOUS
    <3>6. skill'[s] = Tried(row, passed, eta[s]) BY <3>2, <3>4, <3>5
    <3>7. /\ skill'[s] \in Row /\ skill'[s].policy = row.policy
          /\ skill'[s].attempted = row.attempted + 1
          /\ skill'[s].passed \in {row.passed, row.passed + 1}
          /\ skill'[s].status \in Live => row.status \in Live
      BY <3>1, <3>6, TriedIs
    <3> QED BY <2>1, <3>3, <3>4, <3>7
  <2>2. CASE s \notin hit BY <1>1, <2>2
  <2> QED BY <2>1, <2>2
<1>4. trial' \subseteq trial BY <1>1 DEF TrialsWithout
<1>5. /\ skill' = [s \in Skills |-> skill'[s]]
      /\ judged' = [s \in Skills |-> judged'[s]]
  BY <1>1
<1> QED BY <1>1, <1>2, <1>3, <1>4, <1>5

LEMMA RewardRetires == ASSUME IInv, NEW e \in Episodes, Reward(e) PROVE Retiring(skill', skill)
BY RewardIs DEF Retiring

LEMMA RewardKeeps ==
  ASSUME IInv, NEW e \in Episodes, Reward(e)
  PROVE  IInv'
<1>1. PICK hit \in SUBSET {s \in Skills : skill[s] \in Row},
           related \in SUBSET {p \in Policies : policy[p] # "inactive"} :
        /\ skill' = [s \in Skills |-> skill'[s]] /\ judged' = [s \in Skills |-> judged'[s]]
        /\ \A s \in hit :
             /\ skill'[s] \in Row /\ skill'[s].policy = skill[s].policy
             /\ skill'[s].attempted = skill[s].attempted + 1
             /\ skill'[s].passed \in {skill[s].passed, skill[s].passed + 1}
             /\ judged'[s] = judged[s] + 1
        /\ \A s \in Skills \ hit :
             skill'[s] = skill[s] /\ judged'[s] \in {judged[s], judged[s] + 1}
        /\ trial' \subseteq trial
        /\ Schedule(waiting \cup related, skill')
  BY RewardIs
<1>4. /\ skill' \in Table /\ judged' \in [Skills -> Nat]
      /\ \A s \in Skills : judged[s] <= judged'[s] /\ judged[s] \in Nat
  <2>1. skill' \in Table
    <3>1. \A s \in Skills : skill'[s] \in Row \cup {NoRow, Gone}
      BY <1>1 DEF IInv, Types, Table
    <3> QED BY <1>1, <3>1 DEF Table
  <2>2. \A s \in Skills : judged[s] <= judged'[s] /\ judged[s] \in Nat /\ judged'[s] \in Nat
    BY <1>1 DEF IInv, Types
  <2> QED BY <1>1, <2>1, <2>2
<1>5. Credited(skill', judged')
  <2> SUFFICES ASSUME NEW s \in Skills, skill'[s] \in Row
               PROVE  skill'[s].passed <= skill'[s].attempted /\ skill'[s].attempted <= judged'[s]
    BY DEF Credited
  <2>1. skill[s] \in Row BY <1>1
  <2>2. /\ skill[s].passed <= skill[s].attempted /\ skill[s].attempted <= judged[s]
        /\ skill[s].passed \in Nat /\ skill[s].attempted \in Nat
    BY <2>1 DEF IInv, Credited, Row
  <2> QED BY <1>1, <1>4, <2>2
<1>6. Retiring(skill', skill) BY RewardRetires
<1>7. trial' \subseteq {s \in Skills : Exists(s)'} \X Episodes
  <2>1. \A s \in Skills : Exists(s) => Exists(s)'
    BY <1>1, Statuses DEF Exists
  <2> QED BY <1>1, <2>1 DEF IInv, Types
<1>8. \A r \in Runner : Sound(run[r], judged')
  <2> SUFFICES ASSUME NEW r \in Runner PROVE Sound(run[r], judged')
    OBVIOUS
  <2>1. Sound(run[r], judged) /\ run[r] \in Frame BY DEF IInv, Types
  <2>2. run[r].copy # NoSkill => run[r].copy \in Skills /\ run[r].row.attempted \in Nat
    BY <2>1 DEF Sound, Frame, Row
  <2> QED BY <1>4, <2>1, <2>2 DEF Sound
<1>9. waiting \cup related \in SUBSET Policies BY DEF IInv, Types, Lists
<1>10. /\ waiting' \subseteq Policies /\ cooling' \subseteq Policies /\ queue' \in Seq(Policies)
       /\ \/ run' = run
          \/ \E p \in Policies : \E frame \in Begun("queue", p, skill', policy) :
               run' = [run EXCEPT !["queue"] = frame]
  <2>1. Schedule(waiting \cup related, skill') BY <1>1
  <2> QED BY <1>9, <2>1, ScheduleIs
<1>11. Lists' /\ happened' = happened
  BY <1>10 DEF Reward, IInv, Types, Lists
<1>12. happened = {} => /\ run["manual"].stage = "idle"
                        /\ OneLive(skill') /\ Owns(run["queue"], skill')
  BY <1>6, RetiringKeeps DEF IInv, QueueAlone
<1> QED
  BY <1>4, <1>5, <1>7, <1>8, <1>10, <1>11, <1>12, StepKeeps DEF IInv, Types

LEMMA TimerKeeps == ASSUME IInv, TimerFires PROVE IInv'
<1>1. Schedule(waiting, skill) /\ waiting \in SUBSET Policies
      /\ UNCHANGED <<policy, skill, trial, judged, happened>>
  BY DEF TimerFires, IInv, Types, Lists
<1>2. /\ waiting' \subseteq Policies /\ cooling' \subseteq Policies /\ queue' \in Seq(Policies)
      /\ \/ run' = run
         \/ \E p \in Policies : \E frame \in Begun("queue", p, skill', policy) :
              run' = [run EXCEPT !["queue"] = frame]
  BY <1>1, ScheduleIs
<1>3. Lists' BY <1>1, <1>2 DEF IInv, Types, Lists
<1> QED BY <1>1, <1>2, <1>3, StepKeeps DEF IInv, Types, QueueAlone, Exists

LEMMA NextItemKeeps == ASSUME IInv, NextItem PROVE IInv'
<1>0. UNCHANGED <<policy, skill, trial, waiting, cooling, judged, happened>> /\ AfterRun
      /\ run["queue"].stage = "next" /\ "queue" \in Runner /\ run \in [Runner -> Frame]
  BY DEF NextItem, Runner, IInv, Types
<1>1. CASE queue = <<>>
  <2>1. run' = [run EXCEPT !["queue"].stage = "leaving"] /\ queue' = queue
    BY <1>0, <1>1 DEF AfterRun
  <2>2. \A r \in Runner : /\ run'[r] \in Frame /\ run'[r].policy = run[r].policy
                          /\ run'[r].copy = run[r].copy /\ run'[r].row = run[r].row
                          /\ run'[r].stage \in Busy => run[r].stage \in Busy
    BY <1>0, <2>1 DEF Frame, Stage, Busy
  <2>3. run'["manual"] = run["manual"] /\ "manual" \in Runner BY <2>1, <1>0 DEF Runner
  <2>4. \A r \in Runner : Sound(run'[r], judged) BY <2>2 DEF IInv, Sound
  <2>5. Owns(run["queue"], skill) => Owns(run'["queue"], skill) BY <1>0, <2>2 DEF Owns
  <2>6. run' \in [Runner -> Frame] BY <1>0, <2>1, <2>2
  <2>7. Lists' BY <1>0, <2>1 DEF IInv, Types, Lists
  <2> QED BY <1>0, <2>3, <2>4, <2>5, <2>6, <2>7, StepKeeps DEF IInv, Types, QueueAlone, Exists
<1>2. CASE queue # <<>>
  <2>1. Head(queue) \in Policies /\ Tail(queue) \in Seq(Policies)
    BY <1>2, HeadTailProperties DEF IInv, Types, Lists
  <2>2. /\ queue' = Tail(queue)
        /\ \E frame \in Begun("queue", Head(queue), skill, policy) :
             run' = [run EXCEPT !["queue"] = frame]
    BY <1>0, <1>2 DEF AfterRun
  <2>3. Lists' BY <1>0, <2>1, <2>2 DEF IInv, Types, Lists
  <2> QED BY <1>0, <2>1, <2>2, <2>3, StepKeeps DEF IInv, Types, QueueAlone, Exists
<1> QED BY <1>1, <1>2

LEMMA ManualKeeps == ASSUME IInv, NEW p \in Policies, ManualRun(p) PROVE IInv'
<1>1. PICK frame \in Begun("manual", p, skill, policy) : run' = [run EXCEPT !["manual"] = frame]
  BY DEF ManualRun
<1>2. "manual" \in Runner BY DEF Runner
<1>3. frame \in Frame /\ Sound(frame, judged)
  BY <1>1, <1>2, BegunIs DEF IInv, Types
<1>4. run' \in [Runner -> Frame] /\ \A r \in Runner : Sound(run'[r], judged)
  BY <1>1, <1>2, <1>3 DEF IInv, Types
<1>5. /\ UNCHANGED <<policy, skill, trial, queue, waiting, cooling, judged>>
      /\ happened' = happened \cup {"manual"}
  BY DEF ManualRun
<1>6. Lists' BY <1>5 DEF IInv, Types, Lists, Rare
<1>7. happened' # {} BY <1>5
<1> QED BY <1>4, <1>5, <1>6, <1>7, StepKeeps DEF IInv, Types, Exists

LEMMA AnswerKeeps == ASSUME IInv, NEW r \in Runner, DraftAnswered(r) PROVE IInv'
<1>0. /\ run[r].stage = "drafting" /\ run \in [Runner -> Frame]
      /\ UNCHANGED <<policy, skill, trial, queue, waiting, cooling, judged, happened>>
      /\ run' = [run EXCEPT ![r] = Over(r)] \/ run' = [run EXCEPT ![r].stage = "embedding"]
  BY DEF DraftAnswered, IInv, Types
<1>1. Lists' BY <1>0 DEF IInv, Types, Lists
<1>2. {"queue", "manual"} \subseteq Runner /\ "idle" \notin Busy BY DEF Runner, Busy
<1>3. \A x \in Runner : run'[x] \in Frame /\ (x # r => run'[x] = run[x])
  BY <1>0, OverIs DEF Frame, Stage
<1>4. run' \in [Runner -> Frame] BY <1>0, <1>3
<1>5. CASE run' = [run EXCEPT ![r] = Over(r)]
  <2>1. run'[r].stage \notin Busy /\ run'[r].copy = NoSkill BY <1>0, <1>5, OverIs
  <2>2. happened' = {} => run'["manual"].stage = "idle"
    BY <1>0, <1>2, <1>3, <1>5, OverIs DEF IInv, QueueAlone
  <2> QED
    BY <1>0, <1>1, <1>3, <1>4, <2>1, <2>2, StillRetiring, FramesKept DEF IInv, Types, Exists
<1>6. CASE run' = [run EXCEPT ![r].stage = "embedding"]
  <2>1. /\ run'[r].policy = run[r].policy /\ run'[r].copy = run[r].copy
        /\ run'[r].row = run[r].row /\ run[r].stage \in Busy
    BY <1>0, <1>6 DEF Frame, Busy
  <2>2. \A x \in Runner : Sound(run'[x], judged)
    BY <1>3, <2>1 DEF IInv, Sound
  <2>3. happened = {} =>
          run'["manual"].stage = "idle" /\ OneLive(skill) /\ Owns(run'["queue"], skill)
    BY <1>0, <1>2, <1>3, <2>1 DEF IInv, QueueAlone, Owns
  <2> QED BY <1>0, <1>1, <1>4, <2>2, <2>3, StepKeeps DEF IInv, Types, Exists
<1> QED BY <1>0, <1>5, <1>6

\* The row a run writes.
LEMMA WrittenIs ==
  ASSUME IInv, NEW r \in Runner, run[r].stage = "embedding", Written(r)
  PROVE  \E p \in Policies, s \in Skills :
           /\ run[r].policy = {p} /\ run[r].copy \in {NoSkill, s}
           /\ run[r].copy = NoSkill => skill[s] = NoRow
           /\ skill' \in Table /\ skill'[s] \in Row /\ skill'[s].policy = p
           /\ skill'[s].passed <= skill'[s].attempted /\ skill'[s].attempted <= judged[s]
           /\ \A t \in Skills : t = s \/ skill'[t] = skill[t] \/ skill'[t] = Gone
           /\ trial' \subseteq {t \in Skills : Exists(t)'} \X Episodes
<1>0. run[r] \in Frame /\ Sound(run[r], judged) /\ run[r].stage \in Busy /\ run[r].behind \in BOOLEAN
  BY DEF IInv, Types, Frame, Busy
<1>1. PICK p \in Policies : run[r].policy = {p}
  BY <1>0 DEF Sound
<1>2. PICK s \in IF run[r].copy = NoSkill THEN Unused ELSE {run[r].copy}, guided \in BOOLEAN :
      \E namesake \in SUBSET {t \in Skills \ {s} : Exists(t)} :
        /\ Cardinality(namesake) <= 1
        /\ skill' = [t \in Skills |->
             IF t = s THEN IF run[r].copy = NoSkill THEN Crystallized(run[r], guided)
                           ELSE Rebuilt(run[r], guided)
             ELSE IF t \in namesake THEN Gone ELSE skill[t]]
        /\ trial' = TrialsWithout(namesake \cup {s})
  BY DEF Written
<1>3. PICK namesake \in SUBSET {t \in Skills \ {s} : Exists(t)} :
        /\ skill' = [t \in Skills |->
             IF t = s THEN IF run[r].copy = NoSkill THEN Crystallized(run[r], guided)
                           ELSE Rebuilt(run[r], guided)
             ELSE IF t \in namesake THEN Gone ELSE skill[t]]
        /\ trial' = TrialsWithout(namesake \cup {s})
  BY <1>2
<1>4. /\ s \in Skills /\ run[r].copy \in {NoSkill, s}
      /\ run[r].copy = NoSkill => skill[s] = NoRow
  BY <1>0, <1>2 DEF Unused, Frame
<1>5. PICK row : row = IF run[r].copy = NoSkill THEN Crystallized(run[r], guided)
                       ELSE Rebuilt(run[r], guided)
  OBVIOUS
<1>6. row \in Row /\ row.policy = p /\ row.passed <= row.attempted /\ row.attempted <= judged[s]
  <2>1. PICK fresh \in BOOLEAN : fresh = ~run[r].behind BY <1>0
  <2>2. CASE run[r].copy = NoSkill
    <3>1. (CHOOSE q \in Policies : run[r].policy = {q}) = p BY <1>1
    <3>2. row = [status |-> "candidate", policy |-> p, eta |-> "fair", guided |-> guided,
                 attempted |-> 0, passed |-> 0, current |-> fresh]
      BY <1>5, <2>1, <2>2, <3>1 DEF Crystallized
    <3>3. row \in Row BY <3>2 DEF Row, Live, Eta
    <3>4. judged[s] \in Nat BY <1>4 DEF IInv, Types
    <3> QED BY <3>2, <3>3, <3>4
  <2>3. CASE run[r].copy # NoSkill
    <3>1. PICK old \in Row : old = run[r].row BY <1>0, <2>3 DEF Sound
    <3>2. PICK eta \in Eta : eta = IF old.attempted > 0 THEN old.eta ELSE "fair"
      BY DEF Row, Eta
    <3>3. row = [old EXCEPT !.status = "candidate", !.guided = guided, !.current = fresh, !.eta = eta]
      BY <1>5, <2>1, <2>3, <3>1, <3>2 DEF Rebuilt
    <3>4. /\ row \in Row /\ row.policy = old.policy /\ row.attempted = old.attempted
          /\ row.passed = old.passed
      BY <3>3 DEF Row, Live
    <3> QED BY <1>0, <1>1, <1>4, <2>3, <3>1, <3>4 DEF Sound
  <2> QED BY <2>2, <2>3
<1>7. /\ skill' \in Table /\ skill'[s] = row
      /\ \A t \in Skills : t = s \/ skill'[t] = skill[t] \/ skill'[t] = Gone
      /\ \A t \in Skills : t \notin namesake /\ t # s => skill'[t] = skill[t]
  <2>1. skill' = [t \in Skills |-> IF t = s THEN row ELSE IF t \in namesake THEN Gone ELSE skill[t]]
    BY <1>3, <1>5
  <2>2. skill' \in Table BY <1>6, <2>1 DEF IInv, Types, Table
  <2> QED BY <1>4, <2>1, <2>2
<1>8. trial' \subseteq {t \in Skills : Exists(t)'} \X Episodes
  <2> SUFFICES ASSUME NEW x \in trial' PROVE x \in {t \in Skills : Exists(t)'} \X Episodes
    OBVIOUS
  <2>1. x \in trial /\ x[1] \notin namesake \cup {s} BY <1>3 DEF TrialsWithout
  <2>2. x \in {t \in Skills : Exists(t)} \X Episodes BY <2>1 DEF IInv, Types
  <2>3. x[1] \in Skills /\ Exists(x[1]) BY <2>2
  <2>4. Exists(x[1])' BY <1>7, <2>1, <2>3 DEF Exists
  <2> QED BY <2>2, <2>4
<1> QED BY <1>1, <1>4, <1>6, <1>7, <1>8

LEMMA SaveKeeps == ASSUME IInv, NEW r \in Runner, Save(r) PROVE IInv'
<1>0. /\ run[r].stage = "embedding" /\ run \in [Runner -> Frame]
      /\ UNCHANGED <<policy, queue, waiting, cooling, judged, happened>>
      /\ run' = [run EXCEPT ![r] = Over(r)]
      /\ Written(r) \/ UNCHANGED <<skill, trial>>
  BY DEF Save, IInv, Types
<1>1. Lists' BY <1>0 DEF IInv, Types, Lists
<1>2. {"queue", "manual"} \subseteq Runner /\ "idle" \notin Busy /\ "embedding" \in Busy
  BY DEF Runner, Busy
<1>3. /\ run'[r] = Over(r) /\ run'[r].stage \notin Busy /\ run'[r].copy = NoSkill
      /\ run' \in [Runner -> Frame] /\ \A x \in Runner : x # r => run'[x] = run[x]
  BY <1>0, OverIs
<1>4. happened' = {} => run'["manual"].stage = "idle"
  BY <1>0, <1>2, <1>3, OverIs DEF IInv, QueueAlone
<1>5. CASE UNCHANGED <<skill, trial>>
  BY <1>0, <1>1, <1>3, <1>4, <1>5, StillRetiring, FramesKept DEF IInv, Types, Exists
<1>6. CASE Written(r)
  <2>1. PICK p \in Policies, s \in Skills :
           /\ run[r].policy = {p} /\ run[r].copy \in {NoSkill, s}
           /\ run[r].copy = NoSkill => skill[s] = NoRow
           /\ skill' \in Table /\ skill'[s] \in Row /\ skill'[s].policy = p
           /\ skill'[s].passed <= skill'[s].attempted /\ skill'[s].attempted <= judged[s]
           /\ \A t \in Skills : t = s \/ skill'[t] = skill[t] \/ skill'[t] = Gone
           /\ trial' \subseteq {t \in Skills : Exists(t)'} \X Episodes
    BY <1>0, <1>6, WrittenIs
  <2>2. Credited(skill', judged)
    <3>1. Gone \notin Row BY Statuses
    <3> QED BY <2>1, <3>1 DEF IInv, Credited
  <2>3. \A x \in Runner : Sound(run'[x], judged)
    BY <1>3, AtRest DEF IInv
  <2>4. ASSUME happened = {}
        PROVE  /\ run'["manual"].stage = "idle" /\ OneLive(skill')
               /\ Owns(run'["queue"], skill')
    <3>1. r = "queue" BY <1>0, <1>2, <2>4 DEF IInv, QueueAlone, Runner
    <3>2. Owns(run[r], skill) /\ OneLive(skill) BY <2>4, <3>1 DEF IInv, QueueAlone
    <3>3. Index(p, skill) \subseteq {s}
      <4>1. Index(p, skill) \subseteq {run[r].copy} BY <1>0, <1>2, <2>1, <3>2 DEF Owns
      <4>2. \A t \in Index(p, skill) : t # NoSkill
        BY SkillAssumption DEF Index, Skills, NoSkill
      <4> QED BY <2>1, <4>1, <4>2
    <3>4. Gone.status \notin Live BY Statuses DEF Live
    <3>5. \A q \in Policies : \A t \in Index(q, skill') : t = s \/ t \in Index(q, skill)
      BY <2>1, <3>4 DEF Index
    <3>6. \A q \in Policies : s \in Index(q, skill') => q = p BY <2>1 DEF Index
    <3>7. OneLive(skill') BY <3>2, <3>3, <3>5, <3>6 DEF OneLive
    <3> QED BY <1>0, <1>3, <1>4, <2>4, <3>1, <3>7, AtRest
  <2> QED BY <1>0, <1>1, <1>3, <2>1, <2>2, <2>3, <2>4, StepKeeps DEF IInv, Types
<1> QED BY <1>0, <1>5, <1>6

\* The steps that leave the runs alone, or end them, and bring no skill to life.
LEMMA EditsKeep ==
  ASSUME IInv, Lists', UNCHANGED <<run, judged>>, happened \subseteq happened',
         trial' \subseteq trial, Retiring(skill', skill),
         \A s \in Skills :
           \/ skill'[s] = skill[s]
           \/ skill[s] \in Row /\ skill'[s] \in Row /\ skill'[s].attempted = skill[s].attempted
                /\ skill'[s].passed = skill[s].passed
           \/ skill'[s] = Gone /\ \A t \in trial' : t[1] # s,
         skill' = [s \in Skills |-> skill'[s]]
  PROVE  IInv'
<1>1. \A s \in Skills : skill'[s] \in Row \cup {NoRow, Gone}
  BY DEF IInv, Types, Table
<1>2. skill' \in Table BY <1>1 DEF Table
<1>3. Credited(skill', judged)
  <2>1. Gone \notin Row BY Statuses
  <2> QED BY <2>1 DEF IInv, Credited
<1>4. trial' \subseteq {s \in Skills : Exists(s)'} \X Episodes
  <2> SUFFICES ASSUME NEW x \in trial' PROVE x \in {t \in Skills : Exists(t)'} \X Episodes
    OBVIOUS
  <2>1. x \in {t \in Skills : Exists(t)} \X Episodes BY DEF IInv, Types
  <2>2. x[1] \in Skills /\ Exists(x[1]) BY <2>1
  <2>3. Exists(x[1])' BY <2>2, Statuses DEF Exists
  <2> QED BY <2>1, <2>3
<1>5. happened' = {} => run'["manual"].stage = "idle" BY DEF IInv, QueueAlone
<1> QED BY <1>2, <1>3, <1>4, <1>5, FramesKept DEF IInv, Types

LEMMA LifecycleKeeps == ASSUME IInv, LifecycleTick PROVE IInv'
<1>1. PICK idle \in SUBSET {s \in Skills : skill[s].status = "active" /\ skill[s].eta = "low"} :
       skill' = [s \in Skills |->
         IF Exists(s) /\ Promotable(skill[s])
         THEN [skill[s] EXCEPT !.status = "active", !.current = TRUE]
         ELSE IF s \in idle THEN [skill[s] EXCEPT !.status = "archived", !.current = TRUE]
         ELSE skill[s]]
  BY DEF LifecycleTick
<1>2. UNCHANGED <<policy, trial, run, queue, waiting, cooling, judged, happened>>
  BY DEF LifecycleTick
<1>3. ASSUME NEW s \in Skills, skill'[s] # skill[s]
      PROVE  /\ skill[s] \in Row /\ skill'[s] \in Row /\ skill'[s].attempted = skill[s].attempted
             /\ skill'[s].passed = skill[s].passed /\ skill'[s].policy = skill[s].policy
             /\ skill'[s].status \in Live => skill[s].status \in Live
  <2>1. skill[s].status \in Live /\ skill[s] \in Row
    <3>1. skill[s].status \in Live BY <1>1, <1>3 DEF Promotable, Live
    <3> QED BY <3>1, LiveIsRow DEF IInv, Types
  <2>2. \E status \in {"active", "archived"} :
          skill'[s] = [skill[s] EXCEPT !.status = status, !.current = TRUE]
    BY <1>1, <1>3
  <2> QED BY <2>1, <2>2 DEF Row, Live
<1>4. Retiring(skill', skill) BY <1>3 DEF Retiring
<1>5. Lists' BY <1>2 DEF IInv, Types, Lists
<1>6. skill' = [s \in Skills |-> skill'[s]] BY <1>1
<1> QED BY <1>2, <1>3, <1>4, <1>5, <1>6, EditsKeep

LEMMA DeleteKeeps == ASSUME IInv, NEW s \in Skills, Delete(s) PROVE IInv'
<1>1. /\ skill' = [skill EXCEPT ![s] = Gone] /\ trial' = TrialsWithout({s})
      /\ UNCHANGED <<policy, run, queue, waiting, cooling, judged, happened>>
  BY DEF Delete
<1>2. \A t \in Skills : IF t = s THEN skill'[t] = Gone ELSE skill'[t] = skill[t]
  BY <1>1 DEF IInv, Types, Table
<1>3. Retiring(skill', skill) BY <1>2, Statuses DEF Retiring, Live
<1>4. Lists' BY <1>1 DEF IInv, Types, Lists
<1>5. skill' = [t \in Skills |-> skill'[t]] BY <1>1 DEF IInv, Types, Table
<1>6. trial' \subseteq trial /\ \A t \in trial' : t[1] # s BY <1>1 DEF TrialsWithout
<1> QED BY <1>1, <1>2, <1>3, <1>4, <1>5, <1>6, EditsKeep

LEMMA SetStatusKeeps ==
  ASSUME IInv, NEW s \in Skills, NEW status \in {"active", "archived"}, SetStatus(s, status)
  PROVE  IInv'
<1>1. /\ Exists(s) /\ skill' = [skill EXCEPT ![s].status = status, ![s].current = TRUE]
      /\ UNCHANGED <<policy, trial, run, queue, waiting, cooling, judged>>
      /\ happened' = happened \cup (IF status = "active" THEN {"reactivated"} ELSE {})
  BY DEF SetStatus
<1>2. skill[s] \in Row BY <1>1 DEF IInv, Types, Table, Exists
<1>3. /\ skill'[s] = [skill[s] EXCEPT !.status = status, !.current = TRUE]
      /\ \A t \in Skills : t # s => skill'[t] = skill[t]
  BY <1>1 DEF IInv, Types, Table
<1>4. /\ skill'[s] \in Row /\ skill'[s].attempted = skill[s].attempted
      /\ skill'[s].passed = skill[s].passed /\ skill'[s].status = status
  BY <1>2, <1>3 DEF Row, Live
<1>5. Lists' BY <1>1 DEF IInv, Types, Lists, Rare
<1>6. skill' = [t \in Skills |-> skill'[t]] BY <1>1 DEF IInv, Types, Table
<1>7. CASE status = "archived"
  <2>1. Retiring(skill', skill) BY <1>3, <1>4, <1>7 DEF Retiring, Live
  <2> QED BY <1>1, <1>2, <1>3, <1>4, <1>5, <1>6, <2>1, EditsKeep
<1>8. CASE status = "active"
  <2>1. happened' # {} BY <1>1, <1>8
  <2>2. skill' \in Table
    <3>1. \A t \in Skills : skill'[t] \in Row \cup {NoRow, Gone}
      BY <1>3, <1>4 DEF IInv, Types, Table
    <3> QED BY <1>6, <3>1 DEF Table
  <2>3. Credited(skill', judged) BY <1>2, <1>3, <1>4 DEF IInv, Credited
  <2>4. \A t \in Skills : Exists(t) => Exists(t)' BY <1>3, <1>4, Statuses DEF Exists
  <2>5. trial' \subseteq {t \in Skills : Exists(t)'} \X Episodes
    BY <1>1, <2>4 DEF IInv, Types
  <2> QED BY <1>1, <1>5, <2>1, <2>2, <2>3, <2>5, StepKeeps DEF IInv, Types
<1> QED BY <1>7, <1>8

LEMMA CrashKeeps == ASSUME IInv, Crash PROVE IInv'
<1>1. /\ run' = [r \in Runner |-> Idle] /\ queue' = <<>> /\ waiting' = {} /\ cooling' = {}
      /\ UNCHANGED <<policy, skill, trial, judged, happened>>
  BY DEF Crash
<1>2. Idle \in Frame /\ Idle.stage = "idle" /\ Idle.stage \notin Busy /\ Idle.copy = NoSkill
  BY DEF Idle, Frame, Stage, Busy
<1>3. /\ run' \in [Runner -> Frame] /\ "manual" \in Runner
      /\ \A r \in Runner : run'[r].stage \notin Busy /\ run'[r].copy = NoSkill
      /\ run'["manual"].stage = "idle"
  BY <1>1, <1>2 DEF Runner
<1>4. Lists' BY <1>1 DEF IInv, Types, Lists
<1> QED BY <1>1, <1>3, <1>4, StillRetiring, FramesKept DEF IInv, Types, Exists

LEMMA LeaveKeeps == ASSUME IInv, Leave PROVE IInv'
<1>0. /\ run' = [run EXCEPT !["queue"].stage = "idle"] /\ run["queue"].stage = "leaving"
      /\ UNCHANGED <<policy, skill, trial, queue, waiting, cooling, judged, happened>>
      /\ {"queue", "manual"} \subseteq Runner /\ run \in [Runner -> Frame]
  BY DEF Leave, Runner, IInv, Types
<1>1. \A r \in Runner : /\ run'[r] \in Frame /\ run'[r].policy = run[r].policy
                        /\ run'[r].copy = run[r].copy /\ run'[r].row = run[r].row
                        /\ run'[r].stage \in Busy => run[r].stage \in Busy
  BY <1>0 DEF Frame, Stage, Busy
<1>2. run' \in [Runner -> Frame] /\ run'["manual"] = run["manual"] BY <1>0, <1>1
<1>3. \A r \in Runner : Sound(run'[r], judged) BY <1>1 DEF IInv, Sound
<1>4. Owns(run["queue"], skill) => Owns(run'["queue"], skill) BY <1>0, <1>1 DEF Owns
<1>5. Lists' BY <1>0 DEF IInv, Types, Lists
<1> QED BY <1>0, <1>2, <1>3, <1>4, <1>5, StepKeeps DEF IInv, Types, QueueAlone, Exists

LEMMA TryKeeps == ASSUME IInv, NEW s \in Skills, NEW e \in Episodes, Try(s, e) PROVE IInv'
<1>1. /\ Exists(s) /\ trial' = trial \cup {<<s, e>>}
      /\ UNCHANGED <<policy, skill, run, queue, waiting, cooling, judged, happened>>
  BY DEF Try
<1>2. trial' \subseteq {t \in Skills : Exists(t)'} \X Episodes
  BY <1>1 DEF IInv, Types, Exists
<1>3. Lists' BY <1>1 DEF IInv, Types, Lists
<1> QED BY <1>1, <1>2, <1>3, StepKeeps DEF IInv, Types, QueueAlone

LEMMA StillKeeps ==
  ASSUME IInv, UNCHANGED <<policy, skill, trial, run, queue, waiting, judged, happened>>,
         cooling' \subseteq cooling
  PROVE  IInv'
<1>1. Lists' BY DEF IInv, Types, Lists
<1> QED BY <1>1, StepKeeps DEF IInv, Types, QueueAlone, Exists

LEMMA StartsEmpty == Init => IInv
<1> SUFFICES ASSUME Init PROVE IInv
  OBVIOUS
<1>1. /\ Idle \in Frame /\ Idle.stage = "idle" /\ Idle.stage \notin Busy /\ Idle.copy = NoSkill
  BY DEF Idle, Frame, Stage, Busy
<1>2. Types
  BY <1>1 DEF Init, Types, Lists, Table
<1>3. \A s \in Skills : skill[s] \notin Row /\ skill[s].status \notin Live
  BY Statuses DEF Init, Live
<1>4. Credited(skill, judged) BY <1>3 DEF Credited
<1>5. {"queue", "manual"} \subseteq Runner /\ \A r \in Runner : run[r] = Idle
  BY DEF Init, Runner
<1>6. QueueAlone
  BY <1>1, <1>3, <1>5, AtRest DEF QueueAlone, OneLive, Index
<1> QED BY <1>1, <1>2, <1>4, <1>5, <1>6, AtRest DEF IInv

LEMMA StepInvariant == IInv /\ [Next]_vars => IInv'
<1> SUFFICES ASSUME IInv, [Next]_vars PROVE IInv'
  OBVIOUS
<1>1. ASSUME NEW p \in Policies, PolicyUpdate(p) \/ CooldownEnds(p) \/ ManualRun(p) PROVE IInv'
  BY <1>1, PolicyUpdateKeeps, ManualKeeps, StillKeeps DEF CooldownEnds
<1>2. ASSUME NEW e \in Episodes, Reward(e) PROVE IInv'
  BY <1>2, RewardKeeps
<1>3. ASSUME NEW r \in Runner, RunStep(r) PROVE IInv'
  BY <1>3, AnswerKeeps, SaveKeeps DEF RunStep
<1>4. CASE TimerFires \/ NextItem \/ Leave \/ LifecycleTick \/ Crash
  BY <1>4, TimerKeeps, NextItemKeeps, LeaveKeeps, LifecycleKeeps, CrashKeeps
<1>5. ASSUME NEW s \in Skills,
             \/ \E e \in Episodes : Try(s, e)
             \/ \E status \in {"active", "archived"} : SetStatus(s, status)
             \/ Delete(s)
      PROVE  IInv'
  BY <1>5, TryKeeps, SetStatusKeeps, DeleteKeeps
<1>6. CASE UNCHANGED vars
  BY <1>6, StillKeeps DEF vars
<1> QED BY <1>1, <1>2, <1>3, <1>4, <1>5, <1>6 DEF Next

LEMMA Invariant == Spec => []IInv
BY StartsEmpty, StepInvariant, PTL DEF Spec

-----------------------------------------------------------------------------
(* What follows.                                                           *)

\* Whatever a run writes back of the row it read before its awaits, no skill is
\* credited with a trial nobody judged; and as long as the runs of skill/subscriber.ts
\* are queued and the viewer brings nothing back, no policy has two live skills.
THEOREM SkillsCorrect == Spec => []SkillsAddUp
<1>1. ASSUME IInv PROVE SkillsAddUp
  <2>1. TypeOK
    <3>1. ASSUME NEW r \in Runner
          PROVE  /\ run[r].stage \in Stage
                 /\ run[r].copy # NoSkill => run[r].row \in Row /\ {run[r].row.policy} = run[r].policy
      BY <1>1 DEF IInv, Types, Frame, Sound
    <3> QED BY <1>1, <3>1 DEF TypeOK, IInv, Types, Lists, Table
  <2>2. CreditIsJudged
    BY <1>1 DEF CreditIsJudged, IInv, Credited, Types, Table, Exists
  <2>3. ASSUME happened = {}, NEW p \in Policies PROVE Cardinality(Index(p, skill)) <= 1
    <3>1. \A s, t \in Index(p, skill) : s = t BY <1>1, <2>3 DEF IInv, QueueAlone, OneLive
    <3>2. CASE Index(p, skill) = {} BY <3>2, FS_EmptySet
    <3>3. CASE Index(p, skill) # {}
      <4>1. PICK s : Index(p, skill) = {s} BY <3>1, <3>3
      <4>2. Cardinality({s}) = 1 BY FS_Singleton
      <4> QED BY <4>1, <4>2
    <3> QED BY <3>2, <3>3
  <2> QED BY <2>1, <2>2, <2>3 DEF SkillsAddUp, OneLiveSkill
<1> QED BY <1>1, Invariant, PTL

\* Neither a verdict, nor the lifecycle tick, nor a run of which the row is not the
\* one it read brings a skill back that was archived or deleted.
THEOREM RetiredCorrect == Spec => RetiredStands
<1>1. IInv /\ [Next]_vars =>
        [\A s \in Skills :
           skill[s].status \in {"archived", "deleted"} /\ skill'[s].status \in Live =>
             \/ SetStatus(s, "active")
             \/ \E r \in Runner : run[r].copy = s /\ run[r].row.status \in Live]_vars
  <2> SUFFICES ASSUME IInv, [Next]_vars, NEW s \in Skills,
                      skill[s].status \in {"archived", "deleted"}, skill'[s].status \in Live,
                      ~SetStatus(s, "active")
               PROVE  \E r \in Runner : run[r].copy = s /\ run[r].row.status \in Live
    OBVIOUS
  <2>0. skill[s].status \notin Live /\ skill \in Table BY DEF Live, IInv, Types
  <2>1. ~Retiring(skill', skill) BY <2>0 DEF Retiring
  <2>2. ASSUME NEW r \in Runner, RunStep(r)
        PROVE  \E x \in Runner : run[x].copy = s /\ run[x].row.status \in Live
    <3>1. Save(r) /\ Written(r) /\ run[r].stage = "embedding"
      BY <2>2, <2>1, StillRetiring DEF RunStep, DraftAnswered, Save
    <3>2. PICK p \in Policies, t \in Skills :
             /\ run[r].copy \in {NoSkill, t} /\ (run[r].copy = NoSkill => skill[t] = NoRow)
             /\ \A x \in Skills : x = t \/ skill'[x] = skill[x] \/ skill'[x] = Gone
      BY <3>1, WrittenIs
    <3>3. t = s BY <2>0, <3>2, Statuses DEF Live
    <3>4. run[r].copy = s BY <3>2, <3>3, Statuses
    <3>5. s # NoSkill BY SkillAssumption DEF Skills, NoSkill
    <3> QED BY <3>4, <3>5 DEF IInv, Sound
  <2>3. ASSUME NEW p \in Policies, PolicyUpdate(p) PROVE FALSE
    <3>1. skill'[s].status = skill[s].status
      <4>1. \/ skill'[s] = skill[s]
            \/ skill[s] \in Row /\ skill'[s] = [skill[s] EXCEPT !.current = FALSE]
        BY <2>0, <2>3 DEF PolicyUpdate, Exists, Table
      <4> QED BY <4>1 DEF Row
    <3> QED BY <2>0, <3>1
  <2>4. ASSUME NEW e \in Episodes, Reward(e) PROVE FALSE
    BY <2>1, <2>4, RewardRetires
  <2>5. ASSUME LifecycleTick PROVE FALSE
    <3>1. ~Promotable(skill[s]) BY <2>0 DEF Promotable, Live
    <3>2. skill'[s] = skill[s]
      BY <2>0, <2>5, <3>1 DEF LifecycleTick, Live
    <3> QED BY <2>0, <3>2
  <2>6. ASSUME NEW t \in Skills, NEW status \in {"active", "archived"}, SetStatus(t, status)
        PROVE  FALSE
    <3>1. s = t BY <2>0, <2>6 DEF SetStatus, Table
    <3>2. skill[s] \in Row BY <2>0, <2>6, <3>1 DEF SetStatus, Table, Exists
    <3>3. skill'[s] = [skill[s] EXCEPT !.status = status, !.current = TRUE]
      BY <2>0, <2>6, <3>1 DEF SetStatus, Table
    <3>4. skill'[s].status = status BY <3>2, <3>3 DEF Row
    <3> QED BY <2>6, <3>1, <3>4 DEF Live
  <2>7. ASSUME NEW t \in Skills, Delete(t) PROVE FALSE
    <3>1. skill'[s] = skill[s] \/ skill'[s] = Gone BY <2>0, <2>7 DEF Delete, Table
    <3> QED BY <2>0, <3>1, Statuses DEF Live
  <2>8. ASSUME UNCHANGED skill PROVE FALSE BY <2>0, <2>8
  <2> QED
    BY <2>2, <2>3, <2>4, <2>5, <2>6, <2>7, <2>8
    DEF Next, CooldownEnds, ManualRun, TimerFires, NextItem, Leave, Crash, Try, vars
<1> QED BY <1>1, Invariant, PTL DEF Spec, RetiredStands
=============================================================================
