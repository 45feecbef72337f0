------------------------ MODULE RewardAndPolicyProofs -----------------------
(***************************************************************************)
(* Proofs about RewardScoring, for any number of runs and every bound: the *)
(* types hold; and about PolicyInduction, for all traces and policies and  *)
(* every threshold: the types hold, what is promoted is linked, what is    *)
(* induced is counted, and only the viewer or a run that took its copy before *)
(* brings an archived policy back.                                         *)
(***************************************************************************)
EXTENDS RewardScoring, PolicyInduction, SequenceTheorems, FiniteSetTheorems, TLAPS

-----------------------------------------------------------------------------
(* Reward runs and the numbers they work with.                             *)

LEMMA SpendCounts ==
  ASSUME RewardTypeOK, NEW what \in {"turns", "reopens", "deletes", "faults", "crashes"}, Spend(what)
  PROVE  spent' \in Spent
BY DEF RewardTypeOK, Spend, Spent

LEMMA RewardRecords ==
  /\ Unrated \in RewardMeta /\ Skipped \in RewardMeta /\ \A n \in Nat : Rated(n) \in RewardMeta
  /\ Clean \in Marker /\ \A n \in Nat : Dirtied(n) \in Marker
  /\ NoSnap \in Snap /\ NoRun \in Run /\ NoScan \in Scan
BY DEF Unrated, Skipped, Rated, RewardMeta, Clean, Dirtied, Marker, NoSnap, Snap, NoRun, Run,
       NoScan, Scan

\* A run that starts reads numbers of rows, and a topic that is skipped has none.
LEMMA StartRunTyped ==
  ASSUME RewardTypeOK, NEW r \in Runs, NEW by \in {"background", "feedback", "fallback"},
         NEW heard \in Nat, StartRun(r, by, heard)
  PROVE  runs' \in [Runs -> Run] /\ reward' \in RewardMeta /\ marker' \in Marker
<1>1. CASE Thin
  BY <1>1, RewardRecords DEF RewardTypeOK, StartRun
<1>2. CASE ~Thin
  <2>1. [by |-> by, heard |-> heard, count |-> traces] \in Run
    BY DEF RewardTypeOK, Run
  <2> QED BY <1>2, <2>1 DEF RewardTypeOK, StartRun
<1> QED BY <1>1, <1>2

LEMMA WriteBackTyped ==
  ASSUME RewardTypeOK, NEW s \in Snap, WriteBack(s)
  PROVE  reward' \in RewardMeta /\ marker' \in Marker
BY DEF RewardTypeOK, Snap, WriteBack

LEMMA ScanTyped ==
  ASSUME NEW s \in Scan,
         NEW stage \in {"listed", "reflect", "score", "account", "reopenReflect", "reopenScore",
                        "fallback", "awaited"}
  PROVE  [s EXCEPT !.stage = stage] \in Scan /\ [s EXCEPT !.failed = TRUE] \in Scan
BY DEF Scan

-----------------------------------------------------------------------------
(* Types are kept.                                                         *)

LEMMA RewardTypeAtFirst == RewardInit => RewardTypeOK
<1> SUFFICES ASSUME RewardInit PROVE RewardTypeOK
  OBVIOUS
<1>1. snap \in Snap
  BY RewardRecords DEF RewardInit, Snap, NoSnap
<1>2. spent \in Spent
  BY DEF RewardInit, Spent
<1>3. runs \in [Runs -> Run] /\ scan \in Scan /\ reward \in RewardMeta /\ marker \in Marker
  BY RewardRecords DEF RewardInit
<1> QED BY <1>1, <1>2, <1>3 DEF RewardInit, RewardTypeOK

LEMMA RewardTypeNext == RewardTypeOK /\ [RewardNext]_rewardVars => RewardTypeOK'
<1> SUFFICES ASSUME RewardTypeOK, [RewardNext]_rewardVars PROVE RewardTypeOK'
  OBVIOUS
<1> USE DEF rows, memory
<1>1. /\ status \in {"open", "closed"} /\ traces \in Nat /\ feedback \in Nat
      /\ rTask \in Nat \cup {None} /\ reward \in RewardMeta /\ marker \in Marker
      /\ snap \in Snap /\ reflects \in Nat
      /\ window \in [pending : BOOLEAN, orphans : Nat]
      /\ runs \in [Runs -> Run] /\ scan \in Scan
      /\ cooling \in BOOLEAN /\ spent \in Spent
  BY DEF RewardTypeOK
<1>2. CASE Hydrate
  <2>1. snap' \in Snap
    BY <1>1, <1>2 DEF Hydrate, Snap
  <2> QED BY <1>1, <1>2, <2>1 DEF Hydrate, RewardTypeOK
<1>3. CASE EndTurn
  <2>1. snap' \in Snap /\ traces' \in Nat
    BY <1>1, <1>3 DEF EndTurn, Snap
  <2>2. spent' \in Spent
    BY <1>3, SpendCounts DEF EndTurn
  <2> QED BY <1>1, <1>3, <2>1, <2>2 DEF EndTurn, RewardTypeOK
<1>4. CASE Finalize
  <2>1. reward' \in RewardMeta /\ marker' \in Marker
    BY <1>1, <1>4, WriteBackTyped DEF Finalize
  <2>2. reflects' \in Nat
    BY <1>1, <1>4 DEF Finalize, Reflect
  <2> QED BY <1>1, <1>4, <2>1, <2>2 DEF Finalize, RewardTypeOK
<1>5. CASE Reopen
  <2>1. Reopened(snap) \in Snap
    BY <1>1, RewardRecords DEF Reopened, Snap
  <2>2. reward' \in RewardMeta /\ marker' \in Marker
    BY <1>5, <2>1, WriteBackTyped DEF Reopen
  <2>3. spent' \in Spent
    BY <1>5, SpendCounts DEF Reopen
  <2> QED BY <1>1, <1>5, <2>1, <2>2, <2>3 DEF Reopen, RewardTypeOK
<1>6. CASE DeleteTrace
  <2>1. traces' \in Nat
    BY <1>1, <1>6 DEF DeleteTrace
  <2>2. spent' \in Spent
    BY <1>6, SpendCounts DEF DeleteTrace
  <2> QED BY <1>1, <1>6, <2>1, <2>2 DEF DeleteTrace, RewardTypeOK
<1>7. ASSUME NEW r \in Runs, GiveFeedback(r) PROVE RewardTypeOK'
  <2>1. feedback' = feedback + 1 /\ StartRun(r, "feedback", feedback + 1) /\ feedback + 1 \in Nat
    BY <1>1, <1>7 DEF GiveFeedback
  <2>2. runs' \in [Runs -> Run] /\ reward' \in RewardMeta /\ marker' \in Marker
    BY <2>1, StartRunTyped
  <2> QED BY <1>1, <1>7, <2>1, <2>2 DEF GiveFeedback, RewardTypeOK
<1>8. CASE ReflectEnds
  <2>1. reflects > 0 /\ reflects' = reflects - 1 /\ UNCHANGED <<rows, snap, runs, cooling>>
    BY <1>8 DEF ReflectEnds, ReflectDone, ReflectFail
  <2>2. window' \in [pending : BOOLEAN, orphans : Nat]
    <3>1. CASE ReflectDone
      <4>1. PICK n : n = window.orphans + (IF window.pending THEN 1 ELSE 0)
        OBVIOUS
      <4>2. window.orphans \in Nat /\ n \in Nat
        BY <1>1, <4>1
      <4>3. window' = [pending |-> TRUE, orphans |-> n]
        BY <3>1, <4>1 DEF ReflectDone
      <4> QED BY <4>2, <4>3
    <3>2. CASE ReflectFail
      BY <1>1, <3>2 DEF ReflectFail
    <3> QED BY <1>8, <3>1, <3>2 DEF ReflectEnds
  <2>3. scan' \in Scan
    <3>1. scan' = scan \/ scan' = [scan EXCEPT !.failed = TRUE]
      BY <1>8 DEF ReflectEnds, ReflectDone, ReflectFail
    <3> QED BY <1>1, <3>1, ScanTyped
  <2>4. spent' \in Spent
    BY <1>1, <1>8, SpendCounts DEF ReflectEnds, ReflectDone, ReflectFail
  <2>5. reflects' \in Nat
    BY <1>1, <2>1
  <2> QED BY <1>1, <2>1, <2>2, <2>3, <2>4, <2>5 DEF RewardTypeOK
<1>9. CASE WindowEnds
  <2>1. PICK r \in Runs : Expire(r) \/ ExpireOrphan(r)
    BY <1>9 DEF WindowEnds
  <2>2. StartRun(r, "background", feedback)
        /\ UNCHANGED <<status, traces, feedback, rTask, snap, reflects, scan, cooling, spent>>
    BY <2>1 DEF Expire, ExpireOrphan
  <2>3. runs' \in [Runs -> Run] /\ reward' \in RewardMeta /\ marker' \in Marker
    BY <1>1, <2>2, StartRunTyped
  <2>4. window' \in [pending : BOOLEAN, orphans : Nat]
    <3>1. CASE Expire(r)
      BY <1>1, <3>1 DEF Expire
    <3>2. CASE ExpireOrphan(r)
      <4>1. PICK n : n = window.orphans - (IF window.pending THEN 0 ELSE 1)
        OBVIOUS
      <4>2. window.orphans \in Nat /\ window.orphans > 0
        BY <1>1, <3>2 DEF ExpireOrphan
      <4>3. n \in Nat
        BY <4>1, <4>2
      <4>4. window' = [pending |-> FALSE, orphans |-> n]
        BY <3>2, <4>1 DEF ExpireOrphan
      <4> QED BY <4>3, <4>4
    <3> QED BY <2>1, <3>1, <3>2
  <2> QED BY <1>1, <2>2, <2>3, <2>4 DEF RewardTypeOK
<1>10. CASE RunEnds
  <2>1. PICK r \in Runs, task \in BOOLEAN, meta \in BOOLEAN : FinishRun(r, task, meta)
    BY <1>10 DEF RunEnds
  <2>2. runs[r].heard \in Nat /\ runs[r].count \in Nat
    BY <1>1 DEF Run
  <2>3. rTask' \in Nat \cup {None} /\ reward' \in RewardMeta /\ marker' \in Marker
    BY <1>1, <2>1, <2>2, RewardRecords DEF FinishRun
  <2>4. runs' \in [Runs -> Run] /\ scan' \in Scan
    BY <1>1, <2>1, RewardRecords DEF FinishRun
  <2>5. spent' \in Spent
    BY <1>1, <2>1, SpendCounts DEF FinishRun
  <2> QED BY <1>1, <2>1, <2>3, <2>4, <2>5 DEF FinishRun, RewardTypeOK
<1>11. CASE Launch
  <2>1. reflects' \in Nat
    BY <1>1, <1>11 DEF Launch, Reflect
  <2>2. scan' \in Scan
    BY <1>1, <1>11, ScanTyped DEF Launch
  <2> QED BY <1>1, <1>11, <2>1, <2>2 DEF Launch, RewardTypeOK
<1>12. CASE Drained
  <2>1. scan' \in Scan
    <3>1. PICK stage \in {"account", "fallback"} : scan' = [scan EXCEPT !.stage = stage]
      BY <1>12 DEF Drained
    <3> QED BY <1>1, <3>1, ScanTyped
  <2> QED BY <1>1, <1>12, <2>1 DEF Drained, RewardTypeOK
<1>13. CASE Account
  <2>1. scan.attempts \in Nat /\ MaxAttempts \in Nat
    BY <1>1, RewardAssumption DEF Scan
  <2>2. AtMost(scan.attempts + 1, MaxAttempts) \in Nat
    BY <2>1 DEF AtMost
  <2>3. marker' \in Marker /\ cooling' \in BOOLEAN /\ scan' \in Scan
    <3>1. scan' \in Scan
      BY <1>13, RewardRecords DEF Account
    <3>2. cooling' \in BOOLEAN
      <4>1. cooling' = cooling \/ cooling' = (scan.attempts + 1 >= MaxAttempts)
        BY <1>13 DEF Account
      <4>2. (scan.attempts + 1 >= MaxAttempts) \in BOOLEAN
        OBVIOUS
      <4> QED BY <1>1, <4>1, <4>2, Zenon
    <3>3. marker' = Clean \/ marker' = Dirtied(AtMost(scan.attempts + 1, MaxAttempts))
      BY <1>13 DEF Account
    <3>4. marker' \in Marker
      BY <2>2, <3>3, RewardRecords
    <3> QED BY <3>1, <3>2, <3>4
  <2> QED BY <1>1, <1>13, <2>3 DEF Account, RewardTypeOK
<1>14. ASSUME NEW r \in Runs, Drain(r) PROVE RewardTypeOK'
  <2>1. scan' \in Scan
    <3>1. PICK stage \in {"score", "reopenScore"} : scan' = [scan EXCEPT !.stage = stage]
      BY <1>14 DEF Drain
    <3> QED BY <1>1, <3>1, ScanTyped
  <2>2. \/ StartRun(r, "background", feedback) \/ UNCHANGED <<runs, reward, marker>>
    BY <1>14 DEF Drain
  <2>3. runs' \in [Runs -> Run] /\ reward' \in RewardMeta /\ marker' \in Marker
    BY <1>1, <2>2, StartRunTyped
  <2>4. window' \in [pending : BOOLEAN, orphans : Nat]
    BY <1>1, <1>14 DEF Drain
  <2> QED BY <1>1, <1>14, <2>1, <2>3, <2>4 DEF Drain, RewardTypeOK
<1>15. ASSUME NEW r \in Runs, Fallback(r) PROVE RewardTypeOK'
  <2>1. \/ StartRun(r, "fallback", feedback) \/ UNCHANGED <<runs, reward, marker>>
    BY <1>15 DEF Fallback
  <2>2. runs' \in [Runs -> Run] /\ reward' \in RewardMeta /\ marker' \in Marker
    BY <1>1, <2>1, StartRunTyped
  <2>3. scan' \in Scan
    BY <1>1, <1>15, ScanTyped, RewardRecords DEF Fallback
  <2> QED BY <1>1, <1>15, <2>2, <2>3 DEF Fallback, RewardTypeOK
<1>16. CASE List
  <2>1. scan' \in Scan
    BY <1>1, <1>16 DEF List, NoScan, Scan, Marker
  <2> QED BY <1>1, <1>16, <2>1 DEF List, RewardTypeOK
<1>17. CASE DropMarker \/ CoolDown
  BY <1>1, <1>17, RewardRecords DEF DropMarker, CoolDown, RewardTypeOK
<1>18. CASE Restart
  <2>1. snap' \in Snap /\ window' \in [pending : BOOLEAN, orphans : Nat]
        /\ runs' \in [Runs -> Run]
    BY <1>18, RewardRecords DEF Restart
  <2>2. status' \in {"open", "closed"} /\ reflects' \in Nat
    BY <1>1, <1>18 DEF Restart
  <2>3. scan' \in Scan
    BY <1>18, RewardRecords, ScanTyped DEF Restart
  <2>4. spent' \in Spent
    BY <1>18, SpendCounts DEF Restart
  <2> QED BY <1>1, <1>18, <2>1, <2>2, <2>3, <2>4 DEF Restart, RewardTypeOK
<1>19. CASE UNCHANGED rewardVars
  BY <1>1, <1>19 DEF rewardVars, RewardTypeOK
<1> QED BY <1>2, <1>3, <1>4, <1>5, <1>6, <1>7, <1>8, <1>9, <1>10, <1>11, <1>12, <1>13, <1>14,
           <1>15, <1>16, <1>17, <1>18, <1>19 DEF RewardNext, User, ScanMoves

\* The score, its marker, the window, the passes, runs and scans keep their
\* types: no pass, timer or attempt is counted below zero, whichever of the
\* window's two timers fires first.
THEOREM RewardTypeCorrect == RewardSpec => []RewardTypeOK
BY RewardTypeAtFirst, RewardTypeNext, PTL DEF RewardSpec

-----------------------------------------------------------------------------
(* The policies of L2.                                                     *)

Table   == [Policies -> Row \cup {NoRow, Gone}]
Working == {"buckets", "drafting"}

Types ==
  /\ policy \in Table
  /\ candidate \in [Traces -> Policies \cup {Absent, NoPolicy}]
  /\ link \subseteq Policies \X Traces
  /\ run \in [Episodes -> Frame]
  /\ pending \in [Episodes -> BOOLEAN]
  /\ busy \in Episodes \cup {Nobody}
  /\ rewards \in Nat /\ upsets \in Seq({"edit", "crash"}) /\ faults \in Nat
  /\ unlinked \subseteq Policies \X Traces /\ dropped \subseteq Policies

\* A run that is not at work has no copies and no buckets; no bucket is empty,
\* neither one that is ready nor the one a draft is awaited for; and a copy of a
\* policy is taken with evidence for it.
Sound(frame) ==
  /\ frame.stage \notin Working =>
       frame.ready = {} /\ \A p \in Policies : frame.touched[p] = NoRow
  /\ {} \notin frame.ready
  /\ frame.stage = "drafting" => frame.bucket # {}
  /\ \A p \in Policies : frame.touched[p] # NoRow => frame.evidence[p] # {}

IInv ==
  /\ Types /\ PromotedIsLinked /\ InducedIsCounted
  /\ \A e \in Episodes : Sound(run[e])

-----------------------------------------------------------------------------
(* Rows, buckets and frames.                                               *)

LEMMA Statuses ==
  /\ NoRow.status = "none" /\ Gone.status = "deleted" /\ NoRow # Gone
  /\ \A row \in Row : /\ row.status \in {"candidate", "active", "archived"}
                      /\ row \notin {NoRow, Gone} /\ row.support \in Nat
<1>1. NoRow.status = "none" /\ Gone.status = "deleted" BY DEF NoRow, Gone
<1>2. \A row \in Row : row.status \in {"candidate", "active", "archived"} /\ row.support \in Nat
  BY DEF Row, Live
<1> QED BY <1>1, <1>2

LEMMA ExistsIsRow ==
  ASSUME policy \in Table, NEW p \in Policies
  PROVE  /\ Exists(p) <=> policy[p] \in Row
         /\ policy[p].status \in Live \cup {"archived"} => policy[p] \in Row
BY Statuses DEF Table, Exists, Live

LEMMA NumbersApart == NoPolicy \notin Policies /\ Absent \notin Policies
BY InductionAssumption DEF NoPolicy, Absent, Policies

LEMMA BucketsAre ==
  ASSUME NEW pool
  PROVE  {} \notin Buckets(pool) /\ Buckets(pool) \subseteq SUBSET Traces
<1>1. ASSUME {} \in Buckets(pool) PROVE FALSE
  <2>1. Cardinality({t.episode : t \in {}}) >= MinEpisodes BY <1>1 DEF Buckets
  <2>2. {t.episode : t \in {}} = {} OBVIOUS
  <2> QED BY <2>1, <2>2, FS_EmptySet, InductionAssumption
<1>2. Buckets(pool) \subseteq SUBSET Traces BY DEF Buckets
<1> QED BY <1>1, <1>2

LEMMA IdleIs ==
  /\ Idle \in Frame /\ Idle.stage = "idle" /\ Idle.ready = {} /\ Sound(Idle)
  /\ \A p \in Policies : Idle.touched[p] = NoRow
BY DEF Idle, Frame, Stage, Sound

LEMMA MissingCounts == ASSUME IInv, NEW missed, Missing(missed) \/ Fault PROVE faults' \in Nat
BY DEF IInv, Types, Missing, Fault

LEMMA OneRun ==
  ASSUME IInv, NEW e \in Episodes, NEW frame \in Frame, Sound(frame),
         run' = [run EXCEPT ![e] = frame]
  PROVE  /\ run' \in [Episodes -> Frame] /\ \A d \in Episodes : Sound(run'[d])
         /\ run'[e] = frame /\ \A d \in Episodes : d # e => run'[d] = run[d]
BY DEF IInv, Types

LEMMA CountedStill ==
  ASSUME IInv, \A e \in Episodes : Sound(run'[e]), dropped \subseteq dropped',
         upsets' = upsets \/ \E kind \in {"edit", "crash"} : upsets' = Append(upsets, kind),
         \A p \in Policies : Exists(p)' /\ policy'[p].support = 0 =>
           \/ Happened("crash")' \/ p \in dropped'
           \/ \E e \in Episodes : run'[e].touched[p] # NoRow
           \/ /\ Exists(p) /\ policy[p].support = 0
              /\ \A e \in Episodes : run[e].touched[p] # NoRow => run'[e].touched[p] # NoRow
  PROVE  InducedIsCounted'
<1>1. Happened("crash") => Happened("crash")'
  <2>1. upsets \in Seq({"edit", "crash"}) BY DEF IInv, Types
  <2>2. CASE upsets' = upsets BY <2>2 DEF Happened
  <2>3. ASSUME NEW kind \in {"edit", "crash"}, upsets' = Append(upsets, kind)
        PROVE  Happened("crash") => Happened("crash")'
    BY <2>1, <2>3, AppendProperties, LenProperties DEF Happened
  <2> QED BY <2>2, <2>3
<1> SUFFICES ASSUME NEW p \in Policies, Exists(p)', policy'[p].support = 0, ~Happened("crash")', p \notin dropped'
             PROVE  \E e \in Episodes : run'[e].touched[p] # NoRow /\ run'[e].evidence[p] # {}
  BY DEF InducedIsCounted
<1>2. PICK e \in Episodes : run'[e].touched[p] # NoRow
  BY <1>1 DEF IInv, InducedIsCounted
<1> QED BY <1>2 DEF Sound

-----------------------------------------------------------------------------
(* The steps.                                                              *)

LEMMA BeginKeeps ==
  ASSUME IInv, NEW e \in Episodes, run[e].stage \notin Working, Begin(e),
         rewards' \in Nat, UNCHANGED upsets
  PROVE  IInv'
<1> DEFINE Begun(eligible, matched, missed) ==
      /\ Missing(missed)
      /\ link' = link \cup {l \in Policies \X (Traces \ missed) : matched[l[2]] = l[1]}
      /\ candidate' = [t \in Traces |->
           IF t \in eligible \ missed /\ matched[t] = NoPolicy /\ candidate[t] = Absent
           THEN NoPolicy ELSE candidate[t]]
      /\ run' = [run EXCEPT ![e] = [Idle EXCEPT !.stage = "buckets", !.matched = matched,
                                                 !.ready = Buckets(candidate')]]
<1>0. PICK eligible \in SUBSET {t \in Traces : t.episode = e},
           matched \in [Traces -> Policies \cup {NoPolicy}] :
        \E missed \in SUBSET eligible : Begun(eligible, matched, missed)
  BY Zenon DEF Begin
<1>1. PICK missed \in SUBSET eligible : Begun(eligible, matched, missed)
  BY <1>0
<1>2. /\ pending' = [pending EXCEPT ![e] = FALSE] /\ busy' = e
      /\ UNCHANGED <<policy, unlinked, dropped>>
  BY DEF Begin
<1>3. PICK ready : ready = Buckets(candidate') OBVIOUS
<1>4. ready \in SUBSET SUBSET Traces /\ {} \notin ready BY <1>3, BucketsAre
<1>5. PICK frame : frame = [Idle EXCEPT !.stage = "buckets", !.matched = matched, !.ready = ready]
  OBVIOUS
<1>6. /\ frame \in Frame /\ frame.stage = "buckets" /\ frame.ready = ready
      /\ \A p \in Policies : frame.touched[p] = NoRow
  BY <1>4, <1>5, IdleIs DEF Frame, Stage
<1>7. Sound(frame) BY <1>4, <1>6 DEF Sound, Working
<1>8. run' = [run EXCEPT ![e] = frame] BY <1>1, <1>3, <1>5
<1>9. /\ run' \in [Episodes -> Frame] /\ \A d \in Episodes : Sound(run'[d])
      /\ run'[e] = frame /\ \A d \in Episodes : d # e => run'[d] = run[d]
  BY <1>6, <1>7, <1>8, OneRun
<1>10. /\ candidate' \in [Traces -> Policies \cup {Absent, NoPolicy}]
       /\ link' \subseteq Policies \X Traces
       /\ \A t \in Traces : candidate'[t] \in Policies => candidate'[t] = candidate[t]
  BY <1>1, NumbersApart DEF IInv, Types
<1>11. Types' BY <1>1, <1>2, <1>9, <1>10, MissingCounts DEF IInv, Types
<1>12. PromotedIsLinked' BY <1>1, <1>2, <1>10 DEF IInv, PromotedIsLinked
<1>13. \A p \in Policies : run[e].touched[p] = NoRow BY DEF IInv, Sound
<1>14. InducedIsCounted'
  <2>1. \A p \in Policies : Exists(p)' => Exists(p) BY <1>2 DEF Exists
  <2>2. \A p \in Policies, d \in Episodes :
          run[d].touched[p] # NoRow => run'[d].touched[p] # NoRow
    BY <1>9, <1>13
  <2> QED BY <1>2, <1>9, <2>1, <2>2, CountedStill
<1> QED BY <1>9, <1>11, <1>12, <1>14 DEF IInv

\* A promoted trace is linked, but for the links that were missed; and the links of
\* the others are as they were.
LEMMA PromoteLinks ==
  ASSUME IInv, NEW b \in SUBSET Traces, NEW p \in Policies, NEW pool, NEW links,
         NEW missed \in SUBSET b, Promote(b, p, pool, links, missed),
         \/ pool = candidate /\ links = link
         \/ pool = FreedFrom(p) /\ links = LinksWithout(p)
  PROVE  /\ candidate' \in [Traces -> Policies \cup {Absent, NoPolicy}]
         /\ link' \subseteq Policies \X Traces /\ unlinked' \subseteq Policies \X Traces
         /\ PromotedIsLinked'
<1>1. /\ candidate' = [t \in Traces |-> IF t \in b THEN p ELSE pool[t]]
      /\ link' = links \cup ({p} \X (b \ missed))
      /\ unlinked' = (unlinked \ ({p} \X b)) \cup ({p} \X missed)
  BY DEF Promote
<1>2. ASSUME NEW t \in Traces
      PROVE  /\ pool[t] \in Policies \cup {Absent, NoPolicy}
             /\ pool[t] \in Policies => <<pool[t], t>> \in links \cup unlinked
  <2>1. /\ candidate[t] \in Policies \cup {Absent, NoPolicy}
        /\ candidate[t] \in Policies => <<candidate[t], t>> \in link \cup unlinked
    BY DEF IInv, Types, PromotedIsLinked
  <2>2. CASE pool = candidate /\ links = link BY <2>1, <2>2
  <2>3. CASE pool = FreedFrom(p) /\ links = LinksWithout(p)
    <3>1. pool[t] = IF candidate[t] = p THEN NoPolicy ELSE candidate[t]
      BY <2>3 DEF FreedFrom
    <3> QED BY <2>1, <2>3, <3>1, NumbersApart DEF LinksWithout
  <2> QED BY <2>2, <2>3
<1>3. links \subseteq Policies \X Traces /\ unlinked \subseteq Policies \X Traces
  BY DEF IInv, Types, LinksWithout
<1>4. /\ candidate' \in [Traces -> Policies \cup {Absent, NoPolicy}]
      /\ link' \subseteq Policies \X Traces /\ unlinked' \subseteq Policies \X Traces
  BY <1>1, <1>2, <1>3
<1>5. PromotedIsLinked'
  <2> SUFFICES ASSUME NEW t \in Traces, candidate'[t] \in Policies
               PROVE  <<candidate'[t], t>> \in link' \cup unlinked'
    BY DEF PromotedIsLinked
  <2>1. CASE t \in b BY <1>1, <2>1
  <2>2. CASE t \notin b
    <3>1. candidate'[t] = pool[t] BY <1>1, <2>2
    <3>2. <<pool[t], t>> \in links \cup unlinked BY <1>2, <3>1
    <3> QED BY <1>1, <2>2, <3>1, <3>2
  <2> QED BY <2>1, <2>2
<1> QED BY <1>4, <1>5

\* Of a promote that throws nothing is linked, and what it promoted counts as missed.
LEMMA PromoteThrowsLinks ==
  ASSUME IInv, NEW b \in SUBSET Traces, NEW p \in Policies, NEW pool, NEW links,
         PromoteThrows(b, p, pool, links),
         \/ pool = candidate /\ links = link
         \/ pool = FreedFrom(p) /\ links = LinksWithout(p)
  PROVE  /\ candidate' \in [Traces -> Policies \cup {Absent, NoPolicy}]
         /\ link' \subseteq Policies \X Traces /\ unlinked' \subseteq Policies \X Traces
         /\ PromotedIsLinked' /\ faults' \in Nat
<1>1. PICK part \in SUBSET b \ {b} : Promote(part, p, pool, links, part)
  BY DEF PromoteThrows
<1>2. part \in SUBSET Traces /\ part \in SUBSET part OBVIOUS
<1>3. faults' \in Nat BY MissingCounts DEF PromoteThrows
<1> QED BY <1>1, <1>2, <1>3, PromoteLinks

\* A run that is over has no copies, whatever the others have.
LEMMA EndRunIs ==
  ASSUME IInv, NEW e \in Episodes, NEW lost \in SUBSET Policies, EndRun(e, lost)
  PROVE  /\ run' \in [Episodes -> Frame] /\ \A d \in Episodes : Sound(run'[d])
         /\ \A d \in Episodes : d # e => run'[d] = run[d]
         /\ busy' = Nobody /\ dropped' = dropped \cup lost
<1>1. /\ run' = [run EXCEPT ![e] = [Idle EXCEPT !.stage = AfterRun(e)]]
      /\ busy' = Nobody /\ dropped' = dropped \cup lost
  BY DEF EndRun
<1>2. PICK stage \in {"again", "leaving"} : stage = AfterRun(e)
  BY DEF AfterRun
<1>3. PICK frame : frame = [Idle EXCEPT !.stage = stage] OBVIOUS
<1>4. /\ frame \in Frame /\ frame.stage = stage /\ frame.ready = {}
      /\ \A p \in Policies : frame.touched[p] = NoRow
  BY <1>3, IdleIs DEF Frame, Stage
<1>5. Sound(frame) BY <1>4 DEF Sound
<1>6. run' = [run EXCEPT ![e] = frame] BY <1>1, <1>2, <1>3
<1> QED BY <1>1, <1>4, <1>5, <1>6, OneRun

\* The policies a run that is given up has touched are dropped; it counts for no other.
LEMMA GiveUpKeeps ==
  ASSUME IInv, NEW e \in Episodes, GiveUp(e), UNCHANGED <<policy, pending, rewards, upsets>>,
         candidate' \in [Traces -> Policies \cup {Absent, NoPolicy}],
         link' \subseteq Policies \X Traces, unlinked' \subseteq Policies \X Traces,
         PromotedIsLinked', faults' \in Nat
  PROVE  IInv'
<1>1. PICK lost \in SUBSET Policies :
        lost = {p \in Policies : run[e].touched[p] # NoRow} /\ EndRun(e, lost)
  BY DEF GiveUp
<1>2. /\ run' \in [Episodes -> Frame] /\ \A d \in Episodes : Sound(run'[d])
      /\ \A d \in Episodes : d # e => run'[d] = run[d]
      /\ busy' = Nobody /\ dropped' = dropped \cup lost
  BY <1>1, EndRunIs
<1>3. Types' BY <1>2 DEF IInv, Types
<1>4. InducedIsCounted'
  <2>1. \A q \in Policies : Exists(q)' => Exists(q) BY DEF Exists
  <2>2. ASSUME NEW q \in Policies, q \notin dropped'
        PROVE  \A d \in Episodes : run[d].touched[q] # NoRow => run'[d].touched[q] # NoRow
    BY <1>1, <1>2, <2>2
  <2> QED BY <1>2, <2>1, <2>2, CountedStill
<1> QED BY <1>2, <1>3, <1>4 DEF IInv

LEMMA TakeMatchedKeeps ==
  ASSUME IInv, NEW e \in Episodes, NEW b \in run[e].ready, TakeMatched(e, b),
         UNCHANGED <<policy, pending, rewards, upsets>>
  PROVE  IInv'
<1>0. ASSUME NEW p \in LiveOn((CHOOSE t \in b : TRUE).signature),
             PromoteThrows(b, p, candidate, link), GiveUp(e)
      PROVE  IInv'
  <2>1. p \in Policies /\ b \in SUBSET Traces
    BY DEF LiveOn, IInv, Types, Frame
  <2> QED BY <1>0, <2>1, PromoteThrowsLinks, GiveUpKeeps
<1> SUFFICES ASSUME NEW p \in LiveOn((CHOOSE t \in b : TRUE).signature), NEW missed \in SUBSET b,
                    Promote(b, p, candidate, link, missed), Missing(missed),
                    run' = [run EXCEPT ![e].ready = @ \ {b}, ![e].touched[p] = policy[p],
                                        ![e].evidence[p] = @ \cup b],
                    UNCHANGED <<busy, dropped>>
             PROVE  IInv'
  BY <1>0 DEF TakeMatched
<1>2. p \in Policies /\ policy[p] \in Row
  BY ExistsIsRow DEF LiveOn, IInv, Types
<1>3. run[e] \in Frame /\ Sound(run[e]) /\ b \in SUBSET Traces /\ b # {}
  BY DEF IInv, Types, Sound, Frame
<1>4. PICK frame :
        frame = [run[e] EXCEPT !.ready = run[e].ready \ {b},
                               !.touched = [run[e].touched EXCEPT ![p] = policy[p]],
                               !.evidence = [run[e].evidence EXCEPT ![p] = run[e].evidence[p] \cup b]]
  OBVIOUS
<1>5. run' = [run EXCEPT ![e] = frame]
  BY <1>3, <1>4 DEF IInv, Types, Frame
<1>6. /\ frame \in Frame /\ frame.stage = run[e].stage /\ frame.ready = run[e].ready \ {b}
      /\ frame.bucket = run[e].bucket
      /\ frame.touched = [run[e].touched EXCEPT ![p] = policy[p]]
      /\ frame.evidence = [run[e].evidence EXCEPT ![p] = run[e].evidence[p] \cup b]
  BY <1>2, <1>3, <1>4 DEF Frame
<1>7. \A q \in Policies :
        /\ frame.touched[q] = IF q = p THEN policy[p] ELSE run[e].touched[q]
        /\ frame.evidence[q] = IF q = p THEN run[e].evidence[p] \cup b ELSE run[e].evidence[q]
  BY <1>3, <1>6 DEF Frame
<1>8. Sound(frame)
  BY <1>3, <1>6, <1>7 DEF Sound
<1>9. /\ run' \in [Episodes -> Frame] /\ \A d \in Episodes : Sound(run'[d])
      /\ run'[e] = frame /\ \A d \in Episodes : d # e => run'[d] = run[d]
  BY <1>5, <1>6, <1>8, OneRun
<1>10. /\ candidate' \in [Traces -> Policies \cup {Absent, NoPolicy}]
       /\ link' \subseteq Policies \X Traces /\ unlinked' \subseteq Policies \X Traces
       /\ PromotedIsLinked'
  BY <1>2, <1>3, PromoteLinks
<1>11. Types' BY <1>9, <1>10, MissingCounts DEF IInv, Types
<1>12. policy[p] # NoRow BY <1>2, Statuses
<1>13. InducedIsCounted'
  <2>1. \A q \in Policies : Exists(q)' => Exists(q) BY DEF Exists
  <2>2. \A q \in Policies, d \in Episodes :
          run[d].touched[q] # NoRow => run'[d].touched[q] # NoRow
    BY <1>7, <1>9, <1>12
  <2> QED BY <1>9, <2>1, <2>2, CountedStill
<1> QED BY <1>9, <1>10, <1>11, <1>13 DEF IInv

\* A run that only moves on keeps its copies, and touches no table.
LEMMA MovesOn ==
  ASSUME IInv, NEW e \in Episodes, NEW frame \in Frame, Sound(frame),
         run' = [run EXCEPT ![e] = frame],
         \A p \in Policies : run[e].touched[p] # NoRow => frame.touched[p] # NoRow,
         busy' \in Episodes \cup {Nobody},
         UNCHANGED <<policy, candidate, link, pending, rewards, upsets, faults, unlinked, dropped>>
  PROVE  IInv'
<1>1. /\ run' \in [Episodes -> Frame] /\ \A d \in Episodes : Sound(run'[d])
      /\ run'[e] = frame /\ \A d \in Episodes : d # e => run'[d] = run[d]
  BY OneRun
<1>2. Types' /\ PromotedIsLinked' BY <1>1 DEF IInv, Types, PromotedIsLinked
<1>3. InducedIsCounted'
  <2>1. \A q \in Policies : Exists(q)' => Exists(q) BY DEF Exists
  <2>2. \A q \in Policies, d \in Episodes :
          run[d].touched[q] # NoRow => run'[d].touched[q] # NoRow
    BY <1>1
  <2> QED BY <1>1, <2>1, <2>2, CountedStill
<1> QED BY <1>1, <1>2, <1>3 DEF IInv

LEMMA TakeNewKeeps ==
  ASSUME IInv, NEW e \in Episodes, NEW b \in run[e].ready, TakeNew(e, b),
         UNCHANGED <<policy, pending, rewards, upsets>>
  PROVE  IInv'
<1>1. run[e] \in Frame /\ Sound(run[e]) /\ b \in SUBSET Traces /\ b # {}
  BY DEF IInv, Types, Sound, Frame
<1>2. PICK frame :
        frame = [run[e] EXCEPT !.ready = run[e].ready \ {b}, !.bucket = b, !.stage = "drafting"]
  OBVIOUS
<1>3. run' = [run EXCEPT ![e] = frame]
  BY <1>1, <1>2 DEF TakeNew, IInv, Types, Frame
<1>4. /\ frame \in Frame /\ frame.stage = "drafting" /\ frame.ready = run[e].ready \ {b}
      /\ frame.bucket = b /\ frame.touched = run[e].touched /\ frame.evidence = run[e].evidence
  BY <1>1, <1>2 DEF Frame, Stage
<1>5. Sound(frame) BY <1>1, <1>4 DEF Sound, Working
<1> QED BY <1>3, <1>4, <1>5, MovesOn DEF TakeNew

LEMMA FreshIsRow == ASSUME NEW b \in SUBSET Traces, b # {} PROVE Fresh(b) \in Row /\ Fresh(b).support = 0
BY DEF Fresh, Row, Live, Signatures

LEMMA PersistKeeps ==
  ASSUME IInv, NEW e \in Episodes, run[e].stage = "drafting",
         NEW p \in Unused \cup {q \in Policies : Exists(q)}, Persist(e, p),
         UNCHANGED <<pending, rewards, upsets>>
  PROVE  IInv'
<1>1. p \in Policies BY DEF Unused
<1>2. PICK b : b = run[e].bucket OBVIOUS
<1>3. run[e] \in Frame /\ Sound(run[e]) /\ b \in SUBSET Traces /\ b # {}
  BY <1>2 DEF IInv, Types, Sound, Frame
<1>4. PICK row : row = Stored(b, p) OBVIOUS
<1>5. row \in Row
  BY <1>1, <1>3, <1>4, FreshIsRow, ExistsIsRow DEF Stored, IInv, Types
<1>6. /\ policy' = [policy EXCEPT ![p] = row]
      /\ run' = [GoOn(e) EXCEPT ![e].touched[p] = row, ![e].evidence[p] = b]
      /\ busy' = e /\ UNCHANGED dropped
  BY <1>2, <1>4 DEF Persist
<1>6a. PICK missed \in SUBSET b :
         Promote(b, p, FreedFrom(p), LinksWithout(p), missed) /\ Missing(missed)
  BY <1>2 DEF Persist
<1>7. PICK frame :
        frame = [run[e] EXCEPT !.stage = "buckets", !.bucket = {},
                               !.touched = [run[e].touched EXCEPT ![p] = row],
                               !.evidence = [run[e].evidence EXCEPT ![p] = b]]
  OBVIOUS
<1>8. run' = [run EXCEPT ![e] = frame]
  BY <1>3, <1>6, <1>7 DEF IInv, Types, Frame, GoOn
<1>9. /\ frame \in Frame /\ frame.stage = "buckets" /\ frame.ready = run[e].ready
      /\ frame.touched = [run[e].touched EXCEPT ![p] = row]
      /\ frame.evidence = [run[e].evidence EXCEPT ![p] = b]
  BY <1>1, <1>3, <1>5, <1>7 DEF Frame, Stage
<1>10. \A q \in Policies :
        /\ frame.touched[q] = IF q = p THEN row ELSE run[e].touched[q]
        /\ frame.evidence[q] = IF q = p THEN b ELSE run[e].evidence[q]
  BY <1>3, <1>9 DEF Frame
<1>11. Sound(frame)
  BY <1>3, <1>9, <1>10 DEF Sound, Working
<1>12. /\ run' \in [Episodes -> Frame] /\ \A d \in Episodes : Sound(run'[d])
       /\ run'[e] = frame /\ \A d \in Episodes : d # e => run'[d] = run[d]
  BY <1>8, <1>9, <1>11, OneRun
<1>13. /\ candidate' \in [Traces -> Policies \cup {Absent, NoPolicy}]
       /\ link' \subseteq Policies \X Traces /\ unlinked' \subseteq Policies \X Traces
       /\ PromotedIsLinked'
  BY <1>1, <1>3, <1>6a, PromoteLinks
<1>14. policy' \in Table BY <1>5, <1>6 DEF IInv, Types, Table
<1>15. Types' BY <1>6, <1>6a, <1>12, <1>13, <1>14, MissingCounts DEF IInv, Types
<1>16. InducedIsCounted'
  <2>1. row # NoRow BY <1>5, Statuses
  <2>2. \A q \in Policies, d \in Episodes :
          run[d].touched[q] # NoRow => run'[d].touched[q] # NoRow
    BY <1>10, <1>12, <2>1
  <2>3. run'[e].touched[p] # NoRow BY <1>1, <1>10, <1>12, <2>1
  <2>4. \A q \in Policies : q # p => policy'[q] = policy[q]
    BY <1>6 DEF IInv, Types, Table
  <2>5. \A q \in Policies : q # p /\ Exists(q)' => Exists(q) BY <2>4 DEF Exists
  <2> QED BY <1>6, <1>12, <2>2, <2>3, <2>4, <2>5, CountedStill
<1> QED BY <1>12, <1>13, <1>15, <1>16 DEF IInv

\* A run that goes on to its next bucket keeps its copies.
LEMMA GoesOn ==
  ASSUME IInv, NEW e \in Episodes, run[e].stage = "drafting", run' = GoOn(e)
  PROVE  \E frame \in Frame : Sound(frame) /\ run' = [run EXCEPT ![e] = frame]
                              /\ frame.touched = run[e].touched
<1>0. run[e] \in Frame /\ Sound(run[e]) BY DEF IInv, Types
<1>1. PICK frame : frame = [run[e] EXCEPT !.stage = "buckets", !.bucket = {}]
  OBVIOUS
<1>2. run' = [run EXCEPT ![e] = frame]
  BY <1>0, <1>1 DEF IInv, Types, Frame, GoOn
<1>3. /\ frame \in Frame /\ frame.stage = "buckets" /\ frame.ready = run[e].ready
      /\ frame.touched = run[e].touched /\ frame.evidence = run[e].evidence
  BY <1>0, <1>1 DEF Frame, Stage
<1>4. Sound(frame) BY <1>0, <1>3 DEF Sound, Working
<1> QED BY <1>2, <1>3, <1>4

\* A policy that is inserted and not touched is dropped.
LEMMA InsertUncountedKeeps ==
  ASSUME IInv, NEW e \in Episodes, run[e].stage = "drafting", NEW p \in Unused,
         InsertUncounted(e, p), UNCHANGED <<pending, rewards, upsets>>
  PROVE  IInv'
<1>1. p \in Policies BY DEF Unused
<1>2. PICK b : b = run[e].bucket OBVIOUS
<1>3. b \in SUBSET Traces /\ b # {}
  BY <1>2 DEF IInv, Types, Sound, Frame
<1>4. /\ policy' = [policy EXCEPT ![p] = Fresh(b)] /\ PromoteThrows(b, p, candidate, link)
      /\ run' = GoOn(e) /\ dropped' = dropped \cup {p} /\ busy' = e
  BY <1>2 DEF InsertUncounted
<1>5. PICK frame \in Frame : /\ Sound(frame) /\ run' = [run EXCEPT ![e] = frame]
                             /\ frame.touched = run[e].touched
  BY <1>4, GoesOn
<1>6. /\ run' \in [Episodes -> Frame] /\ \A d \in Episodes : Sound(run'[d])
      /\ run'[e] = frame /\ \A d \in Episodes : d # e => run'[d] = run[d]
  BY <1>5, OneRun
<1>7. /\ candidate' \in [Traces -> Policies \cup {Absent, NoPolicy}]
      /\ link' \subseteq Policies \X Traces /\ unlinked' \subseteq Policies \X Traces
      /\ PromotedIsLinked' /\ faults' \in Nat
  BY <1>1, <1>3, <1>4, PromoteThrowsLinks
<1>8. policy' \in Table BY <1>1, <1>3, <1>4, FreshIsRow DEF IInv, Types, Table
<1>9. Types' BY <1>1, <1>4, <1>6, <1>7, <1>8 DEF IInv, Types
<1>10. InducedIsCounted'
  <2>1. \A q \in Policies : q # p => policy'[q] = policy[q]
    BY <1>4 DEF IInv, Types, Table
  <2>2. \A q \in Policies : q # p /\ Exists(q)' => Exists(q) BY <2>1 DEF Exists
  <2>3. \A q \in Policies, d \in Episodes :
          run[d].touched[q] # NoRow => run'[d].touched[q] # NoRow
    BY <1>5, <1>6
  <2> QED BY <1>4, <1>6, <2>1, <2>2, <2>3, CountedStill
<1> QED BY <1>6, <1>7, <1>9, <1>10 DEF IInv

LEMMA MergeThrowsKeeps ==
  ASSUME IInv, NEW e \in Episodes, NEW p \in Policies, MergeThrows(e, p),
         UNCHANGED <<pending, rewards, upsets>>
  PROVE  IInv'
<1>1. GiveUp(e) /\ UNCHANGED policy BY DEF MergeThrows
<1>2. run[e].bucket \in SUBSET Traces BY DEF IInv, Types, Frame
<1>3. CASE PromoteThrows(run[e].bucket, p, FreedFrom(p), LinksWithout(p))
  BY <1>1, <1>2, <1>3, PromoteThrowsLinks, GiveUpKeeps
<1>4. CASE Fault /\ UNCHANGED <<candidate, link, unlinked>>
  <2>1. /\ candidate' \in [Traces -> Policies \cup {Absent, NoPolicy}]
        /\ link' \subseteq Policies \X Traces /\ unlinked' \subseteq Policies \X Traces
        /\ PromotedIsLinked'
    BY <1>4 DEF IInv, Types, PromotedIsLinked
  <2>2. faults' \in Nat BY <1>4, MissingCounts
  <2> QED BY <1>1, <2>1, <2>2, GiveUpKeeps
<1> QED BY <1>3, <1>4 DEF MergeThrows

LEMMA DraftKeeps == ASSUME IInv, NEW e \in Episodes, DraftAnswered(e) PROVE IInv'
<1>0. run[e].stage = "drafting" /\ UNCHANGED <<pending, rewards, upsets>>
  BY DEF DraftAnswered
<1>1. ASSUME NEW p \in Unused \cup {q \in Policies : Exists(q)}, Persist(e, p) PROVE IInv'
  BY <1>0, <1>1, PersistKeeps
<1>2. ASSUME NEW p \in Unused, InsertUncounted(e, p) PROVE IInv'
  BY <1>0, <1>2, InsertUncountedKeeps
<1>3. ASSUME NEW p \in Policies, MergeThrows(e, p) PROVE IInv'
  BY <1>0, <1>3, MergeThrowsKeeps
<1>4. CASE /\ run' = GoOn(e) /\ busy' = e
           /\ UNCHANGED <<policy, candidate, link, faults, unlinked, dropped>>
  <2>1. PICK frame \in Frame : /\ Sound(frame) /\ run' = [run EXCEPT ![e] = frame]
                               /\ frame.touched = run[e].touched
    BY <1>0, <1>4, GoesOn
  <2> QED BY <1>0, <1>4, <2>1, MovesOn
<1> QED BY <1>1, <1>2, <1>3, <1>4 DEF DraftAnswered

LEMMA LeaveKeeps == ASSUME IInv, NEW e \in Episodes, Leave(e) PROVE IInv'
<1>1. PICK frame : frame = [run[e] EXCEPT !.stage = "idle"] OBVIOUS
<1>2. run[e] \in Frame /\ Sound(run[e]) /\ run[e].stage = "leaving"
  BY DEF Leave, IInv, Types
<1>3. run' = [run EXCEPT ![e] = frame] BY <1>1 DEF Leave, IInv, Types
<1>4. /\ frame \in Frame /\ frame.stage = "idle" /\ frame.ready = run[e].ready
      /\ frame.touched = run[e].touched /\ frame.evidence = run[e].evidence
  BY <1>1, <1>2 DEF Frame, Stage
<1>5. Sound(frame) BY <1>2, <1>4 DEF Sound, Working
<1> QED BY <1>3, <1>4, <1>5, MovesOn DEF Leave, IInv, Types

-----------------------------------------------------------------------------
(* The end of a run.                                                       *)

\* A status that was not live is not made so.
LEMMA NextStatusIs ==
  ASSUME NEW newStatus \in {"candidate", "active", "archived"}, NEW support, NEW gain
  PROVE  /\ NextStatus(newStatus, support, gain) \in {"candidate", "active", "archived"}
         /\ newStatus = "archived" => NextStatus(newStatus, support, gain) = "archived"
BY DEF NextStatus

\* What a run makes of a policy that exists: a copy is counted upwards, and any
\* other policy keeps its support.
LEMMA FinishIs ==
  ASSUME IInv, NEW e \in Episodes, Finish(e), NEW p \in Policies, policy[p] \in Row
  PROVE  /\ policy'[p] \in Row
         /\ \/ policy'[p].support # 0
            \/ /\ policy'[p].support = policy[p].support
               /\ run[e].touched[p] = NoRow \/ p \in dropped'
         /\ policy[p].status = "archived" /\ policy'[p].status \in Live =>
              run[e].touched[p].status \in Live
<1>1. run[e] \in Frame /\ Sound(run[e]) BY DEF IInv, Types
<1> DEFINE copy == Touched(e)
           mine == {q \in Policies : copy[q] # NoRow}
           more(q) == copy[q].support + Cardinality(NewSupport(e, q))
<1>4. PICK gain \in [mine -> Gain], unwritten \in SUBSET Policies :
        /\ policy' = [q \in Policies |->
             IF ~Exists(q) \/ q \in unwritten THEN policy[q]
             ELSE IF q \in mine
             THEN [policy[q] EXCEPT !.support = more(q), !.good = (gain[q] = "good"),
                     !.status = NextStatus(copy[q].status, more(q), gain[q])]
             ELSE IF policy[q].status = "candidate" /\ policy[q].good
             THEN [policy[q] EXCEPT !.status = NextStatus(@, policy[q].support, "good")]
             ELSE policy[q]]
        /\ EndRun(e, mine \cap unwritten)
  BY Zenon DEF Finish
<1>5. Exists(p) BY ExistsIsRow DEF IInv, Types
<1>5a. CASE p \in unwritten
  <2>1. policy'[p] = policy[p] BY <1>4, <1>5a
  <2>2. run[e].touched[p] = NoRow \/ p \in dropped'
    <3>1. run[e].touched[p] # NoRow => p \in mine BY DEF Touched
    <3> QED BY <1>4, <1>5a, <3>1 DEF EndRun
  <2> QED BY <2>1, <2>2 DEF Live
<1>6. CASE p \in mine /\ p \notin unwritten
  <2>1. PICK old : old = copy[p] OBVIOUS
  <2>2. /\ old \in Row
        /\ run[e].touched[p] # NoRow => old = run[e].touched[p]
        /\ run[e].touched[p] = NoRow => old = policy[p] /\ \E t \in Traces : run[e].matched[t] = p
    <3>1. old = IF run[e].touched[p] # NoRow THEN run[e].touched[p]
                ELSE IF (\E t \in Traces : run[e].matched[t] = p) /\ Exists(p) THEN policy[p]
                ELSE NoRow
      BY <2>1 DEF Touched
    <3>2. old # NoRow BY <1>6, <2>1
    <3>3. run[e].touched[p] \in Row \cup {NoRow} BY <1>1 DEF Frame
    <3> QED BY <3>1, <3>2, <3>3
  <2>3. PICK n : n = Cardinality(NewSupport(e, p)) OBVIOUS
  <2>4. n \in Nat /\ n # 0
    <3>1. NewSupport(e, p) \subseteq Traces BY <1>1 DEF NewSupport, Frame
    <3>2. IsFiniteSet(NewSupport(e, p)) BY <3>1, InductionAssumption, FS_Subset
    <3>3. NewSupport(e, p) # {} BY <1>1, <2>2 DEF NewSupport, Sound
    <3> QED BY <2>3, <3>2, <3>3, FS_CardinalityType, FS_EmptySet
  <2>5. PICK sum \in Nat : sum = old.support + n /\ sum # 0
    BY <2>2, <2>4, Statuses
  <2>6. PICK good \in BOOLEAN : good = (gain[p] = "good") OBVIOUS
  <2>7. PICK newStatus : newStatus = NextStatus(old.status, sum, gain[p]) OBVIOUS
  <2>8. policy'[p] = [policy[p] EXCEPT !.support = sum, !.good = good, !.status = newStatus]
    BY <1>4, <1>5, <1>6, <2>1, <2>3, <2>5, <2>6, <2>7
  <2>9. /\ newStatus \in {"candidate", "active", "archived"}
        /\ old.status = "archived" => newStatus = "archived"
        /\ old.status \in {"candidate", "active", "archived"}
    BY <2>2, <2>7, Statuses, NextStatusIs
  <2>10. policy'[p] \in Row /\ policy'[p].support = sum /\ policy'[p].status = newStatus
    BY <2>8, <2>9 DEF Row, Live
  <2> QED BY <2>2, <2>5, <2>9, <2>10 DEF Live
<1>7. CASE p \notin mine /\ p \notin unwritten
  <2>1. run[e].touched[p] = NoRow
    BY <1>7 DEF Touched
  <2>2. policy[p].status \in {"candidate", "active", "archived"} BY Statuses
  <2>3. CASE policy[p].status = "candidate" /\ policy[p].good
    <3>1. PICK newStatus \in {"candidate", "active", "archived"} :
            newStatus = NextStatus(policy[p].status, policy[p].support, "good")
      BY <2>2, NextStatusIs
    <3>2. policy'[p] = [policy[p] EXCEPT !.status = newStatus]
      BY <1>4, <1>5, <1>7, <2>3, <3>1
    <3>3. policy'[p] \in Row /\ policy'[p].support = policy[p].support
      BY <3>1, <3>2 DEF Row, Live
    <3> QED BY <2>1, <2>3, <3>3
  <2>4. CASE ~(policy[p].status = "candidate" /\ policy[p].good)
    <3>1. policy'[p] = policy[p] BY <1>4, <1>5, <1>7, <2>4
    <3> QED BY <2>1, <3>1 DEF Live
  <2> QED BY <2>3, <2>4
<1> QED BY <1>5a, <1>6, <1>7

LEMMA FinishKeeps == ASSUME IInv, NEW e \in Episodes, Finish(e) PROVE IInv'
<1> DEFINE mine == {p \in Policies : Touched(e)[p] # NoRow}
<1>1. PICK unwritten \in SUBSET Policies : Missing(unwritten) /\ EndRun(e, mine \cap unwritten)
  BY Zenon DEF Finish
<1>2. UNCHANGED <<candidate, link, pending, rewards, upsets, unlinked>>
  BY DEF Finish
<1>3. mine \cap unwritten \in SUBSET Policies OBVIOUS
<1>7. /\ run' \in [Episodes -> Frame] /\ \A d \in Episodes : Sound(run'[d])
      /\ \A d \in Episodes : d # e => run'[d] = run[d]
      /\ busy' = Nobody /\ dropped' = dropped \cup (mine \cap unwritten)
  BY <1>1, <1>3, EndRunIs
<1>8. \A p \in Policies : policy[p] \notin Row => policy'[p] = policy[p]
  <2>1. \A p \in Policies : policy[p] \notin Row => ~Exists(p)
    BY ExistsIsRow DEF IInv, Types
  <2> QED BY <2>1 DEF Finish
<1>9. policy' \in Table
  <2>1. \A p \in Policies : policy'[p] \in Row \cup {NoRow, Gone}
    BY <1>8, FinishIs DEF IInv, Types, Table
  <2>2. policy' = [p \in Policies |-> policy'[p]] BY DEF Finish
  <2> QED BY <2>1, <2>2 DEF Table
<1>10. Types' /\ PromotedIsLinked'
  BY <1>1, <1>2, <1>3, <1>7, <1>9, MissingCounts DEF IInv, Types, PromotedIsLinked
<1>11. InducedIsCounted'
  <2> SUFFICES ASSUME NEW p \in Policies, Exists(p)', policy'[p].support = 0, p \notin dropped'
               PROVE  /\ Exists(p) /\ policy[p].support = 0
                      /\ \A d \in Episodes : run[d].touched[p] # NoRow => run'[d].touched[p] # NoRow
    BY <1>2, <1>7, CountedStill
  <2>1. policy[p] \in Row
    <3>1. CASE policy[p] \notin Row
      BY <1>8, <3>1, ExistsIsRow DEF IInv, Types, Exists
    <3> QED BY <3>1
  <2>2. policy'[p].support = policy[p].support /\ run[e].touched[p] = NoRow
    BY <2>1, FinishIs
  <2> QED BY <1>7, <2>1, <2>2, ExistsIsRow DEF IInv, Types
<1> QED BY <1>7, <1>10, <1>11 DEF IInv

-----------------------------------------------------------------------------
(* The viewer, the loss of the process, and all steps together.            *)

\* The row of a policy is edited or goes, and with it go its links.
LEMMA EditKeeps ==
  ASSUME IInv, NEW p \in Policies, NEW row \in Row \cup {Gone}, Exists(p),
         policy' = [policy EXCEPT ![p] = row],
         row \in Row => row.support = policy[p].support,
         candidate' = FreedFrom(p), link' = LinksWithout(p),
         upsets' = Append(upsets, "edit"),
         UNCHANGED <<run, pending, busy, rewards, faults, unlinked, dropped>>
  PROVE  IInv'
<1>1. ASSUME NEW t \in Traces
      PROVE  /\ candidate'[t] \in Policies \cup {Absent, NoPolicy}
             /\ candidate'[t] \in Policies => <<candidate'[t], t>> \in link' \cup unlinked'
  <2>1. candidate'[t] = IF candidate[t] = p THEN NoPolicy ELSE candidate[t] BY DEF FreedFrom
  <2> QED BY <2>1, NumbersApart DEF IInv, Types, PromotedIsLinked, LinksWithout
<1>2. PromotedIsLinked' BY <1>1 DEF PromotedIsLinked
<1>3. /\ candidate' \in [Traces -> Policies \cup {Absent, NoPolicy}]
      /\ link' \subseteq Policies \X Traces
  BY <1>1 DEF IInv, Types, FreedFrom, LinksWithout
<1>4. /\ policy' \in Table
      /\ \A q \in Policies : policy'[q] = IF q = p THEN row ELSE policy[q]
  BY DEF IInv, Types, Table
<1>5. upsets' \in Seq({"edit", "crash"}) BY AppendProperties DEF IInv, Types
<1>6. Types' BY <1>3, <1>4, <1>5 DEF IInv, Types
<1>7. InducedIsCounted'
  <2>1. \A q \in Policies : Exists(q)' /\ policy'[q].support = 0 =>
          Exists(q) /\ policy[q].support = 0
    BY <1>4 DEF Exists
  <2> QED BY <2>1, CountedStill DEF IInv
<1> QED BY <1>2, <1>6, <1>7 DEF IInv

LEMMA SetStatusKeeps ==
  ASSUME IInv, NEW p \in Policies, NEW newStatus \in Live \cup {"archived"}, SetStatus(p, newStatus)
  PROVE  IInv'
<1>1. /\ Exists(p) /\ policy' = [policy EXCEPT ![p].status = newStatus]
      /\ candidate' = FreedFrom(p) /\ link' = LinksWithout(p)
      /\ upsets' = Append(upsets, "edit")
      /\ UNCHANGED <<run, pending, busy, rewards, faults, unlinked, dropped>>
  BY DEF SetStatus, Upset
<1>2. policy[p] \in Row BY <1>1, ExistsIsRow DEF IInv, Types
<1>3. PICK row : row = [policy[p] EXCEPT !.status = newStatus] OBVIOUS
<1>4. row \in Row /\ row.support = policy[p].support BY <1>2, <1>3 DEF Row
<1>5. policy' = [policy EXCEPT ![p] = row] BY <1>1, <1>3 DEF IInv, Types, Table
<1> QED BY <1>1, <1>4, <1>5, EditKeeps

LEMMA DeleteKeeps == ASSUME IInv, NEW p \in Policies, Delete(p) PROVE IInv'
<1>1. Gone \notin Row BY Statuses
<1> QED BY <1>1, EditKeeps DEF Delete, Upset

LEMMA CrashKeeps == ASSUME IInv, Crash PROVE IInv'
<1>1. /\ run' = [e \in Episodes |-> Idle] /\ pending' = [e \in Episodes |-> FALSE]
      /\ upsets' = Append(upsets, "crash") /\ UNCHANGED <<policy, candidate, link, busy, rewards>>
      /\ UNCHANGED <<faults, unlinked, dropped>>
  BY DEF Crash, Upset
<1>2. run' \in [Episodes -> Frame] /\ \A e \in Episodes : Sound(run'[e])
  BY <1>1, IdleIs
<1>3. upsets' \in Seq({"edit", "crash"}) /\ Happened("crash")'
  <2>1. upsets \in Seq({"edit", "crash"}) BY DEF IInv, Types
  <2> QED BY <1>1, <2>1, AppendProperties, LenProperties DEF Happened
<1>4. Types' /\ PromotedIsLinked' BY <1>1, <1>2, <1>3 DEF IInv, Types, PromotedIsLinked
<1>5. InducedIsCounted' BY <1>3 DEF InducedIsCounted
<1> QED BY <1>2, <1>4, <1>5 DEF IInv

LEMMA StartsEmpty == Init => IInv
<1> SUFFICES ASSUME Init PROVE IInv
  OBVIOUS
<1>1. Types BY IdleIs DEF Init, Types, Table
<1>2. PromotedIsLinked BY NumbersApart DEF Init, PromotedIsLinked
<1>3. InducedIsCounted BY DEF Init, InducedIsCounted, Exists
<1>4. \A e \in Episodes : Sound(run[e]) BY IdleIs DEF Init
<1> QED BY <1>1, <1>2, <1>3, <1>4 DEF IInv

LEMMA StepInvariant == IInv /\ [Next]_vars => IInv'
<1> SUFFICES ASSUME IInv, [Next]_vars PROVE IInv'
  OBVIOUS
<1>1. ASSUME NEW e \in Episodes, Reward(e) PROVE IInv'
  <2>1. rewards' = rewards + 1 /\ rewards' \in Nat /\ UNCHANGED upsets
    BY <1>1 DEF Reward, IInv, Types
  <2>2. CASE run[e].stage = "idle"
    <3>1. Begin(e) /\ run[e].stage \notin Working BY <1>1, <2>2 DEF Reward, Working
    <3> QED BY <2>1, <3>1, BeginKeeps
  <2>3. CASE run[e].stage # "idle"
    <3>1. /\ pending' = [pending EXCEPT ![e] = TRUE]
          /\ UNCHANGED <<policy, candidate, link, run, busy, faults, unlinked, dropped>>
      BY <1>1, <2>3 DEF Reward
    <3>2. InducedIsCounted'
      <4>1. \A q \in Policies : Exists(q)' => Exists(q) BY <3>1 DEF Exists
      <4> QED BY <2>1, <3>1, <4>1, CountedStill DEF IInv
    <3> QED BY <2>1, <3>1, <3>2 DEF IInv, Types, PromotedIsLinked
  <2> QED BY <2>2, <2>3
<1>2. ASSUME NEW e \in Episodes, BeginAgain(e) PROVE IInv'
  <2>1. Begin(e) /\ run[e].stage \notin Working /\ UNCHANGED <<rewards, upsets>>
    BY <1>2 DEF BeginAgain, Working
  <2>2. rewards' \in Nat BY <2>1 DEF IInv, Types
  <2> QED BY <2>1, <2>2, BeginKeeps
<1>3. ASSUME NEW e \in Episodes, TakeBucket(e) PROVE IInv'
  BY <1>3, TakeMatchedKeeps, TakeNewKeeps DEF TakeBucket
<1>4. ASSUME NEW e \in Episodes, DraftAnswered(e) \/ Finish(e) \/ Leave(e) PROVE IInv'
  BY <1>4, DraftKeeps, FinishKeeps, LeaveKeeps
<1>5. ASSUME NEW p \in Policies, Delete(p) PROVE IInv'
  BY <1>5, DeleteKeeps
<1>6. ASSUME NEW p \in Policies, NEW newStatus \in Live \cup {"archived"}, SetStatus(p, newStatus)
      PROVE  IInv'
  BY <1>6, SetStatusKeeps
<1>7. CASE Crash BY <1>7, CrashKeeps
<1>8. CASE UNCHANGED vars
  <2>1. UNCHANGED <<policy, candidate, link, run, pending, busy, rewards, upsets, faults, unlinked,
                    dropped>>
    BY <1>8 DEF vars
  <2>2. Happened("crash")' <=> Happened("crash") BY <2>1 DEF Happened
  <2>3. InducedIsCounted' BY <2>1, <2>2 DEF IInv, InducedIsCounted, Exists
  <2> QED BY <2>1, <2>3 DEF IInv, Types, PromotedIsLinked
<1> QED BY <1>1, <1>2, <1>3, <1>4, <1>5, <1>6, <1>7, <1>8 DEF Next, Step

LEMMA Invariant == Spec => []IInv
BY StartsEmpty, StepInvariant, PTL DEF Spec

-----------------------------------------------------------------------------
(* What follows.                                                           *)

\* Whatever the runs of l2.ts interleave at while they await their drafts, and
\* whatever the viewer edits meanwhile, what is promoted is linked, and what is
\* induced and not counted yet has a run that will count it, but for what a crash
\* or a write that threw in the very promotion or count took away.
THEOREM PromotionsCorrect == Spec => []PromotionsCounted
<1>1. ASSUME IInv PROVE PromotionsCounted
  <2>1. ASSUME NEW e \in Episodes
        PROVE  /\ run[e].stage \in Stage /\ run[e].bucket \subseteq Traces
               /\ run[e].ready \subseteq SUBSET Traces
               /\ run[e].touched \in [Policies -> Row \cup {NoRow}]
               /\ run[e].evidence \in [Policies -> SUBSET Traces]
               /\ run[e].matched \in [Traces -> Policies \cup {NoPolicy}]
    BY <1>1 DEF IInv, Types, Frame
  <2> QED BY <1>1, <2>1 DEF PromotionsCounted, TypeOK, IInv, Types, Table
<1> QED BY <1>1, Invariant, PTL

\* Neither a match, nor a merge of a draft, nor the end of a run whose copy is
\* archived makes an archived policy live again.
THEOREM ArchivedCorrect == Spec => ArchivedStands
<1>1. IInv /\ [Next]_vars =>
        [\A p \in Policies :
           policy[p].status = "archived" /\ policy'[p].status \in Live =>
             \/ upsets' # upsets
             \/ busy # Nobody /\ run[busy].touched[p].status \in Live]_vars
  <2> SUFFICES ASSUME IInv, [Next]_vars, NEW p \in Policies,
                      policy[p].status = "archived", policy'[p].status \in Live,
                      upsets' = upsets
               PROVE  busy # Nobody /\ run[busy].touched[p].status \in Live
    OBVIOUS
  <2>0. policy[p] \in Row /\ Exists(p) BY ExistsIsRow DEF IInv, Types
  <2>1. policy'[p] # policy[p] BY DEF Live
  <2>2. ASSUME NEW e \in Episodes, Finish(e)
        PROVE  busy # Nobody /\ run[busy].touched[p].status \in Live
    BY <2>0, <2>2, FinishIs, InductionAssumption DEF Finish
  <2>3. ASSUME NEW e \in Episodes, DraftAnswered(e) PROVE FALSE
    <3>1. PICK q \in Policies :
            \E row : policy' = [policy EXCEPT ![q] = row] /\ (Exists(q) => row = policy[q])
      <4>1. ASSUME NEW q \in Unused, Persist(e, q) \/ InsertUncounted(e, q)
            PROVE  /\ q \in Policies /\ ~Exists(q)
                   /\ \E row : policy' = [policy EXCEPT ![q] = row]
        BY <4>1 DEF Unused, Exists, Persist, InsertUncounted
      <4>2. ASSUME NEW q \in {r \in Policies : Exists(r)}, Persist(e, q)
            PROVE  policy' = [policy EXCEPT ![q] = policy[q]]
        BY <4>2 DEF Persist, Stored
      <4>3. ASSUME NEW q \in Policies, MergeThrows(e, q) PROVE FALSE
        BY <2>1, <4>3 DEF MergeThrows
      <4> QED BY <2>1, <2>3, <4>1, <4>2, <4>3 DEF DraftAnswered
    <3>2. policy \in Table BY DEF IInv, Types
    <3> QED BY <2>0, <2>1, <3>1, <3>2 DEF Table
  <2>4. ASSUME NEW kind \in {"edit", "crash"}, Upset(kind) PROVE FALSE
    <3>1. upsets \in Seq({"edit", "crash"}) /\ upsets' = Append(upsets, kind)
      BY <2>4 DEF Upset, IInv, Types
    <3>2. Len(upsets') = Len(upsets) + 1 /\ Len(upsets) \in Nat
      BY <3>1, AppendProperties, LenProperties
    <3> QED BY <3>2
  <2>5. ASSUME NEW e \in Episodes, Reward(e) \/ BeginAgain(e) \/ TakeBucket(e) \/ Leave(e)
        PROVE  FALSE
    BY <2>1, <2>5 DEF Reward, BeginAgain, Begin, TakeBucket, Leave
  <2>6. ~UNCHANGED vars BY <2>1 DEF vars
  <2> QED BY <2>2, <2>3, <2>4, <2>5, <2>6 DEF Next, Step, Delete, SetStatus, Crash
<1> QED BY <1>1, Invariant, PTL DEF Spec, ArchivedStands
=============================================================================
