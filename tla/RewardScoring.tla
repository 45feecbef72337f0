--------------------------- MODULE RewardScoring ---------------------------
(***************************************************************************)
(* How the score of one topic (episode) is computed and kept up to date:   *)
(* the topic ends and its steps are reflected on, a feedback window opens  *)
(* (core/reward/subscriber.ts), a reward run reads the topic, waits for    *)
(* the scoring model and writes its result (core/reward/reward.ts), user   *)
(* feedback starts a run of its own, and start-up and ten-minute scans     *)
(* (core/pipeline/memory-core.ts) run again what was lost or has changed.  *)
(*                                                                         *)
(* A score is abstracted to what it was computed from: the number of       *)
(* feedback rows it heard and the number of trace rows it covers, which is *)
(* what the code compares.  A topic is too thin to be scored below         *)
(* MinExchanges exchanges; this stands for every reason of decideSkipReason.*)
(* Writing a trace at the end of a turn is one step here.                  *)
(***************************************************************************)
EXTENDS Integers

CONSTANTS
  Runs,          \* reward runs that can be in flight at one time
  MinExchanges,  \* exchanges below which a topic is not worth a score
  MaxAttempts,   \* MAX_DIRTY_REWARD_ATTEMPTS
  MaxTurns, MaxFeedback, MaxReopens, MaxDeletes,  \* bounds on what the user does
  MaxFaults,     \* bound on failed captures and failed writes
  MaxCrashes,    \* bound on process restarts
  MaxReflects,   \* bound on reflect passes in flight
  MaxTimers      \* bound on timers left behind by a replaced window

ASSUME RewardAssumption ==
  /\ MinExchanges \in Nat \ {0} /\ MaxAttempts \in Nat \ {0}
  /\ {MaxTurns, MaxFeedback, MaxReopens, MaxDeletes, MaxFaults, MaxCrashes,
      MaxReflects, MaxTimers} \subseteq Nat

None == -1   \* r_task IS NULL

VARIABLES
  status, traces, feedback, rTask, reward, marker,  \* the topic's rows
  snap,        \* the episode manager's copy of the topic
  reflects,    \* reflect passes in flight
  window,      \* the subscriber's pending entry, and timers of replaced ones
  runs,        \* reward runs waiting for the scoring model
  scan,        \* the recovery scan that holds this topic
  cooling,     \* the back-off after repeated failed attempts has not elapsed
  spent        \* how often each bounded event has happened

rows   == <<status, traces, feedback, rTask, reward, marker>>
memory == <<snap, reflects, window, runs, scan>>
rewardVars   == <<rows, memory, cooling, spent>>

-----------------------------------------------------------------------------
(* Records.                                                                *)

Unrated  == [kind |-> "none", count |-> 0]
Rated(n) == [kind |-> "scored", count |-> n]
Skipped  == [kind |-> "skipped", count |-> 0]
RewardMeta   == [kind : {"none", "scored", "skipped"}, count : Nat]

\* meta.rewardDirty: absent, or with its number of failed attempts.
Clean     == [on |-> FALSE, attempts |-> 0]
Dirtied(n) == [on |-> TRUE, attempts |-> n]
Marker    == [on : BOOLEAN, attempts : Nat]

NoSnap == [live |-> FALSE, talk |-> 0, reward |-> Unrated, marker |-> Clean]
Snap   == [live : BOOLEAN, talk : Nat, reward : RewardMeta, marker : Marker]

NoRun == [by |-> "none", heard |-> 0, count |-> 0]
Run   == [by : {"none", "background", "feedback", "fallback"}, heard : Nat, count : Nat]

NoScan == [stage |-> "idle", attempts |-> 0, failed |-> FALSE]
Scan   == [stage : {"idle", "listed",
                    "reflect", "score", "account",           \* rescore of a dirty topic
                    "reopenReflect", "reopenScore", "fallback", "awaited"},
           attempts : Nat, failed : BOOLEAN]

Spent == [turns : Nat, reopens : Nat, deletes : Nat, faults : Nat, crashes : Nat]
Spend(what) == spent' = [spent EXCEPT ![what] = @ + 1]

RewardInit ==
  /\ status = "open" /\ traces = 0 /\ feedback = 0 /\ rTask = None
  /\ reward = Unrated /\ marker = Clean
  /\ snap = [NoSnap EXCEPT !.live = TRUE]
  /\ reflects = 0
  /\ window = [pending |-> FALSE, orphans |-> 0]
  /\ runs = [r \in Runs |-> NoRun]
  /\ scan = NoScan
  /\ cooling = FALSE
  /\ spent = [turns |-> 0, reopens |-> 0, deletes |-> 0, faults |-> 0, crashes |-> 0]

-----------------------------------------------------------------------------
(* The topic itself.                                                       *)

\* A topic an earlier process left open is rebuilt from its row when the
\* session's next turn is routed.
Hydrate ==
  /\ status = "open" /\ ~snap.live
  /\ snap' = [live |-> TRUE, talk |-> traces, reward |-> reward, marker |-> marker]
  /\ UNCHANGED <<rows, reflects, window, runs, scan, cooling, spent>>

\* A turn ends: the answer is appended and its trace written.
EndTurn ==
  /\ status = "open" /\ snap.live
  /\ spent.turns < MaxTurns /\ Spend("turns")
  /\ traces' = traces + 1
  /\ snap' = [snap EXCEPT !.talk = @ + 1]
  /\ UNCHANGED <<status, feedback, rTask, reward, marker, reflects, window, runs, scan, cooling>>

\* Closing and reopening write the copy's meta over the row's: what the copy
\* knows replaces the row's value, however old it is.  (The copy never knows an
\* r_task: start-up closes an open topic that has one.)
WriteBack(s) ==
  /\ reward' = IF s.reward = Unrated THEN reward ELSE s.reward
  /\ marker' = IF s.marker.on THEN s.marker ELSE marker

\* A pass over a topic without steps ends in capture.done without traces,
\* which starts nothing.
Reflect(steps) ==
  /\ reflects < MaxReflects
  /\ reflects' = IF steps > 0 THEN reflects + 1 ELSE reflects

Finalize ==
  /\ status = "open" /\ snap.live
  /\ status' = "closed"
  /\ WriteBack(snap)
  /\ Reflect(snap.talk)
  /\ UNCHANGED <<traces, feedback, rTask, snap, window, runs, scan, cooling, spent>>

\* The marker is set when the copy, not the row, knows of a reward.
Reopened(s) == IF s.reward = Unrated THEN s ELSE [s EXCEPT !.marker = Dirtied(0)]

Reopen ==
  /\ status = "closed" /\ snap.live
  /\ spent.reopens < MaxReopens /\ Spend("reopens")
  /\ status' = "open"
  /\ snap' = Reopened(snap)
  /\ WriteBack(Reopened(snap))
  /\ UNCHANGED <<traces, feedback, rTask, reflects, window, runs, scan, cooling>>

DeleteTrace ==
  /\ traces > 0 /\ spent.deletes < MaxDeletes /\ Spend("deletes")
  /\ traces' = traces - 1
  /\ UNCHANGED <<status, feedback, rTask, reward, marker, memory, cooling>>

-----------------------------------------------------------------------------
(* Runs of the reward runner.                                              *)

Exchanges == IF snap.live THEN snap.talk ELSE traces
Thin == Exchanges < MinExchanges

\* The synchronous first part of a run: a thin topic is stamped as skipped,
\* any other is read and handed to the scoring model.
StartRun(r, by, heard) ==
  IF Thin
    THEN /\ reward' = Skipped /\ marker' = Clean
         /\ UNCHANGED runs
    ELSE /\ runs[r] = NoRun
         /\ runs' = [runs EXCEPT ![r] = [by |-> by, heard |-> heard, count |-> traces]]
         /\ UNCHANGED <<reward, marker>>

\* The model has answered (or failed: a heuristic score stands in).  Each of
\* the two writes may fail on its own.
FinishRun(r, task, meta) ==
  /\ runs[r] # NoRun
  /\ runs' = [runs EXCEPT ![r] = NoRun]
  /\ rTask' = IF task THEN runs[r].heard ELSE rTask
  /\ reward' = IF meta THEN Rated(runs[r].count) ELSE reward
  /\ marker' = IF meta THEN Clean ELSE marker
  /\ IF task /\ meta THEN UNCHANGED spent
                     ELSE spent.faults < MaxFaults /\ Spend("faults")
  /\ scan' = IF runs[r].by = "fallback" THEN NoScan ELSE scan
  /\ UNCHANGED <<status, traces, feedback, snap, reflects, window, cooling>>

\* submitFeedback stores the row and runs at once, leaving the window alone.
GiveFeedback(r) ==
  /\ feedback < MaxFeedback
  /\ feedback' = feedback + 1
  /\ StartRun(r, "feedback", feedback + 1)
  /\ UNCHANGED <<status, traces, rTask, snap, reflects, window, scan, cooling, spent>>

-----------------------------------------------------------------------------
(* The feedback window.                                                    *)

\* capture.done replaces the pending entry without clearing its timer.
ReflectDone ==
  /\ reflects > 0 /\ (window.pending => window.orphans < MaxTimers)
  /\ reflects' = reflects - 1
  /\ window' = [pending |-> TRUE,
                orphans |-> window.orphans + (IF window.pending THEN 1 ELSE 0)]
  /\ UNCHANGED <<rows, snap, runs, scan, cooling, spent>>

\* A mutant: a pass that is no longer in flight is settled again.
ReflectFailAgain ==
  /\ spent.faults < MaxFaults /\ Spend("faults")
  /\ reflects' = reflects - 1
  /\ scan' = IF scan.stage = "reopenReflect" THEN [scan EXCEPT !.failed = TRUE] ELSE scan
  /\ UNCHANGED <<rows, snap, window, runs, cooling>>

\* The pass throws, or patches no trace: no window opens.
ReflectFail ==
  /\ reflects > 0 /\ spent.faults < MaxFaults /\ Spend("faults")
  /\ reflects' = reflects - 1
  /\ scan' = IF scan.stage = "reopenReflect" THEN [scan EXCEPT !.failed = TRUE] ELSE scan
  /\ UNCHANGED <<rows, snap, window, runs, cooling>>

\* Its timer fires; or a flush for another topic, or a shutdown, runs it early.
Expire(r) ==
  /\ window.pending
  /\ window' = [window EXCEPT !.pending = FALSE]
  /\ StartRun(r, "background", feedback)
  /\ UNCHANGED <<status, traces, feedback, rTask, snap, reflects, scan, cooling, spent>>

\* The timer of a replaced entry drops the entry that replaced it, whose own
\* timer keeps running.
ExpireOrphan(r) ==
  /\ window.orphans > 0
  /\ window' = [pending |-> FALSE,
                orphans |-> window.orphans - (IF window.pending THEN 0 ELSE 1)]
  /\ StartRun(r, "background", feedback)
  /\ UNCHANGED <<status, traces, feedback, rTask, snap, reflects, scan, cooling, spent>>

-----------------------------------------------------------------------------
(* Recovery of dirty topics.                                               *)

\* A mutant: only a missing score makes a topic dirty.
IsDirtyUnscored ==
  /\ reward # Skipped
  /\ marker.on \/ (rTask = None /\ traces > 0)

IsDirty ==
  /\ reward # Skipped
  /\ \/ marker.on
     \/ rTask = None /\ traces > 0
     \/ reward.kind = "scored" /\ reward.count # traces

\* Only a topic that has failed MaxAttempts times has to wait.
BackoffElapsed == marker.attempts >= MaxAttempts => ~cooling

\* collectDirtyClosedEpisodes, with the back-off filter.
List ==
  /\ scan = NoScan /\ status = "closed" /\ IsDirty /\ BackoffElapsed
  /\ scan' = [NoScan EXCEPT !.stage = "listed", !.attempts = marker.attempts]
  /\ UNCHANGED <<rows, snap, reflects, window, runs, cooling, spent>>

\* The marker of a skipped topic is removed while the page is read.
DropMarker ==
  /\ scan = NoScan /\ status = "closed" /\ reward = Skipped /\ marker.on
  /\ marker' = Clean
  /\ UNCHANGED <<status, traces, feedback, rTask, reward, memory, cooling, spent>>

Launch ==
  /\ scan.stage = "listed"
  /\ Reflect(traces)
  /\ scan' = [scan EXCEPT !.stage = "reflect"]
  /\ UNCHANGED <<rows, snap, window, runs, cooling, spent>>

\* flush(): wait for the captures, then run every window that is pending.
Drain(r) ==
  /\ scan.stage \in {"reflect", "reopenReflect"} /\ reflects = 0
  /\ scan' = [scan EXCEPT !.stage = IF @ = "reflect" THEN "score" ELSE "reopenScore"]
  /\ IF window.pending
       THEN /\ window' = [window EXCEPT !.pending = FALSE]
            /\ StartRun(r, "background", feedback)
       ELSE UNCHANGED <<window, runs, reward, marker>>
  /\ UNCHANGED <<status, traces, feedback, rTask, snap, reflects, cooling, spent>>

\* ... and wait for every run the subscriber started.
Drained ==
  /\ scan.stage \in {"score", "reopenScore"}
  /\ \A r \in Runs : runs[r].by # "background"
  /\ scan' = [scan EXCEPT !.stage = IF @ = "score" THEN "account" ELSE "fallback"]
  /\ UNCHANGED <<rows, snap, reflects, window, runs, cooling, spent>>

AtMost(n, cap) == IF n > cap THEN cap ELSE n

\* A mutant: the attempt is counted whatever came of it.
AccountFailure ==
  /\ scan.stage = "account"
  /\ scan' = NoScan
  /\ marker' = Dirtied(AtMost(scan.attempts + 1, MaxAttempts))
  /\ cooling' = (scan.attempts + 1 >= MaxAttempts)
  /\ UNCHANGED <<status, traces, feedback, rTask, reward, snap, reflects, window, runs, spent>>

\* The attempt is counted, or the marker of a topic that is clean removed.
\* More failures than MaxAttempts only make the wait longer.
Account ==
  /\ scan.stage = "account"
  /\ scan' = NoScan
  /\ IF IsDirty
       THEN /\ marker' = Dirtied(AtMost(scan.attempts + 1, MaxAttempts))
            /\ cooling' = (scan.attempts + 1 >= MaxAttempts)
       ELSE /\ marker' = Clean
            /\ UNCHANGED cooling
  /\ UNCHANGED <<status, traces, feedback, rTask, reward, snap, reflects, window, runs, spent>>

CoolDown ==
  /\ cooling /\ cooling' = FALSE
  /\ UNCHANGED <<rows, memory, spent>>

\* A topic recovered while open gets a run of its own if it is still unscored.
Fallback(r) ==
  /\ scan.stage = "fallback"
  /\ IF rTask = None /\ ~scan.failed
       THEN /\ StartRun(r, "fallback", feedback)
            /\ scan' = IF Thin THEN NoScan ELSE [scan EXCEPT !.stage = "awaited"]
       ELSE /\ scan' = NoScan
            /\ UNCHANGED <<reward, marker, runs>>
  /\ UNCHANGED <<status, traces, feedback, rTask, snap, reflects, window, cooling, spent>>

-----------------------------------------------------------------------------
(* Loss of the process and the start of the next.                          *)

\* init() closes an open topic that has traces or a score, or that is old;
\* a closed one that needs it waits for List, which init() also performs.
Restart ==
  /\ spent.crashes < MaxCrashes /\ Spend("crashes")
  /\ snap' = NoSnap
  /\ window' = [pending |-> FALSE, orphans |-> 0]
  /\ runs' = [r \in Runs |-> NoRun]
  /\ \/ /\ status = "closed" \/ (traces = 0 /\ rTask = None)
        /\ reflects' = 0 /\ scan' = NoScan
        /\ UNCHANGED status
     \/ /\ status = "open"
        /\ status' = "closed"
        /\ IF rTask # None /\ ~IsDirty
             THEN reflects' = 0 /\ scan' = NoScan
             ELSE /\ reflects' = IF traces > 0 THEN 1 ELSE 0
                  /\ scan' = [NoScan EXCEPT !.stage = "reopenReflect"]
  /\ UNCHANGED <<traces, feedback, rTask, reward, marker, cooling>>

-----------------------------------------------------------------------------
User == Hydrate \/ EndTurn \/ Finalize \/ Reopen \/ DeleteTrace \/ \E r \in Runs : GiveFeedback(r)

ReflectEnds == ReflectDone \/ ReflectFail
WindowEnds  == \E r \in Runs : Expire(r) \/ ExpireOrphan(r)
RunEnds     == \E r \in Runs : \E task, meta \in BOOLEAN : FinishRun(r, task, meta)
ScanMoves   == \/ Launch \/ Drained \/ Account
               \/ \E r \in Runs : Drain(r) \/ Fallback(r)

RewardNext ==
  \/ User \/ ReflectEnds \/ WindowEnds \/ RunEnds \/ ScanMoves
  \/ List \/ DropMarker \/ CoolDown
  \/ Restart

RewardSpec == RewardInit /\ [][RewardNext]_rewardVars

\* What the event loop and the timers do on their own: passes and model calls
\* come back, windows expire, the scan and its back-off recur.  Failures are
\* bounded by MaxFaults; nothing is assumed of the user or of restarts.
Fairness ==
  /\ WF_rewardVars(ReflectDone)
  /\ WF_rewardVars(\E r \in Runs : Expire(r))
  /\ WF_rewardVars(\E r \in Runs : ExpireOrphan(r))
  /\ \A r \in Runs : WF_rewardVars(FinishRun(r, TRUE, TRUE))
  /\ WF_rewardVars(ScanMoves)
  /\ WF_rewardVars(List \/ DropMarker)
  /\ WF_rewardVars(CoolDown)

RewardFairSpec == RewardSpec /\ Fairness

-----------------------------------------------------------------------------
(* Properties.                                                             *)

RewardTypeOK ==
  /\ status \in {"open", "closed"} /\ traces \in Nat /\ feedback \in Nat
  /\ rTask \in Nat \cup {None} /\ reward \in RewardMeta /\ marker \in Marker
  /\ snap \in Snap /\ reflects \in Nat
  /\ window \in [pending : BOOLEAN, orphans : Nat]
  /\ runs \in [Runs -> Run] /\ scan \in Scan
  /\ cooling \in BOOLEAN /\ spent \in Spent

AtRest ==
  /\ scan = NoScan /\ reflects = 0 /\ ~window.pending /\ window.orphans = 0
  /\ \A r \in Runs : runs[r] = NoRun

Covered == rTask # None /\ (reward = Unrated \/ reward.count = traces)

\* A topic that stays closed and keeps some trace ends with a score that covers
\* all its traces, or a skip, whatever windows, passes and runs a restart or a
\* fault lost on the way.  (reward = Unrated: the write of the coverage itself
\* failed, which leaves the scans nothing to compare.)
ScoreSettles ==
  <>[](status = "closed" /\ traces > 0) => <>[](reward = Skipped \/ Covered)

\* The scans do not work on such a topic for ever: reflection, scoring and
\* rescans all stop (issues #1808 and #1966 were rescans that never did).
ComesToRest ==
  <>[](status = "closed" /\ traces > 0) => <>[]AtRest
=============================================================================
