----------------------------- MODULE CapturePass -----------------------------
(***************************************************************************)
(* How the steps of one topic become trace rows, and how the rows get      *)
(* their reflections: core/capture/capture.ts and subscriber.ts, the end   *)
(* of a turn in core/pipeline/orchestrator.ts, and the list of trace ids   *)
(* the episode manager keeps.                                              *)
(*                                                                         *)
(* At the end of a turn a lite pass stores the steps that have no row yet. *)
(* When the topic is closed a reflect pass pairs every step with its row,  *)
(* stores the steps without one, has the model reflect on the whole topic  *)
(* and writes each reflection onto the row of its step.  Both passes read  *)
(* the rows, wait for a model, and write: they overlap when a topic is     *)
(* reopened, recovered, or closed in the middle of a turn's end.           *)
(*                                                                         *)
(* A step is its identity signature.  That of the n-th step of the         *)
(* conversation is n.  After a restart the steps are rebuilt from their    *)
(* rows, and a rebuilt step may have another signature than the one that   *)
(* was stored - the time of the user's message is part of it, and the      *)
(* rebuilt turns have that of the answer - while its timestamp, its        *)
(* Moment, is the same: the rebuilt step has a negative number.  A         *)
(* reflection is the step it was written about.                            *)
(*                                                                         *)
(* A topic whose meta says that it was recovered is replayed: steps that   *)
(* have no row are left out (maxRecoveryOrphanInserts has its default, 0). *)
(***************************************************************************)
EXTENDS Integers, Sequences, FiniteSets

CONSTANTS
  Passes,        \* passes that can be in flight at one time
  Serial,        \* the host waits for the end of a turn before it goes on
  MaxSteps,      \* bound on the steps of the topic
  MaxReopens, MaxRecoveries, MaxFaults, MaxCrashes   \* bounds on the environment

ASSUME CaptureAssumption ==
  /\ Serial \in BOOLEAN
  /\ {MaxSteps, MaxReopens, MaxRecoveries, MaxFaults, MaxCrashes} \subseteq Nat

Steps == (-MaxSteps .. -1) \cup (1 .. MaxSteps)

Moment(s)  == IF s < 0 THEN s + (MaxSteps + 1) ELSE s
Rebuilt(s) == IF s < 0 THEN s ELSE s - (MaxSteps + 1)

VARIABLES
  status,   \* the topic's row: open or closed
  marked,   \* its meta says that the topic was recovered
  said,     \* steps of the conversation so far
  rows,     \* the trace rows in the order of their insertion; an id is a place here
  listed,   \* trace_ids_json
  copy,     \* the episode manager's snapshot: whether it has one, whether its meta
            \* says recovered, the steps said before it, its steps and trace ids
  pass,     \* the passes in flight
  done,     \* the steps some capture.done has covered
  skipped,  \* the steps a replay has left out
  spent     \* how often each bounded event has happened

captureVars == <<status, marked, said, rows, listed, copy, pass, done, skipped, spent>>

NoRow   == 0
NoMatch == [s \in Steps |-> NoRow]
NoPass  == [stage |-> "idle", steps |-> {}, todo |-> {}, match |-> NoMatch,
            skips |-> {}, late |-> FALSE]

Row  == [step : Steps, about : Steps \cup {0}]
Copy(ids) == [live : BOOLEAN, marked : BOOLEAN, since : 0 .. MaxSteps, steps : SUBSET Steps, ids : ids]
NoCopy == [live |-> FALSE, marked |-> FALSE, since |-> 0, steps |-> {}, ids |-> <<>>]

Pass == [stage : {"idle", "lite", "orphans", "scoring"},
         steps : SUBSET Steps,    \* what its snapshot of the topic holds
         todo  : SUBSET Steps,    \* what it is going to store
         match : [Steps -> Nat],  \* the row of each step, for a reflect pass
         skips : SUBSET Steps,    \* what it leaves out, for a replay
         late  : BOOLEAN]         \* closes the topic again when it is over

CaptureInit ==
  /\ status = "open" /\ marked = FALSE /\ said = 0
  /\ rows = <<>> /\ listed = <<>>
  /\ copy = [NoCopy EXCEPT !.live = TRUE]
  /\ pass = [p \in Passes |-> NoPass]
  /\ done = {} /\ skipped = {}
  /\ spent = [reopens |-> 0, recoveries |-> 0, faults |-> 0, crashes |-> 0]

Spend(what, bound) == /\ spent[what] < bound
                      /\ spent' = [spent EXCEPT ![what] = @ + 1]

-----------------------------------------------------------------------------
(* Rows and their ids.                                                     *)

StoredIn(table)  == {table[i].step : i \in DOMAIN table}
MomentsIn(table) == {Moment(s) : s \in StoredIn(table)}

\* Mutant: the matcher pairs steps and rows by position.
RowAtPlace(s, table) == IF s \in DOMAIN table THEN s ELSE NoRow

\* The first row of a step: what createTraceMatcher takes for it.
RowOf(s, table) ==
  LET own == {i \in DOMAIN table : table[i].step = s}
  IN  IF own = {} THEN NoRow ELSE CHOOSE i \in own : \A j \in own : i <= j

\* The elements of S in the order of their keys, which are all different: the
\* n-th is the one whose key n of the keys do not exceed.
Sorted(S, key) ==
  [n \in 1 .. Cardinality(S) |->
     CHOOSE x \in S : Cardinality({y \in S : key[y] <= key[x]}) = n]

InOrder(S) == Sorted(S, [s \in S |-> s])

\* The rows of the steps S, in the order of the steps, still without reflections.
NewRows(S) == [i \in 1 .. Cardinality(S) |-> [step |-> InOrder(S)[i], about |-> 0]]
NewIds(S)  == [i \in 1 .. Cardinality(S) |-> Len(rows) + i]

\* reconcileTraceIds: one id for each step, in the order of the steps.
Reconcile(ids, table) ==
  LET StepOf(i) == table[ids[i]].step
      first == {i \in DOMAIN ids : \A j \in 1 .. i - 1 : StepOf(j) # StepOf(i)}
      kept  == {ids[i] : i \in first}
  IN  Sorted(kept, [a \in kept |-> table[a].step])

-----------------------------------------------------------------------------
(* Passes start.                                                           *)

HostReady == Serial => \A p \in Passes : pass[p].stage # "lite"

\* The lite pass of the end of a turn reads the rows at once and takes on the
\* steps at whose moment there is none.
Unstored(S) == {s \in S : Moment(s) \notin MomentsIn(rows)}
Ending(now) == [stage |-> "lite", steps |-> now, todo |-> Unstored(now), match |-> NoMatch,
                skips |-> {}, late |-> status = "closed"]

\* onTurnEnd adds k steps to the topic - reopening it when the answer comes
\* after it was closed - and starts the lite pass.
EndTurn(p, k) ==
  /\ HostReady /\ copy.live /\ pass[p] = NoPass
  /\ said + k <= MaxSteps
  /\ said' = said + k
  /\ LET now == copy.steps \cup (said + 1 .. said + k)
     IN  /\ copy' = [copy EXCEPT !.steps = now]
         /\ pass' = [pass EXCEPT ![p] = Ending(now)]
  /\ status' = "open"
  /\ UNCHANGED <<marked, rows, listed, done, skipped, spent>>

\* Mutant: a step without a row is left to the next pass.
StartedWithoutOrphans(steps, match, replay) ==
  [NoPass EXCEPT !.steps = steps, !.match = match, !.stage = "scoring"]

\* runReflect up to its first await, over the steps of a snapshot.  A replay that
\* finds none of its rows fails, and leaves out the steps without a row.
Started(steps, match, replay) ==
  LET orphans == {s \in steps : match[s] = NoRow}
  IN  IF steps = {} \/ (replay /\ orphans = steps) THEN NoPass
      ELSE [stage |-> IF replay \/ orphans = {} THEN "scoring" ELSE "orphans",
            steps |-> steps, match |-> match, late |-> FALSE,
            todo  |-> IF replay THEN {} ELSE orphans,
            skips |-> IF replay THEN orphans ELSE {}]

\* The rows of the steps that the matcher can tell.
MatchOf(steps, table) == [s \in Steps |-> IF s \in steps THEN RowOf(s, table) ELSE NoRow]

\* The topic is closed and the capture subscriber hears it.  (A topic without
\* steps gets its capture.done at once.)
Close(p, snapshot, table) ==
  /\ status' = "closed"
  /\ pass' = [pass EXCEPT ![p] =
       Started(snapshot.steps, MatchOf(snapshot.steps, table), snapshot.marked)]

Finalize(p) ==
  /\ HostReady /\ copy.live /\ status = "open" /\ pass[p] = NoPass
  /\ Close(p, copy, rows)
  /\ UNCHANGED <<marked, said, rows, listed, copy, done, skipped, spent>>

\* The next turn belongs to the closed topic.
Reopen ==
  /\ HostReady /\ copy.live /\ status = "closed"
  /\ Spend("reopens", MaxReopens)
  /\ status' = "open"
  /\ UNCHANGED <<marked, said, rows, listed, copy, pass, done, skipped>>

-----------------------------------------------------------------------------
(* Passes come back from the models.                                       *)

\* Mutant: the topic is closed again in silence.
OverQuietly(p, table) ==
  /\ pass' = [pass EXCEPT ![p] = NoPass]
  /\ status' = IF pass[p].late THEN "closed" ELSE status

\* The end of a turn that reopened the topic closes it again, whether its steps
\* were stored or not; it fails when somebody else closed the topic meanwhile.
Over(p, table) ==
  IF pass[p].late /\ status = "open" THEN Close(p, copy, table)
  ELSE pass' = [pass EXCEPT ![p] = NoPass] /\ UNCHANGED status

\* persistRows filters against the rows read before the await; then the episode
\* manager writes its own list of ids over the reconciled one.
StoreLite(p) ==
  /\ pass[p].stage = "lite"
  /\ LET ids == copy.ids \o NewIds(pass[p].todo)
     IN  /\ rows' = rows \o NewRows(pass[p].todo)
         /\ copy' = [copy EXCEPT !.ids = ids]
         /\ listed' = IF pass[p].todo = {} THEN listed ELSE ids
  /\ Over(p, rows')
  /\ UNCHANGED <<marked, said, done, skipped, spent>>

\* The steps without a row were embedded; persistRows reads the rows again,
\* drops in place the steps that have one by now, and the rows that are left are
\* paired by position with the steps there were before.
StoreOrphans(p) ==
  /\ pass[p].stage = "orphans"
  /\ LET todo  == pass[p].todo
         fresh == todo \ StoredIn(rows)
         place(s)  == CHOOSE i \in 1 .. Cardinality(todo) : InOrder(todo)[i] = s
         paired(s) == IF place(s) <= Cardinality(fresh) THEN Len(rows) + place(s) ELSE NoRow
     IN  /\ rows' = rows \o NewRows(fresh)
         /\ listed' = Reconcile(listed \o NewIds(fresh), rows')
         /\ pass' = [pass EXCEPT ![p].stage = "scoring", ![p].todo = {},
              ![p].match = [s \in Steps |-> IF s \in todo THEN paired(s) ELSE @[s]]]
  /\ UNCHANGED <<status, marked, said, copy, done, skipped, spent>>

\* An insert, or the queueing of a missing vector, throws: the rows inserted
\* before stay, the list of ids is not written, and the pass is over.
StoreFails(p) ==
  /\ pass[p].stage \in {"lite", "orphans"} /\ pass[p].todo # {}
  /\ Spend("faults", MaxFaults)
  /\ LET todo == IF pass[p].stage = "lite" THEN pass[p].todo
                 ELSE pass[p].todo \ StoredIn(rows)
     IN  \E n \in 0 .. Cardinality(todo) : rows' = rows \o SubSeq(NewRows(todo), 1, n)
  /\ Over(p, rows')
  /\ UNCHANGED <<marked, said, listed, copy, done, skipped>>

\* The reflections are written row by row and capture.done is emitted.
Reflect(p) ==
  /\ pass[p].stage = "scoring"
  /\ rows' = [i \in DOMAIN rows |->
                LET about == {s \in pass[p].steps : pass[p].match[s] = i}
                IN  IF about = {} THEN rows[i] ELSE [rows[i] EXCEPT !.about = CHOOSE s \in about : TRUE]]
  /\ done' = done \cup pass[p].steps
  /\ skipped' = skipped \cup pass[p].skips
  /\ pass' = [pass EXCEPT ![p] = NoPass]
  /\ UNCHANGED <<status, marked, said, listed, copy, spent>>

-----------------------------------------------------------------------------
(* Restarts.                                                               *)

ListedSteps == {rows[listed[i]].step : i \in DOMAIN listed}

\* The process is lost and starts again.  The scan at startup marks a topic that
\* was left open without rows, when recovery is on and the topic is recent.
Crash ==
  /\ Spend("crashes", MaxCrashes)
  /\ pass' = [p \in Passes |-> NoPass]
  /\ copy' = NoCopy
  /\ \/ UNCHANGED marked
     \/ status = "open" /\ ListedSteps = {} /\ marked' = TRUE
  /\ UNCHANGED <<status, said, rows, listed, done, skipped>>

\* The next turn of the session finds the topic, open or closed, and the episode
\* manager adopts it: its turns are rebuilt from the rows it lists.  Some are
\* lost - a row without an answer ends no turn - and some are not what they were.
Adopt(flag) ==
  \E kept \in SUBSET ListedSteps : \E changed \in SUBSET kept :
    copy' = [live |-> TRUE, marked |-> flag, since |-> said, ids |-> listed,
             steps |-> (kept \ changed) \cup {Rebuilt(s) : s \in changed}]

Hydrate ==
  /\ ~copy.live
  /\ Adopt(marked)
  /\ UNCHANGED <<status, marked, said, rows, listed, pass, done, skipped, spent>>

\* The adopted topic is too old to go on with: it is closed there and then, and
\* the reason makes its pass a replay.
HydrateExpired(p) ==
  /\ ~copy.live /\ status = "open" /\ pass[p] = NoPass
  /\ Adopt(TRUE)
  /\ marked' = TRUE
  /\ Close(p, copy', rows)
  /\ UNCHANGED <<said, rows, listed, done, skipped, spent>>

\* Recovery, at startup of topics that were left open and on a timer of closed
\* ones, closes the topic and emits its finalized event over the steps rebuilt
\* from the rows it lists.  The rebuilt timing may hide a step from the matcher.
Recover(p) ==
  /\ pass[p] = NoPass /\ (status = "closed" \/ ~copy.live)
  /\ Spend("recoveries", MaxRecoveries)
  /\ status' = "closed" /\ marked' = TRUE
  /\ \E kept \in SUBSET ListedSteps : \E hidden \in SUBSET kept :
       pass' = [pass EXCEPT ![p] = Started(kept, MatchOf(kept \ hidden, rows), TRUE)]
  /\ UNCHANGED <<said, rows, listed, copy, done, skipped>>

CaptureNext ==
  \/ \E p \in Passes :
       \/ \E k \in 1 .. 2 : EndTurn(p, k)
       \/ Finalize(p) \/ HydrateExpired(p) \/ Recover(p)
       \/ StoreLite(p) \/ StoreOrphans(p) \/ StoreFails(p) \/ Reflect(p)
  \/ Reopen \/ Crash \/ Hydrate

CaptureSpec == CaptureInit /\ [][CaptureNext]_captureVars

\* The models answer or time out.
CaptureFairSpec ==
  CaptureSpec /\ \A p \in Passes : WF_captureVars(StoreLite(p) \/ StoreOrphans(p) \/ Reflect(p))

-----------------------------------------------------------------------------
(* Properties.                                                             *)

CaptureTypeOK ==
  /\ status \in {"open", "closed"} /\ marked \in BOOLEAN /\ said \in 0 .. MaxSteps
  /\ rows \in Seq(Row) /\ listed \in Seq(DOMAIN rows)
  /\ copy \in Copy(Seq(DOMAIN rows))
  /\ pass \in [Passes -> Pass]
  /\ done \subseteq Steps /\ skipped \subseteq Steps
  /\ spent \in [{"reopens", "recoveries", "faults", "crashes"} -> Nat]

\* What capture.done covers is stored: the score that follows is computed over a
\* topic none of whose steps is missing, whatever failed, overlapped or restarted
\* before.  The exception is a step that a replay left out, and it takes a write
\* that failed, where the host waits for the ends of its turns.  (The invariant
\* begins with the types.)
DoneMeansStored ==
  /\ CaptureTypeOK
  /\ \A s \in done : \/ Moment(s) \in MomentsIn(rows)
                     \/ s \in skipped /\ (Serial => spent.faults > 0)

\* A row was stored for a step whose signature the restart has changed.
StoredRebuilt == \E i \in DOMAIN rows : rows[i].step < 0

\* Steps are kept apart: a row carries the reflection on its own step and on no
\* other, and the topic lists a step once, to be scored and shown once, also when
\* two passes have stored it twice.  (The rows are paired for certain until a
\* write has failed and rebuilt steps were stored.  A rebuilt step with another
\* signature is another step for the code, and here.)
StepsKeptApart ==
  /\ spent.faults = 0 \/ ~StoredRebuilt =>
       \A i \in DOMAIN rows : rows[i].about \in {0, rows[i].step}
  /\ \A i, j \in DOMAIN listed : rows[listed[i]].step = rows[listed[j]].step => i = j

\* A closed topic of a process that stays up ends with every step reflected that
\* was said to this process, unless it is reopened or a write failed.
ClosedIsReflected ==
  (status = "closed" /\ copy.live) ~>
    \/ status = "open" \/ ~copy.live \/ spent.faults > 0
    \/ \A s \in copy.steps : s > copy.since => \E i \in DOMAIN rows : rows[i] = [step |-> s, about |-> s]
=============================================================================
