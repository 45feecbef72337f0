# Verification of dsh-memos-local

TLA+ models of the stateful core of this repository (a local memory engine for
the DeepSeek harness), their TLC configurations, and TLAPS proofs. Every
definition is translated from the TypeScript under `src/`; `PROJECT.json` maps
each to its lines, lists the runs, a mutant for every checked property, the
hazards and the theorems.

## 1. The system

One Node process per DSH instance holds a `MemoryCore` over a SQLite file. All
of it runs on one event loop: a handler is atomic up to its next `await`, and
SQLite statements are synchronous. What is hard is therefore (a) the state read
before an `await` and used after it, (b) timers and fire-and-forget promises,
(c) loss of the process, with recovery at the next start, and (d) several
processes on one file, which only the embedding queue is prepared for.

| component | state | operations | hard behaviour | what makes it correct |
| --- | --- | --- | --- | --- |
| **Embedding retry queue** (`core/storage/repos/embedding_retry_queue.ts`, `core/embedding/retry-worker.ts`) | rows of `embedding_retry_queue`, a worker's claimed batch, its `stopped` flag | enqueue, claimDue, markSucceeded/Retry/FailedClaimed, stop | leases against late answers, re-enqueue under a running embed, crash with a batch, several processes | a request is answered once, with the text asked for last; attempts are exact; nothing queued is forgotten |
| **Turn routing and episodes** (`core/pipeline/orchestrator.ts`, `core/session/*`) | `episodes` rows, the two managers' maps, `openEpisodeBySession`, `lastEpisodeBySession`, `turnStartBySession` | prepareTurn/onTurnStart, onTurnEnd, openEpisode, closeEpisode, closeSession, shutdown, startup scan | classifiers awaited in mid-decision, retried calls, late answers, paused topics, crashes | one open episode per session, the one that holds the unanswered question, and the newest topic the user may go back to; a retry is recorded once |
| **Reward window, scoring, recovery** (`core/reward/*`, parts of `core/pipeline/memory-core.ts`) | `r_task`, `meta.reward`, `meta.rewardDirty`, pending windows and their timers, runs in flight | capture.done, timer, submitFeedback, runner.run, ten-minute rescan, init | overlapping runs, replaced timers, lost windows, partial writes | every closed topic gets a score that covers it, or a skip, and the rescans stop |
| **DSH bridge** (`adapters/deepseek-harness/bridge.ts`) | a turn record per DSH session object, a queue per session id, owners of memory sessions | session events, capture, flush, closeSession, dispose | closes racing captures, two objects for one session | one capture at a time, in order; every memory session is closed at the end |
| **Capture** (`core/capture/*`) | traces of an episode and the topic's list of them, the passes in flight | runLite, runReflect, reopening, recovery | signatures and rows read before an await, overlap of the passes, inserts that fail halfway | what is announced as captured is stored, a step is listed once, a reflection stands on its own step |
| **L2 policy induction** (`core/memory/l2`) | candidate pool, policies, trace links, the copies a run takes | associate, draft, merge, promote, count, archive | runs of several episodes overlap at the draft and write from old copies | promoted evidence is linked and counted, archived means archived |
| **L3 world models** (`core/memory/l3`) | world models; cooldowns, failures and quarantines in the kv table; the loop's replay | cluster, draft, merge or insert, back off | a feedback's run beside the event loop's | drafts that fail are bounded, one write per cooldown |
| **Skills** (`core/skill`) | skills, pending trials, a queue of policies, a reward timer | crystallize, rebuild, try, judge, promote, archive | a rebuild writes the whole row from what it read two awaits ago; a manual run beside the queue | one live skill per policy, retired means retired, no credit nobody gave |
| **Decision feedback** (`core/feedback`, `core/experience`) | occurrences and last success of each tool, a queue of repair jobs, `decision_repairs`, policies' guidance and evidence | record an outcome, repair, submit feedback, learn, clear | jobs enqueued while the drain loop ends; cooldown and policies looked at before a draft, written after it; feedback beside the queue | a burst is a streak, no job is forgotten or done twice in a cooldown, no guidance is lost, a policy's evidence is what was heard |
| **Foreground resources and rate limits** (`core/util`) | the gate, two embedding queues, permits, the language model's semaphore | enter, leave, acquire, release, abort, shut down | cancellation against hand-over of a permit | permits are conserved, nobody waits in vain or for ever |
| **LLM and embedding clients** (`core/llm`, `core/embedding`) | retries, cache | call | fallbacks | seen as an answer or a failure |
| **Hub** (`core/hub`, `core/storage/repos/hub.ts`) | users, tokens, shared memories; the connection row and the timers of a client | join, registration-status, me, approve, reject, remove, share; start, refresh, poll | each answer changes the token; flows of a stopped runtime go on; requests that arrive late | names stand for one user, a removed user shares nothing, a client comes to agree with its hub |
| **Storage and migrations**, **HTTP server**, **telemetry**, **config writer**, **bundle import** | schema version; buffers, files | migrate, send, write | crash in the middle | not modelled |
| **Retrieval, injection scheduler, classifiers, event bridge, viewer** | none that the core's correctness rests on | read, rank, decide | none of the above | covered by unit tests |

How they interact. The bridge turns session events into `prepareTurn` /
`onTurnEnd` on the orchestrator and queues them per session. The orchestrator
owns which episode a turn goes to; closing an episode emits
`episode.finalized`, on which capture reflects and emits `capture.done`; the
reward subscriber then opens its feedback window; `reward.updated` drives L2,
L2 drives L3 and the skills. Any of these that writes text without a vector
queues a slot in the embedding retry queue.

## 2. Modules

| module | models | role |
| --- | --- | --- |
| `VectorCompensation` | what the retry queue promises | abstract specification |
| `EmbeddingRetryQueue` | queue table, workers, clock, callers, deletes, crashes | implements it (`KeepsPromise`) |
| `EmbeddingRetryQueueProofs` | | 5 theorems |
| `TurnRouting` | orchestrator over session and episode manager, direct calls, restarts | |
| `TurnRoutingProofs` | | 6 theorems |
| `RewardScoring` | episode end to final score of one topic, with recovery | |
| `SessionQueue` | what an adapter owes the core per memory session | abstract specification |
| `HarnessBridge` | DSH bridge: turn records, queues, owners, closes, dispose | implements it (`OneAtATime`) |
| `BridgeAndCaptureProofs` | | 6 theorems about `HarnessBridge` and `CapturePass` |
| `ModelResources` | the gate, embedding queues, semaphore | |
| `ResourcesAndHubProofs` | | 4 theorems about `ModelResources` and `HubMembership` |
| `CapturePass` | lite and reflect passes over one topic | |
| `PolicyInduction` | L2: candidate pool, drafts, support and status | |
| `RewardAndPolicyProofs` | | 3 theorems about `RewardScoring` and `PolicyInduction` |
| `SkillEvolution` | skills, their trials, queue and lifecycle | |
| `SkillEvolutionProofs` | | 2 theorems |
| `WorldModels` | L3: clusters, drafts, cooldowns, replay | |
| `WorldModelsProofs` | | 1 theorem |
| `DecisionFeedback` | failure bursts, repairs, experiences of feedback | |
| `DecisionFeedbackProofs` | | 4 theorems |
| `HubMembership` | the hub and the runtimes of its clients | |
| `MC*` | instances: symmetry sets and structured constants; other values are in the `.cfg` files | |

Three of the proof modules extend two components each. So that their names stay
apart there, `RewardScoring`, `CapturePass` and `HubMembership` put their own
name before the usual ones (`RewardSpec`, `CaptureNext`, `HubTypeOK`).

### VectorCompensation and EmbeddingRetryQueue

A *job* is a slot `(target_kind, target_id, vector_field)`, its texts are
versions 1, 2, .... `row[j]` is the table row, `claims[w][j]` the copy a worker
took away before awaiting the embedder. `exists`, `version` and `vec` are the
target tables.

* Times are relative: `due` and `lease` count down with `Tick`. The code
  compares timestamps only with `now` and with each other for equality, and a
  worker's copy of the lease counts down with the row's, so equality of
  `lease_until` is equality of the two counters. Once both are 0 two different
  leases would look equal; by then the row has either been claimed anew (a
  positive lease) or is still the worker's, so nothing is confused.
* `Enqueued` is the `ON CONFLICT DO UPDATE`: it clears the claim columns
  whatever the status, which is what fact 1 of section 4 is about.
* A worker processes the jobs of a batch one after the other
  (`retry-worker.ts:49-51`); the model lets them settle in any order, which
  allows more. Each ends in one of
  `EmbedStored`, `EmbedTargetMissing`, `EmbedStale`, `EmbedRejected`. Success
  writes vector and row in one transaction, as the code does.
* `Crash(w)` loses the claims of a process and starts another; `Stop(w)` lets
  the batch in flight finish.

### TurnRouting

One action per handler up to its first `await`, one per `await` after it;
`call[c]` keeps what the handler read before. `ep[e]` is an episode's row and,
because the managers write through, its in-memory snapshot; `inMem` says
whether the manager holds one. `asked`, `recorded`, `purged` are history
variables.

| code | actions |
| --- | --- |
| `onTurnStart`/`prepareTurn` → `openEpisodeIfNeeded` up to the relation classifier | `StartTurn` (`RouteToOpen`, `RouteToLast`, `RouteToRecovered`, `RouteToFresh`) |
| ... after it | `DecideOpen`, `DecideRecovered`, `DecideClosed`, `DecisionConflicts` |
| `startEpisode` after the intent classifier | `StartEpisode`, `EpisodeOpened` |
| `onTurnEnd` before and after the lite capture | `EndTurn`, `FinishTurn` |
| viewer and adapter calls | `OpenEpisode`, `EpisodeOpened`, `CloseEpisode`, `CloseSession` |
| process end and `init()` | `Crash`, `Shutdown` (`Recovered`) |

The classifiers' answers, and whether a gap is within `mergeMaxGapMs`, are free
choices. `Serial` is what the DSH bridge's queue guarantees: one call of a
session at a time, a close after the turns before it, and an answer that names
the episode `prepareTurn` returned.

`Listed` are the `RowLimit` newest rows (50 in the code, of all sessions) among
which a turn start after a restart looks for a topic to go on with.

### RewardScoring

One topic. A score is abstracted to what it was computed from: how many
feedback rows it heard (`rTask`) and how many traces it covers
(`reward.count`), because that is all the recovery code compares. `snap` is
the episode manager's copy, whose `meta` is written over the row's at each
close and reopen. `window` is the subscriber's pending entry and the timers of
entries it replaced without clearing them; `runs` are runs between reading the
topic and writing the score; `scan` is the rescan (or start-up recovery) that
holds the topic; `marker` is `meta.rewardDirty`; `cooling` the back-off.
`MinExchanges` stands for all of `decideSkipReason`.

| code | actions |
| --- | --- |
| turn end, close, reopen, trace delete, hydrate | `EndTurn`, `Finalize`, `Reopen`, `DeleteTrace`, `Hydrate` |
| reflect pass | `ReflectDone`, `ReflectFail` |
| window timer, replaced timer | `Expire`, `ExpireOrphan` |
| `submitFeedback` | `GiveFeedback` |
| `runner.run` before and after the model call | `StartRun`, `FinishRun` (either write may fail) |
| ten-minute rescan | `List`, `DropMarker`, `Launch`, `Drain`, `Drained`, `Account`, `CoolDown` |
| process loss and `init()` | `Restart`, `Drain`, `Drained`, `Fallback` |

### SessionQueue and HarnessBridge

`SessionQueue` is the adapter's side of the contract with the core: ended turns
of a memory session are worked on one at a time, in order, and the session is
closed only when none is being worked on or waits. It is what `TurnRouting`
assumes as `Serial`; a `prepareTurn` that failed and is followed by a lazy
episode is a direct open there (`MaxDirect`), which the serial run excludes.

In `HarnessBridge` a *session* is a DSH session object, an *id* its persistent
id; a restored session is a new object with the old id, so two objects share a
queue and a memory session. The orchestrator keeps the session id it is given
(`orchestrator.ts:613`), hence memory sessions are named by the id. `live` is
the set of memory sessions the core holds open, `stage[i]` the `await` at which
the capture of id `i` stands, `closer[s]` the one of `closeSession(s)`.

| code | actions |
| --- | --- |
| `onSessionEvent` (`turn/start`, `turn/end`), `beforeStep` | `TurnStart`, `TurnEnd`, `PreStep` |
| `captureTurn`: `prepareTurn` called, returned, failed | `Route`, `Routed`, `RoutingFailed` |
| ... `openSession`, `openEpisode`, `onTurnEnd` and `finally` | `OpenSession`, `OpenEpisode`, `EndCapture` |
| `closeSession`, after its flush, after `core.closeSession` | `SessionDisposed`, `Release`, `Released` (`Forget`) |
| `dispose` | `Dispose`, `CloseKnown`, `FindOrphans`, `CloseOrphan`, `OrphanClosed`, `Settle`, `Shutdown` |

* An `await` on something already settled does not split an action: after
  `flush` resolves, its continuation runs in the same microtask round, before a
  job queued by a later host event can start. So `Release` tests the queue and
  starts the close in one step.
* A capture that waits for a close (`waitForMemorySessionClose`) has done
  nothing yet and is not told from one that is still queued (`Route`).
* The session counts as open from the call of `prepareTurn`, because the call
  may open it and then fail.

### ModelResources

One action per stretch of a call between two awaits. `at[c]` says where call
`c` is; a *turn* is a turn start that looks one embedding up, an *embed* a
batch of the background embedder, which goes back to the gate between slices,
an *llm* a call of the rate-limited language model. `DrainEmbedding` is part of
every action that touches a queue or a permit, as in the code; its loop admits
at most one call each time, which `NothingWaitsInVain` (its exit condition)
confirms.

| code | actions |
| --- | --- |
| `enterForeground`, its release | `EnterForeground`, `LeaveForeground` |
| `waitForBackground` | `WaitForBackground` |
| `acquireEmbedding`, release, `drainEmbedding` | `AcquireEmbedding`, `FinishEmbedding` |
| `Semaphore.acquire`, `release` | `AcquireLlm`, `FinishLlm` |
| abort listeners, `shutdown` | `Abort`, `Shutdown` |

### CapturePass

One topic whose steps are numbered. `rows` is the table in insertion order,
`listed` the topic's `trace_ids_json`, `copy` the episode manager's snapshot,
`pass[p]` a lite or reflect pass with the steps and rows it read before it
awaited the model. A row remembers the step its reflection was written about,
so that a reflection on the wrong row is seen. `Serial` is the bridge's queue,
as in `TurnRouting`.

A step is what the matcher of capture goes by, its identity signature. After a
restart the turns of a topic are rebuilt from its rows, and the signature of a
rebuilt step may differ from the stored one while its time stamp (`Moment`) is
the same: the rebuilt step is the negative number of that moment. A topic
whose meta says that it was recovered (`marked`, and `copy.marked` for the
snapshot) is *replayed*: steps without a row are left out (`skips`), because
`maxRecoveryOrphanInserts` is 0 by default, and a replay that finds none of its
rows fails.

| code | actions |
| --- | --- |
| `onTurnEnd` up to the lite pass; the pass, and the close after a late answer | `EndTurn`; `StoreLite` (`Over`) |
| `episode.finalized` up to the first await of the reflect pass | `Finalize` (`Close`, `Started`) |
| orphans embedded and stored; reflections written | `StoreOrphans`, `Reflect` |
| an insert or a queued vector throws | `StoreFails` |
| a topic resumed from the maps, or from the database (open or closed) | `Reopen`, `Hydrate` (`Adopt`) |
| one found there beyond the recovery window | `HydrateExpired` |
| process loss with the marks of the startup scan; recovery | `Crash`, `Recover` |

The passes in flight pair rows with steps by place in an array from which
`persistRows` removes duplicates. With one failed write and a serial host the
pairs stay right, unless rebuilt steps are stored as well (`StepsKeptApart`);
with two failed writes (`MaxFaults = 2`), or when a turn may end while the pass
of another is in flight (`Serial = FALSE`), TLC finds a reflection that reaches
the row of another step. The property is therefore claimed, and proved, under
these two hypotheses, and the hazard says so. The order in which a pass takes
its steps and rows (`Sorted`) is the one of their time stamps in the code.

### PolicyInduction, SkillEvolution, WorldModels

Each keeps, beside its tables, the frame of every run: the copies of rows the
run took and will write back. An action is the code from one `await` (the draft
of the model, the embedder) to the next, so that edits by the viewer, rewards,
deletes and other runs fall in between.

| code | actions |
| --- | --- |
| L2 `scheduleReward`, `processEpisodeQueue` | `Reward`, `BeginAgain`, `AfterRun`, `Leave` |
| `runL2`: association and pool; a bucket; after the draft; support and status | `Begin`, `TakeBucket` (`TakeMatched`, `TakeNew`), `DraftAnswered` (`Persist`, `Promote`), `Finish` (`NewSupport`, `NextStatus`) |
| ... its writes that throw: caught beside the write, after an insert, or by `processReward` | `missed` of `Begin` and `Promote`, `unwritten` of `Finish`; `InsertUncounted`; `PromoteThrows`, `MergeThrows` (`GiveUp`) |
| viewer edits of policies, process loss | `SetStatus`, `Delete`, `Crash` |
| skills: `triggerRun`, `drain`, `scheduleRewardRuns`, `runOnce` | `PolicyUpdate`, `Reward`, `CooldownEnds`, `TimerFires`, `ManualRun`, `NextItem`, `Leave` |
| `runSkill` after the draft, after the embedder | `DraftAnswered`, `Save` (`Written`, `Rebuilt`, `Crystallized`) |
| trials and their verdicts, the hourly tick, the viewer | `Try`, `Reward` (`Tried`), `LifecycleTick`, `SetStatus`, `Delete`, `Crash` |
| L3 `scheduleRun`, `triggerRun`, `drainQueuedRuns` | `PolicyActivated`, `ManualRun`, `RunEnds`, `Replay`, `Leave` |
| `runL3`: a cluster skipped, asked for, answered | `NextCluster` (`Skip`, `Ask`), `DraftAnswered` (`Fail`, `Save`) |
| ... a write of the kv table throws, `runSafely` | `RunBreaks` |
| cooldown and back-off elapse, edits, process loss | `CooldownEnds`, `RetryComes`, `PolicyRetired`, `Edit`, `Crash` |

In `PolicyInduction` the history variables `unlinked` and `dropped` keep what a
write that threw has cost: a promoted trace without its link, and a policy whose
support was not counted. No guard reads them; the properties except just these
pairs and policies. In `WorldModels` a row may be written although the run then
fails over it: such a write begins no cooldown.

Gains and eta are the classes the code distinguishes by its thresholds. Two
traces resemble one policy when they carry the signature it was induced from;
clusters of L3 are any subset of a bucket of at least `MinPolicies` (which
subset the vectors choose is data). `INSERT OR REPLACE` is a delete and an
insert, with the cascades of the schema: `FreedFrom`, `LinksWithout` and
`TrialsWithout`.

### DecisionFeedback

A *tool* stands for a tool in a session, which is its key in the tracker and its
context hash; the context of a feedback is its text. A line of guidance is named
by the context whose repair wrote it. `seen` and the `heard` of a policy are
history variables, what the tracker and the merged evidence are compared with.
`run["queue"]` is the drain loop of the subscriber, `run[f]` a `submitFeedback`
from the end of its reward run on; what a repair finds in the evidence, whether
there is a draft, and which policy is similar to it are free choices.

| code | actions |
| --- | --- |
| `recordToolOutcome` → `recordFailure`, `recordSuccess`, `enqueue` | `Fail`, `Succeed` (`Enqueue`, `Pump`) |
| `runRepair` up to the draft, and after it | `Submit`, `Pump` (`Begun`); `DraftAnswered` (`Attached`) |
| the job after its repair, the loop of `drain`, the `finally` of `pump` | `Clear`, `NextJob`, `Leave` (`HandOver`) |
| `runFeedbackExperience` after its awaits, `flush` | `Learn` (`Merged`, `Fresh`), `Return` |
| viewer edits of policies, clock, process loss | `EditGuidance`, `SetStatus`, `Delete`, `Tick`, `Restart` |

### HubMembership

`user` is the hub's table, `conn[c]` the single connection row of client `c`.
A *runtime* is the object `hubRuntime` holds, with the nickname of the
configuration it was made for; `restartHubRuntime` makes a new one while the
flows of the old one go on. `flow[r][f]` is the frame of `connect` (start),
`refreshStatus` or a poll: the row as it was read, the stage, and the answer
once the hub has given it. A token is named by its user while it is that user's
current one and is `Stale` once the hub has forgotten it, so two stale tokens
are not told apart: nothing depends on which of them one has. `stray` are
requests whose client has given up and which may still arrive.

| code | actions |
| --- | --- |
| `restartHubRuntime`, process start and end | `Begin`, `Crash` |
| `refreshStatus`, the poll timer | `Refresh`, `Poll` |
| hub: `join`, `registration-status`, `me` | `Handle`, `HandleStray` (`Join`, `Check`, `Me`) |
| the client's code after each answer | `Hear` (`HearStart`, `HearRefresh`, `HearPoll`) |
| timeout, error, late arrival of a request | `Lose` |
| administrator, expiry, a hub without its data | `Approve`, `Reject`, `RemoveUser`, `Expire`, `Reset` |
| `memories/share`, `memories/unshare` | `Share`, `EndShare` |

## 3. Runs

Runs check deadlock nowhere: these systems may always be left alone (no user,
no due row), and the bounds on events end every behaviour.

| run | asks | instance | result |
| --- | --- | --- | --- |
| `retry_queue` | claims, leases, attempts, and the promise of `VectorCompensation`; does every queued slot settle | 3 processes, 1 slot of 3 texts, 2 attempts, 2-tick lease, back-off and retry-after to 2 ticks, a crash, fair | holds, except for a row a re-enqueue orphaned and for processes that take rows from each other for ever |
| `routing_serial` | one open episode, the question's episode stays open and indexed, and is newer than every topic the user may go back to | 1 session, 2 callers, turn cap 3, 3 episodes, 3 restarts, serial adapter | holds |
| `routing_concurrent` | a retried turn is recorded once | 2 overlapping callers, 2 keys, aged rows, a direct call, no adapter queue | holds |
| `bridge_serial` | captures one at a time, in order and inside an open session; everything returns; nothing is left at shutdown | 2 objects of one id, 2 turns each, every interleaving of captures, failures, closes and one disposal, fair | holds |
| `reward_settles` | a closed topic ends with a current score or a skip; the scans stop | 2 turns, 2 reopens, 1 delete, 1 feedback, 2 faults, 1 restart, 2 runs and 2 passes in flight, fair | holds |
| `model_resources` | permits are conserved; nobody waits in vain; whoever queues is served | 3 turns, 2 embedding and 2 language-model callers, 1 permit each, burst 2, aborts, shutdown, fair | holds |
| `capture_passes` | what is announced is stored, steps are kept apart, a closed topic gets its reflections | 2 steps, 3 passes in flight, 1 reopen, 1 recovery, 1 failed write, 1 crash with rebuilt steps, fair | holds |
| `policy_induction` | promoted evidence is linked, an induced policy is counted, an archived one stays archived | 3 traces in 2 episodes, 2 signatures, 2 policies, 3 rewards, edits or crashes, 1 step with writes that throw | holds, except for the writes that threw and a crash |
| `skill_evolution` | one live skill, no forged credit, retired stays retired, a policy in its cooldown gets its run | 1 policy, 2 episodes, 2 skills, 4 events, fair | holds |
| `world_models` | failing drafts are bounded, one write per cooldown | 3 policies in 2 buckets of one tag, 2 failures, 1 model, 4 events, kv writes that throw among them | holds |
| `decision_feedback` | bursts are streaks; repairs are neither forgotten nor repeated; guidance stands, evidence adds up; feedback returns | 1 tool with 3 outcomes, threshold 2 in 3 steps, 1 feedback at a time, 2 policies, 2 feedbacks, edits or restarts, a tick, fair | holds |
| `hub_membership` | names are unique, nothing of a removed user is shown, client and hub come to agree | 1 client with 2 nicknames one after the other, 2 users, 2 exchanges at one time, 2 rare events beside approvals | holds |

Why these bounds. *Queue:* three processes let a lease pass on twice while the
first answer is still awaited, three texts make two of them stale, two attempts
tell retry from failure; a back-off may be shorter than the lease, and a
retry-after longer than a back-off. Slots share nothing but the limit of a
batch, so the run has one, and the theorems any number: two slots in batches of
two, without liveness, find nothing else. *Routing:* three episodes allow
"previous, current and the one a mistake opens"; a turn cap of 3 is reached by
question, answer and question, so caps split a topic; three restarts let a topic
be recovered, continued and recovered again, and a newer one after it; all three
rows are listed (`RowLimit = 3`) in the serial run, and one in the other; two
keys are the least for one replacing another. *Reward:* with `MinExchanges = 2`
a topic passes from thin to scorable and, after the delete, back; two runs
overlap; two reopens interleave with a restart; two faults fail both writes of a
run, or a pass and a write; `MaxAttempts = 2` is reached by two rescans that
leave the topic dirty. *Bridge:* two objects of one id are the least for an
owner that gives the session up under another, two turns each the least for a
capture that reopens a session during a close of its own object. All mutants are
found with these bounds. *Resources:* with three turns and a burst of 2, turns
alone could keep the embedder busy for ever; one permit makes every second call
wait. *Capture:* three passes allow a lite pass, the reflect pass and the one of
a reopening or recovery at once; two steps are the least for a row to be taken
for its neighbour's, and that does happen with them once a second write may
fail, or the host does not wait. Three steps (without liveness), or two
reopenings, find nothing else. *L2:* two traces of one signature in two episodes
are the least that two runs can both promote; a third of another signature makes
two buckets in one run. One step with writes that throw may miss any set of
links, so that a lost link and a promoted one stand side by side. *Skills:* two
skills are the least for a second live one; four events fit a reward, a manual
run, an edit and another reward. *L3:* one bucket with two policies has a
cluster and its parts, the other shares its cooldown; the limits do not depend
on which model a draft is written to, so one is enough. *Hub:* the two runtimes
of one machine share its row and act on the hub like two machines; two exchanges
overlap; two rare events (removal, expiry, loss, restart, lost hub, share) fit a
share and a removal. With both events used, approval of a waiting user is still
free. *Feedback:* three outcomes of a tool make two jobs, one of which comes
while the other runs or ends; a tick is the cooldown; the tool's repair, a
feedback's repair and its experience write the two policies side by side.

Bounds on events (`MaxText`, `MaxCrashes`, `MaxEpisodes`, `TurnBound`,
`MaxDirect`, `MaxRestarts`, `MaxFeedback`, `MaxReopens`, `MaxDeletes`,
`MaxFaults`, `MaxReflects`, `MaxTimers`, `MaxSteps`, `MaxRecoveries`,
`MaxEvents`, `MaxThrows`, `MaxTime`, `MaxPolicies`, `MaxSkills`, `MaxModels`,
`MaxUsers`, `MaxFlows`; `MaxTurns` of `RewardScoring` and of `HarnessBridge`;
the sets `Runs`, `Passes` and `Runtimes`) are in guards and have no counterpart
in the code; `MaxAttempts`, `BatchSize`, `LeaseTicks`, the back-off constants,
`TurnRouting`'s `MaxTurns`, `MinExchanges`, `MinEpisodes`, `MinSupport`,
`MinPolicies`, `MaxFailures`, `RowLimit`, `CandidateTrials`, `Capacity`,
`LlmLimit`, `MaxForegroundBurst`, `Threshold`, `Window` and `Cooldown` have one.
The proofs hold for all values of both kinds, except where a theorem states a
hypothesis (`StepsStayApart` on `MaxFaults`, three theorems of `TurnRouting` on
`MaxDirect` and on what is listed).

**Fairness.** *Queue:* the worker's interval timer keeps firing (`WF ClaimDue`),
an embed settles because each request has a timeout (`WF Finish`), time passes
(`WF Tick`). Nothing is assumed of callers, of success, or of crashes, nor that
an embed settles within its lease: two processes may then take a row from each
other for ever, each answer being stale when it comes, and
`SettlesUnlessOrphaned` excepts behaviours in which answers are awaited for lost
claims infinitely often. *Reward:* reflect passes and model calls return (both
have timeouts), window timers and the ten-minute interval fire, the back-off
elapses. Failures are not fair, and bounded by `MaxFaults`; user actions and
restarts are not fair. *Bridge:* queued jobs run, the core's calls return or
throw, and a disposal that was asked for goes on; nothing is assumed of the
host, which may never end a turn or close a session. `reward_settles` is about
topics that stay closed and keep a trace, which the property states itself.
*Resources:* provider calls end (every client has a timeout), callers that were
let through go on, a turn start returns; new turns may come for ever. Waiting at
the gate may last for ever then, and no property says otherwise. *Capture:*
passes go on when their model call returns. *Skills:* the timer fires, awaited
calls return, a cooldown elapses. *Feedback:* drafts come or time out, and the
drain loop goes on; tools, users and the clock are not fair. *Hub:* none.
`ViewConverges` is about clients whose viewer asks again and again, and this
premise contains all that is needed. Policy induction and world models are
checked for safety only.

## 4. What disagrees with the documentation, and other facts of the code

These were met while modelling, and the models behave so; the properties above
except each of them in so many words. No run is spent on them.

*Queue and routing*

1. `enqueue` over a row a worker holds clears the claim but keeps
   `in_progress`, and `claimDue` wants an `in_progress` row to have a lease: the
   row is orphaned and its slot is not embedded by the queue again.
2. A topic older than the recovery window is passed over, not closed: the next
   turn opens a second episode beside it, against invariant I1 of
   `core/pipeline/ALGORITHMS.md`. So is one further back than the 50 newest rows
   of all sessions (`core/pipeline/orchestrator.ts:951`).
3. A revision reopens a closed episode beyond `mergeMaxGapMs`, which the
   configuration type documents as a boundary for revisions too.

*Capture and reward*

4. Of two overlapping reward runs the last to return wins, so an implicit score
   can replace the one that heard the user's feedback.
5. A skip stamp hides a topic that has grown: extended, closed, and lost before
   its window ended, it is in no scan.
6. A lite pass and the reflect pass of a reopened topic may both store a step;
   the second row is in the table and not in the topic's list.
7. A topic that is resumed after a restart without the mark of a recovery has
   its turns rebuilt from its rows (`snapshotFromOpenEpisodeRow` gives a user turn
   the time of the row), so that their signatures may differ from the stored
   ones; its closing reflect pass then stores them a second time. The comment at
   `core/capture/capture.ts:472` speaks of duplicates for recovered topics. With
   a failed write as well, a reflection may land on the row of another step.
8. A replay leaves out the steps that have no row (`core/capture/capture.ts:457`),
   and its `capture.done` covers them; the mark is never taken away, so later
   passes over the topic are replays too. A replay that finds none of its rows
   fails with a conflict.

*L2, L3, skills*

9. Runs of different episodes may induce two policies from one bucket:
   `core/memory/l2/subscriber.ts:121-125` serialises the runs of an episode, which
   "prevents parallel induction over the same candidate buckets" only there; the
   pool is shared by all episodes.
10. Running an episode again counts its traces again in the support of their
    policies; the comment at `core/memory/l2/l2.ts:429` wants "only the *new*
    positive evidence".
11. The upserts of policies and skills are `INSERT OR REPLACE`
    (`core/storage/tx.ts:73`), a delete and an insert. A policy that is written
    loses its trace links and frees its candidates (`runL2` puts back those of the
    bucket at hand, and nobody the others); a skill that is rebuilt, or judged
    for one episode, loses its other pending trials
    (`migrations/005-skill-trials.sql:6`), although
    `tests/unit/skill/skill.integration.test.ts:314` "resolves pending skill
    trials from reward.updated"; and a skill of the same name is replaced.
    `core/session/persistence.ts:161` warns of the same trap for episodes.
12. A link that throws after the promotion is only warned about
    (`core/memory/l2/l2.ts:212`), and nothing tries it again. A throw after the
    insert of a policy is caught (`l2.ts:357`) and leaves it with support 0, which
    no run counts. An L3 model whose run fails after the write is there without a
    cooldown, and its cluster is tried again.
13. A reward that arrives in the microtask between the last look at the L2 queue
    and the end of the run stays pending until the next reward of its episode;
    the skill queue has the same gap.
14. An L2 event during a manual L3 run queues a replay that nobody starts when
    that run ends (`core/memory/l3/subscriber.ts:98-114`); it waits for the next
    event. The comment at
    line 59 speaks of "one replay after the current abstraction settles".
15. `prune()` of the candidate pool has no caller, nor have the skills' thumbs
    and reward drift; `core/memory/l3/merge.ts:8` speaks of retiring superseded
    world models, which is not done.

*Decision feedback*

16. Tool steps are counted per episode (`core/pipeline/memory-core.ts:2622`) and
    compared per tool and session (`core/feedback/signals.ts:79`): in a new
    episode the last success of the one before, with its higher step, hides the
    bursts of the first steps, and old failures outlive a success.
17. The header of `core/feedback/signals.ts` asks for "at most one success in the
    window"; the code wants none.
18. Two feedbacks with one text run beside the queue and both pass the cooldown.
19. A repair that is skipped, for its cooldown too, clears the failures of its
    tool, those included that came while it waited.
20. A merged experience is stamped with the time before the draft and the
    embedder were awaited (`core/experience/feedback-builder.ts:426`), so a skill
    built meanwhile counts as newer than guidance it has not seen.

*Hub*

21. A share is authenticated before its body is read and may land after its user
    was removed; it is then shown until it is withdrawn. Approving or rejecting
    a user from a stale list brings a removed one back, also when the name has
    been given away since.
22. `stop()` clears the timers, but a `connect` of the stopped runtime that ends
    later arms them again: the old nickname is polled for until the hub answers
    "active" for it or the process ends.
23. Every answer to an active user changes the token, so an answer that is lost
    or heard late leaves the client "connected" with a dead token until it asks
    again. Heartbeats that fail with 401 only log; tokens live a day, and nothing
    but a refresh or a restart renews them. A `start` that fails on the network
    arms no poll.
24. `runHubSync` swallows a failed unshare; `core/hub/README.md` speaks of
    bounded retries.

## 5. Proofs

TLAPS proves, for every value of the constants that the named assumptions
allow (sentinels outside their sets, bounds natural, at least one attempt,
tick and batch slot; the sets of rows finite where the code counts them), the
results below. Every inductive invariant was checked by TLC on the instance of
its component's run before it was proved.

* `EmbeddingRetryQueueProofs` (728 obligations)
  * `TypeCorrect`: `TypeOK`, which says beside the types (`Typed`) that the
    attempts of a row never exceed `MaxAttempts`. It is not inductive alone: the
    count is written by a worker that read it when it claimed.
  * `HeldClaimCorrect`, `AttemptsCorrect`: the inductive invariant is
    `Typed /\ HeldClaimIsCurrent /\ AttemptsAccounted`. `AttemptsAccounted`
    is not inductive alone: a worker writes the count it read when it claimed,
    so it needs `HeldClaimIsCurrent` to know that count is still the row's.
  * `LeaseCorrect`: the action property, from the same invariant.
  * `QueueKeepsPromise`: the refinement of `VectorCompensation` under
    `ask[j] = row[j].text` while active and `tries[j] = row[j].attempts`. The
    invariant adds `QueuedHasText` (an active row has a text, so a request maps
    to a request). Claims, ticks, crashes, stale answers and stops are stutters.
* `TurnRoutingProofs` (2008 obligations)
  * `TypeCorrect`.
  * `IndexesCorrect`: `IndexesFindTheirEpisode` needs `IndexInv`, which adds
    that the episode a waiting call is going to index is still held; otherwise
    a call could index after its `await` what went away during it.
  * `RetryCorrect`: `RetryRecordedOnce` needs `RetryInv`: a call still under
    way with an unpurged key is the one the session's entry names, and its
    key has not been recorded (`HeldOnce`); a recorded, unpurged key is still
    the session's entry, so no new call can take it (`RecordedHeld`).
  * `OneOpen`, `QuestionOpen`, `NewestOpen`: `OneOpenEpisode`,
    `QuestionStaysOpen` and `OpenTopicIsNewest`, for a serial adapter without
    direct calls (`Serial`, `MaxDirect = 0`), rows within the recovery window
    (`~MayExpire`), and as long as an open row is among those that are listed
    (`OpenListed`; see fact 2). With several sessions they need `NoneAdopted` as
    well: no call resumes a topic that is another session's. With one session
    there is none (`OneSession`), and the run lists every row (`RowLimit` is
    `MaxEpisodes`), so that its instance is covered. The invariant,
    `SerialInv`, says that an open row is its session's newest and unmarked
    (`OpenIsNewest`), that the maps are true of
    the table and a question's episode is in them (`IndexesTrue`), and, for each
    `await` a call can stand at, what it has read is still so (`CallTrue`).
    The last is the reason for the rest: what a call decides after its `await`
    rests on rows it read before. That a recovery finds the newest topic first
    needs that what is not listed is older (`ListedNewest`).

* `BridgeAndCaptureProofs` (3214 obligations)
  * `TypeCorrect`.
  * `CaptureSessionCorrect`, `ShutdownCorrect`: the inductive invariant is
    `TypeOK /\ BridgeInv`. That a capture's session is open needs that no close
    of it is under way (`CaptureUndisturbed`), which holds because a close
    starts only when the id is idle, and that the disposal's clean-up finds
    the queues empty (`QuietAtLast`). That nothing is left needs that an open
    session has an owner, or a capture that is about to make it one
    (`LiveIsOwned`), and that the clean-up's list has every owned session
    (`OwnedIsListed`), although the close that forgot its object may not.
  * `OneAtATimeCorrect`: the refinement of `SessionQueue` under
    `busy = current` and `closing` = ids a closer or the clean-up is closing.
  * `DoneStaysStored`: `DoneMeansStored`, for every host and any number of
    faults. A pass announces what it took before its awaits, so `StoredInv` says
    of each stage what of that is in the table by then (`PassStored`): a pass
    that scores has every step stored or left out, one that is about to store
    orphans all but those. Rows are only ever appended, hence it stays so. A
    rebuilt step has its original in the table (`Complete`, `HasOriginals`),
    because only rows are rebuilt. What a replay leaves out with a serial host
    and no failed write is a rebuilt step (`SkipsTold`): everything else that
    was said is stored, or will be by the one lite pass in flight
    (`HeardStored`).
  * `StepsStayApart`: `StepsKeptApart`, when `Serial` holds and `MaxFaults <= 1`.
    The invariant, `ApartInv`, says that a reflect pass knows the rows of its
    own steps (`RowsApart`); that at most one lite pass is in flight and it
    stores whatever the topic lacks (`TurnsEnd`); and that all passes that miss
    steps miss the same ones (`Missing`): rebuilt steps as long as no write has
    failed (`Clean`), others after the one fault (`Plain`), and with both, that
    whoever stores any stores a rebuilt one (`Mixed`), after which pairs are not
    claimed. The orphans of a pass are therefore stored by others either all or
    not at all (`AllOrNone`), which is why removing duplicates leaves no gap and
    pairing by place is right; with a second fault there is a middle, and with
    it the counterexample. That `Sorted` loses and repeats nothing
    (`SortedLists`) is proved by counting: an element's place is the number of
    elements not after it (`Ranks`).

* `ResourcesAndHubProofs` (2124 obligations). About `ModelResources`, from
  `ResourcesAssumption`: the callers of each kind are finite in number and apart,
  and the limits are positive (the code rounds them up to 1). About
  `HubMembership`, from `HubAssumption`: the runtimes are finite in number, none
  of them is the placeholder for no runtime, names are numbers, and the hub may
  have a user and an exchange at least.
  * `TypeCorrect`, `PermitsAreConserved`, `NoLostWakeUp`: the three invariants
    of the run are inductive only together, and are regrouped into one part for
    each of the mechanisms (`EmbeddingOK`, `LlmOK`, `GateOK`, `DownOK`), each
    with a frame lemma, so that an action is argued about only where it acts.
    The conservation of permits needs that a queue holds its waiters, each once
    (`QueuesAreTheWaiters`): were an aborted call still queued, a permit would be
    handed to it. `DrainEffect` shows why a loop that admits at most one call
    is enough: whenever it starts with a second permit free, no more than one
    call is queued. What appending, serving and removing do to a queue are
    lemmas on sequences (`HoldsAppended`, `HoldsServed`, `HoldsRemoved`).
  * `DirectoryStaysSound`: `DirectorySound`, through late, lost and repeated
    requests. In the inductive invariant (`HubInv`) the names of members are
    apart but for those excused (`NamesApart`); who has something shown, or is
    about to, is a member (`SharersAreMembers`); and a token in a client's row, a
    frame's copy of it, a request under way or a reply not yet heard is held for
    an active user (`Held`, `Heard`), because each answer of the hub changes what
    the next request carries. `Join` looks up the newest user of a name, so
    the proof needs that there is one (`NewestExists`).

* `DecisionFeedbackProofs` (1090 obligations), from `FeedbackAssumption`: tools
  and texts are apart, the limits are natural, the threshold and the window
  positive.
  * `RepairsCorrect`: `RepairsAddUp`, the types with it. A repair compares
    rows with the clock before its draft and writes after it, so the invariant
    adds `DraftIsDue`: while the queue's job awaits its draft, the rows of its
    tool are a cooldown older than the job's start, which is the time it will
    write. It is kept because only the queue repairs tools (`ContextsApart`):
    a feedback that writes meanwhile writes under its text. `NoJobStranded` is
    kept because a job is only ever appended while another is in flight, and
    the last stage hands over (`EnqueueKeeps`, `QueueGoesOn`). The types need
    that frames and rows are not from the future (`FrameTimes`).
  * `BurstCorrect`: `BurstIsAStreak`. What the tracker holds is compared with all
    it has seen since the tool was cleared (`Remembers`): the failures it holds
    were seen, and in one episode no success is later than the last one it
    remembers. Hence the failures that make a burst, all of them later than
    that one, have no success among them, whatever was pruned before.
  * `EvidenceCorrect`: `MergedSumsUp` is the reason, folding in one more polarity
    is the same as summing up all that was heard; that a success anchor was
    heard follows from it.
  * `GuidanceCorrect`: every step leaves a policy alone, deletes it, or makes it
    a sound row with all its guidance (`Moves`). That a line is one of `Lines`
    needs the queue's invariant.

* `RewardAndPolicyProofs` (1186 obligations), from `RewardAssumption` and
  `InductionAssumption`.
  * `RewardTypeCorrect`: `RewardTypeOK`. Its content is that nothing is counted
    below zero: reflect passes, timers of replaced windows and attempts, whichever
    timer or rescan comes first.
  * `PromotionsCorrect`: `PromotionsCounted`. The invariant adds `Sound`: a run
    that is not at work has no copies and no buckets, no bucket is empty, and a
    copy of a policy is taken with evidence for it. The last is why the end of
    a run counts: the support it writes is at least one. Writes may throw any
    number of times; each throw is shown to cost at most the links it did not
    write (`unlinked`) and the policies the run had touched or inserted and then
    does not count (`dropped`).
  * `ArchivedCorrect`: the action property, from the same invariant; each step is
    shown to leave an archived policy alone, except those that the property
    names.

* `SkillEvolutionProofs` (1012 obligations), from `SkillAssumption`.
  * `SkillsCorrect`: `SkillsAddUp`. A run writes back counters it read two
    `await`s before. `Sound` says they are covered by verdicts all the same,
    because verdicts only become more, and that the row was live and of the run's
    policy when it was read. For the one live skill the invariant
    needs that the queue's run is alone, and that its policy has no live skill
    but the one it has read (`Owns`), until the viewer or a manual run steps in
    (`QueueAlone`).
  * `RetiredCorrect`: the action property, from the same invariant.

* `WorldModelsProofs` (913 obligations), from `WorldModelAssumption`.
  * `LimitsCorrect`: `LimitsHold`. At most one run is under way (`Alone`), which
    is what `inflight` is for. An attempt is a failure that has been counted, a
    draft that is awaited, or one whose outcome was lost, with the process or to a
    kv write that threw (`Counted`); a
    cluster that a draft is awaited of was not in quarantine and is not now
    (`Allowed`), so it had an attempt left. The cooldowns a run read when it
    began can only have ended since, or be its own (`Cautious`): a tag that is
    free in its copy is free in the table, and nothing has been written in a
    cooldown that does not last (`Rested`), nor by a run that fails after its
    write.

All eight modules prove one step lemma per action and combine them under PTL.

Every invariant, action property and refinement that a run checks is thus
stated by a theorem. Only model-checked are the liveness properties
(`SettlesUnlessOrphaned`, `ScoreSettles`, `ComesToRest`, `EverythingReturns`,
`QueuedIsServed`, `ClosedIsReflected`, `WaitingPolicyRuns`, `FeedbackReturns`,
`ViewConverges`), which are out of the prover's reach.

## 6. What the models leave out

* Routing: lightweight memory mode, tool outcomes, retrieval and injection,
  idle-session pruning, and the reflect and reward work an episode's end
  triggers (which `RewardScoring` picks up). A late answer to a topic that a new turn has
  replaced is only in the runs without an adapter queue.
* `OneOpenEpisode` is claimed only for a session without direct open calls and
  with a serial adapter. Two sessions that adopt one paused topic are not in a
  passing run of it: either may then end it under the other (a listed hazard).
* Reward: the numbers (human axes, backprop), values of single traces, the
  scan's page of 500 rows. Coverage is compared by count in the code and so in
  the model; which traces they are is a listed hazard without a property.
* Bridge: recall (a recall asked for before a disposal may still reach the core
  after it), tool calls, LLM routes, what a turn says, an `openSession` that
  fails (SQLite), the start of core and viewer.
* Resources: `Retry-After` delays and streaming chunks.
* Capture: what is summarised and how it is scored, lightweight mode, several
  steps in one turn, the vectors (their queue is `EmbeddingRetryQueue`).
* L2, L3, skills: the numbers behind gain, eta and confidence, the texts, the
  repair attachments of the decision feedback, sharing; in L3 a cooldown of
  zero days, the default (then any number of writes may follow one another,
  and `OneWritePerCooldown` says nothing).
* Decision feedback: which traces are evidence, how text is classified and drafted,
  vectors; the reward run before a repair is in `RewardScoring`; a second episode,
  because `BurstIsAStreak` is about one (fact 16).
* Hub: skills, which are shared like memories, search, the legacy `userToken`
  of the configuration, a wrong or missing team token, a change of the hub's
  address, the administrator's row, heartbeats; two devices with one nickname
  are one member by design (the tests say so), hence `OnItsOwn`.
* Writes that throw are modelled where a run goes on after them or leaves half
  of its work: `CapturePass`, `RewardScoring`, `PolicyInduction`, `WorldModels`,
  `DecisionFeedback`. Not modelled are throws in the queue's own statements, in
  the orchestrator's and the session managers' writes of episodes, in the
  skills' and the hub's rows, and a read that throws; nor are clock jumps.
* Not modelled at all, with the reasons in `PROJECT.json`: retrieval,
  embedding and language-model clients, migrations, HTTP server,
  telemetry, logger, configuration writer, classifiers, injection scheduler,
  bundle import and export, event bridge, and the viewer, which is almost a
  quarter of the source and holds no state the core rests on.
* External code (the embedding provider, the language models, SQLite) appears
  as nondeterministic answers.

## 7. Plan

Done: all eleven components of section 2, each with proofs of all the safety
properties its runs check.

Left, in order of importance:

1. `DecisionFeedback` and `PolicyInduction` over one policy table: an L2 run that
   writes back the copy it took before a repair added its line.
2. The embedding client's helper process and cache.
3. `Migrator`: a crash between two migrations; bundle import as a sequence of
   writes one of which fails.
