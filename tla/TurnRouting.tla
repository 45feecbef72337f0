---------------------------- MODULE TurnRouting ----------------------------
(***************************************************************************)
(* How a user turn finds its episode: the orchestrator's turn lifecycle    *)
(* (orchestrator.ts: onTurnStart, openEpisodeIfNeeded, onTurnEnd) over the *)
(* session manager and the episode manager, with the viewer's and the      *)
(* adapters' direct session/episode calls, late answers, crashes, clean    *)
(* shutdowns and the startup scan of open episodes.                        *)
(*                                                                         *)
(* Every await of a handler splits it: a call is one action up to its first*)
(* await and one action per await after that; the values it read before    *)
(* the await are kept in its record.  Memories are written through, so one *)
(* record stands for an episode's row and its in-memory snapshot; inMem is *)
(* the set of episodes the episode manager holds.                          *)
(***************************************************************************)
EXTENDS Integers, FiniteSets

CONSTANTS Sessions, Callers, Keys,
          NoSession, NoKey,
          MergeMode,     \* followUpMode = "merge_follow_ups"
          MaxTurns,      \* maxTurnsPerEpisode
          RowLimit,      \* rows findRecoverableOpenTopic lists (50)
          Serial,        \* the adapter queues a session's turns and its close
          MayExpire,     \* rows may be older than the recovery window
          MaxEpisodes,   \* bound: episodes started
          TurnBound,     \* bound: turns recorded in one episode
          MaxDirect,     \* bound: direct calls to open or close an episode
          MaxRestarts    \* bound: processes lost or shut down

ASSUME SentinelAssumption == NoSession \notin Sessions /\ NoKey \notin Keys
ASSUME RoutingBoundsAssumption ==
  /\ {MaxTurns, RowLimit, MaxEpisodes, TurnBound, MaxDirect, MaxRestarts} \subseteq Nat
  /\ {MergeMode, Serial, MayExpire} \subseteq BOOLEAN

Episodes == 1..MaxEpisodes
NoEpisode == 0

VARIABLES ep,        \* ep[e]: the episode's row
          started,   \* episodes inserted so far
          inMem,     \* episodes in the episode manager's map
          live,      \* sessions in the session manager's map
          openOf,    \* openEpisodeBySession
          lastOf,    \* lastEpisodeBySession (the episode it names)
          keyOf,     \* turnStartBySession: key and the call holding the promise
          call,      \* call[c]: the call in flight of caller c
          asked,     \* Serial: the episode of the session's unanswered turn
          recorded,  \* history: times a keyed turn was recorded
          purged,    \* history: keys whose entry was replaced or purged
          direct, restarts

vars == <<ep, started, inMem, live, openOf, lastOf, keyOf, call, asked,
          recorded, purged, direct, restarts>>
keyVars == <<keyOf, recorded, purged>>
bounds == <<direct, restarts>>

Relations == {"revision", "follow_up", "unknown", "new_task"}

Episode == [status: {"none", "open", "closed"},
            home: Sessions \cup {NoSession},
            turns: Nat, traces: Nat,
            answered: BOOLEAN,  \* holds an assistant turn
            paused: BOOLEAN,    \* topicState "paused" or "interrupted"
            boundary: BOOLEAN]  \* boundaryRelation "new_task"
NoRow == [status |-> "none", home |-> NoSession, turns |-> 0, traces |-> 0,
          answered |-> FALSE, paused |-> FALSE, boundary |-> FALSE]

Stage == {"idle", "route_open", "route_recovered", "route_closed",
          "starting", "capturing", "opening"}
\* e: the episode read before the await; seen: its turns then; wasOpen: its
\* status then.
Call == [at: Stage, s: Sessions \cup {NoSession}, k: Keys \cup {NoKey},
         e: Episodes \cup {NoEpisode}, seen: Nat, wasOpen: BOOLEAN]
NoCall == [at |-> "idle", s |-> NoSession, k |-> NoKey, e |-> NoEpisode,
           seen |-> 0, wasOpen |-> FALSE]
NoEntry == [key |-> NoKey, by |-> NoKey]

TypeOK ==
  /\ ep \in [Episodes -> Episode]
  /\ started \in 0..MaxEpisodes
  /\ inMem \subseteq Episodes
  /\ live \subseteq Sessions \cup {NoSession}
  /\ openOf \in [Sessions -> Episodes \cup {NoEpisode}]
  /\ lastOf \in [Sessions -> Episodes \cup {NoEpisode}]
  /\ keyOf \in [Sessions -> [key: Keys \cup {NoKey}, by: Callers \cup {NoKey}]]
  /\ call \in [Callers -> Call]
  /\ asked \in [Sessions -> Episodes \cup {NoEpisode}]
  /\ recorded \in [Sessions -> [Keys -> Nat]]
  /\ purged \in [Sessions -> SUBSET Keys]
  /\ direct \in Nat
  /\ restarts \in Nat

Init ==
  /\ ep = [e \in Episodes |-> NoRow]
  /\ started = 0
  /\ inMem = {}
  /\ live = {}
  /\ openOf = [s \in Sessions |-> NoEpisode]
  /\ lastOf = [s \in Sessions |-> NoEpisode]
  /\ keyOf = [s \in Sessions |-> NoEntry]
  /\ call = [c \in Callers |-> NoCall]
  /\ asked = [s \in Sessions |-> NoEpisode]
  /\ recorded = [s \in Sessions |-> [k \in Keys |-> 0]]
  /\ purged = [s \in Sessions |-> {}]
  /\ direct = 0
  /\ restarts = 0

IsOpen(e) == ep[e].status = "open"
Room(e) == ep[e].turns < TurnBound

-----------------------------------------------------------------------------
(* What the episode manager does to a row. *)

Fresh(s) == [NoRow EXCEPT !.status = "open", !.home = s, !.turns = 1]
Said(r) == [r EXCEPT !.turns = @ + 1, !.paused = FALSE]
Answered(r) == [r EXCEPT !.turns = @ + 1, !.answered = TRUE, !.paused = FALSE]
Finalized(r) == [r EXCEPT !.status = "closed", !.paused = FALSE]
Reopened(r) == [r EXCEPT !.status = "open", !.paused = FALSE]
Paused(r) == [r EXCEPT !.paused = TRUE]
Completed(r) == r.answered \/ r.traces > 0

\* Mutant: no initial user text, and the answer not counted.
RebuiltShort(r) == [r EXCEPT !.turns = 2 * r.traces - 1,
                             !.answered = r.traces > 0]

\* snapshotFromOpenEpisodeRow: the turns are rebuilt from the traces, or from
\* the first user text when there is none.
Rebuilt(r) == [r EXCEPT !.turns = IF r.traces = 0 THEN 1 ELSE 2 * r.traces,
                        !.answered = r.traces > 0]
Hydrated(e) == IF e \in inMem THEN ep[e] ELSE Rebuilt(ep[e])

-----------------------------------------------------------------------------
(* Calls. *)

Free(s) == \A c \in Callers : call[c].s # s
\* What the adapter's queue guarantees, where there is one.
Queued(s) == Serial => Free(s)

Park(c, stage, e, seen, wasOpen) ==
  [call[c] EXCEPT !.at = stage, !.e = e, !.seen = seen, !.wasOpen = wasOpen]

\* The user's turn is in episode e: the promise resolves.
Accept(c, e) ==
  LET s == call[c].s k == call[c].k IN
  /\ call' = [call EXCEPT ![c] = NoCall]
  /\ asked' = IF Serial THEN [asked EXCEPT ![s] = e] ELSE asked
  /\ recorded' = IF k = NoKey THEN recorded
                 ELSE [recorded EXCEPT ![s][k] = @ + 1]
  /\ UNCHANGED <<keyOf, purged>>

\* Mutant: the catch forgets the session's key without looking whose it is.
RejectForgetsAny(c) ==
  /\ call' = [call EXCEPT ![c] = NoCall]
  /\ keyOf' = [keyOf EXCEPT ![call[c].s] = NoEntry]
  /\ UNCHANGED <<ep, started, inMem, live, openOf, lastOf, asked, recorded,
                 purged, bounds>>

\* A CONFLICT from addTurn or finalize rejects the promise; onTurnStart's
\* catch forgets the key if the entry still holds this promise.
Reject(c) ==
  LET s == call[c].s k == call[c].k IN
  /\ call' = [call EXCEPT ![c] = NoCall]
  /\ keyOf' = IF k # NoKey /\ keyOf[s] = [key |-> k, by |-> c]
              THEN [keyOf EXCEPT ![s] = NoEntry] ELSE keyOf
  /\ UNCHANGED <<ep, started, inMem, live, openOf, lastOf, asked, recorded,
                 purged, bounds>>

\* onTurnStart's entry under k (prepareTurn passes none); a call repeating the
\* key of the entry gets its promise and is not a step.
ClaimKey(c, s, k) ==
  /\ keyOf[s].key # k \/ k = NoKey
  /\ keyOf' = IF k = NoKey THEN keyOf
              ELSE [keyOf EXCEPT ![s] = [key |-> k, by |-> c]]
  /\ purged' = IF k = NoKey THEN purged
               ELSE [purged EXCEPT ![s] = @ \cup ({keyOf[s].key} \ {NoKey})]
  /\ UNCHANGED recorded

-----------------------------------------------------------------------------
(* openEpisodeIfNeeded, up to its first await. *)

\* The rows listed: the newest, of whatever session.
Listed == {e \in Episodes :
             /\ ep[e].status # "none"
             /\ Cardinality({d \in Episodes : d > e /\ ep[d].status # "none"}) < RowLimit}

\* findRecoverableOpenTopic's filter: rows of this session, or a paused topic
\* of another when no row listed is of this session.  That a closed row was
\* closed as "finalized" is true of every close here (only lightweight mode
\* and abandon, which nothing calls, close otherwise).
Candidates(s) == {e \in Listed : /\ ~ep[e].boundary
                                 /\ \/ ep[e].home = s
                                    \/ /\ ep[e].paused
                                       /\ \A d \in Listed : ep[d].home # s}

\* Mutant: the list is ordered the other way round.
RecoverableOldest(s) ==
  LET oldest(S) == {e \in S : \A d \in S : e <= d}
      aged == IF MayExpire THEN SUBSET Candidates(s) ELSE {{}}
  IN  {oldest(Candidates(s) \ old) : old \in aged}

\* Rows beyond the recovery window are passed over; the newest other is taken.
Recoverable(s) ==
  LET newest(S) == {e \in S : \A d \in S : d <= e}
      aged == IF MayExpire THEN SUBSET Candidates(s) ELSE {{}}
  IN  {newest(Candidates(s) \ old) : old \in aged}

Begin(c, s, k, stage, e, seen, wasOpen) ==
  call' = [call EXCEPT ![c] = [at |-> stage, s |-> s, k |-> k, e |-> e,
                               seen |-> seen, wasOpen |-> wasOpen]]

KnowsOpen(s) == /\ openOf[s] # NoEpisode
                /\ openOf[s] \in inMem
                /\ IsOpen(openOf[s])

\* Case 1: the session's open episode is classified against.
RouteToOpen(c, s, k) ==
  /\ KnowsOpen(s)
  /\ Begin(c, s, k, "route_open", openOf[s], ep[openOf[s]].turns, TRUE)
  /\ live' = live \cup {s}
  /\ UNCHANGED <<ep, inMem, openOf>>

\* Case 2: the episode that ended last.
RouteToLast(c, s, k) ==
  /\ ~KnowsOpen(s)
  /\ lastOf[s] # NoEpisode
  /\ openOf' = [openOf EXCEPT ![s] = NoEpisode]
  /\ Begin(c, s, k, "route_closed", lastOf[s], 0, FALSE)
  /\ live' = live \cup {s}
  /\ UNCHANGED <<ep, inMem>>

\* Mutant: the row is classified against without being hydrated.
RouteToUnhydrated(c, s, k) ==
  /\ ~KnowsOpen(s)
  /\ lastOf[s] = NoEpisode
  /\ openOf' = [openOf EXCEPT ![s] = NoEpisode]
  /\ \E found \in Recoverable(s) : \E e \in found :
       /\ live' = live \cup {s, ep[e].home}
       /\ Begin(c, s, k, "route_recovered", e, Hydrated(e).turns, IsOpen(e))
  /\ UNCHANGED <<ep, inMem>>

\* A topic found in the database, hydrated and classified against, or too old
\* for the hard window by its last turn (only a closed row can be).
RouteToRecovered(c, s, k) ==
  /\ ~KnowsOpen(s)
  /\ lastOf[s] = NoEpisode
  /\ openOf' = [openOf EXCEPT ![s] = NoEpisode]
  /\ \E found \in Recoverable(s) : \E e \in found :
       /\ ep' = [ep EXCEPT ![e] = Hydrated(e)]
       /\ inMem' = inMem \cup {e}
       /\ live' = live \cup {s, ep[e].home}
       /\ \/ Begin(c, s, k, "route_recovered", e, Hydrated(e).turns, IsOpen(e))
          \/ MayExpire /\ ~IsOpen(e)
             /\ Begin(c, s, k, "starting", NoEpisode, 0, FALSE)

\* Case 3: nothing to continue.
RouteToFresh(c, s, k) ==
  /\ ~KnowsOpen(s)
  /\ lastOf[s] = NoEpisode
  /\ openOf' = [openOf EXCEPT ![s] = NoEpisode]
  /\ {} \in Recoverable(s)
  /\ Begin(c, s, k, "starting", NoEpisode, 0, FALSE)
  /\ live' = live \cup {s}
  /\ UNCHANGED <<ep, inMem>>

StartTurn(c, s, k) ==
  /\ call[c] = NoCall /\ Queued(s)
  /\ ClaimKey(c, s, k)
  /\ asked' = [asked EXCEPT ![s] = NoEpisode]
  /\ \/ RouteToOpen(c, s, k)
     \/ RouteToLast(c, s, k)
     \/ RouteToRecovered(c, s, k)
     \/ RouteToFresh(c, s, k)
  /\ UNCHANGED <<started, lastOf, bounds>>

-----------------------------------------------------------------------------
(* openEpisodeIfNeeded, after the relation classifier answered (or timed   *)
(* out as new_task).                                                        *)

\* keepAppending, for the open and the recovered episode.
Continues(relation, inWindow) ==
  MergeMode /\ inWindow /\ relation # "new_task"

\* shouldReopen, for the closed one: a revision whatever the gap.
Reopens(relation, inWindow) ==
  \/ relation = "revision"
  \/ MergeMode /\ inWindow /\ relation \in {"follow_up", "unknown"}

\* The user turn goes to the open episode; the limit was read before the await.
AppendToOpen(c) ==
  LET e == call[c].e IN
  /\ call[c].seen < MaxTurns
  /\ IsOpen(e) /\ Room(e)
  /\ ep' = [ep EXCEPT ![e] = Said(@)]
  /\ Accept(c, e)
  /\ UNCHANGED <<inMem, live, openOf, lastOf>>

\* startEpisode is called: getSession holds the session live, and the intent
\* classifier is awaited.
CallStartEpisode(c) ==
  /\ call' = [call EXCEPT ![c] = Park(c, "starting", NoEpisode, 0, FALSE)]
  /\ live' = live \cup {call[c].s}

\* The open episode is finalized and a new one started; a new task leaves
\* nothing to reopen.
LeaveOpen(c, relation) ==
  LET e == call[c].e s == call[c].s IN
  /\ IsOpen(e)
  /\ ep' = [ep EXCEPT ![e] = Finalized(@)]
  /\ openOf' = [openOf EXCEPT ![s] = NoEpisode]
  /\ lastOf' = [lastOf EXCEPT ![s] =
                  IF relation = "new_task" THEN NoEpisode ELSE e]
  /\ CallStartEpisode(c)
  /\ UNCHANGED <<inMem, asked, keyVars>>

DecideOpen(c, relation, inWindow) ==
  /\ call[c].at = "route_open"
  /\ \/ Continues(relation, inWindow) /\ AppendToOpen(c)
     \/ /\ ~(Continues(relation, inWindow) /\ call[c].seen < MaxTurns)
        /\ LeaveOpen(c, relation)
  /\ UNCHANGED <<started, bounds>>

\* Mutant: the resumed topic is not made the session's open episode.
ResumeUnindexed(c) ==
  LET e == call[c].e s == call[c].s IN
  /\ call[c].seen < MaxTurns
  /\ call[c].wasOpen => IsOpen(e)
  /\ Room(e)
  /\ ep' = [ep EXCEPT ![e] = Said(Reopened(@))]
  /\ Accept(c, e)
  /\ UNCHANGED <<live, openOf, lastOf>>

\* The recovered topic takes the turn: reopened if it was closed when read.
ResumeRecovered(c) ==
  LET e == call[c].e s == call[c].s IN
  /\ call[c].seen < MaxTurns
  /\ call[c].wasOpen => IsOpen(e)
  /\ Room(e)
  /\ ep' = [ep EXCEPT ![e] = Said(Reopened(@))]
  /\ openOf' = [openOf EXCEPT ![s] = e]
  /\ lastOf' = [lastOf EXCEPT ![s] = NoEpisode]
  /\ Accept(c, e)
  /\ UNCHANGED live

\* Mutant: the recovered topic is left open.
LeaveRecoveredOpen(c, relation) ==
  /\ CallStartEpisode(c)
  /\ UNCHANGED <<ep, openOf, lastOf, asked, keyVars>>

\* It does not: finalized if it was open when read, with the boundary noted.
LeaveRecovered(c, relation) ==
  LET e == call[c].e IN
  /\ IF call[c].wasOpen
     THEN /\ IsOpen(e)
          /\ ep' = [ep EXCEPT ![e] =
                      [Finalized(@) EXCEPT !.boundary = relation = "new_task"]]
     ELSE ep' = ep
  /\ CallStartEpisode(c)
  /\ UNCHANGED <<openOf, lastOf, asked, keyVars>>

DecideRecovered(c, relation, inWindow) ==
  /\ call[c].at = "route_recovered"
  /\ \/ Continues(relation, inWindow) /\ ResumeRecovered(c)
     \/ /\ ~(Continues(relation, inWindow) /\ call[c].seen < MaxTurns)
        /\ LeaveRecovered(c, relation)
  /\ UNCHANGED <<started, inMem, bounds>>

ReopenLast(c) ==
  LET e == call[c].e s == call[c].s IN
  /\ ep[e].turns < MaxTurns /\ Room(e)
  /\ ep' = [ep EXCEPT ![e] = Said(Reopened(@))]
  /\ openOf' = [openOf EXCEPT ![s] = e]
  /\ lastOf' = [lastOf EXCEPT ![s] = NoEpisode]
  /\ Accept(c, e)
  /\ UNCHANGED live

LeaveLast(c, relation) ==
  LET s == call[c].s IN
  /\ IF relation = "new_task"
     THEN /\ openOf' = [openOf EXCEPT ![s] = NoEpisode]
          /\ lastOf' = [lastOf EXCEPT ![s] = NoEpisode]
     ELSE UNCHANGED <<openOf, lastOf>>
  /\ CallStartEpisode(c)
  /\ UNCHANGED <<ep, asked, keyVars>>

DecideClosed(c, relation, inWindow) ==
  /\ call[c].at = "route_closed"
  /\ \/ Reopens(relation, inWindow) /\ ReopenLast(c)
     \/ /\ ~(Reopens(relation, inWindow) /\ ep[call[c].e].turns < MaxTurns)
        /\ LeaveLast(c, relation)
  /\ UNCHANGED <<started, inMem, bounds>>

\* The episode was closed while the classifier ran: addTurn and finalize throw.
DecisionConflicts(c) ==
  /\ \/ call[c].at = "route_open"
     \/ call[c].at = "route_recovered" /\ call[c].wasOpen
  /\ ~IsOpen(call[c].e)
  /\ Reject(c)

Insert(s) ==
  /\ started < MaxEpisodes
  /\ started' = started + 1
  /\ ep' = [ep EXCEPT ![started + 1] = Fresh(s)]
  /\ inMem' = inMem \cup {started + 1}

\* startEpisode's intent classifier answered: the episode is inserted and
\* becomes the session's open one.
StartEpisode(c) ==
  /\ call[c].at = "starting"
  /\ Insert(call[c].s)
  /\ openOf' = [openOf EXCEPT ![call[c].s] = started + 1]
  /\ Accept(c, started + 1)
  /\ UNCHANGED <<live, lastOf, bounds>>

-----------------------------------------------------------------------------
(* onTurnEnd. *)

\* The episode an answer names, or the session's open one.
Target(s, named) == IF named \in inMem THEN named ELSE openOf[s]

\* Up to the capture: a closed episode is reopened for the late answer.
EndTurn(c, s, named) ==
  LET e == Target(s, named) IN
  /\ call[c] = NoCall /\ Queued(s)
  /\ Serial => named # NoEpisode /\ named = asked[s]
  /\ e \in inMem /\ Room(e)
  /\ ep' = [ep EXCEPT ![e] = Answered(Reopened(@))]
  /\ Begin(c, s, NoKey, "capturing", e, 0, IsOpen(e))
  /\ live' = live \cup {s}
  /\ asked' = [asked EXCEPT ![s] = NoEpisode]
  /\ UNCHANGED <<started, inMem, openOf, lastOf, keyVars, bounds>>

\* runLite stored a trace or failed; a late answer's episode is closed again,
\* which throws if somebody closed it meanwhile.
FinishTurn(c) ==
  LET e == call[c].e s == call[c].s IN
  /\ call[c].at = "capturing"
  /\ \E stored \in {0, 1} :
       LET r == [ep[e] EXCEPT !.traces = @ + stored]
       IN  \/ /\ call[c].wasOpen
              /\ ep' = [ep EXCEPT ![e] = r]
              /\ lastOf' = [lastOf EXCEPT ![s] = e]
           \/ /\ ~call[c].wasOpen /\ IsOpen(e)
              /\ ep' = [ep EXCEPT ![e] = Finalized(r)]
              /\ lastOf' = [lastOf EXCEPT ![s] = e]
           \/ /\ ~call[c].wasOpen /\ ~IsOpen(e)
              /\ ep' = [ep EXCEPT ![e] = r]
              /\ lastOf' = lastOf
  /\ call' = [call EXCEPT ![c] = NoCall]
  /\ UNCHANGED <<started, inMem, live, openOf, asked, keyVars, bounds>>

-----------------------------------------------------------------------------
(* Direct calls of the viewer and the adapters, through memory-core. *)

\* openEpisode: startEpisode without the orchestrator's maps.
OpenEpisode(c, s) ==
  /\ call[c] = NoCall /\ Queued(s)
  /\ direct < MaxDirect
  /\ direct' = direct + 1
  /\ live' = live \cup {s}
  /\ Begin(c, s, NoKey, "opening", NoEpisode, 0, FALSE)
  /\ UNCHANGED <<ep, started, inMem, openOf, lastOf, asked, keyVars, restarts>>

EpisodeOpened(c) ==
  /\ call[c].at = "opening"
  /\ Insert(call[c].s)
  /\ Accept(c, started + 1)
  /\ UNCHANGED <<live, openOf, lastOf, bounds>>

CloseEpisode(e) ==
  /\ e \in inMem /\ IsOpen(e)
  /\ direct < MaxDirect
  /\ direct' = direct + 1
  /\ ep' = [ep EXCEPT ![e] = Finalized(@)]
  /\ UNCHANGED <<started, inMem, live, openOf, lastOf, call, asked, keyVars,
                 restarts>>

\* closeSession: completed exchanges are finalized, others paused, and
\* session.closed purges the orchestrator's maps.
ClosedWith(s, r) ==
  IF r.status # "open" \/ r.home # s THEN r
  ELSE IF Completed(r) THEN Finalized(r) ELSE Paused(r)

CloseSession(s) ==
  /\ Queued(s)
  /\ live' = live \ {s}
  /\ ep' = [e \in Episodes |-> IF e \in inMem THEN ClosedWith(s, ep[e]) ELSE ep[e]]
  /\ openOf' = [openOf EXCEPT ![s] = NoEpisode]
  /\ lastOf' = [lastOf EXCEPT ![s] = NoEpisode]
  /\ keyOf' = [keyOf EXCEPT ![s] = NoEntry]
  /\ purged' = [purged EXCEPT ![s] = @ \cup ({keyOf[s].key} \ {NoKey})]
  /\ asked' = [asked EXCEPT ![s] = NoEpisode]
  /\ UNCHANGED <<started, inMem, call, recorded, bounds>>

-----------------------------------------------------------------------------
(* The process ends and another takes over the database. *)

\* init: an open row with traces, or beyond the recovery window, is closed;
\* another is left for the next turn to classify.
Recovered(r, expired) ==
  IF r.status = "open" /\ (r.traces > 0 \/ expired)
  THEN [r EXCEPT !.status = "closed"] ELSE r

Restart(rows) ==
  /\ restarts < MaxRestarts
  /\ restarts' = restarts + 1
  /\ \E expired \in IF MayExpire THEN SUBSET Episodes ELSE {{}} :
       ep' = [e \in Episodes |-> Recovered(rows[e], e \in expired)]
  /\ inMem' = {} /\ live' = {}
  /\ openOf' = [s \in Sessions |-> NoEpisode]
  /\ lastOf' = [s \in Sessions |-> NoEpisode]
  /\ call' = [c \in Callers |-> NoCall]
  /\ asked' = [s \in Sessions |-> NoEpisode]
  /\ keyOf' = [s \in Sessions |-> NoEntry]
  /\ purged' = [s \in Sessions |-> purged[s] \cup ({keyOf[s].key} \ {NoKey})]
  /\ UNCHANGED <<started, recorded, direct>>

Crash == Restart(ep)

\* sessionManager.shutdown: open episodes of live sessions are paused; of the
\* others, completed ones are finalized and empty ones deleted.
AtShutdown(r) ==
  IF r.status # "open" THEN r
  ELSE IF r.home \in live THEN Paused(r)
  ELSE IF Completed(r) THEN Finalized(r)
  ELSE NoRow

Shutdown == Restart([e \in Episodes |->
                       IF e \in inMem THEN AtShutdown(ep[e]) ELSE ep[e]])

-----------------------------------------------------------------------------
Next ==
  \/ \E c \in Callers, s \in Sessions :
       \/ \E k \in Keys \cup {NoKey} : StartTurn(c, s, k)
       \/ \E e \in Episodes \cup {NoEpisode} : EndTurn(c, s, e)
       \/ OpenEpisode(c, s)
  \/ \E c \in Callers :
       \/ \E relation \in Relations, inWindow \in BOOLEAN :
            \/ DecideOpen(c, relation, inWindow)
            \/ DecideRecovered(c, relation, inWindow)
            \/ DecideClosed(c, relation, inWindow)
       \/ DecisionConflicts(c)
       \/ StartEpisode(c) \/ EpisodeOpened(c)
       \/ FinishTurn(c)
  \/ \E e \in Episodes : CloseEpisode(e)
  \/ \E s \in Sessions : CloseSession(s)
  \/ Crash
  \/ Shutdown

Spec == Init /\ [][Next]_vars
-----------------------------------------------------------------------------
\* The orchestrator's indexes only name episodes the episode manager can find;
\* reopenEpisode and addTurn throw EPISODE_NOT_FOUND otherwise.
IndexesFindTheirEpisode ==
  \A s \in Sessions : {openOf[s], lastOf[s]} \ {NoEpisode} \subseteq inMem

\* A turn start retried under its key, while the first attempt runs, after it
\* failed or after it succeeded, puts the user's turn on record once; only a
\* key replaced by another or purged with its session can count again.
RetryRecordedOnce ==
  \A s \in Sessions : \A k \in Keys \ purged[s] : recorded[s][k] <= 1

OpenEpisodes(s) == {e \in Episodes : IsOpen(e) /\ ep[e].home = s}

\* Where the adapter queues a session's turns, a session never has two open
\* episodes ("one session, one open episode at a time, guaranteed"), whatever
\* is paused, recovered or lost in a crash.  A topic adopted by another session
\* keeps its home: two sessions that work on one are not covered.
OneOpenEpisode ==
  \A s \in Sessions : Cardinality(OpenEpisodes(s)) <= 1

\* From the start of a turn to its answer the episode that took it stays open
\* and stays the session's open episode (ALGORITHMS.md I1), so the answer is
\* never a late one.
QuestionStaysOpen ==
  \A s \in Sessions : asked[s] # NoEpisode =>
    openOf[s] = asked[s] /\ IsOpen(asked[s])

\* Under the same queue the conversation never goes back behind a newer topic:
\* the open episode, to which turns and answers go, was started after every
\* other one of its session, except recovered topics the user left for another
\* task (boundaryRelation), to which it never goes back.  A topic reopened from
\* the maps, found in the database after a crash in the middle of a switch, or
\* paused by a close and resumed, has nothing newer left to be confused with.
OpenTopicIsNewest ==
  \A e \in Episodes : IsOpen(e) =>
    /\ ~ep[e].boundary
    /\ \A d \in Episodes : d > e /\ ep[d].home = ep[e].home => ep[d].boundary
=============================================================================
