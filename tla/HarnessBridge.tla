--------------------------- MODULE HarnessBridge ---------------------------
(***************************************************************************)
(* The DeepSeek harness adapter (bridge.ts): turn records kept per DSH     *)
(* session object, one write queue per session id, the session objects     *)
(* that own a memory session, and the closes of a session and of the       *)
(* plugin.  A restored session is a new object with the id of the old one. *)
(*                                                                         *)
(* The orchestrator keeps the session id it is given (orchestrator.ts:613),*)
(* so memory sessions are named by the DSH id.  What a turn says, recall   *)
(* and tool calls are left out.  An await that only waits for a microtask  *)
(* (nothing pending, nothing closing) does not split an action: the job or *)
(* event that could come in between cannot start before the continuation.  *)
(***************************************************************************)
EXTENDS Naturals, Sequences

CONSTANTS Sessions,  \* DSH session objects
          Ids, IdOf, \* their persistent ids
          MaxTurns,  \* bound: turns of one session object
          None

ASSUME IdsAssumption == IdOf \in [Sessions -> Ids] /\ None \notin Ids
ASSUME TurnsAssumption == MaxTurns \in Nat

Turns == Sessions \X (1..MaxTurns)
SessionOf(turn) == turn[1]
NumberOf(turn) == turn[2]

VARIABLES
  dsh,       \* dsh[s][n]: the host's turn n of session s
  turns,     \* turns[s]: numbers with a record in the bridge
  queue,     \* queue[i]: captures of id i that have not started
  stage,     \* stage[i]: where the capture of id i stands
  current,   \* current[i]: the set of its turn, empty when idle
  owners,    \* memorySessionOwners
  tracked,   \* sessions with an entry in memorySessionsByDsh
  known,     \* knownDshSessions
  closer,    \* closer[s]: where closeSession(s) stands
  live,      \* memory sessions the core holds open
  disposal,  \* where dispose() stands
  awaited,   \* the closes dispose() waits for
  orphans,   \* memory sessions dispose() has yet to clean up
  cleaning   \* the one it is closing

captures == <<queue, stage, current>>
closes   == <<closer, disposal, awaited, orphans, cleaning>>
vars     == <<dsh, turns, captures, owners, tracked, known, live, closes>>

Stages == {"idle", "routing", "unrouted", "opening", "answering"}

TypeOK ==
  /\ dsh \in [Sessions -> [1..MaxTurns -> {"unborn", "running", "over"}]]
  /\ turns \in [Sessions -> SUBSET (1..MaxTurns)]
  /\ queue \in [Ids -> Seq(Turns)]
  /\ stage \in [Ids -> Stages] /\ current \in [Ids -> SUBSET Turns]
  /\ owners \in [Ids -> SUBSET Sessions]
  /\ tracked \subseteq Sessions /\ known \subseteq Sessions
  /\ closer \in [Sessions -> {"none", "flushing", "closing"}]
  /\ live \subseteq Ids
  /\ disposal \in {"no", "flushing", "closing", "cleaning", "settled", "done"}
  /\ awaited \subseteq Sessions /\ orphans \subseteq Ids
  /\ cleaning \in Ids \cup {None}

Init ==
  /\ dsh = [s \in Sessions |-> [n \in 1..MaxTurns |-> "unborn"]]
  /\ turns = [s \in Sessions |-> {}]
  /\ queue = [i \in Ids |-> <<>>]
  /\ stage = [i \in Ids |-> "idle"] /\ current = [i \in Ids |-> {}]
  /\ owners = [i \in Ids |-> {}]
  /\ tracked = {} /\ known = {}
  /\ closer = [s \in Sessions |-> "none"]
  /\ live = {}
  /\ disposal = "no" /\ awaited = {} /\ orphans = {} /\ cleaning = None

\* The plugin's listeners are removed before dispose() is called.
Registered == disposal = "no"

\* pendingBySession has no entry for the id.
Idle(i) == queue[i] = <<>> /\ stage[i] = "idle"

\* closingMemorySessions has an entry for the id.
ClosingMemory(i) == \E s \in Sessions : IdOf[s] = i /\ closer[s] = "closing"

-----------------------------------------------------------------------------
(* What the host reports.                                                  *)

\* A mutant: the record goes under the next number.
EnsureNextTurn(s, n) ==
  /\ known' = known \cup {s}
  /\ turns' = [turns EXCEPT ![s] = @ \cup {n + 1}]

EnsureTurn(s, n) ==
  /\ known' = known \cup {s}
  /\ turns' = [turns EXCEPT ![s] = @ \cup {n}]

TurnStart(s, n) ==
  /\ Registered
  /\ dsh[s][n] = "unborn" /\ \A m \in 1..(n - 1) : dsh[s][m] = "over"
  /\ dsh' = [dsh EXCEPT ![s][n] = "running"]
  /\ EnsureTurn(s, n)
  /\ UNCHANGED <<captures, owners, tracked, live, closes>>

\* beforeStep goes on when the host's own decision is made, which may be after
\* the turn was aborted, its session closed or the plugin's disposal begun.
PreStep(s, n) ==
  /\ dsh[s][n] # "unborn"
  /\ EnsureTurn(s, n)
  /\ UNCHANGED <<dsh, captures, owners, tracked, live, closes>>

\* A turn with a user's text is queued; one without is dropped, one whose
\* record a close removed is ignored.
TurnEnd(s, n) ==
  /\ Registered
  /\ dsh[s][n] = "running"
  /\ dsh' = [dsh EXCEPT ![s][n] = "over"]
  /\ known' = known \cup {s}
  /\ \/ /\ n \in turns[s]
        /\ queue' = [queue EXCEPT ![IdOf[s]] = Append(@, <<s, n>>)]
        /\ UNCHANGED turns
     \/ /\ turns' = [turns EXCEPT ![s] = @ \ {n}]
        /\ UNCHANGED queue
  /\ UNCHANGED <<stage, current, owners, tracked, live, closes>>

-----------------------------------------------------------------------------
(* captureTurn, the queue's only kind of job.                              *)

\* The job at the head of the queue starts: prepareTurn is called, which opens
\* the session in the core.  (Alone it is the mutant of Route.)
Begin(i) ==
  /\ stage[i] = "idle" /\ queue[i] # <<>>
  /\ stage' = [stage EXCEPT ![i] = "routing"]
  /\ current' = [current EXCEPT ![i] = {Head(queue[i])}]
  /\ queue' = [queue EXCEPT ![i] = Tail(@)]
  /\ live' = live \cup {i}
  /\ UNCHANGED <<dsh, turns, owners, tracked, known, closes>>

\* It waits for a close of the memory session first; until then it has done
\* nothing, and is not told from a job that is still queued.
Route(i) == ~ClosingMemory(i) /\ Begin(i)

\* trackMemorySession for the session object of the capture.
Track(i) ==
  \E turn \in current[i] :
    /\ owners' = [owners EXCEPT ![i] = @ \cup {SessionOf(turn)}]
    /\ tracked' = tracked \cup {SessionOf(turn)}

Routed(i) ==
  /\ stage[i] = "routing"
  /\ stage' = [stage EXCEPT ![i] = "answering"]
  /\ Track(i)
  /\ UNCHANGED <<dsh, turns, queue, current, known, live, closes>>

\* prepareTurn failed: the turn gets a lazy episode, in a session the object
\* has to own first.
RoutingFailed(i) ==
  /\ stage[i] = "routing"
  /\ \E turn \in current[i] :
       stage' = [stage EXCEPT ![i] =
                   IF SessionOf(turn) \in owners[i] THEN "opening" ELSE "unrouted"]
  /\ UNCHANGED <<dsh, turns, queue, current, owners, tracked, known, live, closes>>

OpenSession(i) ==
  /\ stage[i] = "unrouted" /\ ~ClosingMemory(i)
  /\ stage' = [stage EXCEPT ![i] = "opening"]
  /\ live' = live \cup {i}
  /\ Track(i)
  /\ UNCHANGED <<dsh, turns, queue, current, known, closes>>

OpenEpisode(i) ==
  /\ stage[i] = "opening"
  /\ stage' = [stage EXCEPT ![i] = "answering"]
  /\ UNCHANGED <<dsh, turns, queue, current, owners, tracked, known, live, closes>>

\* onTurnEnd returned; or it, or openEpisode, threw, which is only logged.
EndCapture(i) ==
  /\ stage[i] \in {"opening", "answering"}
  /\ stage' = [stage EXCEPT ![i] = "idle"]
  /\ current' = [current EXCEPT ![i] = {}]
  /\ turns' = [s \in Sessions |-> turns[s] \ {n \in 1..MaxTurns : <<s, n>> \in current[i]}]
  /\ UNCHANGED <<dsh, queue, owners, tracked, known, live, closes>>

-----------------------------------------------------------------------------
(* closeSession.                                                           *)

\* session/disposed, detached; a close under way is joined.
SessionDisposed(s) ==
  /\ Registered /\ closer[s] = "none"
  /\ closer' = [closer EXCEPT ![s] = "flushing"]
  /\ UNCHANGED <<dsh, turns, captures, owners, tracked, known, live,
                 disposal, awaited, orphans, cleaning>>

\* A mutant: the entry of the close itself is not removed.
ForgetKeepsClose(s) ==
  /\ UNCHANGED closer
  /\ turns' = [turns EXCEPT ![s] = {}]
  /\ known' = known \ {s}
  /\ tracked' = tracked \ {s}

\* The maps are cleared at the end, whatever came in meanwhile.
Forget(s) ==
  /\ closer' = [closer EXCEPT ![s] = "none"]
  /\ turns' = [turns EXCEPT ![s] = {}]
  /\ known' = known \ {s}
  /\ tracked' = tracked \ {s}

\* memorySessionIdsFor and ownership.
Releases(s) == (s \in tracked \/ turns[s] # {}) /\ s \in owners[IdOf[s]]

\* A mutant: the session is released without waiting for its captures.
ReleaseUnflushed(s) ==
  LET i == IdOf[s] IN
  /\ closer[s] = "flushing"
  /\ owners' = IF Releases(s) THEN [owners EXCEPT ![i] = @ \ {s}] ELSE owners
  /\ IF Releases(s) /\ owners[i] = {s}
       THEN /\ closer' = [closer EXCEPT ![s] = "closing"]
            /\ live' = live \ {i}
            /\ UNCHANGED <<turns, known, tracked>>
       ELSE Forget(s) /\ UNCHANGED live
  /\ UNCHANGED <<dsh, captures, disposal, awaited, orphans, cleaning>>

\* The flush is over.  The last owner closes the memory session; another one
\* only gives it up.
Release(s) ==
  LET i == IdOf[s] IN
  /\ closer[s] = "flushing" /\ Idle(i)
  /\ owners' = IF Releases(s) THEN [owners EXCEPT ![i] = @ \ {s}] ELSE owners
  /\ IF Releases(s) /\ owners[i] = {s}
       THEN /\ closer' = [closer EXCEPT ![s] = "closing"]
            /\ live' = live \ {i}
            /\ UNCHANGED <<turns, known, tracked>>
       ELSE Forget(s) /\ UNCHANGED live
  /\ UNCHANGED <<dsh, captures, disposal, awaited, orphans, cleaning>>

\* core.closeSession returned or threw.
Released(s) ==
  /\ closer[s] = "closing"
  /\ Forget(s)
  /\ UNCHANGED <<dsh, captures, owners, live, disposal, awaited, orphans, cleaning>>

-----------------------------------------------------------------------------
(* dispose.                                                                *)

Dispose ==
  /\ disposal = "no"
  /\ disposal' = "flushing"
  /\ UNCHANGED <<dsh, turns, captures, owners, tracked, known, live,
                 closer, awaited, orphans, cleaning>>

AllIdle == \A i \in Ids : Idle(i)

CloseKnown ==
  /\ disposal = "flushing" /\ AllIdle
  /\ disposal' = "closing"
  /\ awaited' = known
  /\ closer' = [s \in Sessions |->
                  IF s \in known /\ closer[s] = "none" THEN "flushing" ELSE closer[s]]
  /\ UNCHANGED <<dsh, turns, captures, owners, tracked, known, live, orphans, cleaning>>

\* A mutant: only sessions still known count as left over.
FindOrphansKnown ==
  /\ disposal = "closing" /\ AllIdle
  /\ \A s \in awaited : closer[s] = "none"
  /\ disposal' = "cleaning"
  /\ orphans' = {i \in Ids : owners[i] \cap known # {}}
  /\ UNCHANGED <<dsh, turns, captures, owners, tracked, known, live,
                 closer, awaited, cleaning>>

\* The closes have returned and the queues are empty once more: a memory
\* session that still has an owner is an orphan.
FindOrphans ==
  /\ disposal = "closing" /\ AllIdle
  /\ \A s \in awaited : closer[s] = "none"
  /\ disposal' = "cleaning"
  /\ orphans' = {i \in Ids : owners[i] # {}}
  /\ UNCHANGED <<dsh, turns, captures, owners, tracked, known, live,
                 closer, awaited, cleaning>>

CloseOrphan(i) ==
  /\ disposal = "cleaning" /\ cleaning = None
  /\ i \in orphans
  /\ cleaning' = i
  /\ live' = live \ {i}
  /\ UNCHANGED <<dsh, turns, captures, owners, tracked, known,
                 closer, disposal, awaited, orphans>>

OrphanClosed ==
  /\ cleaning # None
  /\ owners' = [owners EXCEPT ![cleaning] = {}]
  /\ orphans' = orphans \ {cleaning}
  /\ cleaning' = None
  /\ UNCHANGED <<dsh, turns, captures, tracked, known, live, closer, disposal, awaited>>

Settle ==
  /\ disposal = "cleaning" /\ orphans = {}
  /\ \A i \in Ids : ~ClosingMemory(i)
  /\ disposal' = "settled"
  /\ UNCHANGED <<dsh, turns, captures, owners, tracked, known, live,
                 closer, awaited, orphans, cleaning>>

\* core.shutdown.
Shutdown ==
  /\ disposal = "settled"
  /\ disposal' = "done"
  /\ live' = {}
  /\ UNCHANGED <<dsh, turns, captures, owners, tracked, known,
                 closer, awaited, orphans, cleaning>>

-----------------------------------------------------------------------------
CaptureMoves(i) == \/ Route(i) \/ Routed(i) \/ RoutingFailed(i)
                   \/ OpenSession(i) \/ OpenEpisode(i) \/ EndCapture(i)
DisposeMoves == \/ CloseKnown \/ FindOrphans \/ OrphanClosed \/ Settle \/ Shutdown
                \/ \E i \in Ids : CloseOrphan(i)

Next ==
  \/ \E s \in Sessions, n \in 1..MaxTurns : TurnStart(s, n) \/ PreStep(s, n) \/ TurnEnd(s, n)
  \/ \E i \in Ids : CaptureMoves(i)
  \/ \E s \in Sessions : SessionDisposed(s) \/ Release(s) \/ Released(s)
  \/ Dispose \/ DisposeMoves

Spec == Init /\ [][Next]_vars

\* Queued jobs run and the core's calls return; nothing is assumed of the host.
Fairness ==
  /\ \A i \in Ids : WF_vars(CaptureMoves(i))
  /\ \A s \in Sessions : WF_vars(Release(s)) /\ WF_vars(Released(s))
  /\ WF_vars(DisposeMoves)

FairSpec == Spec /\ Fairness

-----------------------------------------------------------------------------
\* The core works on one turn of a session at a time, in the order in which the
\* turns ended, and no session is closed while a turn of it is being captured
\* or waits to be, whichever session object it belongs to.
Closing == {i \in Ids : ClosingMemory(i) \/ cleaning = i}
Queue == INSTANCE SessionQueue WITH pending <- queue, busy <- current, closing <- Closing
OneAtATime == Queue!Spec

\* From the call of prepareTurn to the end of its capture a turn's memory session
\* is open in the core.
CaptureHasSession == \A i \in Ids : stage[i] # "idle" => i \in live

\* When the core is shut down every memory session has been closed and has no
\* owner left, also one reopened by a capture queued while it was being closed,
\* and no capture or close is left that would still call the core.
NothingLeftAtShutdown ==
  disposal \in {"settled", "done"} =>
    /\ live = {} /\ AllIdle
    /\ \A i \in Ids : owners[i] = {} /\ ~ClosingMemory(i)

\* Every queued turn is captured or given up, every close returns and a disposal
\* ends: nobody waits on everybody.
EverythingReturns ==
  /\ \A i \in Ids : ~Idle(i) ~> Idle(i)
  /\ \A s \in Sessions : closer[s] # "none" ~> closer[s] = "none"
  /\ disposal = "flushing" ~> disposal = "done"
=============================================================================
