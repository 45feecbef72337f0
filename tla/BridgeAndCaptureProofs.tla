----------------------- MODULE BridgeAndCaptureProofs -----------------------
(***************************************************************************)
(* Proofs about HarnessBridge, for any session objects, any sharing of ids *)
(* among them and any number of turns, and about CapturePass, for any number *)
(* of passes, steps, reopens, recoveries and restarts: the types hold, no  *)
(* capture is without its session, nothing is left at shutdown; what is done *)
(* is stored or was left out by a replay, and steps are kept apart.        *)
(***************************************************************************)
EXTENDS HarnessBridge, CapturePass, SequenceTheorems, FiniteSetTheorems, TLAPS

\* A queue keeps its type when a turn joins it and when its head leaves.
LEMMA QueueTypes ==
  /\ \A q \in Seq(Turns), turn \in Turns : Append(q, turn) \in Seq(Turns)
  /\ \A q \in Seq(Turns) : q # <<>> => Head(q) \in Turns /\ Tail(q) \in Seq(Turns)
OBVIOUS

\* Forgetting a session keeps the types of what it clears.
LEMMA ForgetType ==
  ASSUME TypeOK, NEW s \in Sessions, Forget(s)
  PROVE  /\ closer' \in [Sessions -> {"none", "flushing", "closing"}]
         /\ turns' \in [Sessions -> SUBSET (1..MaxTurns)]
         /\ known' \subseteq Sessions /\ tracked' \subseteq Sessions
BY DEF TypeOK, Forget

\* The session object of a turn being captured is one.
LEMMA TrackType ==
  ASSUME TypeOK, NEW i \in Ids, Track(i)
  PROVE  /\ owners' \in [Ids -> SUBSET Sessions]
         /\ tracked' \subseteq Sessions
<1>1. PICK turn \in current[i] :
        /\ owners' = [owners EXCEPT ![i] = @ \cup {SessionOf(turn)}]
        /\ tracked' = tracked \cup {SessionOf(turn)}
  BY DEF Track
<1>2. turn \in Turns /\ SessionOf(turn) \in Sessions
  BY DEF TypeOK, Turns, SessionOf
<1> QED BY <1>1, <1>2 DEF TypeOK

\* A turn of the host moves on.
LEMMA HostTurnType ==
  ASSUME TypeOK, NEW s \in Sessions, NEW n \in 1..MaxTurns,
         NEW state \in {"unborn", "running", "over"}
  PROVE  [dsh EXCEPT ![s][n] = state]
           \in [Sessions -> [1..MaxTurns -> {"unborn", "running", "over"}]]
<1>1. dsh[s] \in [1..MaxTurns -> {"unborn", "running", "over"}]
  BY DEF TypeOK
<1>2. [dsh[s] EXCEPT ![n] = state] \in [1..MaxTurns -> {"unborn", "running", "over"}]
  BY <1>1
<1> QED BY <1>2 DEF TypeOK

LEMMA TypeStep == TypeOK /\ [Next]_vars => TypeOK'
<1> SUFFICES ASSUME TypeOK, [Next]_vars PROVE TypeOK'
  OBVIOUS
<1> USE IdsAssumption, TurnsAssumption
<1>1. ASSUME NEW s \in Sessions, NEW n \in 1..MaxTurns,
             TurnStart(s, n) \/ PreStep(s, n)
      PROVE  TypeOK'
  <2>1. EnsureTurn(s, n) BY <1>1 DEF TurnStart, PreStep
  <2>2. known' \subseteq Sessions /\ turns' \in [Sessions -> SUBSET (1..MaxTurns)]
    BY <2>1 DEF TypeOK, EnsureTurn
  <2>3. dsh' = dsh \/ dsh' = [dsh EXCEPT ![s][n] = "running"]
    BY <1>1 DEF TurnStart, PreStep
  <2>4. dsh' \in [Sessions -> [1..MaxTurns -> {"unborn", "running", "over"}]]
    <3>1. dsh \in [Sessions -> [1..MaxTurns -> {"unborn", "running", "over"}]]
      BY DEF TypeOK
    <3>2. [dsh EXCEPT ![s][n] = "running"]
            \in [Sessions -> [1..MaxTurns -> {"unborn", "running", "over"}]]
      BY HostTurnType
    <3> QED BY <2>3, <3>1, <3>2
  <2>5. UNCHANGED <<captures, owners, tracked, live, closes>>
    BY <1>1 DEF TurnStart, PreStep
  <2> QED BY <2>2, <2>4, <2>5 DEF TypeOK, captures, closes
<1>2. ASSUME NEW s \in Sessions, NEW n \in 1..MaxTurns, TurnEnd(s, n)
      PROVE  TypeOK'
  <2>1. <<s, n>> \in Turns /\ IdOf[s] \in Ids
    BY DEF Turns
  <2>2. dsh' \in [Sessions -> [1..MaxTurns -> {"unborn", "running", "over"}]]
    BY <1>2, HostTurnType DEF TurnEnd
  <2>3. turns' = turns \/ turns' = [turns EXCEPT ![s] = @ \ {n}]
    BY <1>2 DEF TurnEnd
  <2>4. turns' \in [Sessions -> SUBSET (1..MaxTurns)]
    BY <2>3 DEF TypeOK
  <2>5. queue' = queue \/ queue' = [queue EXCEPT ![IdOf[s]] = Append(@, <<s, n>>)]
    BY <1>2 DEF TurnEnd
  <2>6. queue' \in [Ids -> Seq(Turns)]
    <3>1. queue[IdOf[s]] \in Seq(Turns) BY <2>1 DEF TypeOK
    <3>2. Append(queue[IdOf[s]], <<s, n>>) \in Seq(Turns)
      BY <2>1, <3>1, QueueTypes
    <3> QED BY <2>5, <3>2 DEF TypeOK
  <2> QED BY <1>2, <2>2, <2>4, <2>6 DEF TypeOK, TurnEnd, closes
<1>3. ASSUME NEW i \in Ids, Route(i) PROVE TypeOK'
  <2>1. queue[i] \in Seq(Turns) /\ queue[i] # <<>>
    BY <1>3 DEF TypeOK, Route, Begin
  <2>2. Head(queue[i]) \in Turns /\ Tail(queue[i]) \in Seq(Turns)
    BY <2>1, QueueTypes
  <2> QED BY <1>3, <2>2 DEF TypeOK, Route, Begin, Stages, closes
<1>4. ASSUME NEW i \in Ids, Routed(i) \/ OpenSession(i) PROVE TypeOK'
  <2>1. Track(i) BY <1>4 DEF Routed, OpenSession
  <2> QED BY <1>4, <2>1, TrackType DEF TypeOK, Routed, OpenSession, Stages, closes
<1>5. ASSUME NEW i \in Ids, RoutingFailed(i) \/ OpenEpisode(i) PROVE TypeOK'
  BY <1>5 DEF TypeOK, RoutingFailed, OpenEpisode, Stages, closes
<1>6. ASSUME NEW i \in Ids, EndCapture(i) PROVE TypeOK'
  BY <1>6 DEF TypeOK, EndCapture, Stages, closes
<1>7. ASSUME NEW s \in Sessions, SessionDisposed(s) PROVE TypeOK'
  BY <1>7 DEF TypeOK, SessionDisposed, captures
<1>8. ASSUME NEW s \in Sessions, Release(s) PROVE TypeOK'
  <2>1. owners' \in [Ids -> SUBSET Sessions]
    BY <1>8 DEF TypeOK, Release
  <2>2. /\ closer' \in [Sessions -> {"none", "flushing", "closing"}]
        /\ turns' \in [Sessions -> SUBSET (1..MaxTurns)]
        /\ known' \subseteq Sessions /\ tracked' \subseteq Sessions
        /\ live' \subseteq Ids
    <3>1. CASE Releases(s) /\ owners[IdOf[s]] = {s}
      BY <1>8, <3>1 DEF TypeOK, Release
    <3>2. CASE ~(Releases(s) /\ owners[IdOf[s]] = {s})
      <4>1. Forget(s) /\ UNCHANGED live BY <1>8, <3>2 DEF Release
      <4> QED BY <4>1, ForgetType DEF TypeOK
    <3> QED BY <3>1, <3>2
  <2> QED BY <1>8, <2>1, <2>2 DEF TypeOK, Release, captures
<1>9. ASSUME NEW s \in Sessions, Released(s) PROVE TypeOK'
  <2>1. Forget(s) BY <1>9 DEF Released
  <2> QED BY <1>9, <2>1, ForgetType DEF TypeOK, Released, captures
<1>10. CASE Dispose \/ CloseKnown \/ FindOrphans
  BY <1>10 DEF TypeOK, Dispose, CloseKnown, FindOrphans, captures
<1>11. CASE OrphanClosed \/ Settle \/ Shutdown
  BY <1>11 DEF TypeOK, OrphanClosed, Settle, Shutdown, captures
<1>12. ASSUME NEW i \in Ids, CloseOrphan(i) PROVE TypeOK'
  BY <1>12 DEF TypeOK, CloseOrphan, captures
<1>13. CASE UNCHANGED vars
  BY <1>13 DEF TypeOK, vars, captures, closes
<1> QED BY <1>1, <1>2, <1>3, <1>4, <1>5, <1>6, <1>7, <1>8, <1>9, <1>10, <1>11,
           <1>12, <1>13 DEF Next, CaptureMoves, DisposeMoves

\* The bridge's maps, queues and closes keep their types (the whole of bridge.ts).
THEOREM TypeCorrect == Spec => []TypeOK
<1>1. Init => TypeOK
  BY IdsAssumption DEF Init, TypeOK, Stages
<1>2. TypeOK /\ [Next]_vars => TypeOK'
  BY TypeStep
<1> QED BY <1>1, <1>2, PTL DEF Spec
-----------------------------------------------------------------------------
(* The inductive invariant.  CaptureHasSession needs to know that nothing  *)
(* closes a session while a capture runs, hence that a disposal cleans up   *)
(* only when all is idle; NothingLeftAtShutdown needs to know that an open  *)
(* session always has an owner or a capture that will give it one, and that *)
(* the disposal has listed every session with an owner.                     *)

Capturing(i) == stage[i] # "idle"
Last == {"cleaning", "settled", "done"}

OneCurrent ==
  \A i \in Ids : IF Capturing(i) THEN \E turn \in Turns : current[i] = {turn}
                                 ELSE current[i] = {}
CaptureUndisturbed ==
  \A i \in Ids : Capturing(i) => i \in live /\ ~ClosingMemory(i)
LiveIsOwned ==
  \A i \in live : owners[i] # {} \/ stage[i] \in {"routing", "unrouted"}
QuietAtLast == disposal \in Last => AllIdle
CleaningIsListed ==
  cleaning # None => disposal = "cleaning" /\ cleaning \in orphans /\ cleaning \notin live
OwnedIsListed ==
  disposal = "cleaning" => \A i \in Ids : owners[i] # {} => i \in orphans
NoneOwnedAtLast ==
  disposal \in {"settled", "done"} =>
    \A i \in Ids : owners[i] = {} /\ ~ClosingMemory(i)

BridgeInv ==
  /\ OneCurrent /\ CaptureUndisturbed /\ LiveIsOwned /\ QuietAtLast
  /\ CleaningIsListed /\ OwnedIsListed /\ NoneOwnedAtLast

\* While an id is not idle no disposal cleans up.
LEMMA BusyNotLast ==
  ASSUME BridgeInv, NEW i \in Ids, ~Idle(i)
  PROVE  disposal \notin Last /\ cleaning = None
<1>1. disposal \notin Last
  BY DEF BridgeInv, QuietAtLast, AllIdle
<1> QED BY <1>1 DEF BridgeInv, CleaningIsListed, Last

\* No close begins where no closer starts closing.
LEMMA NoNewClose ==
  ASSUME \A s \in Sessions : closer'[s] = "closing" => closer[s] = "closing"
  PROVE  \A i : ClosingMemory(i)' => ClosingMemory(i)
BY DEF ClosingMemory

\* Steps of the host that queue nothing.
LEMMA InvKept ==
  ASSUME BridgeInv,
         UNCHANGED <<captures, owners, live, closer, disposal, orphans, cleaning>>
  PROVE  BridgeInv'
BY DEF BridgeInv, captures, OneCurrent, CaptureUndisturbed, LiveIsOwned, QuietAtLast,
       CleaningIsListed, OwnedIsListed, NoneOwnedAtLast, Capturing, AllIdle, Idle,
       ClosingMemory

\* A capture begins, moves on or ends; nothing cleans up meanwhile.
LEMMA InvCapture ==
  ASSUME TypeOK, BridgeInv, NEW i \in Ids, CaptureMoves(i)
  PROVE  BridgeInv'
<1>1. ~Idle(i)
  BY DEF CaptureMoves, Route, Begin, Routed, RoutingFailed, OpenSession, OpenEpisode,
         EndCapture, Idle
<1>2. disposal \notin Last /\ cleaning = None
  BY <1>1, BusyNotLast
<1>3. UNCHANGED closes
  BY DEF CaptureMoves, Route, Begin, Routed, RoutingFailed, OpenSession, OpenEpisode,
         EndCapture
<1>4. /\ QuietAtLast' /\ CleaningIsListed' /\ OwnedIsListed' /\ NoneOwnedAtLast'
  BY <1>2, <1>3 DEF closes, QuietAtLast, CleaningIsListed, OwnedIsListed, NoneOwnedAtLast,
                    Last
<1>5. \A j \in Ids : ClosingMemory(j)' <=> ClosingMemory(j)
  BY <1>3 DEF closes, ClosingMemory
<1> USE DEF TypeOK, BridgeInv, OneCurrent, CaptureUndisturbed, LiveIsOwned, Capturing
<1>6. CASE Route(i)
  <2>1. queue[i] \in Seq(Turns) /\ queue[i] # <<>> BY <1>6 DEF Route, Begin
  <2>2. Head(queue[i]) \in Turns BY <2>1, QueueTypes
  <2>3. OneCurrent' BY <1>6, <2>2 DEF Route, Begin
  <2>4. CaptureUndisturbed' BY <1>5, <1>6 DEF Route, Begin
  <2>5. LiveIsOwned' BY <1>6 DEF Route, Begin
  <2> QED BY <1>4, <2>3, <2>4, <2>5
<1>7. CASE Routed(i) \/ OpenSession(i)
  <2>1. PICK turn \in current[i] : owners' = [owners EXCEPT ![i] = @ \cup {SessionOf(turn)}]
    BY <1>7 DEF Routed, OpenSession, Track
  <2>2. owners'[i] # {} /\ \A j \in Ids \ {i} : owners'[j] = owners[j]
    BY <2>1
  <2>3. OneCurrent' BY <1>7 DEF Routed, OpenSession
  <2>4. CaptureUndisturbed' BY <1>5, <1>7 DEF Routed, OpenSession
  <2>5. LiveIsOwned' BY <1>7, <2>2 DEF Routed, OpenSession
  <2> QED BY <1>4, <2>3, <2>4, <2>5
<1>8. CASE RoutingFailed(i)
  <2>1. PICK turn \in current[i] :
          stage' = [stage EXCEPT ![i] =
                      IF SessionOf(turn) \in owners[i] THEN "opening" ELSE "unrouted"]
    BY <1>8 DEF RoutingFailed
  <2>2. OneCurrent' BY <1>8, <2>1 DEF RoutingFailed
  <2>3. CaptureUndisturbed' BY <1>5, <1>8, <2>1 DEF RoutingFailed
  <2>4. LiveIsOwned' BY <1>8, <2>1 DEF RoutingFailed
  <2> QED BY <1>4, <2>2, <2>3, <2>4
<1>9. CASE OpenEpisode(i) \/ EndCapture(i)
  <2>1. OneCurrent' BY <1>9 DEF OpenEpisode, EndCapture
  <2>2. CaptureUndisturbed' BY <1>5, <1>9 DEF OpenEpisode, EndCapture
  <2>3. LiveIsOwned' BY <1>9 DEF OpenEpisode, EndCapture
  <2> QED BY <1>4, <2>1, <2>2, <2>3
<1> QED BY <1>6, <1>7, <1>8, <1>9 DEF CaptureMoves

----------------------------------------------------------------

\* A session's close begins, goes through or ends.
LEMMA InvClose ==
  ASSUME TypeOK, BridgeInv, NEW s \in Sessions,
         SessionDisposed(s) \/ Release(s) \/ Released(s)
  PROVE  BridgeInv'
<1> USE IdsAssumption
<1>1. UNCHANGED <<captures, disposal, orphans, cleaning>>
  BY DEF SessionDisposed, Release, Released
<1>2. OneCurrent' /\ QuietAtLast'
  BY <1>1 DEF BridgeInv, captures, OneCurrent, QuietAtLast, Capturing, AllIdle, Idle
<1>3. \A i \in Ids : owners'[i] \subseteq owners[i]
  BY DEF SessionDisposed, Release, Released, TypeOK
<1>4. live' \subseteq live
  BY DEF SessionDisposed, Release, Released, Forget
<1>5. CleaningIsListed' /\ OwnedIsListed'
  BY <1>1, <1>3, <1>4 DEF BridgeInv, CleaningIsListed, OwnedIsListed
<1>6. CASE Release(s) /\ Releases(s) /\ owners[IdOf[s]] = {s}
  <2> DEFINE i == IdOf[s]
  <2>1. /\ i \in Ids /\ Idle(i)
        /\ owners' = [owners EXCEPT ![i] = @ \ {s}] /\ live' = live \ {i}
        /\ closer' = [closer EXCEPT ![s] = "closing"]
    BY <1>6 DEF Release
  <2>2. \A j \in Ids \ {i} : ClosingMemory(j)' => ClosingMemory(j)
    BY <2>1 DEF ClosingMemory, TypeOK
  <2>3. CaptureUndisturbed'
    BY <1>1, <2>1, <2>2 DEF BridgeInv, captures, CaptureUndisturbed, Capturing, Idle
  <2>4. LiveIsOwned'
    BY <1>1, <2>1 DEF BridgeInv, captures, LiveIsOwned, TypeOK
  <2>5. disposal \notin {"settled", "done"}
    BY <1>6, <2>1 DEF BridgeInv, NoneOwnedAtLast
  <2>6. NoneOwnedAtLast'
    BY <1>1, <2>5 DEF NoneOwnedAtLast
  <2> QED BY <1>2, <1>5, <2>3, <2>4, <2>6 DEF BridgeInv
<1>7. CASE ~(Release(s) /\ Releases(s) /\ owners[IdOf[s]] = {s})
  <2>1. live' = live /\ closer' \in {[closer EXCEPT ![s] = "none"],
                                    [closer EXCEPT ![s] = "flushing"]}
    BY <1>7 DEF SessionDisposed, Release, Released, Forget
  <2>2. \A j : ClosingMemory(j)' => ClosingMemory(j)
    <3>1. \A z \in Sessions : closer'[z] = "closing" => closer[z] = "closing"
      BY <2>1 DEF TypeOK
    <3> QED BY <3>1, NoNewClose
  <2>3. CaptureUndisturbed'
    BY <1>1, <2>1, <2>2 DEF BridgeInv, captures, CaptureUndisturbed, Capturing
  <2>4. \A i \in Ids : owners[i] # {} => owners'[i] # {}
    <3>1. CASE SessionDisposed(s) \/ Released(s)
      BY <3>1 DEF SessionDisposed, Released
    <3>2. CASE Release(s) /\ ~Releases(s)
      BY <3>2 DEF Release
    <3>3. CASE Release(s) /\ owners[IdOf[s]] # {s}
      <4>1. owners' \in {owners, [owners EXCEPT ![IdOf[s]] = @ \ {s}]}
        BY <3>3 DEF Release
      <4>2. owners[IdOf[s]] # {} => owners[IdOf[s]] \ {s} # {}
        BY <3>3
      <4> QED BY <4>1, <4>2 DEF TypeOK
    <3> QED BY <1>7, <3>1, <3>2, <3>3
  <2>5. LiveIsOwned'
    BY <1>1, <2>1, <2>4 DEF BridgeInv, captures, LiveIsOwned, TypeOK
  <2>6. NoneOwnedAtLast'
    BY <1>1, <1>3, <2>2 DEF BridgeInv, NoneOwnedAtLast
  <2> QED BY <1>2, <1>5, <2>3, <2>5, <2>6 DEF BridgeInv
<1> QED BY <1>6, <1>7

\* The disposal goes on: it cleans up only what is idle, and settles only when
\* nothing is owned.
LEMMA InvDispose ==
  ASSUME TypeOK, BridgeInv, Dispose \/ DisposeMoves
  PROVE  BridgeInv'
<1> USE IdsAssumption DEF BridgeInv, OneCurrent, CaptureUndisturbed, LiveIsOwned,
        QuietAtLast, CleaningIsListed, OwnedIsListed, NoneOwnedAtLast, Capturing,
        AllIdle, Idle, captures, Last
<1>1. CASE Dispose
  BY <1>1, NoNewClose DEF Dispose
<1>2. CASE CloseKnown
  <2>1. \A s \in Sessions : closer'[s] = "closing" => closer[s] = "closing"
    BY <1>2 DEF CloseKnown
  <2> QED BY <1>2, <2>1, NoNewClose DEF CloseKnown
<1>3. CASE FindOrphans
  BY <1>3, NoNewClose DEF FindOrphans
<1>4. ASSUME NEW i \in Ids, CloseOrphan(i) PROVE BridgeInv'
  <2>1. i # None BY DEF TypeOK
  <2> QED BY <1>4, <2>1, NoNewClose DEF CloseOrphan
<1>5. CASE OrphanClosed
  <2>1. cleaning \in Ids /\ disposal = "cleaning"
    BY <1>5 DEF OrphanClosed, TypeOK
  <2> QED BY <1>5, <2>1, NoNewClose DEF OrphanClosed, TypeOK
<1>6. CASE Settle
  BY <1>6, NoNewClose DEF Settle
<1>7. CASE Shutdown
  BY <1>7, NoNewClose DEF Shutdown
<1> QED BY <1>1, <1>2, <1>3, <1>4, <1>5, <1>6, <1>7 DEF DisposeMoves

LEMMA InvStep == TypeOK /\ BridgeInv /\ [Next]_vars => BridgeInv'
<1> SUFFICES ASSUME TypeOK, BridgeInv, [Next]_vars PROVE BridgeInv'
  OBVIOUS
<1>1. ASSUME NEW s \in Sessions, NEW n \in 1..MaxTurns,
             TurnStart(s, n) \/ PreStep(s, n)
      PROVE  BridgeInv'
  BY <1>1, InvKept DEF TurnStart, PreStep, closes
<1>2. ASSUME NEW s \in Sessions, NEW n \in 1..MaxTurns, TurnEnd(s, n)
      PROVE  BridgeInv'
  <2>1. UNCHANGED <<stage, current, owners, live, closes>> /\ disposal = "no"
    BY <1>2 DEF TurnEnd, Registered
  <2> QED BY <2>1 DEF BridgeInv, closes, OneCurrent, CaptureUndisturbed, LiveIsOwned,
        QuietAtLast, CleaningIsListed, OwnedIsListed, NoneOwnedAtLast, Capturing,
        ClosingMemory, Last
<1>3. ASSUME NEW i \in Ids, CaptureMoves(i) PROVE BridgeInv'
  BY <1>3, InvCapture
<1>4. ASSUME NEW s \in Sessions, SessionDisposed(s) \/ Release(s) \/ Released(s)
      PROVE  BridgeInv'
  BY <1>4, InvClose
<1>5. CASE Dispose \/ DisposeMoves
  BY <1>5, InvDispose
<1>6. CASE UNCHANGED vars
  BY <1>6, InvKept DEF vars, closes
<1> QED BY <1>1, <1>2, <1>3, <1>4, <1>5, <1>6 DEF Next

LEMMA InvInit == Init => BridgeInv
BY DEF Init, BridgeInv, OneCurrent, CaptureUndisturbed, LiveIsOwned, QuietAtLast,
       CleaningIsListed, OwnedIsListed, NoneOwnedAtLast, Capturing, Last

\* A turn is captured in a session the core holds open: nobody's close comes
\* between prepareTurn and onTurnEnd.
THEOREM CaptureSessionCorrect == Spec => []CaptureHasSession
<1>1. Init => TypeOK
  BY IdsAssumption DEF Init, TypeOK, Stages
<1>2. TypeOK /\ BridgeInv /\ [Next]_vars => TypeOK' /\ BridgeInv'
  BY TypeStep, InvStep
<1>3. BridgeInv => CaptureHasSession
  BY DEF BridgeInv, CaptureUndisturbed, CaptureHasSession, Capturing
<1> QED BY <1>1, <1>2, <1>3, InvInit, PTL DEF Spec

\* dispose() leaves no memory session open or owned and no queue to drain.
THEOREM ShutdownCorrect == Spec => []NothingLeftAtShutdown
<1>1. Init => TypeOK
  BY IdsAssumption DEF Init, TypeOK, Stages
<1>2. TypeOK /\ BridgeInv /\ [Next]_vars => TypeOK' /\ BridgeInv'
  BY TypeStep, InvStep
<1>3. TypeOK /\ BridgeInv => NothingLeftAtShutdown
  <2> SUFFICES ASSUME TypeOK, BridgeInv, disposal \in {"settled", "done"}
               PROVE  /\ live = {} /\ AllIdle
                      /\ \A i \in Ids : owners[i] = {} /\ ~ClosingMemory(i)
    BY DEF NothingLeftAtShutdown
  <2>1. AllIdle /\ \A i \in Ids : owners[i] = {} /\ ~ClosingMemory(i)
    BY DEF BridgeInv, QuietAtLast, NoneOwnedAtLast, Last
  <2>2. live = {}
    BY <2>1 DEF BridgeInv, LiveIsOwned, AllIdle, Idle, TypeOK
  <2> QED BY <2>1, <2>2
<1> QED BY <1>1, <1>2, <1>3, InvInit, PTL DEF Spec
-----------------------------------------------------------------------------
(* The bridge implements SessionQueue: a turn's end submits it, Route begins *)
(* and EndCapture ends its operation, the close of the last owner and the    *)
(* clean-up of an orphan close the session; everything else stutters.        *)

LEMMA ClosingSame ==
  ASSUME \A s \in Sessions : closer'[s] = "closing" <=> closer[s] = "closing",
         cleaning' = cleaning
  PROVE  Closing' = Closing
BY DEF Closing, ClosingMemory

LEMMA QueueInit == Init => Queue!Init
<1> SUFFICES ASSUME Init PROVE Queue!Init
  OBVIOUS
<1>1. \A i \in Ids : ~ClosingMemory(i) /\ cleaning # i
  BY IdsAssumption DEF Init, ClosingMemory
<1>2. Closing = {}
  BY <1>1 DEF Closing
<1> QED BY <1>2 DEF Init, Queue!Init

LEMMA QueueStep ==
  TypeOK /\ BridgeInv /\ [Next]_vars => [Queue!Next]_(Queue!vars)
<1> SUFFICES ASSUME TypeOK, BridgeInv, [Next]_vars
             PROVE  Queue!Next \/ UNCHANGED <<queue, current, Closing>>
  BY DEF Queue!vars
<1> USE IdsAssumption
<1> DEFINE Stutter == UNCHANGED <<queue, current, Closing>>
<1>1. ASSUME NEW s \in Sessions, NEW n \in 1..MaxTurns,
             TurnStart(s, n) \/ PreStep(s, n)
      PROVE  Stutter
  BY <1>1, ClosingSame DEF TurnStart, PreStep, captures, closes
<1>2. ASSUME NEW s \in Sessions, NEW n \in 1..MaxTurns, TurnEnd(s, n)
      PROVE  Queue!Next \/ Stutter
  <2>1. Closing' = Closing /\ current' = current
    BY <1>2, ClosingSame DEF TurnEnd, closes
  <2>2. IdOf[s] \in Ids /\ <<s, n>> \in Turns
    BY DEF Turns
  <2>3. CASE queue' = [queue EXCEPT ![IdOf[s]] = Append(@, <<s, n>>)]
    <3>1. Queue!Submit(IdOf[s], <<s, n>>)
      BY <2>1, <2>3 DEF Queue!Submit
    <3> QED BY <2>2, <3>1 DEF Queue!Next
  <2>4. CASE queue' = queue
    BY <2>1, <2>4
  <2> QED BY <1>2, <2>3, <2>4 DEF TurnEnd
<1>3. ASSUME NEW i \in Ids, Route(i) PROVE Queue!Next
  <2>1. Closing' = Closing
    BY <1>3, ClosingSame DEF Route, Begin, closes
  <2>2. current[i] = {} /\ ~ClosingMemory(i)
    BY <1>3 DEF Route, Begin, BridgeInv, OneCurrent, Capturing
  <2>3. cleaning # i
    <3>1. ~Idle(i) BY <1>3 DEF Route, Begin, Idle
    <3> QED BY <3>1, BusyNotLast
  <2>4. Queue!Begin(i)
    BY <1>3, <2>1, <2>2, <2>3 DEF Route, Begin, Queue!Begin, Closing
  <2> QED BY <2>4 DEF Queue!Next
<1>4. ASSUME NEW i \in Ids,
             Routed(i) \/ RoutingFailed(i) \/ OpenSession(i) \/ OpenEpisode(i)
      PROVE  Stutter
  BY <1>4, ClosingSame DEF Routed, RoutingFailed, OpenSession, OpenEpisode, closes
<1>5. ASSUME NEW i \in Ids, EndCapture(i) PROVE Queue!Next
  <2>1. Closing' = Closing
    BY <1>5, ClosingSame DEF EndCapture, closes
  <2>2. Queue!End(i)
    BY <1>5, <2>1 DEF EndCapture, Queue!End
  <2> QED BY <2>2 DEF Queue!Next
<1>6. ASSUME NEW s \in Sessions, SessionDisposed(s) PROVE Stutter
  BY <1>6, ClosingSame DEF SessionDisposed, TypeOK, captures
<1>7. ASSUME NEW s \in Sessions, Release(s) PROVE Queue!Next \/ Stutter
  <2> DEFINE i == IdOf[s]
  <2>1. i \in Ids /\ Idle(i) /\ UNCHANGED <<captures, cleaning>>
    BY <1>7 DEF Release
  <2>2. CASE closer' = [closer EXCEPT ![s] = "closing"]
    <3>1. Closing' = Closing \cup {i}
      BY <2>1, <2>2 DEF Closing, ClosingMemory, TypeOK
    <3>2. Queue!BeginClose(i)
      BY <2>1, <3>1 DEF captures, Queue!BeginClose, Idle, BridgeInv, OneCurrent, Capturing
    <3> QED BY <2>1, <3>2 DEF Queue!Next
  <2>3. CASE closer' = [closer EXCEPT ![s] = "none"]
    BY <1>7, <2>1, <2>3, ClosingSame DEF Release, TypeOK, captures
  <2> QED BY <1>7, <2>2, <2>3 DEF Release, Forget
<1>8. ASSUME NEW s \in Sessions, Released(s) PROVE Queue!Next \/ Stutter
  <2> DEFINE i == IdOf[s]
  <2>1. /\ i \in Ids /\ UNCHANGED <<captures, cleaning>>
        /\ closer' = [closer EXCEPT ![s] = "none"]
    BY <1>8 DEF Released, Forget
  <2>2. Closing' = Closing \/ Closing' = Closing \ {i}
    BY <1>8, <2>1 DEF Closing, ClosingMemory, TypeOK
  <2>3. CASE Closing' = Closing \ {i}
    BY <2>1, <2>3 DEF captures, Queue!EndClose, Queue!Next
  <2> QED BY <2>1, <2>2, <2>3 DEF captures
<1>9. CASE Dispose \/ CloseKnown \/ FindOrphans \/ Settle \/ Shutdown
  BY <1>9, ClosingSame DEF Dispose, CloseKnown, FindOrphans, Settle, Shutdown, captures,
                           TypeOK
<1>10. ASSUME NEW i \in Ids, CloseOrphan(i) PROVE Queue!Next
  <2>1. Closing' = Closing \cup {i}
    BY <1>10 DEF CloseOrphan, Closing, ClosingMemory
  <2>2. Idle(i)
    BY <1>10 DEF CloseOrphan, BridgeInv, QuietAtLast, Last, AllIdle
  <2>3. Queue!BeginClose(i)
    BY <1>10, <2>1, <2>2 DEF CloseOrphan, captures, Queue!BeginClose, Idle, BridgeInv,
                             OneCurrent, Capturing
  <2> QED BY <2>3 DEF Queue!Next
<1>11. CASE OrphanClosed
  <2> DEFINE i == cleaning
  <2>1. i \in Ids BY <1>11 DEF OrphanClosed, TypeOK
  <2>2. Closing' = Closing \/ Closing' = Closing \ {i}
    BY <1>11, <2>1 DEF OrphanClosed, Closing, ClosingMemory
  <2>3. CASE Closing' = Closing \ {i}
    BY <1>11, <2>1, <2>3 DEF OrphanClosed, captures, Queue!EndClose, Queue!Next
  <2> QED BY <1>11, <2>2, <2>3 DEF OrphanClosed, captures
<1>12. CASE UNCHANGED vars
  BY <1>12, ClosingSame DEF vars, captures, closes
<1> QED BY <1>1, <1>2, <1>3, <1>4, <1>5, <1>6, <1>7, <1>8, <1>9, <1>10, <1>11,
           <1>12 DEF Next, CaptureMoves, DisposeMoves

\* The per-session queue of bridge.ts, with restored objects, detached closes and
\* the plugin's disposal, keeps SessionQueue's promise.
THEOREM OneAtATimeCorrect == Spec => OneAtATime
<1>1. Init => TypeOK
  BY IdsAssumption DEF Init, TypeOK, Stages
<1>2. TypeOK /\ BridgeInv /\ [Next]_vars => TypeOK' /\ BridgeInv'
  BY TypeStep, InvStep
<1> QED BY <1>1, <1>2, InvInit, QueueInit, QueueStep, PTL
        DEF Spec, OneAtATime, Queue!Spec

-----------------------------------------------------------------------------
(* Passes.                                                                 *)

\* A pass that scores has every step stored but those it leaves out; one that is
\* about to store some has the others stored, and of rebuilt steps the originals.
PassStored(q, stored) ==
  /\ q.stage = "orphans" => q.steps \ q.todo \subseteq stored
  /\ q.stage = "scoring" => q.steps \ q.skips \subseteq stored
  /\ \A s \in q.todo : s < 0 => Moment(s) \in stored

\* A step may be left out when something is stored at its moment, or with an excuse.
Excused == Serial => spent.faults > 0
SkipsTold(q, stored, excused) == \A s \in q.skips : Moment(s) \in stored \/ excused

\* Whatever is rebuilt has its original stored.
Complete(stored) == \A s \in stored : Moment(s) \in stored
HasOriginals(S, stored) == \A s \in S : s < 0 => Moment(s) \in stored

Lite(p)    == pass[p].stage = "lite"
Orphans(p) == pass[p].stage = "orphans"
NoLite     == \A p \in Passes : ~Lite(p)

\* With a serial host turns end one at a time, and while no write has failed the
\* steps of the topic are stored, or the pass at the end of a turn will store them.
HeardStored ==
  Serial =>
    /\ \A p, q \in Passes : Lite(p) /\ Lite(q) => p = q
    /\ spent.faults = 0 =>
         \A s \in copy.steps : \/ Moment(s) \in StoredIn(rows)
                               \/ \E p \in Passes : Lite(p) /\ s \in pass[p].todo

StoredInv ==
  /\ CaptureTypeOK
  /\ Complete(StoredIn(rows)) /\ HasOriginals(copy.steps, StoredIn(rows))
  /\ \A s \in done : Moment(s) \in StoredIn(rows) \/ (s \in skipped /\ Excused)
  /\ \A p \in Passes : /\ PassStored(pass[p], StoredIn(rows))
                       /\ SkipsTold(pass[p], StoredIn(rows), Excused)
  /\ HeardStored

\* The steps an id list stands for, and whether it has each of them once.
StepsOf(ids, table) == {table[ids[i]].step : i \in DOMAIN ids}
Distinct(ids, table) ==
  \A i, j \in DOMAIN ids : table[ids[i]].step = table[ids[j]].step => i = j

\* A reflect pass knows the rows of its own steps.
Matched(q, table) ==
  q.stage \in {"orphans", "scoring"} =>
    \A s \in q.steps : q.match[s] # NoRow =>
      q.match[s] \in DOMAIN table /\ table[q.match[s]].step = s

\* All of what a pass is about to store is missing, or none of it.
AllOrNone(q, stored) == q.todo \subseteq stored \/ q.todo \cap stored = {}

RowsOwn(table) == \A i \in DOMAIN table : table[i].about \in {0, table[i].step}

\* Rows are paired for certain until a write has failed and rebuilt steps are stored.
Pairs == spent.faults = 0 \/ ~StoredRebuilt
RowsApart ==
  /\ Pairs => RowsOwn(rows) /\ \A p \in Passes : Matched(pass[p], rows)
  /\ Distinct(listed, rows) /\ Distinct(copy.ids, rows)

\* The process that is gone has no pass that stores.  Turns end one at a time:
\* the pass of the end stores whatever was said and is not stored, and nothing
\* of what the episode manager lists.
TurnsEnd ==
  /\ ~copy.live => \A p \in Passes : ~Lite(p) /\ ~Orphans(p)
  /\ \A p, q \in Passes : Lite(p) /\ Lite(q) => p = q
  /\ \A p \in Passes : Lite(p) =>
       /\ \A s \in copy.steps : s > 0 => s \in StoredIn(rows) \cup pass[p].todo
       /\ \A s \in pass[p].todo : s > 0
       /\ pass[p].todo \cap StepsOf(copy.ids, rows) = {}

\* The passes that miss steps miss the same.  As long as no write has failed they
\* miss rebuilt steps only.
Misses(p)  == Orphans(p) /\ ~(pass[p].todo \subseteq StoredIn(rows))
RebuiltOf(S) == {s \in S : s < 0}
Clean ==
  spent.faults = 0 =>
    \A p \in Passes : Orphans(p) =>
      /\ pass[p].todo # {} /\ \A s \in pass[p].todo : s < 0
      /\ AllOrNone(pass[p], StoredIn(rows))
      /\ Misses(p) => pass[p].todo = RebuiltOf(copy.steps) \ StoredIn(rows)

\* After a fault, and without rebuilt steps, those that miss some miss the same.
Plain ==
  spent.faults > 0 /\ ~StoredRebuilt /\ RebuiltOf(copy.steps) = {} =>
    /\ \A p \in Passes : Orphans(p) => AllOrNone(pass[p], StoredIn(rows))
    /\ \A p, q \in Passes : Misses(p) /\ Lite(q) => pass[p].todo \subseteq pass[q].todo
    /\ \A p \in Passes : Misses(p) /\ NoLite => pass[p].todo = copy.steps \ StoredIn(rows)
    /\ \A p, q \in Passes : Misses(p) /\ Misses(q) => pass[p].todo = pass[q].todo

\* After a fault, and with rebuilt steps, whoever stores any stores a rebuilt one.
Mixed ==
  spent.faults > 0 /\ ~StoredRebuilt /\ RebuiltOf(copy.steps) # {} =>
    \A p \in Passes : Orphans(p) => \E s \in pass[p].todo : s < 0

Missing == Clean /\ Plain /\ Mixed

ApartInv == StoredInv /\ RowsApart /\ TurnsEnd /\ Missing

-----------------------------------------------------------------------------
(* Sets in order.                                                          *)

\* The number of elements whose keys do not exceed that of x.
Rank(S, key, x) == Cardinality({y \in S : key[y] <= key[x]})

\* A set whose elements have different keys, and the ranks from 1 to their number.
Keyed(S, key) ==
  /\ IsFiniteSet(S) /\ key \in [S -> Int]
  /\ \A x, y \in S : key[x] = key[y] => x = y
Ranked(S, key) ==
  /\ Cardinality(S) \in Nat
  /\ \A x \in S : Rank(S, key, x) \in 1 .. Cardinality(S)
  /\ \A x, y \in S : Rank(S, key, x) = Rank(S, key, y) => x = y
  /\ \A n \in 1 .. Cardinality(S) : \E x \in S : Rank(S, key, x) = n

LEMMA Ranks ==
  ASSUME NEW S, NEW key, Keyed(S, key)
  PROVE  Ranked(S, key)
<1> DEFINE upTo(x) == {y \in S : key[y] <= key[x]}
           rank == [x \in S |-> Rank(S, key, x)]
           n == Cardinality(S)
<1> USE DEF Keyed
<1>1. n \in Nat
  BY FS_CardinalityType
<1>2. \A x \in S : Rank(S, key, x) = Cardinality(upTo(x))
  BY DEF Rank
<1>3. \A x \in S : IsFiniteSet(upTo(x)) /\ Cardinality(upTo(x)) \in 1 .. n
  <2> TAKE x \in S
  <2>1. IsFiniteSet(upTo(x)) /\ Cardinality(upTo(x)) <= n
    BY FS_Subset
  <2>2. upTo(x) # {}
    OBVIOUS
  <2>3. Cardinality(upTo(x)) \in Nat /\ Cardinality(upTo(x)) # 0
    BY <2>1, <2>2, FS_CardinalityType, FS_EmptySet
  <2> HIDE DEF upTo, n
  <2> QED BY <1>1, <2>1, <2>3
<1>4. \A x, y \in S : Cardinality(upTo(x)) = Cardinality(upTo(y)) => x = y
  <2>1. ASSUME NEW x \in S, NEW y \in S, key[x] < key[y]
        PROVE  Cardinality(upTo(x)) # Cardinality(upTo(y))
    <3>1. \A z \in S : key[z] <= key[x] => key[z] <= key[y]
      BY <2>1
    <3>2. key[y] <= key[y] /\ ~(key[y] <= key[x])
      BY <2>1
    <3>3. upTo(x) \in SUBSET upTo(y) /\ y \in upTo(y) /\ y \notin upTo(x)
      BY <3>1, <3>2
    <3> HIDE DEF upTo
    <3> QED BY <1>3, <3>3, FS_Subset
  <2>2. \A x, y \in S : key[x] < key[y] \/ key[y] < key[x] \/ key[x] = key[y]
    OBVIOUS
  <2> HIDE DEF upTo
  <2> QED BY <2>1, <2>2
<1>5. rank \in Injection(S, 1 .. n)
  <2> HIDE DEF upTo, n
  <2> QED BY <1>2, <1>3, <1>4 DEF Injection, IsInjective
<1>6. IsFiniteSet(1 .. n) /\ Cardinality(1 .. n) = n
  <2> HIDE DEF n
  <2> QED BY <1>1, FS_Interval
<1>7. rank \in Surjection(S, 1 .. n)
  <2> HIDE DEF rank, n
  <2> QED BY <1>5, <1>6, FS_Injection DEF n
<1>8. \A k \in 1 .. n : \E x \in S : Rank(S, key, x) = k
  <2>1. \A k \in 1 .. n : \E x \in S : rank[x] = k
    <3> HIDE DEF rank, n
    <3> QED BY <1>7 DEF Surjection
  <2> QED BY <2>1
<1> HIDE DEF upTo
<1> QED BY <1>1, <1>2, <1>3, <1>4, <1>8 DEF Ranked

\* A sequence that has every element of a set once.
Lists(order, S) ==
  /\ Cardinality(S) \in Nat
  /\ order \in [1 .. Cardinality(S) -> S]
  /\ \A i, j \in 1 .. Cardinality(S) : order[i] = order[j] => i = j
  /\ \A x \in S : \E i \in 1 .. Cardinality(S) : order[i] = x

\* Sorting a set loses nothing and repeats nothing.
LEMMA SortedLists ==
  ASSUME NEW S, NEW key, Keyed(S, key)
  PROVE  Lists(Sorted(S, key), S)
<1>1. /\ Cardinality(S) \in Nat
      /\ \A x \in S : Rank(S, key, x) \in 1 .. Cardinality(S)
      /\ \A x, y \in S : Rank(S, key, x) = Rank(S, key, y) => x = y
      /\ \A n \in 1 .. Cardinality(S) : \E x \in S : Rank(S, key, x) = n
  BY Ranks DEF Ranked
<1>2. Sorted(S, key) = [n \in 1 .. Cardinality(S) |-> CHOOSE x \in S : Rank(S, key, x) = n]
  BY DEF Sorted, Rank
<1>3. ASSUME NEW n \in 1 .. Cardinality(S)
      PROVE  Sorted(S, key)[n] \in S /\ Rank(S, key, Sorted(S, key)[n]) = n
  BY <1>1, <1>2
<1>4. Sorted(S, key) \in [1 .. Cardinality(S) -> S]
  <2>1. DOMAIN Sorted(S, key) = 1 .. Cardinality(S)
        /\ Sorted(S, key) = [n \in 1 .. Cardinality(S) |-> Sorted(S, key)[n]]
    BY <1>2
  <2> QED BY <1>3, <2>1
<1> QED BY <1>1, <1>3, <1>4 DEF Lists

\* A set of naturals below a bound has a least.
LEMMA LeastExists ==
  ASSUME NEW S, IsFiniteSet(S), S \subseteq Int, S # {}
  PROVE  \E x \in S : \A y \in S : x <= y
<1> DEFINE key == [x \in S |-> x]
<1>1. Keyed(S, key)
  BY DEF Keyed
<1>2. Cardinality(S) \in Nat /\ Cardinality(S) # 0
  BY FS_CardinalityType, FS_EmptySet
<1>3. 1 \in 1 .. Cardinality(S)
  BY <1>2
<1>4. PICK x \in S : Rank(S, key, x) = 1
  <2> HIDE DEF key
  <2>1. Ranked(S, key)
    BY <1>1, Ranks
  <2> QED BY <1>3, <2>1 DEF Ranked
<1> DEFINE upTo == {y \in S : y <= x}
<1>5. Cardinality(upTo) = 1
  BY <1>4 DEF Rank
<1>6. IsFiniteSet(upTo) /\ x \in upTo
  <2>1. x <= x
    OBVIOUS
  <2> QED BY <2>1, FS_Subset
<1>7. upTo = {x}
  <2> HIDE DEF upTo
  <2> QED BY <1>5, <1>6, FS_Singleton
<1>8. \A y \in S : y <= x => y = x
  BY <1>7
<1> QED BY <1>8

-----------------------------------------------------------------------------
(* Rows and their ids.                                                     *)

LEMMA StepsFinite == IsFiniteSet(Steps) /\ Steps \subseteq Int \ {0} /\ MaxSteps \in Nat
<1>1. MaxSteps \in Nat
  BY CaptureAssumption
<1>2. IsFiniteSet(1 .. MaxSteps) /\ IsFiniteSet(-MaxSteps .. -1)
  BY <1>1, FS_Interval
<1>3. IsFiniteSet(Steps)
  BY <1>2, FS_Union DEF Steps
<1>4. Steps \subseteq Int \ {0}
  BY <1>1 DEF Steps
<1> QED BY <1>1, <1>3, <1>4

LEMMA Signs ==
  ASSUME NEW s \in Steps
  PROVE  s \in Int /\ (s > 0 \/ s < 0) /\ ~(s > 0 /\ s < 0)
BY StepsFinite

\* A rebuilt step has the moment of its original, which is its own original.
LEMMA Moments ==
  ASSUME NEW s \in Steps
  PROVE  /\ Moment(s) \in Steps /\ Moment(s) > 0 /\ Moment(Moment(s)) = Moment(s)
         /\ s > 0 => Moment(s) = s
         /\ Rebuilt(s) \in Steps /\ Rebuilt(s) < 0 /\ Moment(Rebuilt(s)) = Moment(s)
<1>1. MaxSteps \in Nat
  BY StepsFinite
<1>2. CASE s \in 1 .. MaxSteps
  BY <1>1, <1>2 DEF Steps, Moment, Rebuilt
<1>3. CASE s \in -MaxSteps .. -1
  BY <1>1, <1>3 DEF Steps, Moment, Rebuilt
<1> QED BY <1>2, <1>3 DEF Steps

\* What is stored are steps.
LEMMA StoredSteps ==
  ASSUME NEW table \in Seq(Row)
  PROVE  StoredIn(table) \subseteq Steps
<1>1. \A i \in DOMAIN table : table[i] \in Row
  OBVIOUS
<1> QED BY <1>1 DEF StoredIn, Row

\* Where originals are stored, a moment has a row if its original has.
LEMMA MomentStored ==
  ASSUME NEW table \in Seq(Row), Complete(StoredIn(table)), NEW s \in Steps
  PROVE  Moment(s) \in MomentsIn(table) <=> Moment(s) \in StoredIn(table)
<1>1. StoredIn(table) \subseteq Steps
  BY StoredSteps
<1>2. Moment(s) \in StoredIn(table) => Moment(s) \in MomentsIn(table)
  <2>1. Moment(Moment(s)) = Moment(s)
    BY Moments
  <2> QED BY <2>1 DEF MomentsIn
<1>3. Moment(s) \in MomentsIn(table) => Moment(s) \in StoredIn(table)
  BY DEF MomentsIn, Complete
<1> QED BY <1>2, <1>3

\* The first row of a step, and none for a step without a row.
LEMMA RowOfStep ==
  ASSUME NEW s, NEW table \in Seq(Row)
  PROVE  /\ s \in StoredIn(table) =>
              RowOf(s, table) \in DOMAIN table /\ table[RowOf(s, table)].step = s
         /\ s \notin StoredIn(table) => RowOf(s, table) = NoRow
<1> DEFINE own == {i \in DOMAIN table : table[i].step = s}
<1>1. DOMAIN table = 1 .. Len(table) /\ Len(table) \in Nat
  OBVIOUS
<1>2. IsFiniteSet(own) /\ own \subseteq Int
  <2>1. own \in SUBSET (1 .. Len(table))
    BY <1>1
  <2>2. IsFiniteSet(1 .. Len(table))
    BY <1>1, FS_Interval
  <2>3. own \subseteq Int
    BY <1>1
  <2> HIDE DEF own
  <2> QED BY <2>1, <2>2, <2>3, FS_Subset
<1>3. own = {} <=> s \notin StoredIn(table)
  BY DEF StoredIn
<1>4. RowOf(s, table) = IF own = {} THEN NoRow ELSE CHOOSE i \in own : \A j \in own : i <= j
  BY DEF RowOf
<1>5. own # {} => RowOf(s, table) \in own
  <2> HIDE DEF own
  <2> QED BY <1>2, <1>4, LeastExists
<1> QED BY <1>3, <1>4, <1>5

\* The new rows of a set of steps are one for each step.
LEMMA NewRowsStored ==
  ASSUME NEW S \in SUBSET Steps
  PROVE  /\ Cardinality(S) \in Nat
         /\ NewRows(S) \in Seq(Row) /\ Len(NewRows(S)) = Cardinality(S)
         /\ StoredIn(NewRows(S)) = S
         /\ \A i \in 1 .. Cardinality(S) :
              NewRows(S)[i].about = 0 /\ NewRows(S)[i].step = InOrder(S)[i]
         /\ Lists(InOrder(S), S)
<1> DEFINE n == Cardinality(S)
<1>1. IsFiniteSet(S) /\ S \subseteq Int
  <2>1. IsFiniteSet(Steps) /\ Steps \subseteq Int
    BY StepsFinite
  <2> QED BY <2>1, FS_Subset
<1>2. PICK key : key = [s \in S |-> s] /\ Keyed(S, key)
  <2>1. Keyed(S, [s \in S |-> s])
    BY <1>1 DEF Keyed
  <2> QED BY <2>1
<1>3. InOrder(S) = Sorted(S, key)
  BY <1>2 DEF InOrder
<1>4. /\ n \in Nat /\ InOrder(S) \in [1 .. n -> S]
      /\ \A i, j \in 1 .. n : InOrder(S)[i] = InOrder(S)[j] => i = j
      /\ \A x \in S : \E i \in 1 .. n : InOrder(S)[i] = x
  <2>1. Lists(InOrder(S), S)
    BY <1>2, <1>3, SortedLists
  <2> QED BY <2>1 DEF Lists
<1>5. NewRows(S) = [i \in 1 .. n |-> [step |-> InOrder(S)[i], about |-> 0]]
  BY DEF NewRows
<1> HIDE DEF n
<1>6. \A i \in 1 .. n : InOrder(S)[i] \in Steps
  BY <1>4
<1>7. NewRows(S) \in [1 .. n -> Row]
  BY <1>5, <1>6, StepsFinite DEF Row
<1>8. NewRows(S) \in Seq(Row) /\ Len(NewRows(S)) = n /\ DOMAIN NewRows(S) = 1 .. n
  BY <1>4, <1>7, SeqDef
<1>9. \A i \in 1 .. n : NewRows(S)[i].about = 0 /\ NewRows(S)[i].step = InOrder(S)[i]
  BY <1>5
<1>10. StoredIn(NewRows(S)) = S
  BY <1>4, <1>8, <1>9 DEF StoredIn
<1> QED BY <1>4, <1>8, <1>9, <1>10 DEF n, Lists

\* The rows of one table are still there, with their steps, in another.
Kept(table, later) ==
  /\ later \in Seq(Row) /\ DOMAIN table \subseteq DOMAIN later
  /\ \A i \in DOMAIN table : later[i].step = table[i].step

LEMMA KeptStored ==
  ASSUME NEW table \in Seq(Row), NEW later, Kept(table, later)
  PROVE  /\ StoredIn(table) \subseteq StoredIn(later)
         /\ \A ids \in Seq(DOMAIN table) :
              /\ ids \in Seq(DOMAIN later)
              /\ StepsOf(ids, later) = StepsOf(ids, table)
              /\ Distinct(ids, later) <=> Distinct(ids, table)
         /\ \A q : Matched(q, table) => Matched(q, later)
<1>1. StoredIn(table) \subseteq StoredIn(later)
  BY DEF Kept, StoredIn
<1>2. ASSUME NEW ids \in Seq(DOMAIN table)
      PROVE  /\ ids \in Seq(DOMAIN later)
             /\ StepsOf(ids, later) = StepsOf(ids, table)
             /\ Distinct(ids, later) <=> Distinct(ids, table)
  <2>1. \A i \in DOMAIN ids : ids[i] \in DOMAIN table /\ later[ids[i]].step = table[ids[i]].step
    BY DEF Kept
  <2>2. ids \in Seq(DOMAIN later)
    BY DEF Kept
  <2> QED BY <2>1, <2>2 DEF StepsOf, Distinct
<1>3. \A q : Matched(q, table) => Matched(q, later)
  BY DEF Kept, Matched
<1> QED BY <1>1, <1>2, <1>3

\* Rows are appended.
LEMMA Appended ==
  ASSUME NEW table \in Seq(Row), NEW more \in Seq(Row)
  PROVE  /\ Kept(table, table \o more)
         /\ Len(table \o more) = Len(table) + Len(more)
         /\ StoredIn(table \o more) = StoredIn(table) \cup StoredIn(more)
         /\ \A i \in 1 .. Len(table) : (table \o more)[i] = table[i]
         /\ \A i \in 1 .. Len(more) : (table \o more)[Len(table) + i] = more[i]
<1> DEFINE all == table \o more
<1>1. /\ all \in Seq(Row) /\ Len(all) = Len(table) + Len(more)
      /\ Len(table) \in Nat /\ Len(more) \in Nat
      /\ DOMAIN table = 1 .. Len(table) /\ DOMAIN more = 1 .. Len(more)
      /\ DOMAIN all = 1 .. Len(table) + Len(more)
  OBVIOUS
<1>2. \A i \in 1 .. Len(table) : all[i] = table[i]
  OBVIOUS
<1>3. \A i \in 1 .. Len(more) : all[Len(table) + i] = more[i]
  OBVIOUS
<1> HIDE DEF all
<1>4. Kept(table, all)
  BY <1>1, <1>2 DEF Kept
<1>5. StoredIn(all) \subseteq StoredIn(table) \cup StoredIn(more)
  <2> SUFFICES ASSUME NEW i \in DOMAIN all
               PROVE  all[i].step \in StoredIn(table) \cup StoredIn(more)
    BY DEF StoredIn
  <2>1. CASE i \in 1 .. Len(table)
    BY <1>1, <1>2, <2>1 DEF StoredIn
  <2>2. CASE i \notin 1 .. Len(table)
    <3>1. PICK j \in 1 .. Len(more) : i = Len(table) + j
      <4>1. i - Len(table) \in 1 .. Len(more) /\ i = Len(table) + (i - Len(table))
        BY <1>1, <2>2
      <4> QED BY <4>1
    <3> QED BY <1>1, <1>3, <3>1 DEF StoredIn
  <2> QED BY <2>1, <2>2
<1>6. StoredIn(table) \cup StoredIn(more) \subseteq StoredIn(all)
  <2>1. StoredIn(table) \subseteq StoredIn(all)
    BY <1>4, KeptStored
  <2>2. \A j \in 1 .. Len(more) : Len(table) + j \in DOMAIN all
    BY <1>1
  <2>3. StoredIn(more) \subseteq StoredIn(all)
    BY <1>1, <1>3, <2>2 DEF StoredIn
  <2> QED BY <2>1, <2>3
<1> QED BY <1>1, <1>2, <1>3, <1>4, <1>5, <1>6 DEF all

\* New ids are ids of the rows that have been appended.
LEMMA NewIdsTyped ==
  ASSUME rows \in Seq(Row), NEW S \in SUBSET Steps
  PROVE  /\ NewIds(S) \in Seq(DOMAIN (rows \o NewRows(S)))
         /\ Len(NewIds(S)) = Cardinality(S)
         /\ \A i \in 1 .. Cardinality(S) :
              NewIds(S)[i] = Len(rows) + i /\ (rows \o NewRows(S))[NewIds(S)[i]].step = InOrder(S)[i]
<1> DEFINE n == Cardinality(S)
           all == rows \o NewRows(S)
<1>1. n \in Nat /\ NewRows(S) \in Seq(Row) /\ Len(NewRows(S)) = n
      /\ \A i \in 1 .. n : NewRows(S)[i].step = InOrder(S)[i]
  BY NewRowsStored
<1>2. /\ Kept(rows, all) /\ Len(all) = Len(rows) + n
      /\ \A i \in 1 .. n : all[Len(rows) + i] = NewRows(S)[i]
  BY <1>1, Appended
<1>3. NewIds(S) = [i \in 1 .. n |-> Len(rows) + i]
  BY DEF NewIds
<1> HIDE DEF n, all
<1>4. Len(rows) \in Nat /\ DOMAIN all = 1 .. Len(rows) + n
  BY <1>1, <1>2 DEF Kept
<1>5. NewIds(S) \in [1 .. n -> DOMAIN all]
  BY <1>1, <1>3, <1>4
<1>6. NewIds(S) \in Seq(DOMAIN all) /\ Len(NewIds(S)) = n
  BY <1>1, <1>5, SeqDef
<1> QED BY <1>1, <1>2, <1>3, <1>6 DEF n, all

\* reconcileTraceIds keeps ids of rows, and lists each step once.
LEMMA ReconcileLists ==
  ASSUME NEW table \in Seq(Row), NEW ids \in Seq(DOMAIN table)
  PROVE  Reconcile(ids, table) \in Seq(DOMAIN table) /\ Distinct(Reconcile(ids, table), table)
<1> DEFINE StepOf(i) == table[ids[i]].step
           first == {i \in DOMAIN ids : \A j \in 1 .. i - 1 : StepOf(j) # StepOf(i)}
           kept  == {ids[i] : i \in first}
           order == Reconcile(ids, table)
           n     == Cardinality(kept)
<1>1. DOMAIN ids = 1 .. Len(ids) /\ Len(ids) \in Nat
      /\ DOMAIN table = 1 .. Len(table) /\ Len(table) \in Nat
  OBVIOUS
<1>2. \A i, j \in first : StepOf(i) = StepOf(j) => i = j
  <2>1. ASSUME NEW i \in first, NEW j \in first, i < j
        PROVE  StepOf(i) # StepOf(j)
    <3>1. i \in 1 .. j - 1
      BY <1>1, <2>1
    <3> QED BY <3>1
  <2>2. first \subseteq Int
    BY <1>1
  <2> HIDE DEF first, StepOf
  <2>3. \A i, j \in first : i < j \/ j < i \/ i = j
    BY <2>2
  <2> QED BY <2>1, <2>3
<1>3. \A a \in kept : a \in DOMAIN table /\ table[a].step \in Int
  <2>1. \A i \in first : ids[i] \in DOMAIN table
    OBVIOUS
  <2>2. Steps \subseteq Int
    BY StepsFinite
  <2>3. \A a \in DOMAIN table : table[a] \in Row
    OBVIOUS
  <2>4. \A r \in Row : r.step \in Steps
    BY DEF Row
  <2>5. \A a \in DOMAIN table : table[a].step \in Int
    BY <2>2, <2>3, <2>4
  <2> QED BY <2>1, <2>5
<1>4. \A a, b \in kept : table[a].step = table[b].step => a = b
  <2> SUFFICES ASSUME NEW i \in first, NEW j \in first, StepOf(i) = StepOf(j)
               PROVE  ids[i] = ids[j]
    OBVIOUS
  <2> QED BY <1>2
<1>5. IsFiniteSet(kept)
  <2>1. IsFiniteSet(DOMAIN table)
    BY <1>1, FS_Interval
  <2>2. kept \in SUBSET DOMAIN table
    BY <1>3
  <2> HIDE DEF kept
  <2> QED BY <2>1, <2>2, FS_Subset
<1>6. order = Sorted(kept, [a \in kept |-> table[a].step])
  BY DEF Reconcile
<1> HIDE DEF kept, order
<1>7. Keyed(kept, [a \in kept |-> table[a].step])
  BY <1>3, <1>4, <1>5 DEF Keyed
<1>8. Lists(order, kept)
  BY <1>6, <1>7, SortedLists
<1>9. /\ n \in Nat /\ order \in [1 .. n -> kept]
      /\ \A i, j \in 1 .. n : order[i] = order[j] => i = j
  BY <1>8 DEF Lists
<1> HIDE DEF n
<1>10. order \in [1 .. n -> DOMAIN table] /\ DOMAIN order = 1 .. n
  BY <1>3, <1>9
<1>11. order \in Seq(DOMAIN table)
  BY <1>9, <1>10, SeqDef
<1>12. Distinct(order, table)
  BY <1>4, <1>9, <1>10 DEF Distinct
<1> QED BY <1>11, <1>12 DEF order

-----------------------------------------------------------------------------
(* Passes start and end.                                                   *)

\* What a pass over some steps starts as: it knows rows of theirs, and is about to
\* store, or leaves out, those without one.
New(q, steps, table) ==
  /\ q \in Pass /\ q.stage \in {"idle", "orphans", "scoring"}
  /\ PassStored(q, StoredIn(table)) /\ Matched(q, table)
  /\ q.skips \subseteq steps
  /\ q.stage = "orphans" => q.steps = steps /\ q.todo = steps \ StoredIn(table) /\ q.todo # {}

LEMMA NoPassNew ==
  ASSUME NEW steps, NEW table
  PROVE  New(NoPass, steps, table)
BY StepsFinite DEF New, NoPass, NoMatch, NoRow, Pass, PassStored, Matched

LEMMA StartedNew ==
  ASSUME NEW steps \in SUBSET Steps, NEW seen \in SUBSET steps, NEW table \in Seq(Row),
         NEW replay \in BOOLEAN, replay \/ seen = steps, HasOriginals(steps, StoredIn(table))
  PROVE  /\ New(Started(steps, MatchOf(seen, table), replay), steps, table)
         /\ replay => Started(steps, MatchOf(seen, table), replay).stage \in {"idle", "scoring"}
<1> DEFINE match == MatchOf(seen, table)
           left  == {s \in steps : match[s] = NoRow}
           q     == Started(steps, match, replay)
<1>1. \A s \in steps : match[s] = IF s \in seen THEN RowOf(s, table) ELSE NoRow
  BY DEF MatchOf
<1>2. ASSUME NEW s \in steps
      PROVE  /\ s \in seen /\ s \in StoredIn(table) => match[s] \in DOMAIN table /\ table[match[s]].step = s
             /\ s \notin StoredIn(table) => match[s] = NoRow
             /\ s \notin seen => match[s] = NoRow
  BY <1>1, RowOfStep
<1>3. NoRow \notin DOMAIN table /\ DOMAIN table \subseteq Nat
  BY DEF NoRow
<1>4. match \in [Steps -> Nat]
  <2>1. \A s \in seen : RowOf(s, table) \in Nat
    BY <1>1, <1>2, <1>3 DEF NoRow
  <2> QED BY <2>1 DEF MatchOf, NoRow
<1>5. /\ ~replay => left = steps \ StoredIn(table)
      /\ steps \ left \subseteq StoredIn(table)
  BY <1>2, <1>3
<1>6. \A s \in steps : match[s] # NoRow => match[s] \in DOMAIN table /\ table[match[s]].step = s
  BY <1>2
<1>7. PICK out \in SUBSET steps : out = left
  OBVIOUS
<1>8. PICK todo \in SUBSET steps, skips \in SUBSET steps, at \in {"orphans", "scoring"} :
        /\ todo = IF replay THEN {} ELSE out
        /\ skips = IF replay THEN out ELSE {}
        /\ at = IF replay \/ out = {} THEN "scoring" ELSE "orphans"
  OBVIOUS
<1>9. \/ q = NoPass
      \/ q = [stage |-> at, steps |-> steps, match |-> match, late |-> FALSE,
              todo |-> todo, skips |-> skips]
  BY <1>7, <1>8 DEF Started
<1> HIDE DEF q, match
<1>10. ASSUME q = NoPass
       PROVE  New(q, steps, table) /\ q.stage = "idle"
  BY <1>10, NoPassNew DEF NoPass
<1>11. ASSUME q = [stage |-> at, steps |-> steps, match |-> match, late |-> FALSE,
                   todo |-> todo, skips |-> skips]
       PROVE  New(q, steps, table) /\ (replay => q.stage = "scoring")
  <2>1. /\ q.steps = steps /\ q.match = match /\ q.todo = todo
        /\ q.skips = skips /\ q.stage = at
    BY <1>11
  <2>2. q \in Pass
    BY <1>4, <1>11 DEF Pass
  <2>3. Matched(q, table)
    BY <1>6, <2>1 DEF Matched
  <2>4. PassStored(q, StoredIn(table))
    BY <1>5, <1>7, <1>8, <2>1 DEF PassStored, HasOriginals
  <2>5. q.stage = "orphans" => q.todo = steps \ StoredIn(table) /\ q.todo # {}
    BY <1>5, <1>7, <1>8, <2>1
  <2> QED BY <1>8, <2>1, <2>2, <2>3, <2>4, <2>5 DEF New
<1> QED BY <1>9, <1>10, <1>11 DEF q, match

\* A pass ends, and where the topic is closed again another starts over the steps.
Begins(p, steps, table) ==
  /\ status' \in {"open", "closed"}
  /\ \E q : pass' = [pass EXCEPT ![p] = q] /\ New(q, steps, table)

\* A snapshot that may be closed: its rebuilt steps have stored originals.
LEMMA CloseBegins ==
  ASSUME NEW p \in Passes, NEW table \in Seq(Row), NEW snapshot,
         snapshot.steps \in SUBSET Steps, snapshot.marked \in BOOLEAN,
         HasOriginals(snapshot.steps, StoredIn(table)), Close(p, snapshot, table)
  PROVE  /\ Begins(p, snapshot.steps, table)
         /\ snapshot.marked => \E q : /\ pass' = [pass EXCEPT ![p] = q]
                                     /\ New(q, snapshot.steps, table) /\ q.stage # "orphans"
<1>1. /\ status' = "closed"
      /\ pass' = [pass EXCEPT ![p] = Started(snapshot.steps, MatchOf(snapshot.steps, table),
                                             snapshot.marked)]
  BY DEF Close
<1>2. /\ New(Started(snapshot.steps, MatchOf(snapshot.steps, table), snapshot.marked),
              snapshot.steps, table)
      /\ snapshot.marked =>
           Started(snapshot.steps, MatchOf(snapshot.steps, table), snapshot.marked).stage
             \in {"idle", "scoring"}
  BY StartedNew
<1> QED BY <1>1, <1>2 DEF Begins

LEMMA OverBegins ==
  ASSUME CaptureTypeOK, NEW p \in Passes, NEW table \in Seq(Row), Over(p, table),
         HasOriginals(copy.steps, StoredIn(table))
  PROVE  Begins(p, copy.steps, table)
<1>1. CASE Close(p, copy, table)
  BY <1>1, CloseBegins DEF CaptureTypeOK, Copy
<1>2. CASE pass' = [pass EXCEPT ![p] = NoPass] /\ UNCHANGED status
  BY <1>2, NoPassNew DEF Begins, CaptureTypeOK
<1> QED BY <1>1, <1>2 DEF Over

-----------------------------------------------------------------------------
(* What the steps do to the rows.                                          *)

\* A table has got rows for some steps, which carry no reflection yet.
Grown(table, later, S) ==
  /\ Kept(table, later) /\ StoredIn(later) = StoredIn(table) \cup S
  /\ \A i \in DOMAIN later : later[i].about = 0 \/ (i \in DOMAIN table /\ later[i] = table[i])

LEMMA AppendedGrown ==
  ASSUME NEW table \in Seq(Row), NEW more \in Seq(Row),
         \A i \in 1 .. Len(more) : more[i].about = 0
  PROVE  Grown(table, table \o more, StoredIn(more))
<1> DEFINE all == table \o more
<1>1. /\ Kept(table, all) /\ Len(all) = Len(table) + Len(more)
      /\ StoredIn(all) = StoredIn(table) \cup StoredIn(more)
      /\ \A i \in 1 .. Len(table) : all[i] = table[i]
      /\ \A i \in 1 .. Len(more) : all[Len(table) + i] = more[i]
  BY Appended
<1>2. Len(table) \in Nat /\ Len(more) \in Nat /\ DOMAIN table = 1 .. Len(table)
  OBVIOUS
<1> HIDE DEF all
<1>3. DOMAIN all = 1 .. Len(table) + Len(more)
  BY <1>1, <1>2 DEF Kept
<1>4. ASSUME NEW i \in DOMAIN all, i \notin DOMAIN table
      PROVE  all[i].about = 0
  <2>1. PICK j \in 1 .. Len(more) : i = Len(table) + j
    <3>1. i - Len(table) \in 1 .. Len(more) /\ i = Len(table) + (i - Len(table))
      BY <1>2, <1>3, <1>4
    <3> QED BY <3>1
  <2> QED BY <1>1, <2>1
<1> QED BY <1>1, <1>2, <1>4 DEF Grown, all

\* The rows of some steps are stored.
LEMMA NewRowsGrown ==
  ASSUME NEW table \in Seq(Row), NEW S \in SUBSET Steps
  PROVE  Grown(table, table \o NewRows(S), S)
<1>1. /\ NewRows(S) \in Seq(Row) /\ StoredIn(NewRows(S)) = S
      /\ \A i \in 1 .. Len(NewRows(S)) : NewRows(S)[i].about = 0
  BY NewRowsStored
<1> QED BY <1>1, AppendedGrown

\* The first of the rows are stored.
LEMMA FirstRowsGrown ==
  ASSUME NEW table \in Seq(Row), NEW S \in SUBSET Steps, NEW n \in 0 .. Cardinality(S)
  PROVE  \E T \in SUBSET S : Grown(table, table \o SubSeq(NewRows(S), 1, n), T)
<1>1. /\ Cardinality(S) \in Nat
      /\ NewRows(S) \in Seq(Row) /\ StoredIn(NewRows(S)) = S /\ Len(NewRows(S)) = Cardinality(S)
      /\ \A i \in 1 .. Len(NewRows(S)) : NewRows(S)[i].about = 0
  BY NewRowsStored
<1>2. PICK new \in Seq(Row) : /\ new = NewRows(S) /\ StoredIn(new) = S /\ Len(new) \in Nat
                               /\ n \in 0 .. Len(new)
                               /\ \A i \in 1 .. Len(new) : new[i].about = 0
  BY <1>1
<1>3. PICK few \in Seq(Row) : /\ few = SubSeq(new, 1, n) /\ Len(few) = n
                               /\ \A i \in 1 .. n : few[i] = new[i]
  <2>1. SubSeq(new, 1, n) \in Seq(Row) /\ Len(SubSeq(new, 1, n)) = n
        /\ \A i \in 1 .. n : SubSeq(new, 1, n)[i] = new[i]
    BY <1>2
  <2> QED BY <2>1
<1>4. StoredIn(few) \subseteq S /\ \A i \in 1 .. Len(few) : few[i].about = 0
  <2>1. DOMAIN few = 1 .. n /\ DOMAIN new = 1 .. Len(new)
    BY <1>3
  <2>2. \A i \in 1 .. n : i \in 1 .. Len(new)
    BY <1>2
  <2> QED BY <1>2, <1>3, <2>1, <2>2 DEF StoredIn
<1>5. Grown(table, table \o few, StoredIn(few))
  BY <1>4, AppendedGrown
<1> QED BY <1>2, <1>3, <1>4, <1>5

LEMMA SpendTyped ==
  ASSUME CaptureTypeOK, NEW what \in {"reopens", "recoveries", "faults", "crashes"}, NEW bound,
         Spend(what, bound)
  PROVE  spent' \in [{"reopens", "recoveries", "faults", "crashes"} -> Nat]
BY DEF CaptureTypeOK, Spend

\* A turn's end stores what is missing, and lists the new ids after its own.
StoresLite(p) ==
  /\ Grown(rows, rows', pass[p].todo) /\ Begins(p, copy.steps, rows')
  /\ copy' = [copy EXCEPT !.ids = copy.ids \o NewIds(pass[p].todo)]
  /\ copy'.ids \in Seq(DOMAIN rows')
  /\ listed' \in {listed, copy'.ids}
  /\ UNCHANGED <<marked, said, done, skipped, spent>>

LEMMA StoreLiteStores ==
  ASSUME CaptureTypeOK, HasOriginals(copy.steps, StoredIn(rows)), NEW p \in Passes, StoreLite(p)
  PROVE  StoresLite(p)
<1>1. rows \in Seq(Row) /\ pass[p] \in Pass
      /\ copy \in Copy(Seq(DOMAIN rows))
  BY DEF CaptureTypeOK
<1>2. pass[p].todo \in SUBSET Steps
  BY <1>1 DEF Pass
<1>3. /\ rows' = rows \o NewRows(pass[p].todo)
      /\ copy' = [copy EXCEPT !.ids = copy.ids \o NewIds(pass[p].todo)]
      /\ listed' = IF pass[p].todo = {} THEN listed ELSE copy.ids \o NewIds(pass[p].todo)
      /\ Over(p, rows') /\ UNCHANGED <<marked, said, done, skipped, spent>>
  BY DEF StoreLite
<1>4. Grown(rows, rows', pass[p].todo)
  BY <1>1, <1>2, <1>3, NewRowsGrown
<1>5. Kept(rows, rows') /\ rows' \in Seq(Row)
  BY <1>4 DEF Grown, Kept
<1>6. copy.ids \in Seq(DOMAIN rows') /\ NewIds(pass[p].todo) \in Seq(DOMAIN rows')
  <2>1. copy.ids \in Seq(DOMAIN rows)
    BY <1>1 DEF Copy
  <2>2. copy.ids \in Seq(DOMAIN rows')
    BY <1>1, <1>5, <2>1, KeptStored
  <2> QED BY <1>1, <1>2, <1>3, <2>2, NewIdsTyped
<1>7. copy'.ids = copy.ids \o NewIds(pass[p].todo) /\ copy'.ids \in Seq(DOMAIN rows')
  BY <1>1, <1>3, <1>6 DEF Copy
<1>8. Begins(p, copy.steps, rows')
  BY <1>3, <1>4, <1>5, OverBegins DEF Grown, HasOriginals
<1> QED BY <1>3, <1>4, <1>7, <1>8 DEF StoresLite

\* What a pass that stored its steps knows of their rows.
Place(todo, s) == CHOOSE i \in 1 .. Cardinality(todo) : InOrder(todo)[i] = s
Paired(todo, fresh, s) ==
  IF Place(todo, s) <= Cardinality(fresh) THEN Len(rows) + Place(todo, s) ELSE NoRow
Known(q, fresh) ==
  [q EXCEPT !.stage = "scoring", !.todo = {},
     !.match = [s \in Steps |-> IF s \in q.todo THEN Paired(q.todo, fresh, s) ELSE q.match[s]]]

\* A reflect pass stores what is missing, and knows its own rows.
Fresh(p) == pass[p].todo \ StoredIn(rows)
StoresOrphans(p) ==
  /\ Grown(rows, rows', Fresh(p))
  /\ rows' = rows \o NewRows(Fresh(p))
  /\ \E q \in Pass : q = Known(pass[p], Fresh(p)) /\ pass' = [pass EXCEPT ![p] = q]
  /\ listed' \in Seq(DOMAIN rows') /\ Distinct(listed', rows')
  /\ UNCHANGED <<status, marked, said, copy, done, skipped, spent>>

LEMMA StoreOrphansStores ==
  ASSUME CaptureTypeOK, NEW p \in Passes, StoreOrphans(p)
  PROVE  StoresOrphans(p)
<1>1. rows \in Seq(Row) /\ pass[p] \in Pass /\ listed \in Seq(DOMAIN rows)
  BY DEF CaptureTypeOK
<1>2. pass[p].todo \in SUBSET Steps
  BY <1>1 DEF Pass
<1>3. PICK fresh \in SUBSET Steps : fresh = pass[p].todo \ StoredIn(rows)
  BY <1>2
<1>4. /\ rows' = rows \o NewRows(fresh)
      /\ listed' = Reconcile(listed \o NewIds(fresh), rows')
      /\ UNCHANGED <<status, marked, said, copy, done, skipped, spent>>
  BY <1>3 DEF StoreOrphans
<1>5. pass' = [pass EXCEPT ![p] = Known(pass[p], fresh)]
  <2>1. pass' = [pass EXCEPT ![p].stage = "scoring", ![p].todo = {},
           ![p].match = [s \in Steps |-> IF s \in pass[p].todo
                                         THEN Paired(pass[p].todo, fresh, s) ELSE pass[p].match[s]]]
    BY <1>3 DEF StoreOrphans, Paired, Place
  <2> QED BY <1>1, <2>1 DEF Known, Pass
<1>6. Grown(rows, rows', fresh)
  BY <1>1, <1>4, NewRowsGrown
<1>7. Kept(rows, rows') /\ rows' \in Seq(Row)
  BY <1>6 DEF Grown, Kept
<1>8. listed \o NewIds(fresh) \in Seq(DOMAIN rows')
  <2>1. listed \in Seq(DOMAIN rows')
    BY <1>1, <1>7, KeptStored
  <2>2. NewIds(fresh) \in Seq(DOMAIN rows')
    BY <1>1, <1>4, NewIdsTyped
  <2> QED BY <2>1, <2>2
<1>9. listed' \in Seq(DOMAIN rows') /\ Distinct(listed', rows')
  BY <1>4, <1>7, <1>8, ReconcileLists
<1>10. Known(pass[p], fresh) \in Pass
  <2>1. \A s \in pass[p].todo : Place(pass[p].todo, s) \in Nat
    <3>1. Lists(InOrder(pass[p].todo), pass[p].todo)
      BY <1>2, NewRowsStored
    <3> QED BY <3>1 DEF Lists, Place
  <2>2. \A s \in pass[p].todo : Paired(pass[p].todo, fresh, s) \in Nat
    BY <1>1, <2>1 DEF Paired, NoRow
  <2>3. pass[p].match \in [Steps -> Nat]
    BY <1>1 DEF Pass
  <2>4. PICK at : at = [s \in Steps |-> IF s \in pass[p].todo THEN Paired(pass[p].todo, fresh, s)
                                       ELSE pass[p].match[s]]
    OBVIOUS
  <2>5. at \in [Steps -> Nat]
    BY <2>2, <2>3, <2>4
  <2>6. Known(pass[p], fresh) = [pass[p] EXCEPT !.stage = "scoring", !.todo = {}, !.match = at]
    BY <2>4 DEF Known
  <2> QED BY <1>1, <2>5, <2>6 DEF Pass
<1>11. fresh = Fresh(p)
  BY <1>3 DEF Fresh
<1> QED BY <1>4, <1>5, <1>6, <1>9, <1>10, <1>11 DEF StoresOrphans

\* A pass fails in the middle of what it stores.
Fails(p) ==
  /\ pass[p].stage \in {"lite", "orphans"}
  /\ \E T \in SUBSET pass[p].todo : Grown(rows, rows', T)
  /\ Begins(p, copy.steps, rows')
  /\ Spend("faults", MaxFaults)
  /\ UNCHANGED <<marked, said, listed, copy, done, skipped>>

LEMMA StoreFailsFails ==
  ASSUME CaptureTypeOK, HasOriginals(copy.steps, StoredIn(rows)), NEW p \in Passes, StoreFails(p)
  PROVE  Fails(p)
<1>1. rows \in Seq(Row) /\ pass[p] \in Pass
  BY DEF CaptureTypeOK
<1>2. pass[p].todo \in SUBSET Steps
  BY <1>1 DEF Pass
<1>3. \E S \in SUBSET pass[p].todo : \E n \in 0 .. Cardinality(S) :
        rows' = rows \o SubSeq(NewRows(S), 1, n)
  <2> DEFINE S == IF pass[p].stage = "lite" THEN pass[p].todo ELSE pass[p].todo \ StoredIn(rows)
  <2>1. \E n \in 0 .. Cardinality(S) : rows' = rows \o SubSeq(NewRows(S), 1, n)
    BY DEF StoreFails
  <2>2. S \in SUBSET pass[p].todo
    OBVIOUS
  <2> HIDE DEF S
  <2> QED BY <2>1, <2>2
<1>4. PICK S \in SUBSET pass[p].todo :
        /\ S \in SUBSET Steps
        /\ \E n \in 0 .. Cardinality(S) : rows' = rows \o SubSeq(NewRows(S), 1, n)
  BY <1>2, <1>3
<1>5. PICK T \in SUBSET S : Grown(rows, rows', T)
  BY <1>1, <1>4, FirstRowsGrown
<1>6. rows' \in Seq(Row)
  BY <1>5 DEF Grown, Kept
<1>7. Over(p, rows') /\ pass[p].stage \in {"lite", "orphans"} /\ Spend("faults", MaxFaults)
      /\ UNCHANGED <<marked, said, listed, copy, done, skipped>>
  BY DEF StoreFails
<1>8. Begins(p, copy.steps, rows')
  BY <1>5, <1>6, <1>7, OverBegins DEF Grown, HasOriginals
<1>9. T \in SUBSET pass[p].todo
  BY <1>4, <1>5
<1> QED BY <1>5, <1>7, <1>8, <1>9 DEF Fails

\* The reflections of a pass are written onto rows.
Reflects(p) ==
  /\ pass[p].stage = "scoring"
  /\ Kept(rows, rows') /\ StoredIn(rows') = StoredIn(rows) /\ DOMAIN rows' = DOMAIN rows
  /\ \A i \in DOMAIN rows :
        rows'[i] = rows[i] \/ \E s \in pass[p].steps :
                                  pass[p].match[s] = i /\ rows'[i] = [rows[i] EXCEPT !.about = s]
  /\ done' = done \cup pass[p].steps /\ skipped' = skipped \cup pass[p].skips
  /\ pass' = [pass EXCEPT ![p] = NoPass]
  /\ UNCHANGED <<status, marked, said, listed, copy, spent>>

LEMMA ReflectReflects ==
  ASSUME CaptureTypeOK, NEW p \in Passes, Reflect(p)
  PROVE  Reflects(p)
<1>1. rows \in Seq(Row) /\ pass[p] \in Pass /\ DOMAIN rows = 1 .. Len(rows) /\ Len(rows) \in Nat
  BY DEF CaptureTypeOK
<1>2. pass[p].steps \subseteq Steps
  BY <1>1 DEF Pass
<1>3. rows' = [i \in DOMAIN rows |->
                 LET about == {s \in pass[p].steps : pass[p].match[s] = i}
                 IN  IF about = {} THEN rows[i]
                     ELSE [rows[i] EXCEPT !.about = CHOOSE s \in about : TRUE]]
  BY DEF Reflect
<1>4. DOMAIN rows' = DOMAIN rows
  BY <1>3
<1>5. \A i \in DOMAIN rows :
        rows'[i] = rows[i] \/ \E s \in pass[p].steps :
                                  pass[p].match[s] = i /\ rows'[i] = [rows[i] EXCEPT !.about = s]
  BY <1>3
<1>6. \A i \in DOMAIN rows : rows'[i] \in Row /\ rows'[i].step = rows[i].step
  <2> SUFFICES ASSUME NEW i \in DOMAIN rows
               PROVE  rows'[i] \in Row /\ rows'[i].step = rows[i].step
    OBVIOUS
  <2>1. rows[i] \in Row
    BY <1>1
  <2>2. CASE rows'[i] = rows[i]
    BY <2>1, <2>2
  <2>3. ASSUME NEW s \in pass[p].steps, rows'[i] = [rows[i] EXCEPT !.about = s]
        PROVE  rows'[i] \in Row /\ rows'[i].step = rows[i].step
    <3>1. s \in Steps \cup {0}
      BY <1>2
    <3> QED BY <2>1, <2>3, <3>1 DEF Row
  <2> QED BY <1>5, <2>2, <2>3
<1>7. rows' \in [1 .. Len(rows) -> Row]
  BY <1>1, <1>3, <1>4, <1>6
<1>8. rows' \in Seq(Row)
  BY <1>1, <1>7, SeqDef
<1>9. Kept(rows, rows') /\ StoredIn(rows') = StoredIn(rows)
  BY <1>4, <1>6, <1>8 DEF Kept, StoredIn
<1> QED BY <1>4, <1>5, <1>9 DEF Reflect, Reflects

-----------------------------------------------------------------------------
(* What is done is stored.                                                 *)

LEMMA StoredAtFirst == CaptureInit => StoredInv
<1> SUFFICES ASSUME CaptureInit PROVE StoredInv
  OBVIOUS
<1>1. 0 \in 0 .. MaxSteps
  BY StepsFinite
<1>2. /\ NoPass \in Pass /\ NoPass.skips = {} /\ NoPass.stage = "idle"
      /\ \A stored : PassStored(NoPass, stored)
  BY NoPassNew DEF New, NoPass, PassStored
<1>3. /\ pass = [p \in Passes |-> NoPass] /\ done = {} /\ rows = <<>>
      /\ copy = [live |-> TRUE, marked |-> FALSE, since |-> 0, steps |-> {}, ids |-> <<>>]
  BY DEF CaptureInit, NoCopy
<1>4. CaptureTypeOK
  <2>1. copy \in Copy(Seq(DOMAIN rows))
    BY <1>1, <1>3 DEF Copy
  <2>2. pass \in [Passes -> Pass] /\ listed \in Seq(DOMAIN rows) /\ rows \in Seq(Row)
    BY <1>2, <1>3 DEF CaptureInit
  <2>3. spent \in [{"reopens", "recoveries", "faults", "crashes"} -> Nat]
    BY DEF CaptureInit
  <2> QED BY <1>1, <2>1, <2>2, <2>3 DEF CaptureInit, CaptureTypeOK
<1> HIDE DEF NoPass
<1>5. \A p \in Passes : PassStored(pass[p], StoredIn(rows)) /\ pass[p].skips = {} /\ ~Lite(p)
  BY <1>2, <1>3 DEF Lite
<1>6. StoredIn(rows) = {} /\ copy.steps = {}
  BY <1>3 DEF StoredIn
<1> QED BY <1>3, <1>4, <1>5, <1>6 DEF StoredInv, Complete, HasOriginals, SkipsTold, HeardStored

\* Rows stay, faults are not forgotten, and passes that change have what they need.
LEMMA StoredStays ==
  ASSUME StoredInv, CaptureTypeOK', Kept(rows, rows'),
         Complete(StoredIn(rows')), HasOriginals(copy'.steps, StoredIn(rows')),
         skipped \subseteq skipped', spent.faults <= spent'.faults,
         \A s \in done' : \/ s \in done \/ Moment(s) \in StoredIn(rows')
                          \/ s \in skipped' /\ Excused',
         \A p \in Passes : pass'[p] # pass[p] =>
            PassStored(pass'[p], StoredIn(rows')) /\ SkipsTold(pass'[p], StoredIn(rows'), Excused'),
         HeardStored'
  PROVE  StoredInv'
<1>1. rows \in Seq(Row) /\ spent.faults \in Nat /\ spent'.faults \in Nat
  BY DEF StoredInv, CaptureTypeOK
<1>2. StoredIn(rows) \subseteq StoredIn(rows')
  BY <1>1, KeptStored
<1>3. Excused => Excused'
  BY <1>1 DEF Excused
<1>4. \A s \in done' : Moment(s) \in StoredIn(rows') \/ (s \in skipped' /\ Excused')
  BY <1>2, <1>3 DEF StoredInv
<1>5. ASSUME NEW p \in Passes
      PROVE  PassStored(pass'[p], StoredIn(rows')) /\ SkipsTold(pass'[p], StoredIn(rows'), Excused')
  <2>1. CASE pass'[p] = pass[p]
    <3>1. PassStored(pass[p], StoredIn(rows)) /\ SkipsTold(pass[p], StoredIn(rows), Excused)
      BY DEF StoredInv
    <3>2. PassStored(pass[p], StoredIn(rows'))
      BY <1>2, <3>1 DEF PassStored
    <3>3. SkipsTold(pass[p], StoredIn(rows'), Excused')
      BY <1>2, <1>3, <3>1 DEF SkipsTold
    <3> QED BY <2>1, <3>2, <3>3
  <2> QED BY <2>1
<1> QED BY <1>4, <1>5 DEF StoredInv

\* The rows as they are.
LEMMA SameRows ==
  ASSUME CaptureTypeOK, UNCHANGED rows
  PROVE  Kept(rows, rows') /\ rows' \in Seq(Row) /\ StoredIn(rows') = StoredIn(rows)
BY DEF CaptureTypeOK, Kept

\* New rows are for new steps, or rebuilt ones with originals.
LEMMA GrownComplete ==
  ASSUME Complete(StoredIn(rows)), NEW S \in SUBSET Steps, Grown(rows, rows', S),
         HasOriginals(S, StoredIn(rows))
  PROVE  Complete(StoredIn(rows'))
<1>1. StoredIn(rows') = StoredIn(rows) \cup S
  BY DEF Grown
<1>2. \A s \in S : s > 0 => Moment(s) = s
  BY Moments
<1>3. \A s \in S : s > 0 \/ s < 0
  BY StepsFinite
<1> QED BY <1>1, <1>2, <1>3 DEF Complete, HasOriginals

\* With no turn ending, every step of the topic is stored, or there is an excuse.
LEMMA HeardAll ==
  ASSUME StoredInv, HostReady, NEW s \in copy.steps
  PROVE  Moment(s) \in StoredIn(rows) \/ Excused
<1>1. spent.faults \in Nat
  BY DEF StoredInv, CaptureTypeOK
<1>2. CASE Serial /\ spent.faults = 0
  BY <1>2 DEF StoredInv, HeardStored, HostReady, Lite
<1> QED BY <1>1, <1>2 DEF Excused

\* A pass changes, or a turn's end is over: what it was to store is stored.
LEMMA HeardStays ==
  ASSUME StoredInv, NEW p \in Passes, NEW q, pass' = [pass EXCEPT ![p] = q], q.stage # "lite",
         StoredIn(rows) \subseteq StoredIn(rows'), Complete(StoredIn(rows')),
         copy'.steps = copy.steps, spent.faults <= spent'.faults, spent'.faults \in Nat,
         Lite(p) => pass[p].todo \subseteq StoredIn(rows') \/ spent'.faults > 0
  PROVE  HeardStored'
<1>1. pass \in [Passes -> Pass] /\ spent.faults \in Nat
  BY DEF StoredInv, CaptureTypeOK
<1>2. ASSUME NEW r \in Passes
      PROVE  /\ Lite(r)' => Lite(r)
             /\ Lite(r) => pass'[r] = pass[r] \/ r = p
             /\ r # p => pass'[r] = pass[r] /\ (Lite(r)' <=> Lite(r))
  BY <1>1 DEF Lite
<1>3. ASSUME Serial, spent'.faults = 0, NEW s \in copy.steps
      PROVE  \/ Moment(s) \in StoredIn(rows')
             \/ \E r \in Passes : Lite(r)' /\ s \in pass'[r].todo
  <2>1. spent.faults = 0 /\ (Lite(p) => pass[p].todo \subseteq StoredIn(rows'))
    BY <1>1, <1>3
  <2>2. \/ Moment(s) \in StoredIn(rows)
        \/ \E r \in Passes : Lite(r) /\ s \in pass[r].todo
    BY <1>3, <2>1 DEF StoredInv, HeardStored
  <2>3. CASE \E r \in Passes : Lite(r) /\ s \in pass[r].todo
    <3>1. PICK r \in Passes : Lite(r) /\ s \in pass[r].todo
      BY <2>3
    <3>2. CASE r = p
      BY <2>1, <3>1, <3>2 DEF Complete
    <3> QED BY <1>2, <3>1, <3>2
  <2> QED BY <2>2, <2>3
<1>4. Serial => \A r, t \in Passes : Lite(r)' /\ Lite(t)' => r = t
  BY <1>2 DEF StoredInv, HeardStored
<1>5. HeardStored' <=>
        (Serial => /\ \A r, t \in Passes : Lite(r)' /\ Lite(t)' => r = t
                   /\ spent'.faults = 0 =>
                        \A s \in copy'.steps : \/ Moment(s) \in StoredIn(rows')
                                               \/ \E r \in Passes : Lite(r)' /\ s \in pass'[r].todo)
  BY DEF HeardStored, Lite, Moment, StoredIn
<1> QED BY <1>3, <1>4, <1>5

\* The steps of the list are steps with rows.
LEMMA ListedStored ==
  ASSUME CaptureTypeOK
  PROVE  ListedSteps \subseteq StoredIn(rows) /\ ListedSteps \subseteq Steps
<1>1. rows \in Seq(Row) /\ listed \in Seq(DOMAIN rows)
  BY DEF CaptureTypeOK
<1>2. \A i \in DOMAIN listed : listed[i] \in DOMAIN rows /\ rows[listed[i]].step \in Steps
  <2>1. \A i \in DOMAIN listed : listed[i] \in DOMAIN rows
    BY <1>1
  <2>2. \A a \in DOMAIN rows : rows[a] \in Row
    BY <1>1
  <2> QED BY <2>1, <2>2 DEF Row
<1> QED BY <1>2 DEF ListedSteps, StoredIn

\* An adopted topic has steps whose moments are stored, and the ids it lists.
LEMMA AdoptCopies ==
  ASSUME CaptureTypeOK, Complete(StoredIn(rows)), NEW flag \in BOOLEAN, Adopt(flag)
  PROVE  /\ copy' \in Copy(Seq(DOMAIN rows))
         /\ copy'.live /\ copy'.marked = flag /\ copy'.ids = listed
         /\ \A s \in copy'.steps : Moment(s) \in StoredIn(rows)
         /\ \A s \in copy'.steps : s > 0 => s \in StoredIn(rows)
<1>1. said \in 0 .. MaxSteps /\ listed \in Seq(DOMAIN rows)
  BY DEF CaptureTypeOK
<1>2. ListedSteps \subseteq StoredIn(rows) /\ ListedSteps \subseteq Steps
  BY ListedStored
<1>0. PICK kept \in SUBSET ListedSteps : \E changed \in SUBSET kept :
        copy' = [live |-> TRUE, marked |-> flag, since |-> said, ids |-> listed,
                 steps |-> (kept \ changed) \cup {Rebuilt(s) : s \in changed}]
  BY DEF Adopt
<1>3. PICK changed \in SUBSET kept :
        copy' = [live |-> TRUE, marked |-> flag, since |-> said, ids |-> listed,
                 steps |-> (kept \ changed) \cup {Rebuilt(s) : s \in changed}]
  BY <1>0
<1>4. PICK steps : steps = (kept \ changed) \cup {Rebuilt(s) : s \in changed}
  OBVIOUS
<1>5. ASSUME NEW s \in steps
      PROVE  s \in Steps /\ Moment(s) \in StoredIn(rows) /\ (s > 0 => s \in StoredIn(rows))
  <2>1. CASE s \in kept
    BY <1>2, <2>1 DEF Complete
  <2>2. CASE s \notin kept
    <3>1. PICK o \in changed : s = Rebuilt(o)
      BY <1>4, <2>2
    <3>2. o \in Steps /\ o \in StoredIn(rows)
      BY <1>2
    <3>3. Moment(o) \in StoredIn(rows)
      BY <3>2 DEF Complete
    <3>4. Rebuilt(o) \in Steps /\ Rebuilt(o) < 0 /\ Moment(Rebuilt(o)) = Moment(o)
      BY <3>2, Moments
    <3>5. ~(s > 0)
      BY <3>1, <3>4, Signs
    <3> QED BY <3>1, <3>3, <3>4, <3>5
  <2> QED BY <2>1, <2>2
<1>6. copy' = [live |-> TRUE, marked |-> flag, since |-> said, ids |-> listed, steps |-> steps]
  BY <1>3, <1>4
<1>7. copy' \in Copy(Seq(DOMAIN rows))
  BY <1>1, <1>5, <1>6 DEF Copy
<1> QED BY <1>5, <1>6, <1>7

\* The pass of the end of a turn.
Untold(now) == {s \in now : s > 0 /\ s \notin StoredIn(rows)}
Ends(q, now) == q \in Pass /\ q.stage = "lite" /\ q.skips = {} /\ q.todo = Untold(now)

\* The end of a turn adds new steps, and takes on the new ones and the others that
\* have neither a row nor an original with one.
LEMMA EndTurnBegins ==
  ASSUME CaptureTypeOK, Complete(StoredIn(rows)), HasOriginals(copy.steps, StoredIn(rows)),
         NEW p \in Passes, NEW k \in 1 .. 2, EndTurn(p, k)
  PROVE  \E now \in SUBSET Steps :
           /\ copy.steps \subseteq now /\ RebuiltOf(now) = RebuiltOf(copy.steps)
           /\ copy' = [copy EXCEPT !.steps = now] /\ said' \in 0 .. MaxSteps
           /\ \E q : pass' = [pass EXCEPT ![p] = q] /\ Ends(q, now)
<1>1. /\ copy.steps \subseteq Steps /\ said \in 0 .. MaxSteps /\ MaxSteps \in Nat
      /\ rows \in Seq(Row)
  BY StepsFinite DEF CaptureTypeOK, Copy
<1>2. PICK now : /\ now = copy.steps \cup (said + 1 .. said + k)
                 /\ copy' = [copy EXCEPT !.steps = now]
                 /\ pass' = [pass EXCEPT ![p] = Ending(now)]
                 /\ said' = said + k /\ said + k <= MaxSteps
  BY DEF EndTurn
<1>3. \A s \in said + 1 .. said + k : s \in Steps /\ s > 0
  BY <1>1, <1>2 DEF Steps
<1>4. now \in SUBSET Steps /\ RebuiltOf(now) = RebuiltOf(copy.steps)
  <2>1. \A s \in said + 1 .. said + k : ~(s < 0)
    BY <1>1
  <2> QED BY <1>1, <1>2, <1>3, <2>1 DEF RebuiltOf
<1>5. ASSUME NEW s \in now
      PROVE  Moment(s) \notin MomentsIn(rows) <=> s > 0 /\ s \notin StoredIn(rows)
  <2>1. s \in Steps
    BY <1>4
  <2>2. Moment(s) \in MomentsIn(rows) <=> Moment(s) \in StoredIn(rows)
    BY <1>1, <2>1, MomentStored
  <2>3. s > 0 => Moment(s) = s
    BY <2>1, Moments
  <2>4. s > 0 \/ s < 0
    BY <2>1, StepsFinite
  <2>5. s < 0 => Moment(s) \in StoredIn(rows) /\ ~(s > 0)
    <3>1. s < 0 => s \in copy.steps
      BY <1>2, <1>3, <2>1, StepsFinite
    <3>2. s < 0 => ~(s > 0)
      BY <2>1, StepsFinite
    <3> QED BY <3>1, <3>2 DEF HasOriginals
  <2> QED BY <2>2, <2>3, <2>4, <2>5
<1>6. Unstored(now) = Untold(now)
  BY <1>5 DEF Unstored, Untold
<1>8. said' \in 0 .. MaxSteps
  BY <1>1, <1>2
<1>9. Ends(Ending(now), now)
  <2>1. NoMatch \in [Steps -> Nat]
    BY DEF NoMatch, NoRow
  <2>2. PICK todo \in SUBSET Steps : todo = Unstored(now) /\ todo = Untold(now)
    BY <1>4, <1>6 DEF Untold
  <2> HIDE DEF NoMatch
  <2>4. Ending(now) = [stage |-> "lite", steps |-> now, todo |-> todo, match |-> NoMatch,
                       skips |-> {}, late |-> status = "closed"]
    BY <2>2 DEF Ending
  <2>5. Ending(now) \in Pass
    BY <1>4, <2>1, <2>4 DEF Pass
  <2> QED BY <2>2, <2>4, <2>5 DEF Ends
<1> QED BY <1>2, <1>4, <1>8, <1>9

\* The pass of a recovered topic.
LEMMA RecoveredNew ==
  ASSUME CaptureTypeOK, Complete(StoredIn(rows)), NEW p \in Passes, Recover(p)
  PROVE  \E q : /\ pass' = [pass EXCEPT ![p] = q] /\ New(q, ListedSteps, rows)
                /\ q.stage \in {"idle", "scoring"}
<1>1. rows \in Seq(Row)
  BY DEF CaptureTypeOK
<1>2. ListedSteps \subseteq StoredIn(rows) /\ ListedSteps \subseteq Steps
  BY ListedStored
<1>0. PICK kept \in SUBSET ListedSteps : \E hidden \in SUBSET kept :
        pass' = [pass EXCEPT ![p] = Started(kept, MatchOf(kept \ hidden, rows), TRUE)]
  BY DEF Recover
<1>3. PICK hidden \in SUBSET kept :
        pass' = [pass EXCEPT ![p] = Started(kept, MatchOf(kept \ hidden, rows), TRUE)]
  BY <1>0
<1>4. PICK q : q = Started(kept, MatchOf(kept \ hidden, rows), TRUE)
  OBVIOUS
<1>5. New(q, kept, rows) /\ q.stage \in {"idle", "scoring"}
  <2>1. HasOriginals(kept, StoredIn(rows))
    BY <1>2 DEF HasOriginals, Complete
  <2>2. kept \in SUBSET Steps /\ kept \ hidden \in SUBSET kept
    BY <1>2
  <2> QED BY <1>1, <1>4, <2>1, <2>2, StartedNew
<1>6. New(q, ListedSteps, rows)
  BY <1>5 DEF New
<1> QED BY <1>3, <1>4, <1>5, <1>6

\* A pass that has stored its steps has them stored.
LEMMA KnownStored ==
  ASSUME StoredInv, NEW p \in Passes, pass[p].stage = "orphans", StoresOrphans(p)
  PROVE  LET q == Known(pass[p], Fresh(p))
         IN  /\ PassStored(q, StoredIn(rows')) /\ SkipsTold(q, StoredIn(rows'), Excused')
             /\ q.stage = "scoring"
<1>1. pass[p] \in Pass
  BY DEF StoredInv, CaptureTypeOK
<1>2. PICK q : q = Known(pass[p], Fresh(p))
  OBVIOUS
<1>3. q.steps = pass[p].steps /\ q.skips = pass[p].skips /\ q.stage = "scoring" /\ q.todo = {}
  BY <1>1, <1>2 DEF Known, Pass
<1>4. pass[p].steps \ pass[p].todo \subseteq StoredIn(rows) /\ SkipsTold(pass[p], StoredIn(rows), Excused)
  BY DEF StoredInv, PassStored
<1>5. StoredIn(rows') = StoredIn(rows) \cup Fresh(p)
  BY DEF StoresOrphans, Grown
<1>6. PassStored(q, StoredIn(rows'))
  BY <1>3, <1>4, <1>5 DEF PassStored, Fresh
<1>7. Excused' <=> Excused
  BY DEF StoresOrphans, Excused
<1>8. SkipsTold(q, StoredIn(rows'), Excused')
  BY <1>3, <1>4, <1>5, <1>7 DEF SkipsTold
<1> QED BY <1>2, <1>3, <1>6, <1>8

\* When the end of a turn has stored its steps, those of the topic are stored.
LEMMA LiteOver ==
  ASSUME StoredInv, NEW p \in Passes, Lite(p), pass[p].todo \subseteq StoredIn(rows'),
         StoredIn(rows) \subseteq StoredIn(rows'), Complete(StoredIn(rows')), UNCHANGED spent,
         NEW s \in copy.steps
  PROVE  Moment(s) \in StoredIn(rows') \/ Excused'
<1>1. spent.faults \in Nat
  BY DEF StoredInv, CaptureTypeOK
<1>2. CASE Serial /\ spent.faults = 0
  <2>1. \/ Moment(s) \in StoredIn(rows)
        \/ \E r \in Passes : Lite(r) /\ s \in pass[r].todo
    BY <1>2 DEF StoredInv, HeardStored
  <2>2. \A r \in Passes : Lite(r) => r = p
    BY <1>2 DEF StoredInv, HeardStored
  <2> QED BY <2>1, <2>2 DEF Complete
<1> QED BY <1>1, <1>2 DEF Excused

\* The types of what changes when rows stay and one pass does.
LEMMA TypesStay ==
  ASSUME CaptureTypeOK, Kept(rows, rows'), NEW p \in Passes, NEW q \in Pass,
         pass' = [pass EXCEPT ![p] = q], status' \in {"open", "closed"},
         marked' \in BOOLEAN, said' \in 0 .. MaxSteps, listed' \in Seq(DOMAIN rows'),
         copy' \in Copy(Seq(DOMAIN rows')), done' \subseteq Steps, skipped' \subseteq Steps,
         spent' \in [{"reopens", "recoveries", "faults", "crashes"} -> Nat]
  PROVE  CaptureTypeOK'
<1>1. pass' \in [Passes -> Pass] /\ rows' \in Seq(Row)
  BY DEF CaptureTypeOK, Kept
<1> QED BY <1>1 DEF CaptureTypeOK

\* The manager's copy keeps its type while rows stay.
LEMMA CopyStays ==
  ASSUME CaptureTypeOK, Kept(rows, rows')
  PROVE  /\ copy \in Copy(Seq(DOMAIN rows')) /\ listed \in Seq(DOMAIN rows')
         /\ StoredIn(rows) \subseteq StoredIn(rows')
<1>1. rows \in Seq(Row) /\ listed \in Seq(DOMAIN rows) /\ copy \in Copy(Seq(DOMAIN rows))
  BY DEF CaptureTypeOK
<1>2. copy.ids \in Seq(DOMAIN rows)
  BY <1>1 DEF Copy
<1>3. copy.ids \in Seq(DOMAIN rows') /\ listed \in Seq(DOMAIN rows')
      /\ StoredIn(rows) \subseteq StoredIn(rows')
  BY <1>1, <1>2, KeptStored
<1> QED BY <1>1, <1>3 DEF Copy

\* Only the pass that changes may have new needs.
LEMMA OneChanges ==
  ASSUME CaptureTypeOK, NEW p \in Passes, NEW q, pass' = [pass EXCEPT ![p] = q]
  PROVE  /\ pass'[p] = q
         /\ \A r \in Passes : pass'[r] # pass[r] => r = p
         /\ \A r \in Passes : pass'[r] = IF r = p THEN q ELSE pass[r]
BY DEF CaptureTypeOK

LEMMA EndTurnStores ==
  ASSUME StoredInv, NEW p \in Passes, NEW k \in 1 .. 2, EndTurn(p, k)
  PROVE  StoredInv'
<1>1. /\ CaptureTypeOK /\ Complete(StoredIn(rows)) /\ HasOriginals(copy.steps, StoredIn(rows))
      /\ marked \in BOOLEAN /\ done \subseteq Steps /\ skipped \subseteq Steps
      /\ listed \in Seq(DOMAIN rows) /\ copy \in Copy(Seq(DOMAIN rows)) /\ rows \in Seq(Row)
      /\ spent \in [{"reopens", "recoveries", "faults", "crashes"} -> Nat]
  BY DEF StoredInv, CaptureTypeOK
<1>2. PICK now \in SUBSET Steps :
         /\ copy.steps \subseteq now /\ RebuiltOf(now) = RebuiltOf(copy.steps)
         /\ copy' = [copy EXCEPT !.steps = now] /\ said' \in 0 .. MaxSteps
         /\ \E q : pass' = [pass EXCEPT ![p] = q] /\ Ends(q, now)
  BY <1>1, EndTurnBegins
<1>3. PICK q \in Pass : pass' = [pass EXCEPT ![p] = q] /\ Ends(q, now)
  BY <1>2 DEF Ends
<1>4. /\ status' = "open" /\ UNCHANGED <<marked, rows, listed, done, skipped, spent>>
      /\ HostReady
  BY DEF EndTurn
<1>5. Kept(rows, rows') /\ StoredIn(rows') = StoredIn(rows)
  BY <1>1, <1>4, SameRows
<1>6. copy' \in Copy(Seq(DOMAIN rows')) /\ copy'.steps = now
  BY <1>1, <1>2, <1>4 DEF Copy
<1>7. CaptureTypeOK'
  BY <1>1, <1>2, <1>3, <1>4, <1>5, <1>6, TypesStay
<1>8. \A s \in now : s < 0 => s \in copy.steps
  BY <1>2 DEF RebuiltOf
<1>9. HasOriginals(copy'.steps, StoredIn(rows'))
  BY <1>1, <1>5, <1>6, <1>8 DEF HasOriginals
<1>10. PassStored(q, StoredIn(rows')) /\ SkipsTold(q, StoredIn(rows'), Excused')
  <2>1. \A s \in q.todo : ~(s < 0)
    BY <1>3, Signs DEF Ends, Untold
  <2> QED BY <1>3, <2>1 DEF Ends, PassStored, SkipsTold
<1>11. \A r \in Passes : pass'[r] = IF r = p THEN q ELSE pass[r]
  BY <1>1, <1>3, OneChanges
<1>12. ASSUME Serial
       PROVE  /\ \A r, t \in Passes : Lite(r)' /\ Lite(t)' => r = t
              /\ \A s \in copy'.steps : \/ Moment(s) \in StoredIn(rows')
                                        \/ Lite(p)' /\ s \in pass'[p].todo
  <2>1. \A r \in Passes : ~Lite(r)
    BY <1>4, <1>12 DEF HostReady, Lite
  <2>2. \A r \in Passes : Lite(r)' => r = p
    BY <1>11, <2>1 DEF Lite
  <2>3. Lite(p)' /\ pass'[p].todo = Untold(now)
    BY <1>3, <1>11 DEF Lite, Ends
  <2>4. ASSUME NEW s \in now
        PROVE  Moment(s) \in StoredIn(rows') \/ s \in Untold(now)
    <3>1. s > 0 => Moment(s) = s
      BY Moments
    <3>2. s > 0 \/ s < 0
      BY Signs
    <3>3. s < 0 => Moment(s) \in StoredIn(rows')
      BY <1>6, <1>9 DEF HasOriginals
    <3> QED BY <1>5, <3>1, <3>2, <3>3 DEF Untold
  <2> QED BY <1>6, <2>2, <2>3, <2>4
<1>13. HeardStored'
  BY <1>12 DEF HeardStored, Moment, StoredIn, Lite
<1>14. spent.faults <= spent'.faults
  BY <1>1, <1>4
<1> QED BY <1>1, <1>4, <1>5, <1>7, <1>9, <1>10, <1>11, <1>13, <1>14, StoredStays

\* A pass begins over the steps of the topic, or of its list, between turns.
LEMMA BeginsStores ==
  ASSUME StoredInv, NEW p \in Passes, ~Lite(p), CaptureTypeOK',
         UNCHANGED <<rows, copy, done, skipped>>, spent'.faults = spent.faults,
         NEW q, pass' = [pass EXCEPT ![p] = q], NEW steps, New(q, steps, rows),
         \A s \in steps : Moment(s) \in StoredIn(rows) \/ Excused
  PROVE  StoredInv'
<1>1. /\ CaptureTypeOK /\ Complete(StoredIn(rows)) /\ HasOriginals(copy.steps, StoredIn(rows))
      /\ spent.faults \in Nat
  BY DEF StoredInv, CaptureTypeOK
<1>2. Kept(rows, rows') /\ StoredIn(rows') = StoredIn(rows)
  BY <1>1, SameRows
<1>3. Complete(StoredIn(rows')) /\ HasOriginals(copy'.steps, StoredIn(rows'))
  BY <1>1, <1>2
<1>4. PassStored(q, StoredIn(rows')) /\ SkipsTold(q, StoredIn(rows'), Excused') /\ q.stage # "lite"
  <2>1. Excused' <=> Excused
    BY DEF Excused
  <2> QED BY <1>2, <2>1 DEF New, SkipsTold
<1>5. HeardStored'
  <2>1. StoredIn(rows) \subseteq StoredIn(rows') /\ copy'.steps = copy.steps
    BY <1>2
  <2>2. spent.faults <= spent'.faults /\ spent'.faults \in Nat
    BY <1>1
  <2> QED BY <1>3, <1>4, <2>1, <2>2, HeardStays
<1>6. \A r \in Passes : pass'[r] # pass[r] => r = p
  BY <1>1, OneChanges
<1>7. pass'[p] = q
  BY <1>1, OneChanges
<1>8. spent.faults <= spent'.faults
  BY <1>1
<1> QED BY <1>2, <1>3, <1>4, <1>5, <1>6, <1>7, <1>8, StoredStays

\* The topic is adopted: its pass, if it starts one, is over steps with rows.
LEMMA AdoptStores ==
  ASSUME StoredInv, CaptureTypeOK', NEW flag \in BOOLEAN, Adopt(flag),
         UNCHANGED <<rows, done, skipped, spent>>,
         \A p \in Passes : pass'[p] # pass[p] =>
            /\ ~Lite(p)' /\ ~Lite(p)
            /\ PassStored(pass'[p], StoredIn(rows))
            /\ pass'[p].skips \subseteq copy'.steps
  PROVE  StoredInv'
<1>1. /\ CaptureTypeOK /\ Complete(StoredIn(rows)) /\ spent.faults \in Nat
  BY DEF StoredInv, CaptureTypeOK
<1>2. Kept(rows, rows') /\ StoredIn(rows') = StoredIn(rows)
  BY <1>1, SameRows
<1>3. \A s \in copy'.steps : Moment(s) \in StoredIn(rows')
  BY <1>1, <1>2, AdoptCopies
<1>4. Complete(StoredIn(rows')) /\ HasOriginals(copy'.steps, StoredIn(rows'))
  BY <1>1, <1>2, <1>3 DEF HasOriginals
<1>5. \A p \in Passes : pass'[p] # pass[p] =>
         PassStored(pass'[p], StoredIn(rows')) /\ SkipsTold(pass'[p], StoredIn(rows'), Excused')
  BY <1>2, <1>3 DEF SkipsTold
<1>6. \A p \in Passes : Lite(p)' => Lite(p)
  BY DEF Lite
<1>7. HeardStored'
  <2>1. Serial => \A p, q \in Passes : Lite(p)' /\ Lite(q)' => p = q
    BY <1>6 DEF StoredInv, HeardStored
  <2> QED BY <1>3, <2>1 DEF HeardStored, Moment, StoredIn, Lite
<1>8. spent.faults <= spent'.faults
  BY <1>1
<1> QED BY <1>2, <1>4, <1>5, <1>7, <1>8, StoredStays

\* A topic that is adopted and closed at once.
LEMMA ExpiredBegins ==
  ASSUME CaptureTypeOK, Complete(StoredIn(rows)), NEW p \in Passes, HydrateExpired(p)
  PROVE  \E q : /\ pass' = [pass EXCEPT ![p] = q] /\ New(q, copy'.steps, rows)
                /\ q.stage \in {"idle", "scoring"}
<1>1. rows \in Seq(Row)
  BY DEF CaptureTypeOK
<1>2. Adopt(TRUE) /\ Close(p, copy', rows)
  BY DEF HydrateExpired
<1>3. /\ copy' \in Copy(Seq(DOMAIN rows)) /\ copy'.marked = TRUE
      /\ \A s \in copy'.steps : Moment(s) \in StoredIn(rows)
  BY <1>2, AdoptCopies
<1>4. copy'.steps \in SUBSET Steps /\ HasOriginals(copy'.steps, StoredIn(rows))
  BY <1>3 DEF Copy, HasOriginals
<1>5. PICK snapshot : snapshot = copy' /\ Close(p, snapshot, rows)
  BY <1>2
<1>6. \E q : /\ pass' = [pass EXCEPT ![p] = q]
             /\ New(q, snapshot.steps, rows) /\ q.stage # "orphans"
  BY <1>1, <1>3, <1>4, <1>5, CloseBegins
<1> QED BY <1>5, <1>6 DEF New

LEMMA StoredNext == StoredInv /\ [CaptureNext]_captureVars => StoredInv'
<1> SUFFICES ASSUME StoredInv, [CaptureNext]_captureVars PROVE StoredInv'
  OBVIOUS
<1>1. /\ CaptureTypeOK /\ Complete(StoredIn(rows)) /\ HasOriginals(copy.steps, StoredIn(rows))
      /\ status \in {"open", "closed"} /\ marked \in BOOLEAN /\ said \in 0 .. MaxSteps
      /\ rows \in Seq(Row) /\ listed \in Seq(DOMAIN rows) /\ copy \in Copy(Seq(DOMAIN rows))
      /\ pass \in [Passes -> Pass] /\ done \subseteq Steps /\ skipped \subseteq Steps
      /\ spent \in [{"reopens", "recoveries", "faults", "crashes"} -> Nat] /\ spent.faults \in Nat
  BY DEF StoredInv, CaptureTypeOK
<1>2. ASSUME NEW p \in Passes, NEW k \in 1 .. 2, EndTurn(p, k) PROVE StoredInv'
  BY <1>2, EndTurnStores
<1>3. ASSUME NEW p \in Passes, Finalize(p) PROVE StoredInv'
  <2>1. /\ HostReady /\ pass[p] = NoPass /\ Close(p, copy, rows)
        /\ UNCHANGED <<marked, said, rows, listed, copy, done, skipped, spent>>
    BY <1>3 DEF Finalize
  <2>2. Begins(p, copy.steps, rows)
    BY <1>1, <2>1, CloseBegins DEF Copy
  <2>3. PICK q : pass' = [pass EXCEPT ![p] = q] /\ New(q, copy.steps, rows)
    BY <2>2 DEF Begins
  <2>4. CaptureTypeOK'
    <3>1. Kept(rows, rows') /\ q \in Pass /\ status' \in {"open", "closed"}
      BY <1>1, <2>1, <2>2, <2>3, SameRows DEF Begins, New
    <3> QED BY <1>1, <2>1, <2>3, <3>1, TypesStay
  <2>5. ~Lite(p)
    BY <2>1 DEF Lite, NoPass
  <2>6. \A s \in copy.steps : Moment(s) \in StoredIn(rows) \/ Excused
    BY <2>1, HeardAll
  <2> QED BY <2>1, <2>3, <2>4, <2>5, <2>6, BeginsStores
<1>4. ASSUME NEW p \in Passes, Recover(p) PROVE StoredInv'
  <2>1. PICK q : pass' = [pass EXCEPT ![p] = q] /\ New(q, ListedSteps, rows)
    BY <1>1, <1>4, RecoveredNew
  <2>2. /\ status' = "closed" /\ marked' = TRUE /\ pass[p] = NoPass
        /\ Spend("recoveries", MaxRecoveries)
        /\ UNCHANGED <<said, rows, listed, copy, done, skipped>>
    BY <1>4 DEF Recover
  <2>3. spent' \in [{"reopens", "recoveries", "faults", "crashes"} -> Nat]
        /\ spent'.faults = spent.faults
    BY <1>1, <2>2, SpendTyped DEF Spend
  <2>4. CaptureTypeOK'
    <3>1. Kept(rows, rows') /\ q \in Pass
      BY <1>1, <2>1, <2>2, SameRows DEF New
    <3> QED BY <1>1, <2>1, <2>2, <2>3, <3>1, TypesStay
  <2>5. ~Lite(p)
    BY <2>2 DEF Lite, NoPass
  <2>6. \A s \in ListedSteps : Moment(s) \in StoredIn(rows)
    BY <1>1, ListedStored DEF Complete
  <2> QED BY <2>1, <2>2, <2>3, <2>4, <2>5, <2>6, BeginsStores
<1>5. ASSUME NEW p \in Passes, StoreLite(p) PROVE StoredInv'
  <2>1. StoresLite(p) /\ Lite(p)
    BY <1>1, <1>5, StoreLiteStores DEF StoreLite, Lite
  <2>2. /\ Grown(rows, rows', pass[p].todo) /\ Kept(rows, rows')
        /\ StoredIn(rows') = StoredIn(rows) \cup pass[p].todo
    BY <2>1 DEF StoresLite, Grown
  <2>3. PICK q : pass' = [pass EXCEPT ![p] = q] /\ New(q, copy.steps, rows')
    BY <2>1 DEF StoresLite, Begins
  <2>4. /\ status' \in {"open", "closed"} /\ UNCHANGED <<marked, said, done, skipped, spent>>
        /\ copy'.ids \in Seq(DOMAIN rows') /\ listed' \in {listed, copy'.ids}
        /\ copy' = [copy EXCEPT !.ids = copy.ids \o NewIds(pass[p].todo)]
    BY <2>1 DEF StoresLite, Begins
  <2>5. copy' \in Copy(Seq(DOMAIN rows')) /\ copy'.steps = copy.steps
    BY <1>1, <2>4 DEF Copy
  <2>6. listed' \in Seq(DOMAIN rows')
    BY <1>1, <2>2, <2>4, CopyStays
  <2>7. CaptureTypeOK'
    <3>1. q \in Pass
      BY <2>3 DEF New
    <3> QED BY <1>1, <2>2, <2>3, <2>4, <2>5, <2>6, <3>1, TypesStay
  <2>8. Complete(StoredIn(rows'))
    <3>1. pass[p].todo \in SUBSET Steps
      BY <1>1 DEF Pass
    <3>2. HasOriginals(pass[p].todo, StoredIn(rows))
      BY DEF StoredInv, PassStored, HasOriginals
    <3> QED BY <1>1, <2>2, <3>1, <3>2, GrownComplete
  <2>9. HasOriginals(copy'.steps, StoredIn(rows'))
    BY <1>1, <2>2, <2>5 DEF HasOriginals
  <2>10. \A s \in copy.steps : Moment(s) \in StoredIn(rows') \/ Excused'
    BY <2>1, <2>2, <2>4, <2>8, LiteOver
  <2>11. PassStored(q, StoredIn(rows')) /\ SkipsTold(q, StoredIn(rows'), Excused') /\ q.stage # "lite"
    BY <2>3, <2>10 DEF New, SkipsTold
  <2>12. spent.faults <= spent'.faults /\ spent'.faults \in Nat
    BY <1>1, <2>4
  <2>13. HeardStored'
    <3>1. StoredIn(rows) \subseteq StoredIn(rows') /\ pass[p].todo \subseteq StoredIn(rows')
      BY <2>2
    <3> QED BY <2>3, <2>5, <2>8, <2>11, <2>12, <3>1, HeardStays
  <2>14. pass'[p] = q /\ \A r \in Passes : pass'[r] # pass[r] => r = p
    BY <1>1, <2>3, OneChanges
  <2> QED BY <2>2, <2>4, <2>7, <2>8, <2>9, <2>11, <2>12, <2>13, <2>14, StoredStays
<1>6. ASSUME NEW p \in Passes, StoreOrphans(p) PROVE StoredInv'
  <2>0. pass[p].stage = "orphans"
    BY <1>6, Zenon DEF StoreOrphans
  <2>1. StoresOrphans(p) /\ pass[p].stage = "orphans"
    BY <1>1, <1>6, <2>0, StoreOrphansStores
  <2>2. PICK q \in Pass : /\ q = Known(pass[p], Fresh(p))
                          /\ pass' = [pass EXCEPT ![p] = q]
    BY <2>1 DEF StoresOrphans
  <2>3. /\ PassStored(q, StoredIn(rows')) /\ SkipsTold(q, StoredIn(rows'), Excused')
        /\ q.stage = "scoring"
    BY <2>1, <2>2, KnownStored
  <2>4. /\ Grown(rows, rows', Fresh(p)) /\ Kept(rows, rows')
        /\ listed' \in Seq(DOMAIN rows')
        /\ UNCHANGED <<status, marked, said, copy, done, skipped, spent>>
    BY <2>1 DEF StoresOrphans, Grown
  <2>5. copy \in Copy(Seq(DOMAIN rows')) /\ StoredIn(rows) \subseteq StoredIn(rows')
    BY <1>1, <2>4, CopyStays
  <2>6. CaptureTypeOK'
    BY <1>1, <2>2, <2>4, <2>5, TypesStay
  <2>7. Complete(StoredIn(rows'))
    <3>1. Fresh(p) \in SUBSET Steps
      BY <1>1 DEF Pass, Fresh
    <3>2. HasOriginals(Fresh(p), StoredIn(rows))
      BY DEF StoredInv, PassStored, HasOriginals, Fresh
    <3> QED BY <1>1, <2>4, <3>1, <3>2, GrownComplete
  <2>8. HasOriginals(copy'.steps, StoredIn(rows'))
    BY <1>1, <2>4, <2>5 DEF HasOriginals
  <2>9. spent.faults <= spent'.faults /\ spent'.faults \in Nat
    BY <1>1, <2>4
  <2>10. HeardStored'
    <3>1. ~Lite(p) /\ copy'.steps = copy.steps
      BY <2>1, <2>4 DEF Lite
    <3> QED BY <2>2, <2>3, <2>5, <2>7, <2>9, <3>1, HeardStays
  <2>11. pass'[p] = q /\ \A r \in Passes : pass'[r] # pass[r] => r = p
    BY <1>1, <2>2, OneChanges
  <2> QED BY <2>3, <2>4, <2>6, <2>7, <2>8, <2>9, <2>10, <2>11, StoredStays
<1>7. ASSUME NEW p \in Passes, StoreFails(p) PROVE StoredInv'
  <2>1. Fails(p)
    BY <1>1, <1>7, StoreFailsFails
  <2>2. PICK T \in SUBSET pass[p].todo : Grown(rows, rows', T)
    BY <2>1 DEF Fails
  <2>3. PICK q : pass' = [pass EXCEPT ![p] = q] /\ New(q, copy.steps, rows')
    BY <2>1 DEF Fails, Begins
  <2>4. /\ status' \in {"open", "closed"} /\ Spend("faults", MaxFaults) /\ Kept(rows, rows')
        /\ UNCHANGED <<marked, said, listed, copy, done, skipped>>
    BY <2>1, <2>2 DEF Fails, Begins, Grown
  <2>5. /\ copy \in Copy(Seq(DOMAIN rows')) /\ listed \in Seq(DOMAIN rows')
        /\ StoredIn(rows) \subseteq StoredIn(rows')
    BY <1>1, <2>4, CopyStays
  <2>6. /\ spent' \in [{"reopens", "recoveries", "faults", "crashes"} -> Nat]
        /\ spent'.faults \in Nat /\ spent.faults <= spent'.faults /\ spent'.faults > 0
    BY <1>1, <2>4, SpendTyped DEF Spend
  <2>7. CaptureTypeOK'
    <3>1. q \in Pass
      BY <2>3 DEF New
    <3> QED BY <1>1, <2>3, <2>4, <2>5, <2>6, <3>1, TypesStay
  <2>8. Complete(StoredIn(rows'))
    <3>1. T \in SUBSET Steps
      BY <1>1 DEF Pass
    <3>2. HasOriginals(T, StoredIn(rows))
      BY DEF StoredInv, PassStored, HasOriginals
    <3> QED BY <1>1, <2>2, <3>1, <3>2, GrownComplete
  <2>9. HasOriginals(copy'.steps, StoredIn(rows'))
    BY <1>1, <2>4, <2>5 DEF HasOriginals
  <2>10. Excused'
    BY <2>6 DEF Excused
  <2>11. PassStored(q, StoredIn(rows')) /\ SkipsTold(q, StoredIn(rows'), Excused') /\ q.stage # "lite"
    BY <2>3, <2>10 DEF New, SkipsTold
  <2>12. HeardStored'
    <3>1. copy'.steps = copy.steps
      BY <2>4
    <3> QED BY <2>3, <2>5, <2>6, <2>8, <2>11, <3>1, HeardStays
  <2>13. pass'[p] = q /\ \A r \in Passes : pass'[r] # pass[r] => r = p
    BY <1>1, <2>3, OneChanges
  <2> QED BY <2>4, <2>6, <2>7, <2>8, <2>9, <2>11, <2>12, <2>13, StoredStays
<1>8. ASSUME NEW p \in Passes, Reflect(p) PROVE StoredInv'
  <2>1. Reflects(p)
    BY <1>1, <1>8, ReflectReflects
  <2>2. /\ Kept(rows, rows') /\ StoredIn(rows') = StoredIn(rows) /\ DOMAIN rows' = DOMAIN rows
        /\ done' = done \cup pass[p].steps /\ skipped' = skipped \cup pass[p].skips
        /\ pass' = [pass EXCEPT ![p] = NoPass]
        /\ pass[p].stage = "scoring" /\ UNCHANGED <<status, marked, said, listed, copy, spent>>
    BY <2>1 DEF Reflects
  <2>3. /\ pass[p].steps \ pass[p].skips \subseteq StoredIn(rows)
        /\ SkipsTold(pass[p], StoredIn(rows), Excused)
    BY <2>2 DEF StoredInv, PassStored
  <2>4. pass[p].steps \subseteq Steps /\ pass[p].skips \subseteq Steps
    BY <1>1 DEF Pass
  <2>5. /\ NoPass \in Pass /\ PassStored(NoPass, StoredIn(rows'))
        /\ NoPass.skips = {} /\ NoPass.stage = "idle"
    BY NoPassNew DEF New, NoPass
  <2>6. CaptureTypeOK'
    <3>1. copy' \in Copy(Seq(DOMAIN rows')) /\ listed' \in Seq(DOMAIN rows')
      BY <1>1, <2>2
    <3>2. done' \subseteq Steps /\ skipped' \subseteq Steps
      BY <1>1, <2>2, <2>4
    <3> HIDE DEF NoPass
    <3> QED BY <1>1, <2>2, <2>5, <3>1, <3>2, TypesStay
  <2>7. Complete(StoredIn(rows')) /\ HasOriginals(copy'.steps, StoredIn(rows'))
    BY <1>1, <2>2
  <2>8. Excused' <=> Excused
    BY <2>2 DEF Excused
  <2>9. \A s \in done' : s \in done \/ Moment(s) \in StoredIn(rows') \/ (s \in skipped' /\ Excused')
    BY <1>1, <2>2, <2>3, <2>8 DEF Complete, SkipsTold
  <2>10. spent.faults <= spent'.faults /\ spent'.faults \in Nat /\ skipped \subseteq skipped'
    BY <1>1, <2>2
  <2>11. PICK q : q = NoPass
    OBVIOUS
  <2>12. pass' = [pass EXCEPT ![p] = q] /\ q.stage # "lite" /\ ~Lite(p)
         /\ StoredIn(rows) \subseteq StoredIn(rows') /\ copy'.steps = copy.steps
    BY <2>2, <2>5, <2>11 DEF Lite
  <2>13. HeardStored'
    BY <2>7, <2>10, <2>12, HeardStays
  <2>14. pass'[p] = q /\ \A r \in Passes : pass'[r] # pass[r] => r = p
    BY <1>1, <2>12, OneChanges
  <2>15. PassStored(q, StoredIn(rows')) /\ SkipsTold(q, StoredIn(rows'), Excused')
    BY <2>5, <2>11 DEF SkipsTold
  <2> QED BY <2>2, <2>6, <2>7, <2>9, <2>10, <2>13, <2>14, <2>15, StoredStays
<1>9. ASSUME NEW p \in Passes, HydrateExpired(p) PROVE StoredInv'
  <2>1. /\ Adopt(TRUE) /\ pass[p] = NoPass /\ marked' = TRUE /\ status' = "closed"
        /\ UNCHANGED <<said, rows, listed, done, skipped, spent>>
    BY <1>9 DEF HydrateExpired, Close
  <2>2. PICK q : /\ pass' = [pass EXCEPT ![p] = q] /\ New(q, copy'.steps, rows)
                 /\ q.stage \in {"idle", "scoring"}
    BY <1>1, <1>9, ExpiredBegins
  <2>3. copy' \in Copy(Seq(DOMAIN rows))
    BY <1>1, <2>1, AdoptCopies
  <2>4. CaptureTypeOK'
    <3>1. Kept(rows, rows') /\ q \in Pass
      BY <1>1, <2>1, <2>2, SameRows DEF New
    <3> QED BY <1>1, <2>1, <2>2, <2>3, <3>1, TypesStay
  <2>5. pass'[p] = q /\ \A r \in Passes : pass'[r] # pass[r] => r = p
    BY <1>1, <2>2, OneChanges
  <2>6. ~Lite(p)' /\ ~Lite(p)
    BY <2>1, <2>2, <2>5 DEF Lite, NoPass
  <2> QED BY <2>1, <2>2, <2>4, <2>5, <2>6, AdoptStores DEF New
<1>10. CASE Reopen
  <2>1. /\ status' = "open" /\ Spend("reopens", MaxReopens)
        /\ UNCHANGED <<marked, said, rows, listed, copy, pass, done, skipped>>
    BY <1>10 DEF Reopen
  <2>2. spent' \in [{"reopens", "recoveries", "faults", "crashes"} -> Nat]
        /\ spent'.faults = spent.faults
    BY <1>1, <2>1, SpendTyped DEF Spend
  <2>3. CaptureTypeOK'
    BY <1>1, <2>1, <2>2 DEF CaptureTypeOK
  <2> QED BY <2>1, <2>2, <2>3 DEF StoredInv, Excused, HeardStored, Lite, StoredIn, Complete,
                                  HasOriginals, PassStored, SkipsTold
<1>11. CASE Crash
  <2>1. /\ Spend("crashes", MaxCrashes) /\ pass' = [p \in Passes |-> NoPass]
        /\ copy' = NoCopy /\ marked' \in BOOLEAN
        /\ UNCHANGED <<status, said, rows, listed, done, skipped>>
    BY <1>1, <1>11 DEF Crash
  <2>2. spent' \in [{"reopens", "recoveries", "faults", "crashes"} -> Nat]
        /\ spent'.faults = spent.faults
    BY <1>1, <2>1, SpendTyped DEF Spend
  <2>3. /\ NoPass \in Pass /\ PassStored(NoPass, StoredIn(rows)) /\ NoPass.skips = {}
        /\ NoPass.stage = "idle"
    BY NoPassNew DEF New, NoPass
  <2>4. copy' \in Copy(Seq(DOMAIN rows')) /\ copy'.steps = {}
    <3>1. 0 \in 0 .. MaxSteps
      BY StepsFinite
    <3> QED BY <2>1, <3>1 DEF Copy, NoCopy
  <2> HIDE DEF NoPass
  <2>5. pass' \in [Passes -> Pass] /\ \A p \in Passes : pass'[p] = NoPass
    BY <2>1, <2>3
  <2>6. CaptureTypeOK'
    BY <1>1, <2>1, <2>2, <2>4, <2>5 DEF CaptureTypeOK
  <2>7. Kept(rows, rows') /\ StoredIn(rows') = StoredIn(rows)
    BY <1>1, <2>1, SameRows
  <2>8. \A p \in Passes : PassStored(pass'[p], StoredIn(rows'))
                          /\ SkipsTold(pass'[p], StoredIn(rows'), Excused') /\ ~Lite(p)'
    BY <2>3, <2>5, <2>7 DEF SkipsTold, Lite
  <2>9. Complete(StoredIn(rows')) /\ HasOriginals(copy'.steps, StoredIn(rows'))
    BY <1>1, <2>4, <2>7 DEF HasOriginals
  <2>10. HeardStored'
    BY <2>4, <2>8 DEF HeardStored
  <2>11. spent.faults <= spent'.faults /\ skipped' = skipped /\ done' = done
    BY <1>1, <2>1, <2>2
  <2> QED BY <2>6, <2>7, <2>8, <2>9, <2>10, <2>11, StoredStays
<1>12. CASE Hydrate
  <2>1. Adopt(marked) /\ UNCHANGED <<status, marked, said, rows, listed, pass, done, skipped, spent>>
    BY <1>12 DEF Hydrate
  <2>2. copy' \in Copy(Seq(DOMAIN rows))
    BY <1>1, <2>1, AdoptCopies
  <2>3. CaptureTypeOK'
    BY <1>1, <2>1, <2>2 DEF CaptureTypeOK
  <2> QED BY <1>1, <2>1, <2>3, AdoptStores
<1>13. CASE UNCHANGED captureVars
  <2>1. /\ UNCHANGED <<status, marked, said, rows, listed, copy, pass, done, skipped, spent>>
        /\ spent'.faults = spent.faults
    BY <1>13 DEF captureVars
  <2>2. CaptureTypeOK'
    BY <1>1, <2>1 DEF CaptureTypeOK
  <2> QED BY <2>1, <2>2 DEF StoredInv, Excused, HeardStored, Lite, StoredIn, Complete,
                            HasOriginals, PassStored, SkipsTold
<1> QED BY <1>2, <1>3, <1>4, <1>5, <1>6, <1>7, <1>8, <1>9, <1>10, <1>11, <1>12, <1>13
        DEF CaptureNext

\* What capture.done covers is stored, or left out by a replay, whatever fails,
\* overlaps or restarts; with a serial host a replay leaves out what is not stored
\* only after a write has failed.
THEOREM DoneStaysStored == CaptureSpec => []DoneMeansStored
<1>1. StoredInv => DoneMeansStored
  <2> SUFFICES ASSUME StoredInv PROVE DoneMeansStored
    OBVIOUS
  <2>1. CaptureTypeOK /\ Complete(StoredIn(rows)) /\ rows \in Seq(Row) /\ done \subseteq Steps
    BY DEF StoredInv, CaptureTypeOK
  <2>2. \A s \in done : Moment(s) \in MomentsIn(rows) <=> Moment(s) \in StoredIn(rows)
    BY <2>1, MomentStored
  <2> QED BY <2>1, <2>2 DEF StoredInv, DoneMeansStored, Excused
<1> QED BY <1>1, StoredAtFirst, StoredNext, PTL DEF CaptureSpec

-----------------------------------------------------------------------------
(* Steps are kept apart.                                                   *)

LEMMA IdsStored ==
  ASSUME NEW table, NEW ids \in Seq(DOMAIN table)
  PROVE  StepsOf(ids, table) \subseteq StoredIn(table)
BY DEF StepsOf, StoredIn

LEMMA GrownOwn ==
  ASSUME NEW table, NEW later, NEW S, RowsOwn(table), Grown(table, later, S)
  PROVE  RowsOwn(later)
BY DEF RowsOwn, Grown

\* Two lists of different steps make a list of different steps.
LEMMA AppendedDistinct ==
  ASSUME NEW D, NEW ids \in Seq(D), NEW more \in Seq(D), NEW table,
         Distinct(ids, table), Distinct(more, table),
         StepsOf(more, table) \cap StepsOf(ids, table) = {}
  PROVE  Distinct(ids \o more, table)
<1> DEFINE all == ids \o more
           m == Len(ids)
           n == Len(more)
<1>1. /\ m \in Nat /\ n \in Nat /\ DOMAIN ids = 1 .. m /\ DOMAIN more = 1 .. n
      /\ DOMAIN all = 1 .. m + n
      /\ \A i \in 1 .. m : all[i] = ids[i]
      /\ \A i \in 1 .. n : all[m + i] = more[i]
  OBVIOUS
<1> HIDE DEF all, m, n
<1>2. ASSUME NEW i \in DOMAIN all
      PROVE  \/ i \in DOMAIN ids /\ all[i] = ids[i]
             \/ \E j \in DOMAIN more : i = m + j /\ all[i] = more[j]
  <2>1. CASE i \in 1 .. m
    BY <1>1, <2>1
  <2>2. CASE i \notin 1 .. m
    <3>1. i - m \in 1 .. n /\ i = m + (i - m)
      BY <1>1, <2>2
    <3> QED BY <1>1, <3>1
  <2> QED BY <2>1, <2>2
<1>3. \A i \in DOMAIN ids, j \in DOMAIN more : table[ids[i]].step # table[more[j]].step
  BY DEF StepsOf
<1>4. ASSUME NEW i \in DOMAIN all, NEW j \in DOMAIN all, table[all[i]].step = table[all[j]].step
      PROVE  i = j
  <2>1. CASE i \in DOMAIN ids /\ all[i] = ids[i] /\ j \in DOMAIN ids /\ all[j] = ids[j]
    BY <1>4, <2>1 DEF Distinct
  <2>2. CASE i \in DOMAIN ids /\ all[i] = ids[i] /\ \E l \in DOMAIN more : j = m + l /\ all[j] = more[l]
    BY <1>3, <1>4, <2>2
  <2>3. CASE j \in DOMAIN ids /\ all[j] = ids[j] /\ \E k \in DOMAIN more : i = m + k /\ all[i] = more[k]
    BY <1>3, <1>4, <2>3
  <2>4. CASE /\ \E k \in DOMAIN more : i = m + k /\ all[i] = more[k]
             /\ \E l \in DOMAIN more : j = m + l /\ all[j] = more[l]
    BY <1>4, <2>4 DEF Distinct
  <2> QED BY <1>2, <2>1, <2>2, <2>3, <2>4
<1> QED BY <1>4 DEF Distinct, all

\* The end of a turn lists every step once.
LEMMA StoresLiteDistinct ==
  ASSUME CaptureTypeOK, NEW p \in Passes, StoreLite(p), Distinct(copy.ids, rows),
         pass[p].todo \cap StepsOf(copy.ids, rows) = {}
  PROVE  Distinct(copy'.ids, rows')
<1>1. /\ rows \in Seq(Row) /\ copy.ids \in Seq(DOMAIN rows)
      /\ copy \in Copy(Seq(DOMAIN rows))
  BY DEF CaptureTypeOK, Copy
<1>2. PICK S \in SUBSET Steps : S = pass[p].todo
  BY DEF CaptureTypeOK, Pass
<1>3. rows' = rows \o NewRows(S) /\ copy'.ids = copy.ids \o NewIds(S)
  BY <1>1, <1>2 DEF StoreLite, Copy
<1>4. /\ NewIds(S) \in Seq(DOMAIN rows') /\ Len(NewIds(S)) = Cardinality(S)
      /\ \A i \in 1 .. Cardinality(S) : rows'[NewIds(S)[i]].step = InOrder(S)[i]
  BY <1>1, <1>3, NewIdsTyped
<1>5. Lists(InOrder(S), S)
  BY NewRowsStored
<1>6. DOMAIN NewIds(S) = 1 .. Cardinality(S)
  BY <1>4
<1>7. Distinct(NewIds(S), rows')
  BY <1>4, <1>5, <1>6 DEF Distinct, Lists
<1>8. StepsOf(NewIds(S), rows') \subseteq S
  BY <1>4, <1>5, <1>6 DEF StepsOf, Lists
<1>9. Kept(rows, rows')
  BY <1>1, <1>3, NewRowsGrown DEF Grown
<1>10. /\ copy.ids \in Seq(DOMAIN rows') /\ Distinct(copy.ids, rows')
       /\ StepsOf(copy.ids, rows') = StepsOf(copy.ids, rows)
  BY <1>1, <1>9, KeptStored
<1>11. StepsOf(NewIds(S), rows') \cap StepsOf(copy.ids, rows') = {}
  BY <1>2, <1>8, <1>10
<1> QED BY <1>3, <1>4, <1>7, <1>10, <1>11, AppendedDistinct

\* A pass that stored all it missed, or found all of it stored, knows its rows.
LEMMA KnownMatched ==
  ASSUME CaptureTypeOK, NEW p \in Passes, pass[p].stage = "orphans", StoresOrphans(p),
         AllOrNone(pass[p], StoredIn(rows)), Matched(pass[p], rows)
  PROVE  Matched(Known(pass[p], Fresh(p)), rows')
<1>1. rows \in Seq(Row) /\ pass[p] \in Pass
  BY DEF CaptureTypeOK
<1>2. PICK todo \in SUBSET Steps : todo = pass[p].todo
  BY <1>1 DEF Pass
<1>3. PICK fresh \in SUBSET Steps : fresh = pass[p].todo \ StoredIn(rows) /\ fresh = Fresh(p)
  BY <1>2 DEF Fresh
<1>4. Known(pass[p], fresh).steps = pass[p].steps
      /\ \A s \in Steps : Known(pass[p], fresh).match[s]
                            = IF s \in todo THEN Paired(todo, fresh, s) ELSE pass[p].match[s]
  BY <1>1, <1>2 DEF Known, Pass
<1>5. Kept(rows, rows') /\ rows' = rows \o NewRows(fresh)
  BY <1>3 DEF StoresOrphans, Grown
<1>6. ASSUME NEW s \in todo
      PROVE  /\ Place(todo, s) \in 1 .. Cardinality(todo)
             /\ InOrder(todo)[Place(todo, s)] = s
  <2>1. Lists(InOrder(todo), todo)
    BY NewRowsStored
  <2> QED BY <2>1 DEF Lists, Place
<1>7. fresh = {} \/ fresh = todo
  BY <1>2, <1>3 DEF AllOrNone
<1>8. ASSUME NEW s \in todo, Paired(todo, fresh, s) # NoRow
      PROVE  Paired(todo, fresh, s) \in DOMAIN rows' /\ rows'[Paired(todo, fresh, s)].step = s
  <2>1. CASE fresh = {}
    <3>1. Cardinality(fresh) = 0
      BY <2>1, FS_EmptySet
    <3>2. Place(todo, s) \in Nat \ {0}
      BY <1>6
    <3> QED BY <1>8, <3>1, <3>2 DEF Paired
  <2>2. CASE fresh = todo
    <3>1. Place(todo, s) \in 1 .. Cardinality(fresh) /\ Cardinality(fresh) \in Nat
      BY <1>6, <2>2, NewRowsStored
    <3>2. Paired(todo, fresh, s) = Len(rows) + Place(todo, s)
      BY <3>1 DEF Paired
    <3>3. /\ NewRows(fresh) \in Seq(Row) /\ Len(NewRows(fresh)) = Cardinality(fresh)
          /\ \A i \in 1 .. Cardinality(fresh) : NewRows(fresh)[i].step = InOrder(fresh)[i]
      BY NewRowsStored
    <3>4. /\ Len(rows') = Len(rows) + Cardinality(fresh)
          /\ \A i \in 1 .. Cardinality(fresh) : rows'[Len(rows) + i] = NewRows(fresh)[i]
      BY <1>1, <1>5, <3>3, Appended
    <3>5. rows'[Len(rows) + Place(todo, s)].step = s
      BY <1>6, <2>2, <3>1, <3>3, <3>4
    <3>6. rows' \in Seq(Row) /\ Len(rows) \in Nat
      BY <1>1, <1>5 DEF Kept
    <3>7. Len(rows) + Place(todo, s) \in DOMAIN rows'
      <4>1. DOMAIN rows' = 1 .. Len(rows')
        BY <3>6
      <4> QED BY <3>1, <3>4, <3>6, <4>1
    <3> QED BY <3>2, <3>5, <3>7
  <2> QED BY <1>7, <2>1, <2>2
<1>9. \A s \in pass[p].steps : pass[p].match[s] # NoRow =>
        pass[p].match[s] \in DOMAIN rows' /\ rows'[pass[p].match[s]].step = s
  BY <1>5 DEF Matched, Kept
<1>10. pass[p].steps \subseteq Steps
  BY <1>1 DEF Pass
<1>11. Matched(Known(pass[p], fresh), rows')
  BY <1>4, <1>8, <1>9, <1>10 DEF Matched
<1> QED BY <1>3, <1>11

\* Rows stay, so rebuilt steps that are stored stay stored.
LEMMA RebuiltStays ==
  ASSUME CaptureTypeOK, Kept(rows, rows')
  PROVE  /\ StoredRebuilt <=> \E s \in StoredIn(rows) : s < 0
         /\ StoredRebuilt' <=> \E s \in StoredIn(rows') : s < 0
         /\ StoredRebuilt => StoredRebuilt'
         /\ StoredIn(rows) \subseteq StoredIn(rows')
<1>1. rows \in Seq(Row)
  BY DEF CaptureTypeOK
<1>2. StoredIn(rows) \subseteq StoredIn(rows')
  BY <1>1, KeptStored
<1>3. StoredRebuilt <=> \E s \in StoredIn(rows) : s < 0
  BY DEF StoredRebuilt, StoredIn
<1>4. StoredRebuilt' <=> \E s \in StoredIn(rows') : s < 0
  BY DEF StoredRebuilt, StoredIn
<1> QED BY <1>2, <1>3, <1>4

\* Pairing that has become uncertain stays so.
LEMMA PairsStay ==
  ASSUME CaptureTypeOK, Kept(rows, rows'), spent'.faults \in Nat, spent.faults <= spent'.faults
  PROVE  Pairs' => Pairs
<1>1. StoredRebuilt => StoredRebuilt'
  BY RebuiltStays
<1>2. spent.faults \in Nat
  BY DEF CaptureTypeOK
<1> QED BY <1>1, <1>2 DEF Pairs

\* Rows stay, one pass changes, and it knows its rows.
LEMMA RowsStayApart ==
  ASSUME CaptureTypeOK, RowsApart, NEW p \in Passes, Kept(rows, rows'), Pairs' => Pairs,
         NEW q, pass' = [pass EXCEPT ![p] = q],
         Pairs' => RowsOwn(rows') /\ Matched(q, rows'),
         Distinct(listed', rows'), Distinct(copy'.ids, rows')
  PROVE  RowsApart'
<1>1. pass \in [Passes -> Pass] /\ rows \in Seq(Row)
  BY DEF CaptureTypeOK
<1>2. Pairs' => \A r \in Passes : Matched(pass[r], rows')
  BY <1>1, KeptStored DEF RowsApart
<1>3. ASSUME Pairs', NEW r \in Passes
      PROVE  Matched(pass'[r], rows')
  <2>1. pass'[r] = IF r = p THEN q ELSE pass[r]
    BY <1>1
  <2> QED BY <1>2, <1>3, <2>1
<1> QED BY <1>3 DEF RowsApart

\* The lists stay.
LEMMA ListsStayApart ==
  ASSUME CaptureTypeOK, RowsApart, Kept(rows, rows')
  PROVE  /\ Distinct(listed, rows') /\ Distinct(copy.ids, rows')
         /\ StepsOf(copy.ids, rows') = StepsOf(copy.ids, rows)
<1>1. rows \in Seq(Row) /\ listed \in Seq(DOMAIN rows) /\ copy.ids \in Seq(DOMAIN rows)
  BY DEF CaptureTypeOK, Copy
<1> QED BY <1>1, KeptStored DEF RowsApart

\* One pass changes, and does not become the end of a turn.
LEMMA TurnsStay ==
  ASSUME CaptureTypeOK, TurnsEnd, NEW p \in Passes, NEW q, pass' = [pass EXCEPT ![p] = q],
         q.stage # "lite", q.stage = "orphans" => copy.live,
         copy'.live = copy.live, copy'.steps = copy.steps,
         StoredIn(rows) \subseteq StoredIn(rows'),
         \A r \in Passes \ {p} : Lite(r) => StepsOf(copy'.ids, rows') = StepsOf(copy.ids, rows)
  PROVE  TurnsEnd'
<1>1. pass \in [Passes -> Pass]
  BY DEF CaptureTypeOK
<1>2. ASSUME NEW r \in Passes
      PROVE  /\ Lite(r)' => r # p /\ Lite(r) /\ pass'[r] = pass[r]
             /\ Orphans(r)' => Orphans(r) \/ copy.live
  BY <1>1 DEF Lite, Orphans
<1>3. ASSUME NEW r \in Passes, Lite(r)'
      PROVE  /\ \A s \in copy'.steps : s > 0 => s \in StoredIn(rows') \cup pass'[r].todo
             /\ \A s \in pass'[r].todo : s > 0
             /\ pass'[r].todo \cap StepsOf(copy'.ids, rows') = {}
  BY <1>2, <1>3 DEF TurnsEnd
<1> QED BY <1>2, <1>3 DEF TurnsEnd

\* The end of a turn takes on whatever is missing.
LEMMA EndTurnMisses ==
  ASSUME CaptureTypeOK, Missing, NoLite, NEW p \in Passes, NEW now \in SUBSET Steps, NEW q,
         pass' = [pass EXCEPT ![p] = q], Ends(q, now),
         copy.steps \subseteq now, RebuiltOf(now) = RebuiltOf(copy.steps), copy'.steps = now,
         UNCHANGED <<rows, spent>>
  PROVE  Missing'
<1>1. \A r \in Passes : pass'[r] = IF r = p THEN q ELSE pass[r]
  BY OneChanges
<1>2. ASSUME NEW r \in Passes
      PROVE  /\ Orphans(r)' => Orphans(r) /\ pass'[r] = pass[r]
             /\ Misses(r)' => Misses(r) /\ pass'[r] = pass[r]
             /\ Lite(r)' => pass'[r].todo = Untold(now)
  BY <1>1 DEF Orphans, Lite, Misses, NoLite, Ends
<1>3. Lite(p)'
  BY <1>1 DEF Lite, Ends
<1>4. ~NoLite' /\ StoredIn(rows') = StoredIn(rows) /\ spent'.faults = spent.faults
      /\ (StoredRebuilt' <=> StoredRebuilt) /\ RebuiltOf(copy'.steps) = RebuiltOf(copy.steps)
  BY <1>3 DEF NoLite, StoredRebuilt
<1>5. Clean'
  BY <1>2, <1>4 DEF Clean, Missing
<1>6. ASSUME spent.faults > 0, ~StoredRebuilt, RebuiltOf(copy.steps) = {}
      PROVE  \A r, t \in Passes : Misses(r)' /\ Lite(t)' => pass'[r].todo \subseteq pass'[t].todo
  <2>1. \A r \in Passes : Misses(r) => pass[r].todo = copy.steps \ StoredIn(rows)
    BY <1>6 DEF Missing, Plain
  <2>2. \A s \in copy.steps : s > 0
    BY <1>6, Signs DEF RebuiltOf
  <2>3. copy.steps \ StoredIn(rows) \subseteq Untold(now)
    BY <2>2 DEF Untold
  <2> QED BY <1>2, <2>1, <2>3
<1>7. Plain'
  BY <1>2, <1>4, <1>6 DEF Plain, Missing
<1>8. Mixed'
  BY <1>2, <1>4 DEF Mixed, Missing
<1> QED BY <1>5, <1>7, <1>8 DEF Missing

\* A pass over the topic as it is misses what the others miss, between turns.
LEMMA CloseMisses ==
  ASSUME StoredInv, Serial, HostReady, Missing, NoLite, NEW p \in Passes,
         NEW q, New(q, copy.steps, rows), pass' = [pass EXCEPT ![p] = q],
         UNCHANGED <<rows, copy, spent>>
  PROVE  Missing'
<1>1. CaptureTypeOK /\ copy.steps \subseteq Steps /\ spent.faults \in Nat /\ Kept(rows, rows')
  BY SameRows DEF StoredInv, CaptureTypeOK, Copy
<1>2. \A r \in Passes : pass'[r] = IF r = p THEN q ELSE pass[r]
  BY <1>1, OneChanges
<1>3. /\ q.stage # "lite"
      /\ q.stage = "orphans" => q.todo = copy.steps \ StoredIn(rows) /\ q.todo # {}
  BY DEF New
<1>4. ASSUME NEW r \in Passes
      PROVE  /\ ~Lite(r)'
             /\ Orphans(r)' => \/ Orphans(r) /\ pass'[r] = pass[r]
                               \/ pass'[r].todo = copy.steps \ StoredIn(rows) /\ pass'[r].todo # {}
             /\ Misses(r)' => \/ Misses(r) /\ pass'[r] = pass[r]
                              \/ pass'[r].todo = copy.steps \ StoredIn(rows) /\ pass'[r].todo # {}
  BY <1>2, <1>3 DEF Orphans, Lite, Misses, NoLite
<1>5. StoredIn(rows') = StoredIn(rows) /\ (StoredRebuilt' <=> StoredRebuilt)
      /\ spent'.faults = spent.faults /\ copy' = copy
  BY DEF StoredRebuilt
<1>6. spent.faults = 0 => copy.steps \ StoredIn(rows) = RebuiltOf(copy.steps) \ StoredIn(rows)
  <2> SUFFICES ASSUME spent.faults = 0, NEW s \in copy.steps, s > 0 PROVE s \in StoredIn(rows)
    BY <1>1, Signs DEF RebuiltOf
  <2>1. Moment(s) \in StoredIn(rows) \/ Excused
    BY HeardAll
  <2>2. Moment(s) = s
    BY <1>1, Moments
  <2> QED BY <2>1, <2>2 DEF Excused
<1>7. Clean'
  BY <1>4, <1>5, <1>6 DEF Clean, Missing, AllOrNone, RebuiltOf
<1>8. ASSUME spent.faults > 0, ~StoredRebuilt, RebuiltOf(copy.steps) = {}
      PROVE  /\ \A r \in Passes : Misses(r)' => pass'[r].todo = copy.steps \ StoredIn(rows)
             /\ \A r \in Passes : Orphans(r)' => AllOrNone(pass'[r], StoredIn(rows))
  BY <1>4, <1>8 DEF Missing, Plain, AllOrNone
<1>9. Plain'
  BY <1>4, <1>5, <1>8 DEF Plain
<1>10. ASSUME ~StoredRebuilt, RebuiltOf(copy.steps) # {}
       PROVE  \E s \in copy.steps \ StoredIn(rows) : s < 0
  BY <1>1, <1>10, RebuiltStays DEF RebuiltOf
<1>11. Mixed'
  BY <1>4, <1>5, <1>10 DEF Mixed, Missing
<1> QED BY <1>7, <1>9, <1>11 DEF Missing

\* One pass is over or changes, no rows are new to those that miss some, and it
\* is neither the end of a turn nor about to store.
LEMMA OthersMiss ==
  ASSUME CaptureTypeOK, Missing, NEW p \in Passes, ~Lite(p), Kept(rows, rows'),
         NEW q, pass' = [pass EXCEPT ![p] = q], q.stage \notin {"lite", "orphans"},
         \/ StoredIn(rows') = StoredIn(rows)
         \/ Misses(p) /\ StoredIn(rows') = StoredIn(rows) \cup pass[p].todo,
         UNCHANGED copy, spent'.faults = spent.faults
  PROVE  Missing'
<1>1. \A r \in Passes : pass'[r] = IF r = p THEN q ELSE pass[r]
  BY OneChanges
<1>2. ASSUME NEW r \in Passes
      PROVE  /\ Lite(r)' <=> Lite(r)
             /\ Lite(r) => pass'[r] = pass[r]
             /\ Orphans(r)' => Orphans(r) /\ pass'[r] = pass[r]
  BY <1>1 DEF Orphans, Lite
<1>3. NoLite' <=> NoLite
  BY <1>2 DEF NoLite
<1>4. StoredIn(rows) \subseteq StoredIn(rows') /\ (~StoredRebuilt' => ~StoredRebuilt)
  BY RebuiltStays
\* Where those that miss some miss the same, nothing changes for who still does.
<1>5. ASSUME \A r, t \in Passes : Misses(r) /\ Misses(t) => pass[r].todo = pass[t].todo,
             \A r \in Passes : Orphans(r) => AllOrNone(pass[r], StoredIn(rows))
      PROVE  /\ \A r \in Passes : Misses(r)' =>
                  Misses(r) /\ pass'[r] = pass[r] /\ StoredIn(rows') = StoredIn(rows)
             /\ \A r \in Passes : Orphans(r)' => AllOrNone(pass'[r], StoredIn(rows'))
  <2>1. ASSUME NEW r \in Passes, Misses(r)'
        PROVE  Misses(r) /\ pass'[r] = pass[r] /\ StoredIn(rows') = StoredIn(rows)
    <3>1. Orphans(r) /\ pass'[r] = pass[r] /\ ~(pass[r].todo \subseteq StoredIn(rows'))
      BY <1>2, <2>1 DEF Misses
    <3>2. Misses(r)
      BY <1>4, <3>1 DEF Misses
    <3>3. Misses(p) => pass[r].todo = pass[p].todo
      BY <1>5, <3>2
    <3> QED BY <3>1, <3>2, <3>3
  <2>2. ASSUME NEW r \in Passes, Orphans(r)'
        PROVE  AllOrNone(pass'[r], StoredIn(rows'))
    <3>1. Orphans(r) /\ pass'[r] = pass[r] /\ AllOrNone(pass[r], StoredIn(rows))
      BY <1>2, <1>5, <2>2
    <3>2. CASE Misses(r)
      <4>1. Misses(p) => pass[r].todo = pass[p].todo
        BY <1>5, <3>2
      <4> QED BY <3>1, <4>1 DEF AllOrNone
    <3>3. CASE ~Misses(r)
      BY <1>4, <3>1, <3>3 DEF Misses, AllOrNone
    <3> QED BY <3>2, <3>3
  <2> QED BY <2>1, <2>2
<1>6. Clean'
  <2> SUFFICES ASSUME spent.faults = 0 PROVE Clean'
    BY DEF Clean
  <2>1. /\ \A r, t \in Passes : Misses(r) /\ Misses(t) => pass[r].todo = pass[t].todo
        /\ \A r \in Passes : Orphans(r) => AllOrNone(pass[r], StoredIn(rows))
    BY DEF Missing, Clean, Misses
  <2> QED BY <1>2, <1>5, <2>1 DEF Missing, Clean
<1>7. Plain'
  <2> SUFFICES ASSUME spent.faults > 0, ~StoredRebuilt', RebuiltOf(copy.steps) = {} PROVE Plain'
    BY DEF Plain
  <2>1. /\ \A r, t \in Passes : Misses(r) /\ Misses(t) => pass[r].todo = pass[t].todo
        /\ \A r \in Passes : Orphans(r) => AllOrNone(pass[r], StoredIn(rows))
        /\ \A r, t \in Passes : Misses(r) /\ Lite(t) => pass[r].todo \subseteq pass[t].todo
        /\ \A r \in Passes : Misses(r) /\ NoLite => pass[r].todo = copy.steps \ StoredIn(rows)
    BY <1>4 DEF Missing, Plain
  <2>2. \A r, t \in Passes : Misses(r)' /\ Lite(t)' => pass'[r].todo \subseteq pass'[t].todo
    BY <1>2, <1>5, <2>1
  <2>3. \A r \in Passes : Misses(r)' /\ NoLite' => pass'[r].todo = copy.steps \ StoredIn(rows')
    BY <1>3, <1>5, <2>1
  <2>4. \A r, t \in Passes : Misses(r)' /\ Misses(t)' => pass'[r].todo = pass'[t].todo
    BY <1>5, <2>1
  <2> QED BY <1>5, <2>1, <2>2, <2>3, <2>4 DEF Plain
<1>8. Mixed'
  BY <1>2, <1>4 DEF Mixed, Missing
<1> QED BY <1>6, <1>7, <1>8 DEF Missing

\* The end of a turn stores what was said, and only rebuilt steps are missing.
LEMMA StoresLiteMisses ==
  ASSUME CaptureTypeOK, TurnsEnd, Missing, NEW p \in Passes, Lite(p), StoresLite(p)
  PROVE  Missing'
<1>1. pass[p] \in Pass /\ copy \in Copy(Seq(DOMAIN rows)) /\ copy.steps \subseteq Steps
  BY DEF CaptureTypeOK, Copy
<1>2. /\ Kept(rows, rows') /\ StoredIn(rows') = StoredIn(rows) \cup pass[p].todo
      /\ copy'.steps = copy.steps /\ spent' = spent
  BY <1>1 DEF StoresLite, Grown, Copy
<1>3. \A s \in pass[p].todo : s > 0 /\ ~(s < 0)
  BY <1>1, Signs DEF TurnsEnd, Pass
<1>4. copy.steps \ StoredIn(rows') = RebuiltOf(copy.steps) \ StoredIn(rows)
  <2>1. \A s \in copy.steps : s > 0 => s \in StoredIn(rows')
    BY <1>2 DEF TurnsEnd
  <2>2. copy.steps \ StoredIn(rows') = RebuiltOf(copy.steps) \ StoredIn(rows')
    BY <1>1, <2>1, Signs DEF RebuiltOf
  <2> QED BY <1>2, <1>3, <2>2 DEF RebuiltOf
<1>5. PICK q : pass' = [pass EXCEPT ![p] = q] /\ New(q, copy.steps, rows')
  BY DEF StoresLite, Begins
<1>6. /\ q.stage # "lite"
      /\ q.stage = "orphans" =>
           q.todo = RebuiltOf(copy.steps) \ StoredIn(rows) /\ q.todo # {}
  BY <1>4, <1>5 DEF New
<1>7. \A r \in Passes : pass'[r] = IF r = p THEN q ELSE pass[r]
  BY <1>5, OneChanges
<1>8. StoredRebuilt' <=> StoredRebuilt
  BY <1>2, <1>3, RebuiltStays
<1>9. ASSUME NEW r \in Passes, Orphans(r)'
      PROVE  \/ r # p /\ Orphans(r) /\ pass'[r] = pass[r]
             \/ /\ pass'[r].todo = RebuiltOf(copy.steps) \ StoredIn(rows)
                /\ pass'[r].todo # {}
  BY <1>6, <1>7, <1>9 DEF Orphans
<1>10. Clean'
  <2> SUFFICES ASSUME spent.faults = 0, NEW r \in Passes, Orphans(r)'
               PROVE  /\ pass'[r].todo # {} /\ \A s \in pass'[r].todo : s < 0
                      /\ AllOrNone(pass'[r], StoredIn(rows'))
                      /\ Misses(r)' => pass'[r].todo = RebuiltOf(copy.steps) \ StoredIn(rows')
    BY <1>2 DEF Clean
  <2>1. RebuiltOf(copy.steps) \ StoredIn(rows') = RebuiltOf(copy.steps) \ StoredIn(rows)
    BY <1>2, <1>3 DEF RebuiltOf
  <2>2. CASE Orphans(r) /\ pass'[r] = pass[r]
    <3>1. /\ pass[r].todo # {} /\ \A s \in pass[r].todo : s < 0
          /\ AllOrNone(pass[r], StoredIn(rows))
          /\ Misses(r) => pass[r].todo = RebuiltOf(copy.steps) \ StoredIn(rows)
      BY <2>2 DEF Missing, Clean
    <3>2. Misses(r)' => Misses(r)
      BY <1>2, <2>2 DEF Misses
    <3>3. AllOrNone(pass[r], StoredIn(rows'))
      BY <1>2, <1>3, <3>1 DEF AllOrNone
    <3> QED BY <2>1, <2>2, <3>1, <3>2, <3>3
  <2>3. CASE /\ pass'[r].todo = RebuiltOf(copy.steps) \ StoredIn(rows)
             /\ pass'[r].todo # {}
    BY <2>1, <2>3 DEF AllOrNone, RebuiltOf
  <2> QED BY <1>9, <2>2, <2>3
<1>11. Plain'
  <2> SUFFICES ASSUME spent.faults > 0, ~StoredRebuilt, RebuiltOf(copy.steps) = {} PROVE Plain'
    BY <1>2, <1>8 DEF Plain
  <2>1. ASSUME NEW r \in Passes, Orphans(r)'
        PROVE  pass'[r].todo \subseteq StoredIn(rows')
    <3>1. Orphans(r) /\ pass'[r] = pass[r]
      BY <1>9, <2>1
    <3>2. Misses(r) => pass[r].todo \subseteq pass[p].todo
      BY DEF Missing, Plain
    <3> QED BY <1>2, <3>1, <3>2 DEF Misses
  <2> QED BY <2>1 DEF Plain, AllOrNone, Misses
<1>12. Mixed'
  <2> SUFFICES ASSUME spent.faults > 0, ~StoredRebuilt, RebuiltOf(copy.steps) # {},
                      NEW r \in Passes, Orphans(r)'
               PROVE  \E s \in pass'[r].todo : s < 0
    BY <1>2, <1>8 DEF Mixed
  <2> QED BY <1>9 DEF Missing, Mixed, RebuiltOf
<1> QED BY <1>10, <1>11, <1>12 DEF Missing

\* The one fault: until then rebuilt steps are missing or nothing is, and the pass
\* that may start misses all there is to miss.
LEMMA FailsMisses ==
  ASSUME CaptureTypeOK, MaxFaults <= 1, TurnsEnd, Missing, NEW p \in Passes, Fails(p)
  PROVE  Missing' /\ copy.live /\ \A r \in Passes \ {p} : ~Lite(r)' \/ Lite(r)
<1>1. /\ spent.faults \in Nat /\ MaxFaults \in Nat /\ copy.steps \subseteq Steps
      /\ spent \in [{"reopens", "recoveries", "faults", "crashes"} -> Nat]
  BY CaptureAssumption DEF CaptureTypeOK, Copy
<1>2. spent.faults < MaxFaults /\ spent'.faults = spent.faults + 1
  BY <1>1 DEF Fails, Spend
<1>3. spent.faults = 0 /\ spent'.faults # 0
  BY <1>1, <1>2
<1>4. PICK q : pass' = [pass EXCEPT ![p] = q] /\ New(q, copy.steps, rows')
  BY DEF Fails, Begins
<1>5. /\ q.stage # "lite"
      /\ q.stage = "orphans" => q.todo = copy.steps \ StoredIn(rows') /\ q.todo # {}
  BY <1>4 DEF New
<1>6. \A r \in Passes : pass'[r] = IF r = p THEN q ELSE pass[r]
  BY <1>4, OneChanges
<1>7. copy' = copy /\ copy.live
  BY DEF Fails, TurnsEnd, Lite, Orphans
<1>8. Kept(rows, rows')
  BY DEF Fails, Grown
<1>9. ASSUME NEW r \in Passes, Orphans(r)'
      PROVE  \/ r # p /\ Orphans(r) /\ pass'[r] = pass[r]
             \/ pass'[r].todo = copy.steps \ StoredIn(rows') /\ pass'[r].todo # {}
  BY <1>5, <1>6, <1>9 DEF Orphans
<1>10. \A r \in Passes : Orphans(r) =>
         /\ pass[r].todo # {} /\ \A s \in pass[r].todo : s < 0
         /\ Misses(r) => pass[r].todo \subseteq RebuiltOf(copy.steps)
  BY <1>3 DEF Missing, Clean
<1>11. Plain'
  <2> SUFFICES ASSUME ~StoredRebuilt', RebuiltOf(copy.steps) = {} PROVE Plain'
    BY <1>7 DEF Plain
  <2>0. RebuiltOf(copy.steps) = {} /\ ~StoredRebuilt
    BY <1>8, RebuiltStays
  <2>1. \A s \in StoredIn(rows) : ~(s < 0)
    BY <1>8, <2>0, RebuiltStays
  <2>2. ASSUME NEW r \in Passes PROVE ~Orphans(r)
    <3> SUFFICES ASSUME Orphans(r) PROVE FALSE
      OBVIOUS
    <3>1. PICK s \in pass[r].todo : s < 0
      BY <1>10
    <3>2. s \notin StoredIn(rows)
      BY <2>1, <3>1
    <3>3. Misses(r)
      BY <3>2 DEF Misses
    <3>4. pass[r].todo \subseteq RebuiltOf(copy.steps)
      BY <1>10, <3>3
    <3> QED BY <2>0, <3>4
  <2>3. Lite(p)
    BY <2>2 DEF Fails, Lite, Orphans
  <2>4. \A r \in Passes : ~Lite(r)'
    BY <1>5, <1>6, <2>3 DEF TurnsEnd, Lite
  <2>5. \A r \in Passes : Orphans(r)' => pass'[r].todo = copy.steps \ StoredIn(rows')
    BY <1>9, <2>2
  <2> QED BY <1>7, <2>4, <2>5 DEF Plain, AllOrNone, Misses
<1>12. Mixed'
  <2> SUFFICES ASSUME ~StoredRebuilt', RebuiltOf(copy.steps) # {}, NEW r \in Passes, Orphans(r)'
               PROVE  \E s \in pass'[r].todo : s < 0
    BY <1>7 DEF Mixed
  <2>1. \E s \in copy.steps \ StoredIn(rows') : s < 0
    <3>1. PICK s \in copy.steps : s < 0
      BY DEF RebuiltOf
    <3>2. s \notin StoredIn(rows')
      BY <1>8, <3>1, RebuiltStays
    <3> QED BY <3>1, <3>2
  <2> QED BY <1>9, <1>10, <2>1
<1>13. Clean'
  BY <1>3 DEF Clean
<1>14. \A r \in Passes \ {p} : ~Lite(r)' \/ Lite(r)
  BY <1>6 DEF Lite
<1> QED BY <1>7, <1>11, <1>12, <1>13, <1>14 DEF Missing

\* All of what a pass is about to store is missing, or none, while rows are paired
\* for certain when it has stored it.
LEMMA StoresAllOrNone ==
  ASSUME CaptureTypeOK, Missing, NEW p \in Passes, Orphans(p), StoresOrphans(p), Pairs'
  PROVE  AllOrNone(pass[p], StoredIn(rows))
<1>1. /\ Kept(rows, rows') /\ StoredIn(rows') = StoredIn(rows) \cup pass[p].todo
      /\ spent'.faults = spent.faults /\ spent.faults \in Nat
  BY DEF StoresOrphans, Grown, Fresh, CaptureTypeOK
<1>2. CASE spent.faults = 0
  BY <1>2 DEF Missing, Clean
<1>3. CASE spent.faults > 0
  <2>1. ~StoredRebuilt' /\ ~StoredRebuilt
    BY <1>1, <1>3, RebuiltStays DEF Pairs
  <2>2. CASE RebuiltOf(copy.steps) = {}
    BY <1>3, <2>1, <2>2 DEF Missing, Plain
  <2>3. CASE RebuiltOf(copy.steps) # {}
    <3>1. PICK s \in pass[p].todo : s < 0
      BY <1>3, <2>1, <2>3 DEF Missing, Mixed
    <3>2. StoredRebuilt'
      BY <1>1, <3>1, RebuiltStays
    <3> QED BY <2>1, <3>2
  <2> QED BY <2>2, <2>3
<1> QED BY <1>1, <1>2, <1>3

\* The topic is adopted by a process that has no pass that stores.
LEMMA AdoptApart ==
  ASSUME CaptureTypeOK, Complete(StoredIn(rows)), RowsApart, TurnsEnd, ~copy.live,
         NEW flag \in BOOLEAN, Adopt(flag), UNCHANGED <<rows, listed, spent>>,
         \A p \in Passes : pass'[p] # pass[p] =>
            pass'[p].stage \in {"idle", "scoring"} /\ Matched(pass'[p], rows)
  PROVE  RowsApart' /\ TurnsEnd' /\ Missing'
<1>1. copy'.live /\ copy'.ids = listed
  BY AdoptCopies
<1>2. \A p \in Passes : ~Lite(p)' /\ ~Orphans(p)'
  BY DEF TurnsEnd, Lite, Orphans
<1>3. Pairs' <=> Pairs
  BY DEF Pairs, StoredRebuilt
<1>4. RowsApart'
  <2>1. ASSUME Pairs', NEW p \in Passes
        PROVE  Matched(pass'[p], rows')
    BY <1>3, <2>1 DEF RowsApart
  <2> QED BY <1>1, <1>3, <2>1 DEF RowsApart
<1>5. TurnsEnd'
  BY <1>1, <1>2 DEF TurnsEnd
<1>6. Missing'
  BY <1>2 DEF Missing, Clean, Plain, Mixed, Misses
<1> QED BY <1>4, <1>5, <1>6

LEMMA ApartAtFirst == CaptureInit => ApartInv
<1> SUFFICES ASSUME CaptureInit PROVE ApartInv
  OBVIOUS
<1>1. StoredInv
  BY StoredAtFirst
<1>2. /\ rows = <<>> /\ listed = <<>> /\ spent.faults = 0
      /\ copy = [live |-> TRUE, marked |-> FALSE, since |-> 0, steps |-> {}, ids |-> <<>>]
  BY DEF CaptureInit, NoCopy
<1>3. \A p \in Passes : pass[p].stage = "idle"
  BY DEF CaptureInit, NoPass
<1>4. RowsApart
  BY <1>2, <1>3 DEF RowsApart, RowsOwn, Matched, Distinct
<1>5. TurnsEnd
  BY <1>2, <1>3 DEF TurnsEnd, Lite, Orphans
<1>6. Missing
  BY <1>2, <1>3 DEF Missing, Clean, Plain, Mixed, Misses, Lite, Orphans
<1> QED BY <1>1, <1>4, <1>5, <1>6 DEF ApartInv

LEMMA ApartNext ==
  Serial /\ MaxFaults <= 1 /\ ApartInv /\ [CaptureNext]_captureVars => ApartInv'
<1> SUFFICES ASSUME Serial, MaxFaults <= 1, ApartInv, [CaptureNext]_captureVars PROVE ApartInv'
  OBVIOUS
<1>1. /\ StoredInv /\ RowsApart /\ TurnsEnd /\ Missing /\ CaptureTypeOK /\ StoredInv'
      /\ rows \in Seq(Row) /\ listed \in Seq(DOMAIN rows) /\ copy.ids \in Seq(DOMAIN rows)
      /\ copy \in Copy(Seq(DOMAIN rows)) /\ marked \in BOOLEAN
      /\ pass \in [Passes -> Pass] /\ spent.faults \in Nat
      /\ Complete(StoredIn(rows)) /\ HasOriginals(copy.steps, StoredIn(rows))
  BY StoredNext DEF ApartInv, StoredInv, CaptureTypeOK, Copy
<1>2. HostReady => NoLite
  BY DEF HostReady, NoLite, Lite
<1>3. SUFFICES RowsApart' /\ TurnsEnd' /\ Missing'
  BY <1>1 DEF ApartInv
<1>4. ASSUME NEW p \in Passes, NEW k \in 1 .. 2, EndTurn(p, k)
      PROVE  RowsApart' /\ TurnsEnd' /\ Missing'
  <2>1. PICK now \in SUBSET Steps :
           /\ copy.steps \subseteq now /\ RebuiltOf(now) = RebuiltOf(copy.steps)
           /\ copy' = [copy EXCEPT !.steps = now]
           /\ \E q : pass' = [pass EXCEPT ![p] = q] /\ Ends(q, now)
    BY <1>1, <1>4, EndTurnBegins
  <2>2. PICK q : pass' = [pass EXCEPT ![p] = q] /\ Ends(q, now)
    BY <2>1
  <2>3. /\ NoLite /\ copy.live
        /\ UNCHANGED <<rows, listed, spent>>
    BY <1>2, <1>4 DEF EndTurn
  <2>4. copy'.ids = copy.ids /\ copy'.steps = now /\ copy'.live
    BY <1>1, <2>1, <2>3 DEF Copy
  <2>5. Kept(rows, rows') /\ Matched(q, rows')
    BY <1>1, <2>2, <2>3, SameRows DEF Matched, Ends
  <2>6. RowsApart'
    <3>1. /\ Pairs' => Pairs
          /\ Pairs' => RowsOwn(rows')
          /\ Distinct(listed', rows') /\ Distinct(copy'.ids, rows')
      BY <1>1, <2>3, <2>4 DEF RowsApart, Pairs, StoredRebuilt
    <3> QED BY <1>1, <2>2, <2>5, <3>1, RowsStayApart
  <2>7. Missing'
    BY <1>1, <2>1, <2>2, <2>3, <2>4, EndTurnMisses
  <2>8. \A r \in Passes : pass'[r] = IF r = p THEN q ELSE pass[r]
    BY <1>1, <2>2, OneChanges
  <2>9. ASSUME NEW r \in Passes
        PROVE  Lite(r)' => r = p /\ pass'[r].todo = Untold(now)
    BY <2>2, <2>3, <2>8 DEF Lite, NoLite, Ends
  <2>10. StepsOf(copy'.ids, rows') \subseteq StoredIn(rows)
    BY <1>1, <2>3, <2>4, IdsStored
  <2>11. TurnsEnd'
    BY <2>3, <2>4, <2>9, <2>10 DEF TurnsEnd, Untold
  <2> QED BY <2>6, <2>7, <2>11
<1>5. ASSUME NEW p \in Passes, Finalize(p)
      PROVE  RowsApart' /\ TurnsEnd' /\ Missing'
  <2>1. /\ Close(p, copy, rows) /\ HostReady /\ NoLite /\ copy.live
        /\ UNCHANGED <<rows, listed, copy, spent>>
    BY <1>2, <1>5 DEF Finalize
  <2>2. PICK q : pass' = [pass EXCEPT ![p] = q] /\ New(q, copy.steps, rows)
    BY <1>1, <2>1, CloseBegins DEF Begins, Copy
  <2>3. Kept(rows, rows') /\ Matched(q, rows') /\ q.stage # "lite"
    BY <1>1, <2>1, <2>2, SameRows DEF New
  <2>4. /\ Pairs' => Pairs
        /\ Pairs' => RowsOwn(rows')
        /\ Distinct(listed', rows') /\ Distinct(copy'.ids, rows')
    BY <1>1, <2>1 DEF RowsApart, Pairs, StoredRebuilt
  <2>5. RowsApart'
    BY <1>1, <2>2, <2>3, <2>4, RowsStayApart
  <2>6. TurnsEnd'
    BY <1>1, <2>1, <2>2, <2>3, TurnsStay
  <2>7. Missing'
    BY <1>1, <2>1, <2>2, CloseMisses
  <2> QED BY <2>5, <2>6, <2>7
<1>6. ASSUME NEW p \in Passes, Recover(p)
      PROVE  RowsApart' /\ TurnsEnd' /\ Missing'
  <2>1. PICK q : /\ pass' = [pass EXCEPT ![p] = q] /\ New(q, ListedSteps, rows)
                 /\ q.stage \in {"idle", "scoring"}
    BY <1>1, <1>6, RecoveredNew
  <2>2. /\ Spend("recoveries", MaxRecoveries) /\ pass[p] = NoPass
        /\ UNCHANGED <<rows, listed, copy>>
    BY <1>6 DEF Recover
  <2>3. Kept(rows, rows') /\ Matched(q, rows') /\ StoredIn(rows') = StoredIn(rows)
    BY <1>1, <2>1, <2>2, SameRows DEF New
  <2>4. spent'.faults = spent.faults
    BY <1>1, <2>2 DEF Spend, CaptureTypeOK
  <2>5. /\ Pairs' => Pairs
        /\ Pairs' => RowsOwn(rows')
        /\ Distinct(listed', rows') /\ Distinct(copy'.ids, rows')
    BY <1>1, <2>2, <2>4 DEF RowsApart, Pairs, StoredRebuilt
  <2>6. RowsApart'
    BY <1>1, <2>1, <2>3, <2>5, RowsStayApart
  <2>7. TurnsEnd'
    BY <1>1, <2>1, <2>2, <2>3, TurnsStay
  <2>8. Missing'
    <3>1. ~Lite(p) /\ q.stage \notin {"lite", "orphans"}
      BY <2>1, <2>2 DEF Lite, NoPass
    <3> QED BY <1>1, <2>1, <2>2, <2>3, <2>4, <3>1, OthersMiss
  <2> QED BY <2>6, <2>7, <2>8
<1>7. ASSUME NEW p \in Passes, StoreLite(p)
      PROVE  RowsApart' /\ TurnsEnd' /\ Missing'
  <2>1. StoresLite(p) /\ Lite(p)
    BY <1>1, <1>7, StoreLiteStores DEF StoreLite, Lite
  <2>2. PICK q : pass' = [pass EXCEPT ![p] = q] /\ New(q, copy.steps, rows')
    BY <2>1 DEF StoresLite, Begins
  <2>3. Matched(q, rows') /\ q.stage # "lite"
    BY <2>2 DEF New
  <2>4. Kept(rows, rows') /\ spent' = spent
    BY <2>1 DEF StoresLite, Grown
  <2>5. Pairs' => Pairs
    BY <1>1, <2>4, PairsStay
  <2>6. Pairs' => RowsOwn(rows')
    <3>1. PICK S : Grown(rows, rows', S)
      BY <2>1 DEF StoresLite
    <3>2. Pairs' => RowsOwn(rows)
      BY <1>1, <2>5 DEF RowsApart
    <3> QED BY <3>1, <3>2, GrownOwn
  <2>7. Distinct(copy'.ids, rows')
    <3>1. Distinct(copy.ids, rows) /\ pass[p].todo \cap StepsOf(copy.ids, rows) = {}
      BY <1>1, <2>1 DEF RowsApart, TurnsEnd
    <3> QED BY <1>1, <1>7, <3>1, StoresLiteDistinct
  <2>8. Distinct(listed', rows')
    BY <1>1, <2>1, <2>4, <2>7, ListsStayApart DEF StoresLite
  <2>9. RowsApart'
    BY <1>1, <2>2, <2>3, <2>4, <2>5, <2>6, <2>7, <2>8, RowsStayApart
  <2>10. copy'.live = copy.live /\ copy'.steps = copy.steps /\ copy.live
    BY <1>1, <2>1 DEF StoresLite, TurnsEnd, Copy
  <2>11. StoredIn(rows) \subseteq StoredIn(rows')
    BY <2>1 DEF StoresLite, Grown
  <2>12. \A r \in Passes \ {p} : ~Lite(r)
    BY <1>1, <2>1 DEF TurnsEnd
  <2>13. TurnsEnd'
    BY <1>1, <2>2, <2>3, <2>10, <2>11, <2>12, TurnsStay
  <2>14. Missing'
    BY <1>1, <2>1, StoresLiteMisses
  <2> QED BY <2>9, <2>13, <2>14
<1>8. ASSUME NEW p \in Passes, StoreOrphans(p)
      PROVE  RowsApart' /\ TurnsEnd' /\ Missing'
  <2>0. pass[p].stage = "orphans"
    BY <1>8, Zenon DEF StoreOrphans
  <2>1. StoresOrphans(p) /\ Orphans(p)
    BY <1>1, <1>8, <2>0, StoreOrphansStores DEF Orphans
  <2>2. PICK q \in Pass : q = Known(pass[p], Fresh(p)) /\ pass' = [pass EXCEPT ![p] = q]
    BY <2>1 DEF StoresOrphans
  <2>3. /\ Grown(rows, rows', Fresh(p)) /\ Kept(rows, rows')
        /\ StoredIn(rows') = StoredIn(rows) \cup Fresh(p) /\ q.stage = "scoring"
        /\ Distinct(listed', rows') /\ UNCHANGED <<copy, spent>>
    BY <1>1, <2>0, <2>1, <2>2, KnownStored DEF StoresOrphans, Grown
  <2>4. Pairs' => Pairs
    BY <1>1, <2>3, PairsStay
  <2>5. Pairs' => RowsOwn(rows')
    <3>1. Pairs' => RowsOwn(rows)
      BY <1>1, <2>4 DEF RowsApart
    <3> QED BY <2>3, <3>1, GrownOwn
  <2>6. Pairs' => Matched(q, rows')
    <3> SUFFICES ASSUME Pairs' PROVE Matched(q, rows')
      OBVIOUS
    <3>1. AllOrNone(pass[p], StoredIn(rows))
      BY <1>1, <2>1, StoresAllOrNone
    <3>2. Matched(pass[p], rows)
      BY <1>1, <2>4 DEF RowsApart
    <3> QED BY <1>1, <2>0, <2>1, <2>2, <3>1, <3>2, KnownMatched
  <2>7. /\ Distinct(copy.ids, rows')
        /\ StepsOf(copy.ids, rows') = StepsOf(copy.ids, rows)
    BY <1>1, <2>3, ListsStayApart
  <2>8. RowsApart'
    BY <1>1, <2>2, <2>3, <2>4, <2>5, <2>6, <2>7, RowsStayApart
  <2>9. TurnsEnd'
    <3>1. /\ StoredIn(rows) \subseteq StoredIn(rows') /\ q.stage # "lite" /\ q.stage # "orphans"
          /\ copy'.live = copy.live /\ copy'.steps = copy.steps
          /\ StepsOf(copy'.ids, rows') = StepsOf(copy.ids, rows)
      BY <2>3, <2>7
    <3> QED BY <1>1, <2>2, <3>1, TurnsStay
  <2>10. \/ StoredIn(rows') = StoredIn(rows)
         \/ Misses(p) /\ StoredIn(rows') = StoredIn(rows) \cup pass[p].todo
    BY <2>1, <2>3 DEF Misses, Fresh
  <2>11. ~Lite(p) /\ q.stage \notin {"lite", "orphans"}
    BY <2>1, <2>3 DEF Lite, Orphans
  <2>12. Missing'
    BY <1>1, <2>2, <2>3, <2>10, <2>11, OthersMiss
  <2> QED BY <2>8, <2>9, <2>12
<1>9. ASSUME NEW p \in Passes, StoreFails(p)
      PROVE  RowsApart' /\ TurnsEnd' /\ Missing'
  <2>1. Fails(p)
    BY <1>1, <1>9, StoreFailsFails
  <2>2. Missing' /\ copy.live
    BY <1>1, <2>1, FailsMisses
  <2>3. PICK q : pass' = [pass EXCEPT ![p] = q] /\ New(q, copy.steps, rows')
    BY <2>1 DEF Fails, Begins
  <2>4. /\ Matched(q, rows') /\ q.stage # "lite" /\ UNCHANGED <<listed, copy>>
        /\ Spend("faults", MaxFaults)
    BY <2>1, <2>3 DEF New, Fails
  <2>5. Kept(rows, rows') /\ StoredIn(rows) \subseteq StoredIn(rows')
    BY <2>1 DEF Fails, Grown
  <2>6. spent'.faults \in Nat /\ spent.faults <= spent'.faults
    BY <1>1, <2>4 DEF Spend, CaptureTypeOK
  <2>7. Pairs' => Pairs
    BY <1>1, <2>5, <2>6, PairsStay
  <2>8. Pairs' => RowsOwn(rows')
    <3>1. PICK T : Grown(rows, rows', T)
      BY <2>1 DEF Fails
    <3>2. Pairs' => RowsOwn(rows)
      BY <1>1, <2>7 DEF RowsApart
    <3> QED BY <3>1, <3>2, GrownOwn
  <2>9. /\ Distinct(listed', rows') /\ Distinct(copy'.ids, rows')
        /\ StepsOf(copy'.ids, rows') = StepsOf(copy.ids, rows)
    BY <1>1, <2>4, <2>5, ListsStayApart
  <2>10. RowsApart'
    BY <1>1, <2>3, <2>4, <2>5, <2>7, <2>8, <2>9, RowsStayApart
  <2>11. copy'.live = copy.live /\ copy'.steps = copy.steps
    BY <2>4
  <2>12. TurnsEnd'
    BY <1>1, <2>2, <2>3, <2>4, <2>5, <2>9, <2>11, TurnsStay
  <2> QED BY <2>2, <2>10, <2>12
<1>10. ASSUME NEW p \in Passes, Reflect(p)
       PROVE  RowsApart' /\ TurnsEnd' /\ Missing'
  <2>1. Reflects(p)
    BY <1>1, <1>10, ReflectReflects
  <2>2. PICK q : q = NoPass
    OBVIOUS
  <2>3. /\ Kept(rows, rows') /\ StoredIn(rows') = StoredIn(rows) /\ DOMAIN rows' = DOMAIN rows
        /\ pass' = [pass EXCEPT ![p] = q] /\ pass[p].stage = "scoring"
        /\ UNCHANGED <<listed, copy, spent>>
    BY <2>1, <2>2 DEF Reflects
  <2>4. q.stage \notin {"lite", "orphans"} /\ Matched(q, rows') /\ ~Lite(p)
    BY <2>2, <2>3 DEF NoPass, Matched, Lite
  <2>5. Pairs' => Pairs
    BY <1>1, <2>3, PairsStay
  <2>6. ASSUME Pairs' PROVE RowsOwn(rows')
    <3> SUFFICES ASSUME NEW i \in DOMAIN rows PROVE rows'[i].about \in {0, rows'[i].step}
      BY <2>3 DEF RowsOwn
    <3>0. RowsOwn(rows) /\ Matched(pass[p], rows)
      BY <1>1, <2>5, <2>6 DEF RowsApart
    <3>1. CASE rows'[i] = rows[i]
      BY <3>0, <3>1 DEF RowsOwn
    <3>2. ASSUME NEW s \in pass[p].steps,
                 pass[p].match[s] = i, rows'[i] = [rows[i] EXCEPT !.about = s]
          PROVE  rows'[i].about \in {0, rows'[i].step}
      <4>1. i # NoRow
        BY <1>1 DEF NoRow
      <4>2. rows[i].step = s
        BY <2>3, <3>0, <3>2, <4>1 DEF Matched
      <4>3. rows[i] \in Row
        BY <1>1
      <4> QED BY <3>2, <4>2, <4>3 DEF Row
    <3> QED BY <2>1, <3>1, <3>2 DEF Reflects
  <2>7. /\ Distinct(listed', rows') /\ Distinct(copy'.ids, rows')
        /\ StepsOf(copy'.ids, rows') = StepsOf(copy.ids, rows)
    BY <1>1, <2>3, ListsStayApart
  <2>8. RowsApart'
    BY <1>1, <2>3, <2>4, <2>5, <2>6, <2>7, RowsStayApart
  <2>9. TurnsEnd'
    <3>1. /\ StoredIn(rows) \subseteq StoredIn(rows') /\ q.stage # "lite" /\ q.stage # "orphans"
          /\ copy'.live = copy.live /\ copy'.steps = copy.steps
      BY <2>3, <2>4
    <3> QED BY <1>1, <2>3, <2>7, <3>1, TurnsStay
  <2>10. Missing'
    BY <1>1, <2>3, <2>4, OthersMiss
  <2> QED BY <2>8, <2>9, <2>10
<1>11. ASSUME NEW p \in Passes, HydrateExpired(p)
       PROVE  RowsApart' /\ TurnsEnd' /\ Missing'
  <2>1. /\ Adopt(TRUE) /\ ~copy.live
        /\ UNCHANGED <<said, rows, listed, done, skipped, spent>>
    BY <1>11 DEF HydrateExpired
  <2>2. PICK q : /\ pass' = [pass EXCEPT ![p] = q] /\ New(q, copy'.steps, rows)
                 /\ q.stage \in {"idle", "scoring"}
    BY <1>1, <1>11, ExpiredBegins
  <2>3. \A r \in Passes : pass'[r] # pass[r] => pass'[r] = q
    BY <1>1, <2>2, OneChanges
  <2>4. \A r \in Passes : pass'[r] # pass[r] =>
          pass'[r].stage \in {"idle", "scoring"} /\ Matched(pass'[r], rows)
    BY <2>2, <2>3 DEF New
  <2> QED BY <1>1, <2>1, <2>4, AdoptApart
<1>12. CASE Reopen
  <2>1. /\ Spend("reopens", MaxReopens) /\ UNCHANGED <<rows, listed, copy, pass>>
    BY <1>12 DEF Reopen
  <2>2. spent'.faults = spent.faults
    BY <1>1, <2>1 DEF Spend, CaptureTypeOK
  <2>3. RowsApart' /\ TurnsEnd'
    BY <1>1, <2>1, <2>2 DEF RowsApart, Pairs, StoredRebuilt, TurnsEnd, Lite, Orphans
  <2>4. Missing'
    BY <1>1, <2>1, <2>2 DEF Missing, Clean, Plain, Mixed, StoredRebuilt, NoLite, Misses, Lite, Orphans
  <2> QED BY <2>3, <2>4
<1>13. CASE Crash
  <2>1. /\ \A p \in Passes : pass'[p].stage = "idle"
        /\ copy' = NoCopy /\ UNCHANGED <<rows, listed>> /\ Spend("crashes", MaxCrashes)
    BY <1>13 DEF Crash, NoPass
  <2>2. copy'.ids = <<>> /\ spent'.faults = spent.faults
    BY <1>1, <2>1 DEF NoCopy, Spend, CaptureTypeOK
  <2>3. RowsApart'
    BY <1>1, <2>1, <2>2 DEF RowsApart, Pairs, StoredRebuilt, Matched, Distinct
  <2>4. \A p \in Passes : ~Lite(p)' /\ ~Orphans(p)'
    BY <2>1 DEF Lite, Orphans
  <2>5. TurnsEnd' /\ Missing'
    BY <2>4 DEF TurnsEnd, Missing, Clean, Plain, Mixed, Misses
  <2> QED BY <2>3, <2>5
<1>14. CASE Hydrate
  <2>1. ~copy.live /\ Adopt(marked) /\ UNCHANGED <<rows, listed, pass, spent>>
    BY <1>14 DEF Hydrate
  <2> QED BY <1>1, <2>1, AdoptApart
<1>15. CASE UNCHANGED captureVars
  <2>1. UNCHANGED <<rows, listed, copy, pass, spent>>
    BY <1>15 DEF captureVars
  <2>2. RowsApart' /\ TurnsEnd'
    BY <1>1, <2>1 DEF RowsApart, Pairs, StoredRebuilt, TurnsEnd, Lite, Orphans
  <2>3. Missing'
    BY <1>1, <2>1 DEF Missing, Clean, Plain, Mixed, StoredRebuilt, NoLite, Misses, Lite, Orphans
  <2> QED BY <2>2, <2>3
<1> QED BY <1>4, <1>5, <1>6, <1>7, <1>8, <1>9, <1>10, <1>11, <1>12, <1>13, <1>14, <1>15
        DEF CaptureNext

\* A row carries the reflection on its own step, until a write has failed and
\* rebuilt steps are stored, and the topic lists a step once, with a host that waits
\* for the ends of its turns and one write that fails.
THEOREM StepsStayApart ==
  ASSUME Serial, MaxFaults <= 1
  PROVE  CaptureSpec => []StepsKeptApart
<1>1. ApartInv => StepsKeptApart
  BY DEF ApartInv, RowsApart, RowsOwn, Distinct, Pairs, StepsKeptApart
<1>2. ApartInv /\ [CaptureNext]_captureVars => ApartInv'
  BY ApartNext
<1> QED BY <1>1, <1>2, ApartAtFirst, PTL DEF CaptureSpec
=============================================================================
