------------------------- MODULE TurnRoutingProofs -------------------------
(***************************************************************************)
(* Theorems about TurnRouting, for any sessions, callers and keys, any     *)
(* turn cap, with or without an adapter's queue, for rows of any age.      *)
(***************************************************************************)
EXTENDS TurnRouting, FiniteSetTheorems, TLAPS

\* What the helpers of the episode manager return is an episode's row.
LEMMA RowTypes ==
  /\ NoRow \in Episode
  /\ \A s \in Sessions \cup {NoSession} : Fresh(s) \in Episode
  /\ \A r \in Episode :
       /\ Said(r) \in Episode /\ Answered(r) \in Episode
       /\ Finalized(r) \in Episode /\ Reopened(r) \in Episode
       /\ Paused(r) \in Episode /\ Rebuilt(r) \in Episode
  /\ \A r \in Episode, n \in {0, 1} :
       [r EXCEPT !.traces = @ + n] \in Episode
  /\ \A r \in Episode, b \in BOOLEAN : [r EXCEPT !.boundary = b] \in Episode
  /\ \A r \in Episode : [r EXCEPT !.status = "closed"] \in Episode
<1>1. /\ NoRow \in Episode
      /\ \A s \in Sessions \cup {NoSession} : Fresh(s) \in Episode
  BY DEF NoRow, Episode, Fresh
<1>2. ASSUME NEW r \in Episode
      PROVE  Said(r) \in Episode /\ Answered(r) \in Episode
  <2>1. r.turns + 1 \in Nat BY DEF Episode
  <2> QED BY <2>1 DEF Episode, Said, Answered
<1>3. \A r \in Episode :
        /\ Finalized(r) \in Episode /\ Reopened(r) \in Episode
        /\ Paused(r) \in Episode
  BY DEF Episode, Finalized, Reopened, Paused
<1>4. ASSUME NEW r \in Episode PROVE Rebuilt(r) \in Episode
  <2>1. r.traces \in Nat /\ (r.traces > 0) \in BOOLEAN
    BY DEF Episode
  <2>2. (IF r.traces = 0 THEN 1 ELSE 2 * r.traces) \in Nat
    BY <2>1
  <2> QED BY <2>1, <2>2 DEF Episode, Rebuilt
<1>5. ASSUME NEW r \in Episode, NEW n \in {0, 1}
      PROVE  [r EXCEPT !.traces = @ + n] \in Episode
  <2>1. r.traces + n \in Nat BY DEF Episode
  <2> QED BY <2>1 DEF Episode
<1>6. \A r \in Episode, b \in BOOLEAN : [r EXCEPT !.boundary = b] \in Episode
  BY DEF Episode
<1>7. \A r \in Episode : [r EXCEPT !.status = "closed"] \in Episode
  BY DEF Episode
<1> QED BY <1>1, <1>2, <1>3, <1>4, <1>5, <1>6, <1>7

\* The row an adopted topic is resumed from.
LEMMA HydratedType ==
  ASSUME TypeOK, NEW e \in Episodes
  PROVE  Hydrated(e) \in Episode /\ Hydrated(e).turns \in Nat
<1>1. ep[e] \in Episode BY DEF TypeOK
<1>2. Hydrated(e) \in Episode BY <1>1, RowTypes DEF Hydrated
<1> QED BY <1>2 DEF Episode

\* A candidate of findRecoverableOpenTopic is an episode.
LEMMA RecoverableAreEpisodes ==
  \A s : \A found \in Recoverable(s) : found \subseteq Episodes
BY DEF Recoverable, Candidates, Listed

\* A call is parked and begun with fields of its type.
LEMMA CallTypes ==
  ASSUME TypeOK, NEW c \in Callers
  PROVE  /\ \A s \in Sessions, k \in Keys \cup {NoKey}, stage \in Stage,
              e \in Episodes \cup {NoEpisode}, n \in Nat, w \in BOOLEAN :
              Begin(c, s, k, stage, e, n, w) =>
                call' \in [Callers -> Call]
         /\ \A e : Accept(c, e) =>
              call' \in [Callers -> Call]
         /\ [call EXCEPT ![c] = NoCall] \in [Callers -> Call]
         /\ \A x \in {NoEpisode} \cup Episodes, stage \in Stage :
              Park(c, stage, x, 0, FALSE) \in Call
<1>1. NoCall \in Call BY DEF NoCall, Call, Stage
<1>2. call \in [Callers -> Call] BY DEF TypeOK
<1>3. \A s \in Sessions, k \in Keys \cup {NoKey}, stage \in Stage,
         e \in Episodes \cup {NoEpisode}, n \in Nat, w \in BOOLEAN :
         Begin(c, s, k, stage, e, n, w) => call' \in [Callers -> Call]
  BY <1>2 DEF Begin, Call
<1>4. [call EXCEPT ![c] = NoCall] \in [Callers -> Call] BY <1>1, <1>2
<1>5. \A e : Accept(c, e) => call' \in [Callers -> Call] BY <1>4 DEF Accept
<1>6. \A x \in {NoEpisode} \cup Episodes, stage \in Stage :
        Park(c, stage, x, 0, FALSE) \in Call
  <2>1. call[c] \in Call BY <1>2
  <2> QED BY <2>1 DEF Park, Call
<1> QED BY <1>3, <1>4, <1>5, <1>6

\* Writing one row keeps the table's type; there is no row NoEpisode.
LEMMA RowUpdate ==
  ASSUME TypeOK, NEW e \in Episodes \cup {NoEpisode}, NEW r,
         e \in Episodes => r \in Episode
  PROVE  [ep EXCEPT ![e] = r] \in [Episodes -> Episode]
<1>1. ep \in [Episodes -> Episode] BY DEF TypeOK
<1>2. CASE e \in Episodes BY <1>1, <1>2
<1>3. CASE e \notin Episodes
  <2>1. [ep EXCEPT ![e] = r] = ep BY <1>1, <1>3
  <2> QED BY <2>1, <1>1
<1> QED BY <1>2, <1>3

\* The keyed-turn state after each operation that writes it.
LEMMA KeyTypes ==
  ASSUME TypeOK, NEW c \in Callers
  PROVE  /\ \A s \in Sessions, k \in Keys \cup {NoKey} : ClaimKey(c, s, k) =>
              /\ keyOf' \in [Sessions -> [key: Keys \cup {NoKey},
                                         by: Callers \cup {NoKey}]]
              /\ recorded' \in [Sessions -> [Keys -> Nat]]
              /\ purged' \in [Sessions -> SUBSET Keys]
         /\ \A e \in Episodes \cup {NoEpisode} : Accept(c, e) =>
              /\ keyOf' \in [Sessions -> [key: Keys \cup {NoKey},
                                         by: Callers \cup {NoKey}]]
              /\ recorded' \in [Sessions -> [Keys -> Nat]]
              /\ purged' \in [Sessions -> SUBSET Keys]
              /\ asked' \in [Sessions -> Episodes \cup {NoEpisode}]
<1>1. /\ keyOf \in [Sessions -> [key: Keys \cup {NoKey},
                                by: Callers \cup {NoKey}]]
      /\ recorded \in [Sessions -> [Keys -> Nat]]
      /\ purged \in [Sessions -> SUBSET Keys]
      /\ asked \in [Sessions -> Episodes \cup {NoEpisode}]
  BY DEF TypeOK
<1>2. ASSUME NEW s \in Sessions, NEW k \in Keys \cup {NoKey}, ClaimKey(c, s, k)
      PROVE  /\ keyOf' \in [Sessions -> [key: Keys \cup {NoKey},
                                        by: Callers \cup {NoKey}]]
             /\ recorded' \in [Sessions -> [Keys -> Nat]]
             /\ purged' \in [Sessions -> SUBSET Keys]
  <2>1. keyOf[s].key \in Keys \cup {NoKey} BY <1>1
  <2> QED BY <1>1, <1>2, <2>1 DEF ClaimKey
<1>3. ASSUME NEW e \in Episodes \cup {NoEpisode}, Accept(c, e)
      PROVE  /\ keyOf' \in [Sessions -> [key: Keys \cup {NoKey},
                                        by: Callers \cup {NoKey}]]
             /\ recorded' \in [Sessions -> [Keys -> Nat]]
             /\ purged' \in [Sessions -> SUBSET Keys]
             /\ asked' \in [Sessions -> Episodes \cup {NoEpisode}]
  <2>1. asked' \in [Sessions -> Episodes \cup {NoEpisode}]
    BY <1>1, <1>3 DEF Accept
  <2>2. recorded' \in [Sessions -> [Keys -> Nat]]
    <3> DEFINE s == call[c].s
               k == call[c].k
    <3>1. CASE s \in Sessions
      <4>0. /\ recorded[s] \in [Keys -> Nat]
            /\ \A x \in Keys : recorded[s][x] + 1 \in Nat
        BY <1>1, <3>1
      <4>1. [recorded[s] EXCEPT ![k] = recorded[s][k] + 1] \in [Keys -> Nat]
        BY <4>0
      <4>2. [recorded EXCEPT ![s][k] = @ + 1] \in [Sessions -> [Keys -> Nat]]
        BY <1>1, <3>1, <4>1
      <4> QED BY <1>1, <1>3, <4>2 DEF Accept
    <3>2. CASE s \notin Sessions
      <4>1. [recorded EXCEPT ![s][k] = @ + 1] = recorded BY <1>1, <3>2
      <4> QED BY <1>1, <1>3, <4>1 DEF Accept
    <3> QED BY <3>1, <3>2
  <2> QED BY <1>1, <1>3, <2>1, <2>2 DEF Accept
<1> QED BY <1>2, <1>3

\* No step leaves the types, whatever the classifiers answer.
LEMMA TypeStep ==
  ASSUME TypeOK, [Next]_vars
  PROVE  TypeOK'
<1> USE SentinelAssumption, RoutingBoundsAssumption
<1>0. /\ started \in 0..MaxEpisodes /\ inMem \subseteq Episodes
      /\ live \subseteq Sessions \cup {NoSession} /\ direct \in Nat /\ restarts \in Nat
      /\ ep \in [Episodes -> Episode]
      /\ openOf \in [Sessions -> Episodes \cup {NoEpisode}]
      /\ lastOf \in [Sessions -> Episodes \cup {NoEpisode}]
      /\ asked \in [Sessions -> Episodes \cup {NoEpisode}]
      /\ call \in [Callers -> Call]
      /\ keyOf \in [Sessions -> [key: Keys \cup {NoKey},
                                by: Callers \cup {NoKey}]]
      /\ recorded \in [Sessions -> [Keys -> Nat]]
      /\ purged \in [Sessions -> SUBSET Keys]
  BY DEF TypeOK
<1>a. \A e \in Episodes : ep[e] \in Episode BY <1>0
<1>b. \A c \in Callers :
        /\ call[c].e \in Episodes \cup {NoEpisode}
        /\ call[c].s \in Sessions \cup {NoSession}
  <2>1. \A c \in Callers : call[c] \in Call BY <1>0
  <2> QED BY <2>1 DEF Call
<1>1. ASSUME NEW c \in Callers, NEW s \in Sessions,
             NEW k \in Keys \cup {NoKey}, StartTurn(c, s, k)
      PROVE  TypeOK'
  <2>1. /\ keyOf' \in [Sessions -> [key: Keys \cup {NoKey},
                                   by: Callers \cup {NoKey}]]
        /\ recorded' \in [Sessions -> [Keys -> Nat]]
        /\ purged' \in [Sessions -> SUBSET Keys]
    BY <1>1, KeyTypes DEF StartTurn
  <2>2. asked' \in [Sessions -> Episodes \cup {NoEpisode}]
    BY <1>0, <1>1 DEF StartTurn
  <2> DEFINE Typed ==
         /\ ep' \in [Episodes -> Episode] /\ inMem' \subseteq Episodes
         /\ live' \subseteq Sessions \cup {NoSession}
         /\ call' \in [Callers -> Call]
         /\ openOf' \in [Sessions -> Episodes \cup {NoEpisode}]
  <2>3. ASSUME RouteToOpen(c, s, k) PROVE Typed
    <3>1. openOf[s] \in Episodes /\ ep[openOf[s]].turns \in Nat
      BY <1>0, <1>a, <2>3 DEF RouteToOpen, KnowsOpen, Episode
    <3>2. call' \in [Callers -> Call]
      BY <3>1, <2>3, CallTypes DEF RouteToOpen, Stage
    <3> QED BY <3>2, <1>0, <2>3 DEF RouteToOpen
  <2>4. ASSUME RouteToLast(c, s, k) PROVE Typed
    <3>1. lastOf[s] \in Episodes \cup {NoEpisode} BY <1>0
    <3>2. call' \in [Callers -> Call]
      BY <3>1, <2>4, CallTypes DEF RouteToLast, Stage
    <3> QED BY <3>2, <1>0, <2>4 DEF RouteToLast
  <2>5. ASSUME RouteToRecovered(c, s, k) PROVE Typed
    <3>1. PICK e \in Episodes :
            /\ ep' = [ep EXCEPT ![e] = Hydrated(e)]
            /\ inMem' = inMem \cup {e}
            /\ live' = live \cup {s, ep[e].home}
            /\ \/ Begin(c, s, k, "route_recovered", e, Hydrated(e).turns,
                        IsOpen(e))
               \/ Begin(c, s, k, "starting", NoEpisode, 0, FALSE)
      BY <2>5, RecoverableAreEpisodes DEF RouteToRecovered
    <3>2. Hydrated(e) \in Episode /\ Hydrated(e).turns \in Nat
          /\ ep[e].home \in Sessions \cup {NoSession} /\ IsOpen(e) \in BOOLEAN
      BY <1>a, HydratedType DEF Episode, IsOpen
    <3>3. call' \in [Callers -> Call]
      <4>1. "route_recovered" \in Stage /\ "starting" \in Stage
            /\ 0 \in Nat /\ FALSE \in BOOLEAN
            /\ e \in Episodes \cup {NoEpisode}
            /\ NoEpisode \in Episodes \cup {NoEpisode}
        BY DEF Stage
      <4>2. CASE Begin(c, s, k, "route_recovered", e, Hydrated(e).turns,
                       IsOpen(e))
        <5>1. [at |-> "route_recovered", s |-> s, k |-> k, e |-> e,
               seen |-> Hydrated(e).turns, wasOpen |-> IsOpen(e)] \in Call
          BY <4>1, <3>2 DEF Call, IsOpen
        <5> QED BY <5>1, <4>2, <1>0 DEF Begin
      <4>3. CASE Begin(c, s, k, "starting", NoEpisode, 0, FALSE)
        BY <4>1, <4>3, CallTypes
      <4> QED BY <3>1, <4>2, <4>3
    <3>4. ep' \in [Episodes -> Episode] BY <3>1, <3>2, <1>0
    <3>5. openOf' \in [Sessions -> Episodes \cup {NoEpisode}]
      BY <1>0, <2>5 DEF RouteToRecovered
    <3> QED BY <3>1, <3>2, <3>3, <3>4, <3>5, <1>0
  <2>6. ASSUME RouteToFresh(c, s, k) PROVE Typed
    <3>1. call' \in [Callers -> Call]
      BY <2>6, CallTypes DEF RouteToFresh, Stage
    <3> QED BY <3>1, <1>0, <2>6 DEF RouteToFresh
  <2>7. Typed
    BY <1>1, <2>3, <2>4, <2>5, <2>6 DEF StartTurn
  <2> QED BY <1>0, <1>1, <2>1, <2>2, <2>7 DEF StartTurn, bounds, TypeOK
<1>2. ASSUME NEW c \in Callers, NEW e \in Episodes \cup {NoEpisode},
             Accept(c, e),
             ep' \in [Episodes -> Episode], started' \in 0..MaxEpisodes,
             inMem' \subseteq Episodes, live' \subseteq Sessions \cup {NoSession},
             openOf' \in [Sessions -> Episodes \cup {NoEpisode}],
             lastOf' \in [Sessions -> Episodes \cup {NoEpisode}],
             UNCHANGED bounds
      PROVE  TypeOK'
  <2>1. call' \in [Callers -> Call] BY <1>2, CallTypes
  <2>2. /\ keyOf' \in [Sessions -> [key: Keys \cup {NoKey},
                                   by: Callers \cup {NoKey}]]
        /\ recorded' \in [Sessions -> [Keys -> Nat]]
        /\ purged' \in [Sessions -> SUBSET Keys]
        /\ asked' \in [Sessions -> Episodes \cup {NoEpisode}]
    BY <1>2, KeyTypes
  <2> QED BY <1>0, <1>2, <2>1, <2>2 DEF TypeOK, bounds
<1>3. ASSUME NEW c \in Callers, CallStartEpisode(c),
             ep' \in [Episodes -> Episode],
             openOf' \in [Sessions -> Episodes \cup {NoEpisode}],
             lastOf' \in [Sessions -> Episodes \cup {NoEpisode}],
             UNCHANGED <<started, inMem, asked, keyVars, bounds>>
      PROVE  TypeOK'
  <2>1. Park(c, "starting", NoEpisode, 0, FALSE) \in Call
    BY CallTypes DEF Stage
  <2>2. call' \in [Callers -> Call] BY <1>0, <1>3, <2>1 DEF CallStartEpisode
  <2>3. live' \subseteq Sessions \cup {NoSession}
    BY <1>0, <1>b, <1>3 DEF CallStartEpisode
  <2> QED BY <1>0, <1>3, <2>2, <2>3 DEF TypeOK, bounds, keyVars
<1>4. ASSUME NEW c \in Callers, NEW relation \in Relations,
             NEW inWindow \in BOOLEAN, DecideOpen(c, relation, inWindow)
      PROVE  TypeOK'
  <2>1. CASE AppendToOpen(c)
    <3>1. ep' \in [Episodes -> Episode]
      BY <2>1, <1>a, <1>b, RowUpdate, RowTypes DEF AppendToOpen
    <3> QED BY <3>1, <2>1, <1>0, <1>b, <1>2, <1>4 DEF AppendToOpen, DecideOpen
  <2>2. CASE LeaveOpen(c, relation)
    <3>1. ep' \in [Episodes -> Episode]
      BY <2>2, <1>a, <1>b, RowUpdate, RowTypes DEF LeaveOpen
    <3>2. /\ openOf' \in [Sessions -> Episodes \cup {NoEpisode}]
          /\ lastOf' \in [Sessions -> Episodes \cup {NoEpisode}]
      BY <2>2, <1>0, <1>b DEF LeaveOpen
    <3> QED BY <3>1, <3>2, <2>2, <1>0, <1>3, <1>4 DEF LeaveOpen, DecideOpen
  <2> QED BY <1>4, <2>1, <2>2 DEF DecideOpen
<1>5. ASSUME NEW c \in Callers, NEW relation \in Relations,
             NEW inWindow \in BOOLEAN, DecideRecovered(c, relation, inWindow)
      PROVE  TypeOK'
  <2>1. CASE ResumeRecovered(c)
    <3>1. ep' \in [Episodes -> Episode]
      BY <2>1, <1>a, <1>b, RowUpdate, RowTypes DEF ResumeRecovered
    <3>2. /\ openOf' \in [Sessions -> Episodes \cup {NoEpisode}]
          /\ lastOf' \in [Sessions -> Episodes \cup {NoEpisode}]
      BY <2>1, <1>0, <1>b DEF ResumeRecovered
    <3> QED BY <3>1, <3>2, <2>1, <1>0, <1>b, <1>2, <1>5
        DEF ResumeRecovered, DecideRecovered
  <2>2. CASE LeaveRecovered(c, relation)
    <3>1. ep' \in [Episodes -> Episode]
      <4> DEFINE r == [Finalized(ep[call[c].e]) EXCEPT
                         !.boundary = relation = "new_task"]
      <4>1. call[c].e \in Episodes => r \in Episode
        BY <1>a, RowTypes
      <4>2. [ep EXCEPT ![call[c].e] = r] \in [Episodes -> Episode]
        BY <4>1, <1>b, RowUpdate
      <4> QED BY <4>2, <2>2, <1>0 DEF LeaveRecovered
    <3> QED BY <3>1, <2>2, <1>0, <1>3, <1>5 DEF LeaveRecovered, DecideRecovered
  <2> QED BY <1>5, <2>1, <2>2 DEF DecideRecovered
<1>6. ASSUME NEW c \in Callers, NEW relation \in Relations,
             NEW inWindow \in BOOLEAN, DecideClosed(c, relation, inWindow)
      PROVE  TypeOK'
  <2>1. CASE ReopenLast(c)
    <3>1. ep' \in [Episodes -> Episode]
      BY <2>1, <1>a, <1>b, RowUpdate, RowTypes DEF ReopenLast
    <3>2. /\ openOf' \in [Sessions -> Episodes \cup {NoEpisode}]
          /\ lastOf' \in [Sessions -> Episodes \cup {NoEpisode}]
      BY <2>1, <1>0, <1>b DEF ReopenLast
    <3> QED BY <3>1, <3>2, <2>1, <1>0, <1>b, <1>2, <1>6
        DEF ReopenLast, DecideClosed
  <2>2. CASE LeaveLast(c, relation)
    <3>1. /\ openOf' \in [Sessions -> Episodes \cup {NoEpisode}]
          /\ lastOf' \in [Sessions -> Episodes \cup {NoEpisode}]
      BY <2>2, <1>0 DEF LeaveLast
    <3> QED BY <3>1, <2>2, <1>0, <1>3, <1>6 DEF LeaveLast, DecideClosed
  <2> QED BY <1>6, <2>1, <2>2 DEF DecideClosed
<1>7. ASSUME NEW c \in Callers, DecisionConflicts(c) PROVE TypeOK'
  <2>1. call' \in [Callers -> Call]
    BY <1>7, CallTypes DEF DecisionConflicts, Reject
  <2>2. keyOf' \in [Sessions -> [key: Keys \cup {NoKey},
                                by: Callers \cup {NoKey}]]
    BY <1>0, <1>7 DEF DecisionConflicts, Reject, NoEntry
  <2> QED BY <1>0, <1>7, <2>1, <2>2 DEF DecisionConflicts, Reject, TypeOK, bounds
<1>8. ASSUME NEW s \in Sessions \cup {NoSession}, Insert(s)
      PROVE  /\ started + 1 \in Episodes /\ started' \in 0..MaxEpisodes
             /\ ep' \in [Episodes -> Episode] /\ inMem' \subseteq Episodes
  <2>1. started + 1 \in Episodes BY <1>0, <1>8 DEF Insert, Episodes
  <2> QED BY <2>1, <1>0, <1>8, RowTypes DEF Insert, Episodes
<1>9. ASSUME NEW c \in Callers, StartEpisode(c) PROVE TypeOK'
  <2>1. Insert(call[c].s) /\ Accept(c, started + 1)
        /\ openOf' = [openOf EXCEPT ![call[c].s] = started + 1]
        /\ UNCHANGED <<live, lastOf, bounds>>
    BY <1>9 DEF StartEpisode
  <2>2. /\ started + 1 \in Episodes /\ started' \in 0..MaxEpisodes
        /\ ep' \in [Episodes -> Episode] /\ inMem' \subseteq Episodes
    BY <2>1, <1>8, <1>b
  <2>3. openOf' \in [Sessions -> Episodes \cup {NoEpisode}]
    BY <2>1, <2>2, <1>0
  <2> QED BY <2>1, <2>2, <2>3, <1>0, <1>2
<1>10. ASSUME NEW c \in Callers, EpisodeOpened(c) PROVE TypeOK'
  <2>1. Insert(call[c].s) /\ Accept(c, started + 1)
        /\ UNCHANGED <<live, openOf, lastOf, bounds>>
    BY <1>10 DEF EpisodeOpened
  <2>2. /\ started + 1 \in Episodes /\ started' \in 0..MaxEpisodes
        /\ ep' \in [Episodes -> Episode] /\ inMem' \subseteq Episodes
    BY <2>1, <1>8, <1>b
  <2> QED BY <2>1, <2>2, <1>0, <1>2
<1>11. ASSUME NEW c \in Callers, NEW s \in Sessions,
              NEW named \in Episodes \cup {NoEpisode}, EndTurn(c, s, named)
       PROVE  TypeOK'
  <2> DEFINE e == Target(s, named)
  <2>1. e \in Episodes BY <1>0, <1>11 DEF EndTurn
  <2>2. ep' \in [Episodes -> Episode]
    BY <2>1, <1>0, <1>a, <1>11, RowTypes DEF EndTurn
  <2>3. call' \in [Callers -> Call]
    <3>1. [at |-> "capturing", s |-> s, k |-> NoKey, e |-> e, seen |-> 0,
           wasOpen |-> IsOpen(e)] \in Call
      BY <2>1 DEF Call, Stage, IsOpen
    <3>2. Begin(c, s, NoKey, "capturing", e, 0, IsOpen(e))
      BY <1>11 DEF EndTurn
    <3> HIDE DEF e
    <3> QED BY <3>1, <3>2, <1>0 DEF Begin
  <2> QED BY <2>2, <2>3, <1>0, <1>11 DEF EndTurn, TypeOK, keyVars, bounds
<1>12. ASSUME NEW c \in Callers, FinishTurn(c) PROVE TypeOK'
  <2> DEFINE e == call[c].e
  <2>1. PICK stored \in {0, 1} :
          LET r == [ep[e] EXCEPT !.traces = @ + stored] IN
          \/ ep' = [ep EXCEPT ![e] = r]
          \/ ep' = [ep EXCEPT ![e] = Finalized(r)]
    BY <1>12 DEF FinishTurn
  <2> DEFINE r == [ep[e] EXCEPT !.traces = @ + stored]
  <2>2. e \in Episodes => r \in Episode /\ Finalized(r) \in Episode
    BY <1>a, RowTypes
  <2>3. ep' \in [Episodes -> Episode]
    BY <2>1, <2>2, <1>b, RowUpdate
  <2>4. lastOf' \in [Sessions -> Episodes \cup {NoEpisode}]
    BY <1>0, <1>b, <1>12 DEF FinishTurn
  <2>5. call' \in [Callers -> Call] BY <1>12, CallTypes DEF FinishTurn
  <2> QED BY <2>3, <2>4, <2>5, <1>0, <1>12 DEF FinishTurn, TypeOK, keyVars, bounds
<1>13. ASSUME NEW c \in Callers, NEW s \in Sessions, OpenEpisode(c, s)
       PROVE  TypeOK'
  <2>1. call' \in [Callers -> Call]
    BY <1>13, CallTypes DEF OpenEpisode, Stage
  <2> QED BY <2>1, <1>0, <1>13 DEF OpenEpisode, TypeOK, keyVars
<1>14. ASSUME NEW e \in Episodes, CloseEpisode(e) PROVE TypeOK'
  <2>1. ep' \in [Episodes -> Episode]
    BY <1>0, <1>a, <1>14, RowTypes DEF CloseEpisode
  <2> QED BY <2>1, <1>0, <1>14 DEF CloseEpisode, TypeOK, keyVars
<1>15. ASSUME NEW s \in Sessions, CloseSession(s) PROVE TypeOK'
  <2>1. \A e \in Episodes : ClosedWith(s, ep[e]) \in Episode
    BY <1>a, RowTypes DEF ClosedWith
  <2>2. ep' \in [Episodes -> Episode] BY <2>1, <1>a, <1>15 DEF CloseSession
  <2>3. keyOf[s].key \in Keys \cup {NoKey} BY <1>0
  <2>4. /\ keyOf' \in [Sessions -> [key: Keys \cup {NoKey},
                                   by: Callers \cup {NoKey}]]
        /\ purged' \in [Sessions -> SUBSET Keys]
        /\ openOf' \in [Sessions -> Episodes \cup {NoEpisode}]
        /\ lastOf' \in [Sessions -> Episodes \cup {NoEpisode}]
        /\ asked' \in [Sessions -> Episodes \cup {NoEpisode}]
    BY <2>3, <1>0, <1>15 DEF CloseSession, NoEntry
  <2> QED BY <2>2, <2>4, <1>0, <1>15 DEF CloseSession, TypeOK, bounds
<1>16. ASSUME NEW rows \in [Episodes -> Episode], Restart(rows) PROVE TypeOK'
  <2>1. PICK expired :
          ep' = [e \in Episodes |-> Recovered(rows[e], e \in expired)]
    BY <1>16 DEF Restart
  <2>2. \A e \in Episodes : Recovered(rows[e], e \in expired) \in Episode
    BY <1>16, RowTypes DEF Recovered
  <2>7. ep' \in [Episodes -> Episode] BY <2>1, <2>2
  <2>3. \A s \in Sessions : keyOf[s].key \in Keys \cup {NoKey} BY <1>0
  <2>4. /\ keyOf' \in [Sessions -> [key: Keys \cup {NoKey},
                                   by: Callers \cup {NoKey}]]
        /\ purged' \in [Sessions -> SUBSET Keys]
        /\ openOf' \in [Sessions -> Episodes \cup {NoEpisode}]
        /\ lastOf' \in [Sessions -> Episodes \cup {NoEpisode}]
        /\ asked' \in [Sessions -> Episodes \cup {NoEpisode}]
    BY <2>3, <1>0, <1>16 DEF Restart, NoEntry
  <2>5. NoCall \in Call BY DEF NoCall, Call, Stage
  <2>6. call' \in [Callers -> Call] BY <2>5, <1>16 DEF Restart
  <2> QED BY <2>7, <2>4, <2>6, <1>0, <1>16 DEF Restart, TypeOK
<1>17. CASE Crash BY <1>0, <1>16, <1>17 DEF Crash
<1>18. CASE Shutdown
  <2>1. \A e \in Episodes : AtShutdown(ep[e]) \in Episode
    BY <1>a, RowTypes DEF AtShutdown
  <2> QED BY <2>1, <1>a, <1>16, <1>18 DEF Shutdown
<1>19. CASE UNCHANGED vars BY <1>19 DEF vars, TypeOK
<1> QED
  BY <1>1, <1>4, <1>5, <1>6, <1>7, <1>9, <1>10, <1>11, <1>12, <1>13, <1>14,
     <1>15, <1>17, <1>18, <1>19 DEF Next

\* The types hold in every reachable state.
THEOREM TypeCorrect == Spec => []TypeOK
<1>1. Init => TypeOK
  <2> SUFFICES ASSUME Init PROVE TypeOK
    OBVIOUS
  <2>1. NoRow \in Episode /\ NoCall \in Call
    BY RowTypes DEF NoCall, Call, Stage
  <2>2. 0 \in 0..MaxEpisodes BY RoutingBoundsAssumption
  <2> QED BY <2>1, <2>2 DEF Init, TypeOK, NoEntry
<1>2. TypeOK /\ [Next]_vars => TypeOK' BY TypeStep
<1> QED BY <1>1, <1>2, PTL DEF Spec

-----------------------------------------------------------------------------
(* The indexes and the calls in flight only name episodes in memory.  The   *)
(* indexes alone are not inductive: a call that read an index before its    *)
(* await writes it back after.                                              *)

IndexInv ==
  /\ \A s \in Sessions : /\ openOf[s] \in inMem \cup {NoEpisode}
                         /\ lastOf[s] \in inMem \cup {NoEpisode}
  /\ \A c \in Callers : call[c].e \in inMem \cup {NoEpisode}

\* An accepted, rejected or parked call keeps the calls' part.
LEMMA CallEpisodes ==
  ASSUME TypeOK, IndexInv, NEW c \in Callers, inMem \subseteq inMem',
         \/ \E e : Accept(c, e)
         \/ Reject(c)
         \/ CallStartEpisode(c)
         \/ call' = [call EXCEPT ![c] = NoCall]
         \/ \E s, k, stage, n, w : \E e \in inMem' \cup {NoEpisode} :
              Begin(c, s, k, stage, e, n, w)
  PROVE  \A d \in Callers : call'[d].e \in inMem' \cup {NoEpisode}
<1>1. call \in [Callers -> Call] BY DEF TypeOK
<1>2. NoCall.e = NoEpisode BY DEF NoCall
<1>3. CASE call' = [call EXCEPT ![c] = NoCall]
  BY <1>1, <1>2, <1>3 DEF IndexInv
<1>4. CASE CallStartEpisode(c)
  <2>1. call[c] \in Call BY <1>1
  <2>2. Park(c, "starting", NoEpisode, 0, FALSE).e = NoEpisode
    BY <2>1 DEF Park, Call
  <2> QED BY <1>1, <2>2, <1>4 DEF CallStartEpisode, IndexInv
<1>5. CASE \E s, k, stage, n, w : \E e \in inMem' \cup {NoEpisode} :
             Begin(c, s, k, stage, e, n, w)
  BY <1>1, <1>5 DEF Begin, IndexInv
<1> QED BY <1>3, <1>4, <1>5 DEF Accept, Reject

LEMMA IndexStep ==
  ASSUME TypeOK, IndexInv, [Next]_vars
  PROVE  IndexInv'
<1>0. /\ openOf \in [Sessions -> Episodes \cup {NoEpisode}]
      /\ lastOf \in [Sessions -> Episodes \cup {NoEpisode}]
      /\ call \in [Callers -> Call]
  BY DEF TypeOK
<1>1. ASSUME NEW c \in Callers, NEW s \in Sessions,
             NEW k \in Keys \cup {NoKey}, StartTurn(c, s, k)
      PROVE  IndexInv'
  <2> DEFINE Begun(e) == \E stage, n, w : Begin(c, s, k, stage, e, n, w)
             Kept == /\ inMem \subseteq inMem'
                     /\ \E e \in inMem' \cup {NoEpisode} : Begun(e)
                     /\ openOf' \in {openOf, [openOf EXCEPT ![s] = NoEpisode]}
  <2>1. RouteToOpen(c, s, k) => Kept
    BY DEF RouteToOpen, KnowsOpen
  <2>2. RouteToLast(c, s, k) => Kept
    BY DEF RouteToLast, IndexInv
  <2>3. RouteToRecovered(c, s, k) => Kept
    BY DEF RouteToRecovered
  <2>4. RouteToFresh(c, s, k) => Kept
    BY DEF RouteToFresh
  <2>5. Kept BY <1>1, <2>1, <2>2, <2>3, <2>4 DEF StartTurn
  <2>6. \A d \in Callers : call'[d].e \in inMem' \cup {NoEpisode}
    BY <2>5, CallEpisodes
  <2> QED BY <1>0, <1>1, <2>5, <2>6 DEF StartTurn, IndexInv
<1>2. ASSUME NEW c \in Callers, NEW relation \in Relations,
             NEW inWindow \in BOOLEAN,
             \/ DecideOpen(c, relation, inWindow)
             \/ DecideRecovered(c, relation, inWindow)
             \/ DecideClosed(c, relation, inWindow)
      PROVE  IndexInv'
  <2>1. /\ \E e : Accept(c, e) \/ CallStartEpisode(c)
        /\ inMem' = inMem
    BY <1>2 DEF DecideOpen, AppendToOpen, LeaveOpen, DecideRecovered,
       ResumeRecovered, LeaveRecovered, DecideClosed, ReopenLast, LeaveLast
  <2>2. \A d \in Callers : call'[d].e \in inMem' \cup {NoEpisode}
    BY <2>1, CallEpisodes
  <2>3. \A s \in Sessions :
          /\ openOf'[s] \in {openOf[s], NoEpisode, call[c].e}
          /\ lastOf'[s] \in {lastOf[s], NoEpisode, call[c].e}
    BY <1>0, <1>2 DEF DecideOpen, AppendToOpen, LeaveOpen, DecideRecovered,
       ResumeRecovered, LeaveRecovered, DecideClosed, ReopenLast, LeaveLast
  <2> QED BY <2>1, <2>2, <2>3 DEF IndexInv
<1>3. ASSUME NEW c \in Callers, DecisionConflicts(c) PROVE IndexInv'
  <2>1. \A d \in Callers : call'[d].e \in inMem' \cup {NoEpisode}
    BY <1>3, CallEpisodes DEF DecisionConflicts, Reject
  <2> QED BY <2>1, <1>3 DEF DecisionConflicts, Reject, IndexInv
<1>4. ASSUME NEW c \in Callers, StartEpisode(c) \/ EpisodeOpened(c)
      PROVE  IndexInv'
  <2>1. /\ Accept(c, started + 1)
        /\ inMem' = inMem \cup {started + 1}
        /\ openOf' \in {openOf, [openOf EXCEPT ![call[c].s] = started + 1]}
        /\ lastOf' = lastOf
    BY <1>4 DEF StartEpisode, EpisodeOpened, Insert
  <2>2. \A d \in Callers : call'[d].e \in inMem' \cup {NoEpisode}
    BY <2>1, CallEpisodes
  <2> QED BY <1>0, <2>1, <2>2 DEF IndexInv
<1>5. ASSUME NEW c \in Callers, NEW s \in Sessions,
             NEW named \in Episodes \cup {NoEpisode}, EndTurn(c, s, named)
      PROVE  IndexInv'
  <2>1. \E e \in inMem : \E n, w : Begin(c, s, NoKey, "capturing", e, n, w)
    BY <1>5 DEF EndTurn
  <2>2. inMem' = inMem /\ openOf' = openOf /\ lastOf' = lastOf
    BY <1>5 DEF EndTurn
  <2>3. \A d \in Callers : call'[d].e \in inMem' \cup {NoEpisode}
    BY <2>1, <2>2, CallEpisodes
  <2> QED BY <2>2, <2>3 DEF IndexInv
<1>6. ASSUME NEW c \in Callers, FinishTurn(c) PROVE IndexInv'
  <2>1. /\ call' = [call EXCEPT ![c] = NoCall]
        /\ inMem' = inMem /\ openOf' = openOf
        /\ lastOf' \in {lastOf, [lastOf EXCEPT ![call[c].s] = call[c].e]}
    BY <1>6 DEF FinishTurn
  <2>2. \A d \in Callers : call'[d].e \in inMem' \cup {NoEpisode}
    BY <2>1, CallEpisodes
  <2> QED BY <1>0, <2>1, <2>2 DEF IndexInv
<1>7. ASSUME NEW c \in Callers, NEW s \in Sessions, OpenEpisode(c, s)
      PROVE  IndexInv'
  <2>1. /\ \E n, w : Begin(c, s, NoKey, "opening", NoEpisode, n, w)
        /\ inMem' = inMem /\ openOf' = openOf /\ lastOf' = lastOf
    BY <1>7 DEF OpenEpisode
  <2>2. \A d \in Callers : call'[d].e \in inMem' \cup {NoEpisode}
    BY <2>1, CallEpisodes
  <2> QED BY <2>1, <2>2 DEF IndexInv
<1>8. ASSUME NEW e \in Episodes, CloseEpisode(e) PROVE IndexInv'
  BY <1>8 DEF CloseEpisode, IndexInv
<1>9. ASSUME NEW s \in Sessions, CloseSession(s) PROVE IndexInv'
  BY <1>0, <1>9 DEF CloseSession, IndexInv
<1>10. ASSUME Crash \/ Shutdown PROVE IndexInv'
  <2>1. NoCall.e = NoEpisode BY DEF NoCall
  <2> QED BY <1>10, <2>1 DEF Crash, Shutdown, Restart, IndexInv
<1>11. CASE UNCHANGED vars BY <1>11 DEF vars, IndexInv
<1> QED
  BY <1>1, <1>2, <1>3, <1>4, <1>5, <1>6, <1>7, <1>8, <1>9, <1>10, <1>11
  DEF Next

LEMMA IndexInvariant == Spec => []IndexInv
<1>1. Init => IndexInv
  <2>1. NoCall.e = NoEpisode BY DEF NoCall
  <2> QED BY <2>1 DEF Init, IndexInv
<1>2. TypeOK /\ IndexInv /\ [Next]_vars => IndexInv' BY IndexStep
<1> QED BY <1>1, <1>2, TypeCorrect, PTL DEF Spec

\* Whatever is hydrated, adopted, closed, answered late or restarted, the
\* orchestrator's maps never name an episode the episode manager lost.
THEOREM IndexesCorrect == Spec => []IndexesFindTheirEpisode
<1>1. IndexInv => IndexesFindTheirEpisode
  BY DEF IndexInv, IndexesFindTheirEpisode
<1> QED BY <1>1, IndexInvariant, PTL

-----------------------------------------------------------------------------
(* A key that was neither replaced nor purged is held by at most one call,  *)
(* whose turn is not on record yet; once it is, the session's entry still   *)
(* answers for the key.                                                     *)

HeldOnce ==
  \A c \in Callers : call[c].k # NoKey =>
    /\ call[c].s \in Sessions
    /\ call[c].k \notin purged[call[c].s] =>
         /\ keyOf[call[c].s] = [key |-> call[c].k, by |-> c]
         /\ recorded[call[c].s][call[c].k] = 0

RecordedHeld ==
  \A s \in Sessions : \A k \in Keys \ purged[s] :
    /\ recorded[s][k] <= 1
    /\ recorded[s][k] # 0 => keyOf[s].key = k

RetryInv == HeldOnce /\ RecordedHeld

\* A step that leaves the keys alone and hands no key to a call.
LEMMA KeysAlone ==
  ASSUME RetryInv, UNCHANGED keyVars,
         \A c \in Callers :
           \/ call'[c].k = NoKey
           \/ call'[c].k = call[c].k /\ call'[c].s = call[c].s
  PROVE  RetryInv'
BY DEF RetryInv, HeldOnce, RecordedHeld, keyVars

LEMMA RetryAccept ==
  ASSUME TypeOK, RetryInv, NEW c \in Callers, NEW e, Accept(c, e)
  PROVE  RetryInv'
<1> DEFINE s == call[c].s
           k == call[c].k
<1>0. /\ call \in [Callers -> Call] /\ recorded \in [Sessions -> [Keys -> Nat]]
      /\ keyOf' = keyOf /\ purged' = purged
      /\ k \in Keys \cup {NoKey} /\ NoCall.k = NoKey
  <2>1. call[c] \in Call BY DEF TypeOK
  <2> QED BY <2>1 DEF TypeOK, Accept, Call, NoCall
<1>1. call' = [call EXCEPT ![c] = NoCall] BY DEF Accept
<1>2. CASE k = NoKey
  <2>1. recorded' = recorded BY <1>2 DEF Accept
  <2> QED BY <2>1, <1>0, <1>1, KeysAlone DEF keyVars
<1>3. CASE k # NoKey
  <2>1. s \in Sessions /\ k \in Keys BY <1>0, <1>3 DEF RetryInv, HeldOnce
  <2>2. /\ \A x \in Sessions, y \in Keys :
             x # s \/ y # k => recorded'[x][y] = recorded[x][y]
        /\ recorded'[s][k] = recorded[s][k] + 1
    BY <2>1, <1>0, <1>3 DEF Accept
  <2>3. HeldOnce'
    <3> SUFFICES ASSUME NEW d \in Callers, call'[d].k # NoKey
                 PROVE  /\ call'[d].s \in Sessions
                        /\ call'[d].k \notin purged[call'[d].s] =>
                             /\ keyOf[call'[d].s] = [key |-> call'[d].k, by |-> d]
                             /\ recorded'[call'[d].s][call'[d].k] = 0
      BY <1>0 DEF HeldOnce
    <3>1. d # c /\ call'[d] = call[d] BY <1>0, <1>1
    <3>2. call[d].k \in Keys
      <4>1. call[d] \in Call BY <1>0
      <4> QED BY <4>1, <3>1 DEF Call
    <3>3. /\ call[d].s \in Sessions
          /\ call[d].k \notin purged[call[d].s] =>
               /\ keyOf[call[d].s] = [key |-> call[d].k, by |-> d]
               /\ recorded[call[d].s][call[d].k] = 0
      BY <3>1 DEF RetryInv, HeldOnce
    <3>4. k \notin purged[s] => keyOf[s] = [key |-> k, by |-> c]
      BY <1>3 DEF RetryInv, HeldOnce
    <3> QED BY <3>1, <3>2, <3>3, <3>4, <2>2
  <2>4. RecordedHeld'
    <3>0. k \notin purged[s] => /\ keyOf[s] = [key |-> k, by |-> c]
                                /\ recorded[s][k] = 0
      BY <1>3 DEF RetryInv, HeldOnce
    <3>1. k \notin purged[s] => recorded[s][k] = 0 /\ keyOf[s].key = k
      BY <3>0
    <3> QED BY <3>1, <2>1, <2>2, <1>0 DEF RetryInv, RecordedHeld
  <2> QED BY <2>3, <2>4 DEF RetryInv
<1> QED BY <1>2, <1>3

LEMMA RetryReject ==
  ASSUME TypeOK, RetryInv, NEW c \in Callers, Reject(c)
  PROVE  RetryInv'
<1> DEFINE s == call[c].s
           k == call[c].k
<1>0. /\ call \in [Callers -> Call] /\ keyOf \in [Sessions ->
           [key: Keys \cup {NoKey}, by: Callers \cup {NoKey}]]
      /\ recorded \in [Sessions -> [Keys -> Nat]]
      /\ recorded' = recorded /\ purged' = purged
      /\ call' = [call EXCEPT ![c] = NoCall] /\ NoCall.k = NoKey
  BY DEF TypeOK, Reject, NoCall
<1>1. CASE k # NoKey /\ keyOf[s] = [key |-> k, by |-> c]
  <2>1. /\ s \in Sessions
        /\ k \notin purged[s] => recorded[s][k] = 0
    BY <1>1 DEF RetryInv, HeldOnce
  <2>2. keyOf' = [keyOf EXCEPT ![s] = NoEntry] BY <1>1 DEF Reject
  <2>3. HeldOnce'
    <3>1. \A d \in Callers : d # c /\ call[d].k # NoKey /\ call[d].s = s
            => call[d].k \in purged[s]
      <4>1. \A d \in Callers : call[d].k # NoKey /\ call[d].s = s
              /\ call[d].k \notin purged[s] =>
              keyOf[s] = [key |-> call[d].k, by |-> d]
        BY DEF RetryInv, HeldOnce
      <4>2. keyOf[s].by = c BY <1>1
      <4>3. ASSUME NEW d \in Callers, d # c, call[d].k # NoKey,
                   call[d].s = s, call[d].k \notin purged[s]
            PROVE  FALSE
        <5>1. keyOf[s] = [key |-> call[d].k, by |-> d] BY <4>1, <4>3
        <5>2. keyOf[s].by = d BY <5>1
        <5> QED BY <5>2, <4>2, <4>3
      <4> QED BY <4>3
    <3> QED BY <3>1, <2>1, <2>2, <1>0 DEF RetryInv, HeldOnce
  <2>4. RecordedHeld'
    <3>1. \A y \in Keys \ purged[s] : recorded[s][y] = 0
      BY <1>1, <2>1, <1>0 DEF RetryInv, RecordedHeld
    <3> QED BY <3>1, <2>1, <2>2, <1>0 DEF RetryInv, RecordedHeld
  <2> QED BY <2>3, <2>4 DEF RetryInv
<1>2. CASE ~(k # NoKey /\ keyOf[s] = [key |-> k, by |-> c])
  <2>1. keyOf' = keyOf BY <1>2 DEF Reject
  <2> QED BY <2>1, <1>0, KeysAlone DEF keyVars
<1> QED BY <1>1, <1>2

LEMMA RetryClaim ==
  ASSUME TypeOK, RetryInv, NEW c \in Callers, NEW s \in Sessions,
         NEW k \in Keys \cup {NoKey}, call[c] = NoCall, ClaimKey(c, s, k),
         NEW r, call' = [call EXCEPT ![c] = r], r.s = s, r.k = k
  PROVE  RetryInv'
<1>0. /\ call \in [Callers -> Call] /\ keyOf \in [Sessions ->
           [key: Keys \cup {NoKey}, by: Callers \cup {NoKey}]]
      /\ recorded \in [Sessions -> [Keys -> Nat]]
      /\ purged \in [Sessions -> SUBSET Keys]
      /\ recorded' = recorded
  BY DEF TypeOK, ClaimKey
<1>1. CASE k = NoKey
  <2>1. UNCHANGED keyVars BY <1>1 DEF ClaimKey, keyVars
  <2> QED BY <2>1, <1>0, <1>1, KeysAlone
<1>2. CASE k # NoKey
  <2>1. /\ keyOf' = [keyOf EXCEPT ![s] = [key |-> k, by |-> c]]
        /\ purged' = [purged EXCEPT ![s] = @ \cup ({keyOf[s].key} \ {NoKey})]
        /\ keyOf[s].key # k
    BY <1>2 DEF ClaimKey
  <2>2. /\ \A x \in Sessions : purged[x] \subseteq purged'[x]
        /\ \A y \in Keys \ purged'[s] : y # keyOf[s].key
    BY <2>1, <1>0, SentinelAssumption
  <2>3. k \notin purged'[s] => recorded[s][k] = 0
    BY <2>1, <2>2, <1>0, <1>2 DEF RetryInv, RecordedHeld
  <2>4. HeldOnce'
    <3> SUFFICES ASSUME NEW d \in Callers, call'[d].k # NoKey
                 PROVE  /\ call'[d].s \in Sessions
                        /\ call'[d].k \notin purged'[call'[d].s] =>
                             /\ keyOf'[call'[d].s] = [key |-> call'[d].k, by |-> d]
                             /\ recorded[call'[d].s][call'[d].k] = 0
      BY <1>0 DEF HeldOnce
    <3>1. CASE d = c
      <4>1. call'[d].s = s /\ call'[d].k = k BY <3>1, <1>0
      <4>2. keyOf'[s] = [key |-> k, by |-> c] BY <2>1, <1>0
      <4> QED BY <4>1, <4>2, <2>3, <3>1
    <3>2. CASE d # c
      <4>1. call'[d] = call[d] BY <3>2, <1>0
      <4>2. call[d].k \in Keys
        <5>1. call[d] \in Call BY <1>0
        <5> QED BY <5>1, <4>1 DEF Call
      <4>3. /\ call[d].s \in Sessions
            /\ call[d].k \notin purged[call[d].s] =>
                 /\ keyOf[call[d].s] = [key |-> call[d].k, by |-> d]
                 /\ recorded[call[d].s][call[d].k] = 0
        BY <4>1 DEF RetryInv, HeldOnce
      <4>4. CASE call[d].s = s
        BY <4>1, <4>2, <4>3, <4>4, <2>2
      <4>5. CASE call[d].s # s
        BY <4>1, <4>2, <4>3, <4>5, <2>1, <2>2, <1>0
      <4> QED BY <4>4, <4>5
    <3> QED BY <3>1, <3>2
  <2>5. RecordedHeld'
    <3> SUFFICES ASSUME NEW x \in Sessions, NEW y \in Keys \ purged'[x]
                 PROVE  /\ recorded[x][y] <= 1
                        /\ recorded[x][y] # 0 => keyOf'[x].key = y
      BY <1>0 DEF RecordedHeld
    <3>1. y \notin purged[x] BY <2>2
    <3>2. recorded[x][y] <= 1 /\ (recorded[x][y] # 0 => keyOf[x].key = y)
      BY <3>1 DEF RetryInv, RecordedHeld
    <3>3. CASE x = s BY <3>2, <3>3, <2>2
    <3>4. CASE x # s BY <3>2, <3>4, <2>1, <1>0
    <3> QED BY <3>3, <3>4
  <2> QED BY <2>4, <2>5 DEF RetryInv
<1> QED BY <1>1, <1>2

\* A begun call carries the session and the key it was begun with.
LEMMA BegunCall ==
  ASSUME NEW c, NEW s, NEW k, NEW stage, NEW e, NEW n, NEW w,
         Begin(c, s, k, stage, e, n, w)
  PROVE  \E r : call' = [call EXCEPT ![c] = r] /\ r.s = s /\ r.k = k
<1> DEFINE r == [at |-> stage, s |-> s, k |-> k, e |-> e, seen |-> n,
                 wasOpen |-> w]
<1>1. call' = [call EXCEPT ![c] = r] BY DEF Begin
<1>2. r.s = s /\ r.k = k OBVIOUS
<1> HIDE DEF r
<1> QED BY <1>1, <1>2

LEMMA RetryStep ==
  ASSUME TypeOK, RetryInv, [Next]_vars
  PROVE  RetryInv'
<1>0. /\ call \in [Callers -> Call] /\ keyOf \in [Sessions ->
           [key: Keys \cup {NoKey}, by: Callers \cup {NoKey}]]
      /\ recorded \in [Sessions -> [Keys -> Nat]]
      /\ purged \in [Sessions -> SUBSET Keys]
      /\ NoCall.k = NoKey
  BY DEF TypeOK, NoCall
<1>1. ASSUME NEW c \in Callers, NEW s \in Sessions,
             NEW k \in Keys \cup {NoKey}, StartTurn(c, s, k)
      PROVE  RetryInv'
  <2>0. \E stage, e, n, w : Begin(c, s, k, stage, e, n, w)
    BY <1>1 DEF StartTurn, RouteToOpen, RouteToLast, RouteToRecovered,
       RouteToFresh
  <2>1. \E r : call' = [call EXCEPT ![c] = r] /\ r.s = s /\ r.k = k
    BY <2>0, BegunCall
  <2> QED BY <2>1, <1>1, RetryClaim DEF StartTurn
<1>2. ASSUME NEW c \in Callers, CallStartEpisode(c), UNCHANGED keyVars
      PROVE  RetryInv'
  <2>1. call[c] \in Call BY <1>0
  <2>2. LET p == Park(c, "starting", NoEpisode, 0, FALSE) IN
        p.k = call[c].k /\ p.s = call[c].s
    BY <2>1 DEF Park, Call
  <2> QED BY <2>2, <1>0, <1>2, KeysAlone DEF CallStartEpisode
<1>3. ASSUME NEW c \in Callers, NEW relation \in Relations,
             NEW inWindow \in BOOLEAN,
             \/ DecideOpen(c, relation, inWindow)
             \/ DecideRecovered(c, relation, inWindow)
             \/ DecideClosed(c, relation, inWindow)
      PROVE  RetryInv'
  <2>1. \/ \E e : Accept(c, e)
        \/ CallStartEpisode(c) /\ UNCHANGED keyVars
    BY <1>3 DEF DecideOpen, AppendToOpen, LeaveOpen, DecideRecovered,
       ResumeRecovered, LeaveRecovered, DecideClosed, ReopenLast, LeaveLast
  <2> QED BY <2>1, <1>2, RetryAccept
<1>4. ASSUME NEW c \in Callers, DecisionConflicts(c) PROVE RetryInv'
  BY <1>4, RetryReject DEF DecisionConflicts
<1>5. ASSUME NEW c \in Callers, StartEpisode(c) \/ EpisodeOpened(c)
      PROVE  RetryInv'
  BY <1>5, RetryAccept DEF StartEpisode, EpisodeOpened
<1>6. ASSUME NEW c \in Callers, NEW s \in Sessions,
             NEW named \in Episodes \cup {NoEpisode},
             EndTurn(c, s, named) \/ OpenEpisode(c, s)
      PROVE  RetryInv'
  <2>0. /\ \E stage, e, n, w : Begin(c, s, NoKey, stage, e, n, w)
        /\ UNCHANGED keyVars
    BY <1>6 DEF EndTurn, OpenEpisode
  <2>1. /\ \E r : call' = [call EXCEPT ![c] = r] /\ r.k = NoKey
        /\ UNCHANGED keyVars
    BY <2>0, BegunCall
  <2> QED BY <2>1, <1>0, KeysAlone
<1>7. ASSUME NEW c \in Callers, FinishTurn(c) PROVE RetryInv'
  BY <1>0, <1>7, KeysAlone DEF FinishTurn
<1>8. ASSUME NEW e \in Episodes, CloseEpisode(e) PROVE RetryInv'
  BY <1>8, KeysAlone DEF CloseEpisode
<1>9. ASSUME NEW s \in Sessions, CloseSession(s) PROVE RetryInv'
  <2>1. /\ \A x \in Sessions : purged[x] \subseteq purged'[x]
        /\ \A y \in Keys \ purged'[s] : y # keyOf[s].key
        /\ \A x \in Sessions : x # s => keyOf'[x] = keyOf[x]
                                        /\ purged'[x] = purged[x]
        /\ recorded' = recorded /\ call' = call
    BY <1>0, <1>9, SentinelAssumption DEF CloseSession
  <2>2. HeldOnce'
    <3> SUFFICES ASSUME NEW d \in Callers, call[d].k # NoKey
                 PROVE  /\ call[d].s \in Sessions
                        /\ call[d].k \notin purged'[call[d].s] =>
                             /\ keyOf'[call[d].s] = [key |-> call[d].k, by |-> d]
                             /\ recorded[call[d].s][call[d].k] = 0
      BY <2>1 DEF HeldOnce
    <3>1. call[d].k \in Keys
      <4>1. call[d] \in Call BY <1>0
      <4> QED BY <4>1 DEF Call
    <3>2. /\ call[d].s \in Sessions
          /\ call[d].k \notin purged[call[d].s] =>
               /\ keyOf[call[d].s] = [key |-> call[d].k, by |-> d]
               /\ recorded[call[d].s][call[d].k] = 0
      BY DEF RetryInv, HeldOnce
    <3> QED BY <2>1, <3>1, <3>2
  <2>3. RecordedHeld'
    BY <2>1 DEF RetryInv, RecordedHeld
  <2> QED BY <2>2, <2>3 DEF RetryInv
<1>10. ASSUME Crash \/ Shutdown PROVE RetryInv'
  <2>1. /\ \A x \in Sessions : purged'[x] =
             purged[x] \cup ({keyOf[x].key} \ {NoKey})
        /\ recorded' = recorded /\ call' = [c \in Callers |-> NoCall]
    BY <1>10 DEF Crash, Shutdown, Restart
  <2>2. HeldOnce' BY <1>0, <2>1 DEF HeldOnce
  <2>3. RecordedHeld'
    BY <2>1, <1>0, SentinelAssumption DEF RetryInv, RecordedHeld
  <2> QED BY <2>2, <2>3 DEF RetryInv
<1>11. CASE UNCHANGED vars
  BY <1>11 DEF vars, RetryInv, HeldOnce, RecordedHeld
<1> QED
  BY <1>1, <1>3, <1>4, <1>5, <1>6, <1>7, <1>8, <1>9, <1>10, <1>11 DEF Next

\* A retried turn start never records the user's turn twice, whatever other
\* turns, answers and closes run between the attempts.
THEOREM RetryCorrect == Spec => []RetryRecordedOnce
<1>1. Init => RetryInv
  <2>1. NoCall.k = NoKey BY DEF NoCall
  <2> QED BY <2>1 DEF Init, RetryInv, HeldOnce, RecordedHeld
<1>2. TypeOK /\ RetryInv /\ [Next]_vars => RetryInv' BY RetryStep
<1>3. RetryInv => RetryRecordedOnce
  BY DEF RetryInv, RecordedHeld, RetryRecordedOnce
<1> QED BY <1>1, <1>2, <1>3, TypeCorrect, PTL DEF Spec

-----------------------------------------------------------------------------
(* A session behind its adapter's queue, without direct calls and within   *)
(* the recovery window: its open episode is the newest row it may continue, *)
(* the orchestrator's maps tell which one it is, and the call in flight     *)
(* knows what the maps knew when it read them.                              *)

\* No call works on a topic of another session than the one it serves.
NoneAdopted ==
  \A c \in Callers : call[c].e # NoEpisode => ep[call[c].e].home = call[c].s

\* With one session there is no other whose topic could be adopted.
OneSession == \A s, x \in Sessions : s = x

Newest(s, e) ==
  \A d \in Episodes :
    ep[d].status # "none" /\ ~ep[d].boundary /\ ep[d].home = s => d <= e

NoneOpen(s) == \A e \in Episodes : ~(IsOpen(e) /\ ep[e].home = s)

RowsHoused ==
  \A e \in Episodes :
    \/ ep[e].status = "none" /\ ep[e].home = NoSession /\ ~ep[e].boundary
    \/ ep[e].status # "none" /\ ep[e].home \in Sessions /\ e <= started

OpenIsNewest(s) ==
  \A e \in Episodes :
    IsOpen(e) /\ ep[e].home = s => ~ep[e].boundary /\ Newest(s, e)

IndexesTrue(s) ==
  /\ openOf[s] # NoEpisode => IsOpen(openOf[s]) /\ ep[openOf[s]].home = s
  /\ lastOf[s] # NoEpisode =>
       /\ ep[lastOf[s]].status # "none" /\ ep[lastOf[s]].home = s
       /\ ~ep[lastOf[s]].boundary
       /\ openOf[s] = NoEpisode => NoneOpen(s) /\ Newest(s, lastOf[s])
  /\ asked[s] # NoEpisode => openOf[s] = asked[s]

OnRecovered(s, e, wasOpen) ==
  /\ e # NoEpisode /\ ep[e].status # "none" /\ ep[e].home = s
  /\ ~ep[e].boundary /\ Newest(s, e)
  /\ wasOpen = IsOpen(e)
  /\ \A d \in Episodes : IsOpen(d) /\ ep[d].home = s => d = e
  /\ openOf[s] = NoEpisode /\ lastOf[s] = NoEpisode

CallTrue(r) ==
  /\ r.s \in Sessions /\ asked[r.s] = NoEpisode
  /\ \/ /\ r.at = "route_open"
        /\ r.e # NoEpisode /\ r.e = openOf[r.s]
     \/ r.at = "route_recovered" /\ OnRecovered(r.s, r.e, r.wasOpen)
     \/ /\ r.at = "route_closed"
        /\ r.e # NoEpisode /\ r.e = lastOf[r.s] /\ openOf[r.s] = NoEpisode
     \/ r.at = "starting" /\ openOf[r.s] = NoEpisode /\ NoneOpen(r.s)
     \/ /\ r.at = "capturing" /\ r.wasOpen
        /\ r.e # NoEpisode /\ r.e = openOf[r.s]

SessionTrue(s) == OpenIsNewest(s) /\ IndexesTrue(s)

SerialInv ==
  /\ RowsHoused
  /\ \A s \in Sessions : SessionTrue(s)
  /\ \A c \in Callers : call[c] = NoCall \/ CallTrue(call[c])
  /\ \A c, d \in Callers :
       call[c] # NoCall /\ call[d] # NoCall /\ call[c].s = call[d].s => c = d

\* No open row is so far back that the list of a turn start misses it.
OpenListed == \A e \in Episodes : IsOpen(e) => e \in Listed

\* A row that is not listed is older than every row that is.
LEMMA ListedNewest ==
  ASSUME NEW d \in Episodes, NEW e \in Listed, ep[d].status # "none", d \notin Listed
  PROVE  d <= e
<1> DEFINE After(x) == {y \in Episodes : y > x /\ ep[y].status # "none"}
<1>1. e \in Episodes /\ Cardinality(After(e)) < RowLimit BY DEF Listed
<1>2. ~(Cardinality(After(d)) < RowLimit) BY DEF Listed
<1>3. ASSUME e < d PROVE FALSE
  <2>1. IsFiniteSet(Episodes)
    BY RoutingBoundsAssumption, FS_Interval DEF Episodes
  <2>2. After(e) \in SUBSET Episodes OBVIOUS
  <2>3. IsFiniteSet(After(e)) BY <2>1, <2>2, FS_Subset
  <2>4. After(d) \in SUBSET After(e)
    BY <1>1, <1>3, RoutingBoundsAssumption DEF Episodes
  <2>5. Cardinality(After(d)) <= Cardinality(After(e)) /\ IsFiniteSet(After(d))
    BY <2>3, <2>4, FS_Subset
  <2>6. Cardinality(After(d)) \in Nat /\ Cardinality(After(e)) \in Nat
    BY <2>3, <2>5, FS_CardinalityType
  <2> HIDE DEF After
  <2> QED BY <1>1, <1>2, <2>5, <2>6, RoutingBoundsAssumption
<1> QED BY <1>1, <1>3, RoutingBoundsAssumption DEF Episodes

\* What is true of a session stays true when its rows, its indexes and its
\* question are left alone.
LEMMA SessionAlone ==
  ASSUME TypeOK, RowsHoused', NEW x \in Sessions, SessionTrue(x),
         openOf'[x] = openOf[x], lastOf'[x] = lastOf[x], asked'[x] = asked[x],
         \A e \in Episodes :
           ep'[e] = ep[e] \/ (ep'[e].home # x /\ ep[e].home # x)
  PROVE  /\ SessionTrue(x)'
         /\ \A r \in Call : r.s = x /\ CallTrue(r) => CallTrue(r)'
<1>1. /\ openOf[x] \in Episodes \cup {NoEpisode}
      /\ lastOf[x] \in Episodes \cup {NoEpisode}
  BY DEF TypeOK
<1>2. \A e \in Episodes : Newest(x, e) => Newest(x, e)'
  BY DEF Newest
<1>3. NoneOpen(x) => NoneOpen(x)'
  BY DEF NoneOpen, IsOpen
<1>4. OpenIsNewest(x)'
  BY <1>2 DEF SessionTrue, OpenIsNewest, IsOpen
<1>5. IndexesTrue(x)'
  BY <1>1, <1>2, <1>3 DEF SessionTrue, IndexesTrue, IsOpen
<1>6. \A e \in Episodes \cup {NoEpisode}, w \in BOOLEAN :
        OnRecovered(x, e, w) => OnRecovered(x, e, w)'
  BY <1>2 DEF OnRecovered, IsOpen
<1>7. \A r \in Call : r.s = x /\ CallTrue(r) => CallTrue(r)'
  <2>1. \A r \in Call : r.e \in Episodes \cup {NoEpisode} /\ r.wasOpen \in BOOLEAN
    BY DEF Call
  <2> QED BY <2>1, <1>3, <1>6 DEF CallTrue
<1> QED BY <1>4, <1>5, <1>7 DEF SessionTrue

\* A step of one session: the others are not disturbed.
LEMMA SessionStep ==
  ASSUME TypeOK, SerialInv, NEW s \in Sessions, NEW c,
         \A x \in Sessions \ {s} : /\ openOf'[x] = openOf[x]
                                   /\ lastOf'[x] = lastOf[x]
                                   /\ asked'[x] = asked[x],
         \A e \in Episodes :
           ep'[e] = ep[e] \/ (ep'[e].home = s /\ ep[e].home \in {s, NoSession}),
         \A d \in Callers :
           \/ call'[d] = call[d] /\ call[d].s # s
           \/ d = c /\ call'[d] = NoCall
           \/ d = c /\ \E r \in Call : call'[d] = r /\ r.s = s /\ CallTrue(r)',
         RowsHoused', SessionTrue(s)'
  PROVE  SerialInv'
<1> USE SentinelAssumption
<1>1. \A x \in Sessions \ {s} :
        /\ SessionTrue(x)'
        /\ \A r \in Call : r.s = x /\ CallTrue(r) => CallTrue(r)'
  <2> SUFFICES ASSUME NEW x \in Sessions \ {s}
               PROVE  /\ SessionTrue(x)'
                      /\ \A r \in Call : r.s = x /\ CallTrue(r) => CallTrue(r)'
    OBVIOUS
  <2>1. \A e \in Episodes :
          ep'[e] = ep[e] \/ (ep'[e].home # x /\ ep[e].home # x)
    OBVIOUS
  <2>2. SessionTrue(x) BY DEF SerialInv
  <2> QED BY <2>1, <2>2, SessionAlone
<1>2. NoCall.s = NoSession BY DEF NoCall
<1>3. \A d \in Callers : call[d] \in Call /\ (call[d] = NoCall \/ CallTrue(call[d]))
  BY DEF SerialInv, TypeOK
<1>4. \A r : CallTrue(r) => r.s \in Sessions BY DEF CallTrue
<1>5. \A d \in Callers :
        call'[d] = NoCall \/ \E r \in Call : call'[d] = r /\ CallTrue(r)'
  <2> SUFFICES ASSUME NEW d \in Callers, call'[d] = call[d], call[d].s # s,
                      call[d] # NoCall
               PROVE  \E r \in Call : call'[d] = r /\ CallTrue(r)'
    OBVIOUS
  <2>1. CallTrue(call[d]) /\ call[d].s \in Sessions \ {s} BY <1>3, <1>4
  <2>2. PICK r \in Call : r = call[d] BY <1>3
  <2>3. CallTrue(r)' BY <2>1, <2>2, <1>1
  <2> QED BY <2>2, <2>3
<1>6. \A b, d \in Callers :
        call'[b] # NoCall /\ call'[d] # NoCall /\ call'[b].s = call'[d].s => b = d
  BY <1>2 DEF SerialInv
<1>7. \A d \in Callers : (call[d] = NoCall \/ CallTrue(call[d]))'
  BY <1>5 DEF CallTrue
<1> QED BY <1>1, <1>7, <1>6 DEF SerialInv

\* What a call of a session knows about the other calls: it is alone.
LEMMA AloneInSession ==
  ASSUME TypeOK, SerialInv, NEW c \in Callers, call[c] # NoCall
  PROVE  /\ call[c].s \in Sessions /\ CallTrue(call[c])
         /\ \A d \in Callers : d # c => call[d].s # call[c].s
<1>1. CallTrue(call[c]) BY DEF SerialInv
<1>2. call[c].s \in Sessions BY <1>1 DEF CallTrue
<1>3. ASSUME NEW d \in Callers, d # c PROVE call[d].s # call[c].s
  <2>1. CASE call[d] = NoCall
    BY <2>1, <1>2, SentinelAssumption DEF NoCall
  <2>2. CASE call[d] # NoCall
    BY <2>2, <1>3 DEF SerialInv
  <2> QED BY <2>1, <2>2
<1> QED BY <1>1, <1>2, <1>3

\* A session's turn starts: what it reads from the maps or finds among the
\* rows is the only episode that can be open.
LEMMA SerialStart ==
  ASSUME TypeOK, TypeOK', IndexInv, SerialInv, NoneAdopted' \/ OneSession,
         OpenListed, Serial, ~MayExpire,
         NEW c \in Callers, NEW s \in Sessions, NEW k \in Keys \cup {NoKey},
         StartTurn(c, s, k)
  PROVE  SerialInv'
<1> USE SentinelAssumption
<1>0. /\ openOf \in [Sessions -> Episodes \cup {NoEpisode}]
      /\ lastOf \in [Sessions -> Episodes \cup {NoEpisode}]
      /\ asked \in [Sessions -> Episodes \cup {NoEpisode}]
      /\ ep \in [Episodes -> Episode]
      /\ call \in [Callers -> Call] /\ call' \in [Callers -> Call]
  BY DEF TypeOK
<1>1. /\ \A d \in Callers : call[d].s # s
      /\ asked' = [asked EXCEPT ![s] = NoEpisode]
      /\ started' = started /\ lastOf' = lastOf
  BY DEF StartTurn, Queued, Free
<1>2. SessionTrue(s) /\ RowsHoused BY DEF SerialInv
<1>3. openOf[s] # NoEpisode => KnowsOpen(s)
  BY <1>2 DEF SessionTrue, IndexesTrue, KnowsOpen, IndexInv
<1>4. \A x \in Sessions \ {s} :
        openOf'[x] = openOf[x] /\ lastOf'[x] = lastOf[x] /\ asked'[x] = asked[x]
  BY <1>0, <1>1 DEF StartTurn, RouteToOpen, RouteToLast, RouteToRecovered,
     RouteToFresh
<1>5. \A d \in Callers : d # c => call'[d] = call[d]
  BY <1>0 DEF StartTurn, RouteToOpen, RouteToLast, RouteToRecovered,
     RouteToFresh, Begin
<1>6. call'[c] \in Call BY <1>0
<1>7. SUFFICES /\ \A e \in Episodes :
                    ep'[e] = ep[e] \/ (ep'[e].home = s /\ ep[e].home = s)
               /\ call'[c].s = s /\ CallTrue(call[c])'
               /\ RowsHoused' /\ SessionTrue(s)'
  <2>1. \E r \in Call : call'[c] = r /\ r.s = s /\ CallTrue(r)'
    BY <1>6, <1>7 DEF CallTrue
  <2> QED BY <2>1, <1>1, <1>4, <1>5, <1>7, SessionStep
<1>8. asked'[s] = NoEpisode BY <1>0, <1>1
<1>9. CASE RouteToOpen(c, s, k)
  <2>1. /\ ep' = ep /\ openOf' = openOf /\ openOf[s] # NoEpisode
        /\ call'[c].at = "route_open" /\ call'[c].s = s
        /\ call'[c].e = openOf[s]
    BY <1>0, <1>9 DEF RouteToOpen, Begin, KnowsOpen
  <2>2. CallTrue(call[c])' BY <2>1, <1>8 DEF CallTrue
  <2>3. SessionTrue(s)'
    BY <2>1, <1>1, <1>2, <1>8 DEF SessionTrue, OpenIsNewest, IndexesTrue,
       Newest, NoneOpen, IsOpen
  <2>4. RowsHoused' BY <2>1, <1>1, <1>2 DEF RowsHoused
  <2> QED BY <2>1, <2>2, <2>3, <2>4
<1>10. CASE RouteToLast(c, s, k)
  <2>1. /\ ep' = ep /\ openOf[s] = NoEpisode /\ openOf'[s] = NoEpisode
        /\ lastOf[s] # NoEpisode
        /\ call'[c].at = "route_closed" /\ call'[c].s = s
        /\ call'[c].e = lastOf[s]
    BY <1>0, <1>3, <1>10 DEF RouteToLast, Begin
  <2>2. CallTrue(call[c])' BY <2>1, <1>1, <1>8 DEF CallTrue
  <2>3. SessionTrue(s)'
    BY <2>1, <1>1, <1>2, <1>8 DEF SessionTrue, OpenIsNewest, IndexesTrue,
       Newest, NoneOpen, IsOpen
  <2>4. RowsHoused' BY <2>1, <1>1, <1>2 DEF RowsHoused
  <2> QED BY <2>1, <2>2, <2>3, <2>4
<1>11. CASE RouteToRecovered(c, s, k)
  <2>1. PICK e \in Candidates(s) :
          /\ \A d \in Candidates(s) : d <= e
          /\ ep' = [ep EXCEPT ![e] = Hydrated(e)]
          /\ Begin(c, s, k, "route_recovered", e, Hydrated(e).turns, IsOpen(e))
    BY <1>11 DEF RouteToRecovered, Recoverable
  <2>2. /\ openOf[s] = NoEpisode /\ openOf'[s] = NoEpisode /\ lastOf[s] = NoEpisode
    BY <1>0, <1>3, <1>11 DEF RouteToRecovered
  <2>3. /\ call'[c].at = "route_recovered" /\ call'[c].s = s
        /\ call'[c].e = e /\ call'[c].wasOpen = IsOpen(e)
    BY <1>0, <2>1 DEF Begin
  <2>4. e \in Episodes /\ e # NoEpisode /\ ep[e].status # "none" /\ ~ep[e].boundary
    BY <2>1, RoutingBoundsAssumption DEF Candidates, Listed, Episodes, NoEpisode
  <2>5. /\ Hydrated(e).status = ep[e].status /\ Hydrated(e).home = ep[e].home
        /\ Hydrated(e).boundary = ep[e].boundary
    BY <1>0, <2>4 DEF Hydrated, Rebuilt, Episode
  <2>6. \A d \in Episodes : /\ ep'[d].status = ep[d].status
                            /\ ep'[d].home = ep[d].home
                            /\ ep'[d].boundary = ep[d].boundary
                            /\ d # e => ep'[d] = ep[d]
    BY <1>0, <2>1, <2>4, <2>5
  <2>7. ep[e].home = s
    <3>1. NoneAdopted' => ep[e].home = s
      BY <2>3, <2>4, <2>6 DEF NoneAdopted
    <3>2. OneSession => ep[e].home = s
      BY <2>4, <1>2 DEF RowsHoused, OneSession
    <3> QED BY <3>1, <3>2
  <2>8. Newest(s, e)
    <3> SUFFICES ASSUME NEW d \in Episodes, ep[d].status # "none",
                        ~ep[d].boundary, ep[d].home = s
                 PROVE  d <= e
      BY DEF Newest
    <3>1. CASE d \in Listed BY <3>1, <2>1 DEF Candidates
    <3>2. CASE d \notin Listed BY <3>2, <2>1, ListedNewest DEF Candidates
    <3> QED BY <3>1, <3>2
  <2>9. \A d \in Episodes : IsOpen(d) /\ ep[d].home = s => d = e
    BY <2>4, <2>7, <2>8, <1>2 DEF SessionTrue, OpenIsNewest, Newest, Episodes,
       IsOpen
  <2>10. CallTrue(call[c])'
    BY <2>2, <2>3, <2>4, <2>6, <2>7, <2>8, <2>9, <1>1, <1>8
    DEF CallTrue, OnRecovered, Newest, IsOpen
  <2>11. SessionTrue(s)'
    BY <2>2, <2>6, <1>1, <1>2, <1>8 DEF SessionTrue, OpenIsNewest, IndexesTrue,
       Newest, NoneOpen, IsOpen
  <2>12. RowsHoused' BY <2>6, <1>1, <1>2 DEF RowsHoused
  <2> QED BY <2>3, <2>6, <2>7, <2>10, <2>11, <2>12
<1>12. CASE RouteToFresh(c, s, k)
  <2>1. /\ ep' = ep /\ openOf[s] = NoEpisode /\ openOf'[s] = NoEpisode
        /\ lastOf[s] = NoEpisode
        /\ call'[c].at = "starting" /\ call'[c].s = s
    BY <1>0, <1>3, <1>12 DEF RouteToFresh, Begin
  <2>2. \A e \in Candidates(s) : \E d \in Candidates(s) : ~(d <= e)
    BY <1>12 DEF RouteToFresh, Recoverable
  <2>3. NoneOpen(s)
    <3> SUFFICES ASSUME NEW e \in Episodes, IsOpen(e), ep[e].home = s
                 PROVE  FALSE
      BY DEF NoneOpen
    <3>1. ~ep[e].boundary /\ Newest(s, e)
      BY <1>2 DEF SessionTrue, OpenIsNewest
    <3>2. e \in Candidates(s) BY <3>1 DEF Candidates, OpenListed
    <3>3. \A d \in Candidates(s) : d <= e
      <4>1. \A d \in Candidates(s) : ep[d].home = s
        BY <3>2 DEF Candidates
      <4> QED BY <3>1, <4>1 DEF Candidates, Listed, Newest
    <3> QED BY <2>2, <3>2, <3>3
  <2>4. CallTrue(call[c])'
    BY <2>1, <2>3, <1>8 DEF CallTrue, NoneOpen, IsOpen
  <2>5. SessionTrue(s)'
    BY <2>1, <1>1, <1>2, <1>8 DEF SessionTrue, OpenIsNewest, IndexesTrue,
       Newest, NoneOpen, IsOpen
  <2>6. RowsHoused' BY <2>1, <1>1, <1>2 DEF RowsHoused
  <2> QED BY <2>1, <2>4, <2>5, <2>6
<1> QED BY <1>9, <1>10, <1>11, <1>12 DEF StartTurn

\* The episode a session's calls may find open is one.
LEMMA OneOpenRow ==
  ASSUME NEW s \in Sessions, SessionTrue(s), NEW d \in Episodes, NEW e \in Episodes,
         IsOpen(d), ep[d].home = s, ep[e].home = s, ep[e].status # "none",
         ~ep[e].boundary, IsOpen(e) \/ Newest(s, e)
  PROVE  d = e
<1>1. ~ep[d].boundary /\ Newest(s, d) BY DEF SessionTrue, OpenIsNewest
<1>2. Newest(s, e) BY DEF SessionTrue, OpenIsNewest
<1> QED BY <1>1, <1>2 DEF Newest, IsOpen, Episodes

\* The frame of a classified or started turn: its caller's session.
LEMMA CallerStep ==
  ASSUME TypeOK, TypeOK', SerialInv, NEW c \in Callers, call[c] # NoCall,
         NEW s, s = call[c].s,
         \A x \in Sessions \ {s} : /\ openOf'[x] = openOf[x]
                                   /\ lastOf'[x] = lastOf[x]
                                   /\ asked'[x] = asked[x],
         \A e \in Episodes :
           ep'[e] = ep[e] \/ (ep'[e].home = s /\ ep[e].home \in {s, NoSession}),
         \A d \in Callers : d # c => call'[d] = call[d],
         call'[c] = NoCall \/ (call'[c].s = s /\ CallTrue(call[c])'),
         RowsHoused', SessionTrue(s)'
  PROVE  SerialInv'
<1>1. s \in Sessions /\ \A d \in Callers : d # c => call[d].s # s
  BY AloneInSession
<1>2. call'[c] \in Call BY DEF TypeOK
<1>3. call'[c] = NoCall \/ \E r \in Call : call'[c] = r /\ r.s = s /\ CallTrue(r)'
  BY <1>2 DEF CallTrue
<1> QED BY <1>1, <1>3, SessionStep

\* The caller's session gets an episode that was none of its open ones: the row is
\* open, unmarked and the newest, both maps are true, and the question is open.
Taken(c, s, e) ==
  /\ call[c] # NoCall /\ s = call[c].s /\ Accept(c, e)
  /\ \A x \in Sessions \ {s} : openOf'[x] = openOf[x] /\ lastOf'[x] = lastOf[x]
  /\ \A d \in Episodes : d # e => ep'[d] = ep[d]
  /\ \A d \in Episodes : d # e => ~(IsOpen(d) /\ ep[d].home = s)
  /\ ep[e].home \in {s, NoSession} /\ ep'[e].status = "open" /\ ep'[e].home = s
  /\ ~ep'[e].boundary /\ Newest(s, e)' /\ RowsHoused'
  /\ openOf'[s] = e
  /\ lastOf'[s] # NoEpisode =>
       /\ ep'[lastOf'[s]].status # "none" /\ ep'[lastOf'[s]].home = s
       /\ ~ep'[lastOf'[s]].boundary

LEMMA SerialAccept ==
  ASSUME TypeOK, TypeOK', SerialInv, Serial, NEW c \in Callers, NEW s, NEW e \in Episodes,
         Taken(c, s, e)
  PROVE  SerialInv'
<1>a. /\ call[c] # NoCall /\ s = call[c].s /\ Accept(c, e)
      /\ \A x \in Sessions \ {s} : openOf'[x] = openOf[x] /\ lastOf'[x] = lastOf[x]
  BY DEF Taken
<1>b. /\ \A d \in Episodes : d # e => ep'[d] = ep[d]
      /\ \A d \in Episodes : d # e => ~(IsOpen(d) /\ ep[d].home = s)
      /\ ep[e].home \in {s, NoSession} /\ IsOpen(e)' /\ ep'[e].home = s
      /\ ~ep'[e].boundary /\ Newest(s, e)' /\ RowsHoused'
  BY DEF Taken, IsOpen
<1>c. PICK l : l = lastOf'[s] OBVIOUS
<1>d. /\ openOf'[s] = e
      /\ l # NoEpisode => ep'[l].status # "none" /\ ep'[l].home = s /\ ~ep'[l].boundary
  BY <1>c DEF Taken
<1> USE SentinelAssumption
<1>0. s \in Sessions BY <1>a, AloneInSession
<1>1. e # NoEpisode BY RoutingBoundsAssumption DEF Episodes, NoEpisode
<1>2. /\ asked' = [asked EXCEPT ![s] = e]
      /\ call' = [call EXCEPT ![c] = NoCall]
  BY <1>a DEF Accept
<1>3. asked'[s] = e /\ \A x \in Sessions \ {s} : asked'[x] = asked[x]
  BY <1>0, <1>2 DEF TypeOK
<1>4. call'[c] = NoCall /\ \A d \in Callers : d # c => call'[d] = call[d]
  BY <1>2 DEF TypeOK
<1>5. OpenIsNewest(s)'
  BY <1>b DEF OpenIsNewest, IsOpen
<1>6. IndexesTrue(s)'
  BY <1>1, <1>3, <1>b, <1>c, <1>d DEF IndexesTrue
<1>7. SessionTrue(s)' BY <1>5, <1>6 DEF SessionTrue
<1>8. \A d \in Episodes :
        ep'[d] = ep[d] \/ (ep'[d].home = s /\ ep[d].home \in {s, NoSession})
  BY <1>b
<1> QED BY <1>a, <1>b, <1>3, <1>4, <1>7, <1>8, CallerStep

\* startEpisode is called once nothing of the session is open.
Left(c, s) ==
  /\ call[c] # NoCall /\ s = call[c].s /\ CallStartEpisode(c) /\ asked' = asked
  /\ \A x \in Sessions \ {s} : openOf'[x] = openOf[x] /\ lastOf'[x] = lastOf[x]
  /\ \A d \in Episodes : ep'[d] = ep[d] \/ (ep'[d].home = s /\ ep[d].home = s)
  /\ RowsHoused' /\ NoneOpen(s)' /\ openOf'[s] = NoEpisode
  /\ lastOf'[s] # NoEpisode =>
       /\ ep'[lastOf'[s]].status # "none" /\ ep'[lastOf'[s]].home = s
       /\ ~ep'[lastOf'[s]].boundary /\ \A l \in {lastOf'[s]} : Newest(s, l)'

LEMMA SerialLeave ==
  ASSUME TypeOK, TypeOK', SerialInv, NEW c \in Callers, NEW s, Left(c, s)
  PROVE  SerialInv'
<1>a. /\ call[c] # NoCall /\ s = call[c].s /\ CallStartEpisode(c) /\ asked' = asked
      /\ \A x \in Sessions \ {s} : openOf'[x] = openOf[x] /\ lastOf'[x] = lastOf[x]
      /\ \A d \in Episodes : ep'[d] = ep[d] \/ (ep'[d].home = s /\ ep[d].home = s)
      /\ RowsHoused' /\ NoneOpen(s)' /\ openOf'[s] = NoEpisode
  BY DEF Left
<1>b. PICK l : l = lastOf'[s] OBVIOUS
<1>c. l # NoEpisode => /\ ep'[l].status # "none" /\ ep'[l].home = s
                       /\ ~ep'[l].boundary /\ Newest(s, l)'
  BY <1>b DEF Left
<1>0. s \in Sessions /\ asked[s] = NoEpisode
  BY <1>a, AloneInSession DEF CallTrue
<1>1. /\ \A d \in Callers : d # c => call'[d] = call[d]
      /\ call'[c] = Park(c, "starting", NoEpisode, 0, FALSE)
  BY <1>a DEF CallStartEpisode, TypeOK
<1>2. call'[c].s = s /\ call'[c].at = "starting"
  <2>1. call[c] \in Call BY DEF TypeOK
  <2> QED BY <1>a, <2>1, <1>1 DEF Park, Call
<1>3. CallTrue(call[c])' BY <1>a, <1>0, <1>2 DEF CallTrue
<1>4. SessionTrue(s)'
  BY <1>a, <1>b, <1>c, <1>0 DEF SessionTrue, OpenIsNewest, NoneOpen, IndexesTrue
<1> QED BY <1>a, <1>1, <1>2, <1>3, <1>4, CallerStep

\* The relation classifier answered.
LEMMA SerialDecide ==
  ASSUME TypeOK, TypeOK', SerialInv, Serial, NEW c \in Callers,
         NEW relation \in Relations, NEW inWindow \in BOOLEAN,
         \/ DecideOpen(c, relation, inWindow)
         \/ DecideRecovered(c, relation, inWindow)
         \/ DecideClosed(c, relation, inWindow)
  PROVE  SerialInv'
<1> USE SentinelAssumption
<1>a. PICK s : s = call[c].s OBVIOUS
<1>b. PICK e : e = call[c].e OBVIOUS
<1> USE <1>a, <1>b
<1>0. /\ openOf \in [Sessions -> Episodes \cup {NoEpisode}]
      /\ lastOf \in [Sessions -> Episodes \cup {NoEpisode}]
      /\ ep \in [Episodes -> Episode]
      /\ call[c] \in Call /\ call[c].at # "idle" /\ call[c] # NoCall
      /\ NoEpisode \notin Episodes
  BY RoutingBoundsAssumption DEF TypeOK, DecideOpen, DecideRecovered,
     DecideClosed, NoCall, Episodes, NoEpisode
<1>c. call[c] # NoCall BY <1>0
<1>1. /\ s \in Sessions /\ CallTrue(call[c]) /\ asked[s] = NoEpisode
      /\ SessionTrue(s) /\ RowsHoused
  BY <1>0, AloneInSession DEF SerialInv, CallTrue
<1>2. \A x \in Sessions \ {s} : openOf'[x] = openOf[x] /\ lastOf'[x] = lastOf[x]
  BY <1>0 DEF DecideOpen, AppendToOpen, LeaveOpen, DecideRecovered,
     ResumeRecovered, LeaveRecovered, DecideClosed, ReopenLast, LeaveLast
<1>3. started' = started
  BY DEF DecideOpen, DecideRecovered, DecideClosed
<1>4. CASE DecideOpen(c, relation, inWindow)
  <2>1. /\ e \in Episodes /\ e # NoEpisode /\ e = openOf[s]
        /\ IsOpen(e) /\ ep[e].home = s /\ ~ep[e].boundary /\ Newest(s, e)
        /\ \A d \in Episodes : IsOpen(d) /\ ep[d].home = s => d = e
    <3>1. e = openOf[s] /\ e # NoEpisode
      BY <1>1, <1>4 DEF DecideOpen, CallTrue
    <3>2. e \in Episodes /\ IsOpen(e) /\ ep[e].home = s
      BY <3>1, <1>0, <1>1 DEF SessionTrue, IndexesTrue
    <3>3. ~ep[e].boundary /\ Newest(s, e)
      BY <3>2, <1>1 DEF SessionTrue, OpenIsNewest
    <3> QED BY <3>1, <3>2, <3>3, <1>1, OneOpenRow DEF IsOpen
  <2>2. CASE AppendToOpen(c)
    <3>1. /\ ep' = [ep EXCEPT ![e] = Said(ep[e])] /\ Accept(c, e)
          /\ openOf' = openOf /\ lastOf' = lastOf
      BY <2>2 DEF AppendToOpen
    <3>2. /\ ep'[e].status = "open" /\ ep'[e].home = s /\ ~ep'[e].boundary
          /\ \A d \in Episodes : d # e => ep'[d] = ep[d]
      BY <3>1, <2>1, <1>0 DEF Said, Episode, IsOpen
    <3>3. RowsHoused' BY <3>2, <2>1, <1>1, <1>3 DEF RowsHoused, IsOpen
    <3>4. Newest(s, e)' BY <3>2, <2>1 DEF Newest, IsOpen
    <3>5. lastOf'[s] # NoEpisode =>
            /\ ep'[lastOf'[s]].status # "none" /\ ep'[lastOf'[s]].home = s
            /\ ~ep'[lastOf'[s]].boundary
      BY <3>1, <3>2, <1>0, <1>1, <2>1 DEF SessionTrue, IndexesTrue
    <3>6. /\ openOf'[s] = e
          /\ \A d \in Episodes : d # e => ~(IsOpen(d) /\ ep[d].home = s)
      BY <3>1, <2>1
    <3>7. Taken(c, s, e)
      BY <3>1, <3>2, <3>3, <3>4, <3>5, <3>6, <2>1, <1>c, <1>2 DEF Taken
    <3> QED BY <3>7, <2>1, SerialAccept
  <2>3. CASE LeaveOpen(c, relation)
    <3>1. /\ ep' = [ep EXCEPT ![e] = Finalized(ep[e])] /\ CallStartEpisode(c)
          /\ openOf' = [openOf EXCEPT ![s] = NoEpisode] /\ asked' = asked
          /\ lastOf' = [lastOf EXCEPT ![s] =
                          IF relation = "new_task" THEN NoEpisode ELSE e]
      BY <2>3 DEF LeaveOpen
    <3>2. /\ ep'[e].status = "closed" /\ ep'[e].home = s /\ ~ep'[e].boundary
          /\ \A d \in Episodes : d # e => ep'[d] = ep[d]
      BY <3>1, <2>1, <1>0 DEF Finalized, Episode, IsOpen
    <3>3. RowsHoused' BY <3>2, <2>1, <1>1, <1>3 DEF RowsHoused, IsOpen
    <3>4. Newest(s, e)' BY <3>2, <2>1 DEF Newest, IsOpen
    <3>5. NoneOpen(s)' BY <3>2, <2>1 DEF NoneOpen, IsOpen
    <3>6. openOf'[s] = NoEpisode /\ lastOf'[s] \in {NoEpisode, e}
      BY <3>1, <1>0, <1>1
    <3>7. Left(c, s)
      <4>1. \A d \in Episodes : ep'[d] = ep[d] \/ (ep'[d].home = s /\ ep[d].home = s)
        BY <3>2, <2>1
      <4>2. lastOf'[s] # NoEpisode =>
              /\ ep'[lastOf'[s]].status # "none" /\ ep'[lastOf'[s]].home = s
              /\ ~ep'[lastOf'[s]].boundary /\ \A l \in {lastOf'[s]} : Newest(s, l)'
        BY <3>2, <3>4, <3>6
      <4> QED BY <4>1, <4>2, <3>1, <3>3, <3>5, <3>6, <1>c, <1>2 DEF Left
    <3> QED BY <3>7, SerialLeave
  <2> QED BY <2>2, <2>3, <1>4 DEF DecideOpen
<1>5. CASE DecideRecovered(c, relation, inWindow)
  <2>1. OnRecovered(s, e, call[c].wasOpen)
    BY <1>1, <1>5 DEF DecideRecovered, CallTrue
  <2>2. e \in Episodes BY <2>1, <1>0 DEF OnRecovered, Call
  <2>3. CASE ResumeRecovered(c)
    <3>1. /\ ep' = [ep EXCEPT ![e] = Said(Reopened(ep[e]))] /\ Accept(c, e)
          /\ openOf' = [openOf EXCEPT ![s] = e]
          /\ lastOf' = [lastOf EXCEPT ![s] = NoEpisode]
      BY <2>3 DEF ResumeRecovered
    <3>2. /\ ep'[e].status = "open" /\ ep'[e].home = s /\ ~ep'[e].boundary
          /\ \A d \in Episodes : d # e => ep'[d] = ep[d]
      BY <3>1, <2>1, <2>2, <1>0 DEF Said, Reopened, Episode, IsOpen, OnRecovered
    <3>3. RowsHoused' BY <3>2, <2>1, <1>1, <1>3 DEF RowsHoused, OnRecovered
    <3>4. Newest(s, e)' BY <3>2, <2>1, <2>2 DEF Newest, OnRecovered
    <3>5. openOf'[s] = e /\ lastOf'[s] = NoEpisode BY <3>1, <1>0, <1>1
    <3>6. /\ ep[e].home = s
          /\ \A d \in Episodes : d # e => ~(IsOpen(d) /\ ep[d].home = s)
      BY <2>1 DEF OnRecovered
    <3>7. Taken(c, s, e)
      BY <3>1, <3>2, <3>3, <3>4, <3>5, <3>6, <1>c, <1>2 DEF Taken
    <3> QED BY <3>7, <2>2, SerialAccept
  <2>4. CASE LeaveRecovered(c, relation)
    <3>1. /\ CallStartEpisode(c) /\ openOf' = openOf /\ lastOf' = lastOf
          /\ asked' = asked
      BY <2>4 DEF LeaveRecovered
    <3>2. /\ \A d \in Episodes : d # e => ep'[d] = ep[d]
          /\ ep'[e].home = s /\ ep'[e].status \notin {"open", "none"}
      <4>1. CASE call[c].wasOpen
        <5>1. ep' = [ep EXCEPT ![e] = [Finalized(ep[e]) EXCEPT
                                         !.boundary = relation = "new_task"]]
          BY <4>1, <2>4 DEF LeaveRecovered
        <5>2. PICK r : r = [Finalized(ep[e]) EXCEPT !.boundary = relation = "new_task"]
          OBVIOUS
        <5>3. r.home = s /\ r.status = "closed"
          BY <5>2, <2>1, <2>2, <1>0 DEF Finalized, Episode, OnRecovered
        <5> QED BY <5>1, <5>2, <5>3, <2>2, <1>0
      <4>2. CASE ~call[c].wasOpen
        BY <4>2, <2>1, <2>2, <2>4, <1>0
        DEF LeaveRecovered, Episode, OnRecovered, IsOpen
      <4> QED BY <4>1, <4>2
    <3>3. RowsHoused' BY <3>2, <2>1, <1>1, <1>3 DEF RowsHoused, OnRecovered
    <3>4. NoneOpen(s)' BY <3>2, <2>1 DEF NoneOpen, IsOpen, OnRecovered
    <3>5. openOf'[s] = NoEpisode /\ lastOf'[s] = NoEpisode
      BY <3>1, <2>1 DEF OnRecovered
    <3>6. \A d \in Episodes : ep'[d] = ep[d] \/ (ep'[d].home = s /\ ep[d].home = s)
      BY <3>2, <2>1 DEF OnRecovered
    <3>7. Left(c, s) BY <3>1, <3>3, <3>4, <3>5, <3>6, <1>c, <1>2 DEF Left
    <3> QED BY <3>7, SerialLeave
  <2> QED BY <2>3, <2>4, <1>5 DEF DecideRecovered
<1>6. CASE DecideClosed(c, relation, inWindow)
  <2>1. e # NoEpisode /\ e = lastOf[s] /\ openOf[s] = NoEpisode
    BY <1>1, <1>6 DEF DecideClosed, CallTrue
  <2>2. /\ e \in Episodes /\ ep[e].status # "none" /\ ep[e].home = s
        /\ ~ep[e].boundary /\ NoneOpen(s) /\ Newest(s, e)
    BY <2>1, <1>0, <1>1 DEF SessionTrue, IndexesTrue
  <2>3. CASE ReopenLast(c)
    <3>1. /\ ep' = [ep EXCEPT ![e] = Said(Reopened(ep[e]))] /\ Accept(c, e)
          /\ openOf' = [openOf EXCEPT ![s] = e]
          /\ lastOf' = [lastOf EXCEPT ![s] = NoEpisode]
      BY <2>3 DEF ReopenLast
    <3>2. /\ ep'[e].status = "open" /\ ep'[e].home = s /\ ~ep'[e].boundary
          /\ \A d \in Episodes : d # e => ep'[d] = ep[d]
      BY <3>1, <2>2, <1>0 DEF Said, Reopened, Episode
    <3>3. RowsHoused' BY <3>2, <2>2, <1>1, <1>3 DEF RowsHoused
    <3>4. Newest(s, e)' BY <3>2, <2>2 DEF Newest
    <3>5. openOf'[s] = e /\ lastOf'[s] = NoEpisode BY <3>1, <1>0, <1>1
    <3>6. \A d \in Episodes : d # e => ~(IsOpen(d) /\ ep[d].home = s)
      BY <2>2 DEF NoneOpen
    <3>7. Taken(c, s, e)
      BY <3>1, <3>2, <3>3, <3>4, <3>5, <3>6, <2>2, <1>c, <1>2 DEF Taken
    <3> QED BY <3>7, <2>2, SerialAccept
  <2>4. CASE LeaveLast(c, relation)
    <3>1. CallStartEpisode(c) /\ ep' = ep /\ asked' = asked
      BY <2>4 DEF LeaveLast
    <3>2. openOf'[s] = NoEpisode /\ lastOf'[s] \in {NoEpisode, lastOf[s]}
      BY <2>1, <2>4, <1>0, <1>1 DEF LeaveLast
    <3>3. NoneOpen(s)' /\ Newest(s, e)' /\ RowsHoused'
      BY <3>1, <2>2, <1>1, <1>3 DEF NoneOpen, Newest, IsOpen, RowsHoused
    <3>4. lastOf'[s] # NoEpisode =>
            /\ ep'[lastOf'[s]].status # "none" /\ ep'[lastOf'[s]].home = s
            /\ ~ep'[lastOf'[s]].boundary /\ \A l \in {lastOf'[s]} : Newest(s, l)'
      BY <3>1, <3>2, <3>3, <2>1, <2>2
    <3>5. Left(c, s) BY <3>1, <3>2, <3>3, <3>4, <1>c, <1>2 DEF Left
    <3> QED BY <3>5, SerialLeave
  <2> QED BY <2>3, <2>4, <1>6 DEF DecideClosed
<1> QED BY <1>4, <1>5, <1>6

\* The intent classifier answered, an answer came or was stored.
LEMMA SerialOther ==
  ASSUME TypeOK, TypeOK', IndexInv, SerialInv, Serial, NEW c \in Callers,
         \/ StartEpisode(c)
         \/ FinishTurn(c)
         \/ \E x \in Sessions, named \in Episodes \cup {NoEpisode} :
              EndTurn(c, x, named)
  PROVE  SerialInv'
<1> USE SentinelAssumption
<1>0. /\ openOf \in [Sessions -> Episodes \cup {NoEpisode}]
      /\ lastOf \in [Sessions -> Episodes \cup {NoEpisode}]
      /\ asked \in [Sessions -> Episodes \cup {NoEpisode}]
      /\ ep \in [Episodes -> Episode]
      /\ call \in [Callers -> Call] /\ call[c] \in Call
      /\ NoEpisode \notin Episodes
  BY RoutingBoundsAssumption DEF TypeOK, Episodes, NoEpisode
<1>1. CASE StartEpisode(c)
  <2>1. PICK s : s = call[c].s OBVIOUS
  <2>2. call[c] # NoCall /\ call[c].at = "starting"
    BY <1>1 DEF StartEpisode, NoCall
  <2>3. /\ s \in Sessions /\ SessionTrue(s) /\ RowsHoused
        /\ NoneOpen(s) /\ openOf[s] = NoEpisode
    BY <2>1, <2>2, AloneInSession DEF SerialInv, CallTrue
  <2>4. PICK e \in Episodes : e = started + 1
    BY <1>1, RoutingBoundsAssumption DEF StartEpisode, Insert, TypeOK, Episodes
  <2>5. /\ started' = e /\ ep' = [ep EXCEPT ![e] = Fresh(s)] /\ Accept(c, e)
        /\ openOf' = [openOf EXCEPT ![s] = e] /\ lastOf' = lastOf
    BY <1>1, <2>1, <2>4 DEF StartEpisode, Insert
  <2>6. ep[e].home = NoSession /\ ep[e].status = "none"
    <3>1. ~(e <= started) BY <2>4 DEF TypeOK
    <3> QED BY <3>1, <2>3 DEF RowsHoused
  <2>7. /\ ep'[e].status = "open" /\ ep'[e].home = s /\ ~ep'[e].boundary
        /\ \A d \in Episodes : d # e => ep'[d] = ep[d]
    BY <2>5, <1>0 DEF Fresh, NoRow
  <2>8. RowsHoused'
    <3>1. \A d \in Episodes : d <= started => d <= e
      BY <2>4 DEF TypeOK, Episodes
    <3>2. e <= started' BY <2>5 DEF Episodes
    <3> QED BY <3>1, <3>2, <2>3, <2>5, <2>7 DEF RowsHoused
  <2>9. Newest(s, e)'
    <3>1. \A d \in Episodes : ep'[d].status # "none" => d <= e
      BY <2>5, <2>8 DEF RowsHoused
    <3> QED BY <3>1 DEF Newest
  <2>10. lastOf'[s] # NoEpisode =>
           /\ ep'[lastOf'[s]].status # "none" /\ ep'[lastOf'[s]].home = s
           /\ ~ep'[lastOf'[s]].boundary
    BY <2>3, <2>5, <2>6, <2>7, <1>0 DEF SessionTrue, IndexesTrue
  <2>11. /\ openOf'[s] = e
         /\ \A d \in Episodes : d # e => ~(IsOpen(d) /\ ep[d].home = s)
         /\ \A x \in Sessions \ {s} :
              openOf'[x] = openOf[x] /\ lastOf'[x] = lastOf[x]
    BY <2>3, <2>5, <2>7, <1>0 DEF IsOpen, NoneOpen
  <2>12. Taken(c, s, e)
    BY <2>1, <2>2, <2>5, <2>6, <2>7, <2>8, <2>9, <2>10, <2>11 DEF Taken
  <2> QED BY <2>12, SerialAccept
<1>2. CASE FinishTurn(c)
  <2>1. PICK s : s = call[c].s OBVIOUS
  <2>2. PICK e : e = call[c].e OBVIOUS
  <2>3. call[c] # NoCall /\ call[c].at = "capturing"
    BY <1>2 DEF FinishTurn, NoCall
  <2>4. /\ s \in Sessions /\ SessionTrue(s) /\ RowsHoused
        /\ e # NoEpisode /\ e = openOf[s] /\ call[c].wasOpen
    BY <2>1, <2>2, <2>3, AloneInSession DEF SerialInv, CallTrue
  <2>5. /\ e \in Episodes /\ IsOpen(e) /\ ep[e].home = s /\ ~ep[e].boundary
    BY <2>4, <1>0 DEF SessionTrue, IndexesTrue, OpenIsNewest
  <2>6. PICK stored \in {0, 1} :
          ep' = [ep EXCEPT ![e] = [ep[e] EXCEPT !.traces = @ + stored]]
    BY <1>2, <2>2, <2>4 DEF FinishTurn
  <2>7. /\ lastOf' = [lastOf EXCEPT ![s] = e] /\ openOf' = openOf
        /\ asked' = asked /\ started' = started
        /\ call' = [call EXCEPT ![c] = NoCall]
    BY <1>2, <2>1, <2>2, <2>4 DEF FinishTurn
  <2>8. /\ \A d \in Episodes : /\ ep'[d].status = ep[d].status
                               /\ ep'[d].home = ep[d].home
                               /\ ep'[d].boundary = ep[d].boundary
        /\ \A d \in Episodes : d # e => ep'[d] = ep[d]
    BY <2>5, <2>6, <1>0 DEF Episode
  <2>9. RowsHoused' BY <2>4, <2>7, <2>8 DEF RowsHoused
  <2>10. SessionTrue(s)'
    BY <2>4, <2>5, <2>7, <2>8, <1>0
    DEF SessionTrue, OpenIsNewest, IndexesTrue, Newest, NoneOpen, IsOpen
  <2>11. \A x \in Sessions \ {s} : /\ openOf'[x] = openOf[x]
                                   /\ lastOf'[x] = lastOf[x]
                                   /\ asked'[x] = asked[x]
    BY <2>4, <2>7, <1>0
  <2>12. \A d \in Episodes :
           ep'[d] = ep[d] \/ (ep'[d].home = s /\ ep[d].home \in {s, NoSession})
    BY <2>5, <2>8
  <2>13. call'[c] = NoCall /\ \A d \in Callers : d # c => call'[d] = call[d]
    BY <2>7, <1>0
  <2> QED BY <2>1, <2>3, <2>9, <2>10, <2>11, <2>12, <2>13, CallerStep
<1>3. ASSUME NEW s \in Sessions, NEW named \in Episodes \cup {NoEpisode},
             EndTurn(c, s, named)
      PROVE  SerialInv'
  <2>1. SessionTrue(s) /\ RowsHoused BY DEF SerialInv
  <2>2. PICK e : e = Target(s, named) OBVIOUS
  <2>3. e \in Episodes /\ e # NoEpisode /\ e = openOf[s] /\ IsOpen(e) /\ ep[e].home = s
    <3>1. named # NoEpisode /\ named = asked[s] BY <1>3 DEF EndTurn
    <3>2. named = openOf[s] BY <3>1, <2>1 DEF SessionTrue, IndexesTrue
    <3>3. e = openOf[s] BY <3>2, <2>2 DEF Target
    <3> QED BY <3>1, <3>2, <3>3, <2>1, <1>0 DEF SessionTrue, IndexesTrue
  <2>4. /\ ep' = [ep EXCEPT ![e] = Answered(Reopened(ep[e]))]
        /\ Begin(c, s, NoKey, "capturing", e, 0, IsOpen(e))
        /\ asked' = [asked EXCEPT ![s] = NoEpisode]
        /\ started' = started /\ openOf' = openOf /\ lastOf' = lastOf
        /\ \A d \in Callers : call[d].s # s
    BY <1>3, <2>2 DEF EndTurn, Queued, Free
  <2>5. /\ \A d \in Episodes : /\ ep'[d].status = ep[d].status
                               /\ ep'[d].home = ep[d].home
                               /\ ep'[d].boundary = ep[d].boundary
        /\ \A d \in Episodes : d # e => ep'[d] = ep[d]
    BY <2>3, <2>4, <1>0 DEF Episode, Answered, Reopened, IsOpen
  <2>6. /\ call'[c].s = s /\ call'[c].e = e /\ call'[c].at = "capturing"
        /\ call'[c].wasOpen = IsOpen(e)
        /\ \A d \in Callers : d # c => call'[d] = call[d]
    BY <2>4, <1>0 DEF Begin
  <2>7. asked'[s] = NoEpisode /\ \A x \in Sessions \ {s} : asked'[x] = asked[x]
    BY <2>4, <1>0
  <2>8. RowsHoused' BY <2>1, <2>4, <2>5 DEF RowsHoused
  <2>9. SessionTrue(s)'
    BY <2>1, <2>4, <2>5, <2>7, <1>0
    DEF SessionTrue, OpenIsNewest, IndexesTrue, Newest, NoneOpen, IsOpen
  <2>10. \E r \in Call : call'[c] = r /\ r.s = s /\ CallTrue(r)'
    <3>1. PICK r \in Call : r = call'[c] BY DEF TypeOK
    <3> QED BY <3>1, <2>3, <2>4, <2>6, <2>7 DEF CallTrue
  <2>11. \A d \in Episodes :
           ep'[d] = ep[d] \/ (ep'[d].home = s /\ ep[d].home \in {s, NoSession})
    BY <2>3, <2>5
  <2> QED
    BY <2>4, <2>6, <2>7, <2>8, <2>9, <2>10, <2>11, SessionStep
<1> QED BY <1>1, <1>2, <1>3

\* A session closes, or the process ends.
LEMMA SerialEnd ==
  ASSUME TypeOK, TypeOK', SerialInv, Serial, ~MayExpire,
         (\E s \in Sessions : CloseSession(s)) \/ Crash \/ Shutdown
  PROVE  SerialInv'
<1> USE SentinelAssumption
<1>0. /\ openOf \in [Sessions -> Episodes \cup {NoEpisode}]
      /\ lastOf \in [Sessions -> Episodes \cup {NoEpisode}]
      /\ asked \in [Sessions -> Episodes \cup {NoEpisode}]
      /\ ep \in [Episodes -> Episode]
      /\ RowsHoused /\ \A x \in Sessions : SessionTrue(x)
  BY DEF TypeOK, SerialInv
<1>1. ASSUME NEW s \in Sessions, CloseSession(s) PROVE SerialInv'
  <2>1. /\ ep' = [e \in Episodes |-> IF e \in inMem THEN ClosedWith(s, ep[e])
                                     ELSE ep[e]]
        /\ openOf' = [openOf EXCEPT ![s] = NoEpisode]
        /\ lastOf' = [lastOf EXCEPT ![s] = NoEpisode]
        /\ asked' = [asked EXCEPT ![s] = NoEpisode]
        /\ call' = call /\ started' = started
        /\ \A d \in Callers : call[d].s # s
    BY <1>1 DEF CloseSession, Queued, Free
  <2>2. \A e \in Episodes : \/ ep'[e] = ep[e]
                            \/ /\ ep[e].home = s /\ ep'[e].home = s
                               /\ ep[e].status # "none" /\ ep'[e].status # "none"
                               /\ ep'[e].status = "open" => IsOpen(e)
                               /\ ep'[e].boundary = ep[e].boundary
    <3> SUFFICES ASSUME NEW e \in Episodes, ep'[e] # ep[e]
                 PROVE  /\ ep[e].home = s /\ ep'[e].home = s
                        /\ ep[e].status # "none" /\ ep'[e].status # "none"
                        /\ ep'[e].status = "open" => IsOpen(e)
                        /\ ep'[e].boundary = ep[e].boundary
      OBVIOUS
    <3>1. /\ ep[e] \in Episode /\ ep[e].status = "open" /\ ep[e].home = s
          /\ ep'[e] \in {Finalized(ep[e]), Paused(ep[e])}
      BY <2>1, <1>0 DEF ClosedWith
    <3> QED BY <3>1 DEF Finalized, Paused, Episode, IsOpen
  <2>3. RowsHoused' BY <2>1, <2>2, <1>0 DEF RowsHoused
  <2>4. openOf'[s] = NoEpisode /\ lastOf'[s] = NoEpisode /\ asked'[s] = NoEpisode
    BY <2>1, <1>0
  <2>5. SessionTrue(s)'
    BY <2>2, <2>4, <1>0
    DEF SessionTrue, OpenIsNewest, IndexesTrue, Newest, IsOpen
  <2>6. \A x \in Sessions \ {s} : /\ openOf'[x] = openOf[x]
                                  /\ lastOf'[x] = lastOf[x]
                                  /\ asked'[x] = asked[x]
    BY <2>1, <1>0
  <2>7. \A e \in Episodes :
          ep'[e] = ep[e] \/ (ep'[e].home = s /\ ep[e].home \in {s, NoSession})
    BY <2>2
  <2> QED BY <2>1, <2>3, <2>5, <2>6, <2>7, SessionStep
<1>2. ASSUME NEW rows \in [Episodes -> Episode], Restart(rows),
             \A e \in Episodes :
               \/ rows[e] = NoRow
               \/ /\ rows[e].home = ep[e].home
                  /\ rows[e].boundary = ep[e].boundary
                  /\ rows[e].status = "open" => ep[e].status = "open"
                  /\ rows[e].status = "none" <=> ep[e].status = "none"
      PROVE  SerialInv'
  <2>1. /\ \A x \in Sessions : /\ openOf'[x] = NoEpisode
                               /\ lastOf'[x] = NoEpisode
                               /\ asked'[x] = NoEpisode
        /\ \A d \in Callers : call'[d] = NoCall
        /\ started' = started
        /\ ep' = [e \in Episodes |-> Recovered(rows[e], FALSE)]
    <3>1. ep' = [e \in Episodes |-> Recovered(rows[e], FALSE)]
      <4>1. PICK expired \in {{}} :
              ep' = [e \in Episodes |-> Recovered(rows[e], e \in expired)]
        BY <1>2 DEF Restart
      <4> QED BY <4>1 DEF Recovered
    <3> QED BY <1>2, <3>1 DEF Restart
  <2>2. \A e \in Episodes :
          \/ /\ ep'[e].status = "none" /\ ep'[e].home = NoSession
             /\ ~ep'[e].boundary
          \/ /\ ep'[e].home = ep[e].home
             /\ ep'[e].boundary = ep[e].boundary
             /\ ep'[e].status = "open" => ep[e].status = "open"
             /\ ep'[e].status = "none" <=> ep[e].status = "none"
    <3> SUFFICES ASSUME NEW e \in Episodes
                 PROVE  \/ /\ ep'[e].status = "none" /\ ep'[e].home = NoSession
                           /\ ~ep'[e].boundary
                        \/ /\ ep'[e].home = ep[e].home
                           /\ ep'[e].boundary = ep[e].boundary
                           /\ ep'[e].status = "open" => ep[e].status = "open"
                           /\ ep'[e].status = "none" <=> ep[e].status = "none"
      OBVIOUS
    <3>1. /\ ep'[e].home = rows[e].home /\ ep'[e].boundary = rows[e].boundary
          /\ ep'[e].status = "open" => rows[e].status = "open"
          /\ ep'[e].status = "none" <=> rows[e].status = "none"
      BY <2>1, <1>2 DEF Recovered, Episode
    <3> QED BY <3>1, <1>2 DEF NoRow
  <2>3. RowsHoused' BY <2>1, <2>2, <1>0 DEF RowsHoused
  <2>4. ASSUME NEW x \in Sessions PROVE SessionTrue(x)'
    <3>1. \A e \in Episodes : IsOpen(e)' /\ ep'[e].home = x =>
            ~ep[e].boundary /\ ~ep'[e].boundary /\ Newest(x, e)
      BY <2>2, <1>0 DEF SessionTrue, OpenIsNewest, IsOpen
    <3>2. \A e \in Episodes : Newest(x, e) => Newest(x, e)'
      BY <2>2 DEF Newest
    <3> QED BY <2>1, <3>1, <3>2 DEF SessionTrue, OpenIsNewest, IndexesTrue
  <2> QED BY <2>1, <2>3, <2>4 DEF SerialInv
<1>3. CASE Crash BY <1>2, <1>3, <1>0 DEF Crash
<1>4. CASE Shutdown
  <2> DEFINE rows == [e \in Episodes |->
                        IF e \in inMem THEN AtShutdown(ep[e]) ELSE ep[e]]
  <2>1. ASSUME NEW e \in Episodes
        PROVE  /\ rows[e] \in Episode
               /\ \/ rows[e] = NoRow
                  \/ /\ rows[e].home = ep[e].home
                     /\ rows[e].boundary = ep[e].boundary
                     /\ rows[e].status = "open" => ep[e].status = "open"
                     /\ rows[e].status = "none" <=> ep[e].status = "none"
    <3>1. ep[e] \in Episode BY <1>0
    <3>2. \/ rows[e] = ep[e] \/ rows[e] = NoRow
          \/ ep[e].status = "open" /\ rows[e] \in {Paused(ep[e]), Finalized(ep[e])}
      BY <3>1 DEF AtShutdown
    <3>3. rows[e] \in Episode BY <3>1, <3>2, RowTypes
    <3> QED BY <3>1, <3>2, <3>3 DEF Paused, Finalized, Episode
  <2>2. rows \in [Episodes -> Episode] BY <2>1
  <2>3. Restart(rows) BY <1>4 DEF Shutdown
  <2> HIDE DEF rows
  <2> QED BY <2>1, <2>2, <2>3, <1>2
<1> QED BY <1>1, <1>3, <1>4

LEMMA SerialStep ==
  ASSUME Serial, ~MayExpire, MaxDirect = 0,
         TypeOK, TypeOK', IndexInv, SerialInv, NoneAdopted' \/ OneSession,
         OpenListed, [Next]_vars
  PROVE  SerialInv'
<1>1. ~(direct < MaxDirect) BY DEF TypeOK
<1>2. ASSUME NEW c \in Callers
      PROVE  /\ ~DecisionConflicts(c) /\ ~EpisodeOpened(c)
             /\ \A s \in Sessions : ~OpenEpisode(c, s)
             /\ \A e \in Episodes : ~CloseEpisode(e)
  <2>1. /\ \A s \in Sessions : ~OpenEpisode(c, s)
        /\ \A e \in Episodes : ~CloseEpisode(e)
    BY <1>1 DEF OpenEpisode, CloseEpisode
  <2>2. call[c] = NoCall \/ CallTrue(call[c]) BY DEF SerialInv
  <2>3. ~EpisodeOpened(c) BY <2>2 DEF EpisodeOpened, CallTrue, NoCall
  <2>4. ASSUME DecisionConflicts(c) PROVE FALSE
    <3>1. /\ CallTrue(call[c]) /\ ~IsOpen(call[c].e) /\ call[c].s \in Sessions
      BY <2>2, <2>4 DEF DecisionConflicts, NoCall, CallTrue
    <3>2. CASE call[c].at = "route_open"
      <4>1. call[c].e = openOf[call[c].s] /\ call[c].e # NoEpisode
        BY <3>1, <3>2 DEF CallTrue
      <4> QED BY <3>1, <4>1 DEF SerialInv, SessionTrue, IndexesTrue
    <3>3. CASE call[c].at = "route_recovered" /\ call[c].wasOpen
      BY <3>1, <3>3 DEF CallTrue, OnRecovered
    <3> QED BY <2>4, <3>2, <3>3 DEF DecisionConflicts
  <2> QED BY <2>1, <2>3, <2>4
<1>3. CASE UNCHANGED vars
  BY <1>3 DEF vars, SerialInv, SessionTrue, RowsHoused, OpenIsNewest,
     IndexesTrue, NoneOpen, Newest, IsOpen, CallTrue, OnRecovered
<1>4. \A e \in Episodes : ~CloseEpisode(e) BY <1>1 DEF CloseEpisode
<1> QED
  BY <1>2, <1>3, <1>4, SerialStart, SerialDecide, SerialOther, SerialEnd DEF Next

LEMMA SerialCorrect ==
  ASSUME Serial, ~MayExpire, MaxDirect = 0
  PROVE  /\ Spec /\ []OpenListed /\ []NoneAdopted => [](TypeOK /\ SerialInv)
         /\ OneSession => (Spec /\ []OpenListed => [](TypeOK /\ SerialInv))
<1>1. Init => SerialInv
  BY SentinelAssumption, RoutingBoundsAssumption
  DEF Init, SerialInv, RowsHoused, SessionTrue, OpenIsNewest, IndexesTrue, IsOpen,
      NoRow
<1>2. /\ TypeOK /\ TypeOK' /\ IndexInv /\ SerialInv /\ (NoneAdopted' \/ OneSession)
      /\ OpenListed /\ [Next]_vars
      => SerialInv'
  BY SerialStep
<1>3. Spec /\ []OpenListed /\ []NoneAdopted => [](TypeOK /\ SerialInv)
  BY <1>1, <1>2, TypeCorrect, IndexInvariant, PTL DEF Spec
<1>4. ASSUME OneSession PROVE Spec /\ []OpenListed => [](TypeOK /\ SerialInv)
  <2>1. TypeOK /\ TypeOK' /\ IndexInv /\ SerialInv /\ OpenListed /\ [Next]_vars
        => SerialInv'
    BY <1>2, <1>4
  <2> QED BY <1>1, <2>1, TypeCorrect, IndexInvariant, PTL DEF Spec
<1> QED BY <1>3, <1>4

\* With the adapter's queue, no direct calls, rows within the recovery window,
\* no open row beyond the list of a turn start and no topic of another session
\* resumed (there is none to resume where there is one session), a session never
\* has two open episodes, however its turns, answers, closes and restarts follow
\* each other.
THEOREM OneOpen ==
  ASSUME Serial, ~MayExpire, MaxDirect = 0
  PROVE  /\ Spec /\ []OpenListed /\ []NoneAdopted => []OneOpenEpisode
         /\ OneSession => (Spec /\ []OpenListed => []OneOpenEpisode)
<1>1. SerialInv => OneOpenEpisode
  <2> SUFFICES ASSUME SerialInv, NEW s \in Sessions
               PROVE  Cardinality(OpenEpisodes(s)) <= 1
    BY DEF OneOpenEpisode
  <2>1. \A d, e \in OpenEpisodes(s) : d = e
    <3> SUFFICES ASSUME NEW d \in OpenEpisodes(s), NEW e \in OpenEpisodes(s)
                 PROVE  d = e
      OBVIOUS
    <3>1. SessionTrue(s) BY DEF SerialInv
    <3>2. ~ep[e].boundary BY <3>1 DEF SessionTrue, OpenIsNewest, OpenEpisodes
    <3> QED BY <3>1, <3>2, OneOpenRow DEF OpenEpisodes, IsOpen
  <2>2. CASE OpenEpisodes(s) = {}
    BY <2>2, FS_EmptySet
  <2>3. CASE OpenEpisodes(s) # {}
    <3>1. PICK e \in OpenEpisodes(s) : OpenEpisodes(s) = {e} BY <2>1, <2>3
    <3>2. Cardinality({e}) = 1 BY FS_Singleton
    <3> QED BY <3>1, <3>2
  <2> QED BY <2>2, <2>3
<1>2. Spec /\ []OpenListed /\ []NoneAdopted => []OneOpenEpisode
  BY <1>1, SerialCorrect, PTL
<1>3. ASSUME OneSession PROVE Spec /\ []OpenListed => []OneOpenEpisode
  <2>1. Spec /\ []OpenListed => [](TypeOK /\ SerialInv) BY <1>3, SerialCorrect
  <2> QED BY <1>1, <2>1, PTL
<1> QED BY <1>2, <1>3

\* Under the same conditions no close, restart or other turn gets between a
\* question and its answer: the answer finds the episode open, and the
\* session's map naming it.
THEOREM QuestionOpen ==
  ASSUME Serial, ~MayExpire, MaxDirect = 0
  PROVE  /\ Spec /\ []OpenListed /\ []NoneAdopted => []QuestionStaysOpen
         /\ OneSession => (Spec /\ []OpenListed => []QuestionStaysOpen)
<1>1. SerialInv => QuestionStaysOpen
  BY DEF SerialInv, SessionTrue, IndexesTrue, QuestionStaysOpen
<1>2. Spec /\ []OpenListed /\ []NoneAdopted => []QuestionStaysOpen
  BY <1>1, SerialCorrect, PTL
<1>3. ASSUME OneSession PROVE Spec /\ []OpenListed => []QuestionStaysOpen
  <2>1. Spec /\ []OpenListed => [](TypeOK /\ SerialInv) BY <1>3, SerialCorrect
  <2> QED BY <1>1, <2>1, PTL
<1> QED BY <1>2, <1>3

\* Under the same conditions the open episode of a session is newer than every
\* other one the user may still go back to, so that no reopening, recovery or
\* resumption takes the conversation behind a newer topic.
THEOREM NewestOpen ==
  ASSUME Serial, ~MayExpire, MaxDirect = 0
  PROVE  /\ Spec /\ []OpenListed /\ []NoneAdopted => []OpenTopicIsNewest
         /\ OneSession => (Spec /\ []OpenListed => []OpenTopicIsNewest)
<1>1. SerialInv => OpenTopicIsNewest
  <2> SUFFICES ASSUME SerialInv, NEW e \in Episodes, IsOpen(e)
               PROVE  /\ ~ep[e].boundary
                      /\ \A d \in Episodes : d > e /\ ep[d].home = ep[e].home
                                             => ep[d].boundary
    BY DEF OpenTopicIsNewest
  <2>1. ep[e].home \in Sessions /\ RowsHoused BY DEF SerialInv, RowsHoused, IsOpen
  <2>2. ~ep[e].boundary /\ Newest(ep[e].home, e)
    BY <2>1 DEF SerialInv, SessionTrue, OpenIsNewest
  <2>3. \A d \in Episodes : ep[d].home = ep[e].home => ep[d].status # "none"
    BY <2>1, SentinelAssumption DEF RowsHoused
  <2> QED BY <2>2, <2>3 DEF Newest, Episodes
<1>2. Spec /\ []OpenListed /\ []NoneAdopted => []OpenTopicIsNewest
  BY <1>1, SerialCorrect, PTL
<1>3. ASSUME OneSession PROVE Spec /\ []OpenListed => []OpenTopicIsNewest
  <2>1. Spec /\ []OpenListed => [](TypeOK /\ SerialInv) BY <1>3, SerialCorrect
  <2> QED BY <1>1, <2>1, PTL
<1> QED BY <1>2, <1>3
=============================================================================
