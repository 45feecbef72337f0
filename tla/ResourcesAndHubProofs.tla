------------------------ MODULE ResourcesAndHubProofs -----------------------
(***************************************************************************)
(* Proofs about ModelResources, for every number of callers, permits and   *)
(* every burst: types, the conservation of permits, and no lost wake-up; and *)
(* about HubMembership, for all clients, users, names and runtimes: the tables *)
(* of the hub stay sound.                                                  *)
(***************************************************************************)
EXTENDS ModelResources, HubMembership, FiniteSetTheorems, SequenceTheorems, TLAPS

-----------------------------------------------------------------------------
(* What the four operations on a queue do to the calls it holds.           *)

LEMMA HoldsNothing == Holds(<<>>, {})
BY DEF Holds

LEMMA HoldsEmpty ==
  ASSUME NEW S, NEW queue \in Seq(S), NEW W, Holds(queue, W)
  PROVE  queue = <<>> <=> W = {}
<1>1. DOMAIN queue = 1 .. Len(queue) /\ Len(queue) \in Nat
  BY LenProperties
<1>2. ASSUME queue # <<>> PROVE W # {}
  <2>1. 1 \in DOMAIN queue
    BY <1>1, <1>2, EmptySeq
  <2> QED BY <2>1 DEF Holds
<1>3. ASSUME queue = <<>> PROVE W = {}
  BY <1>1, <1>3 DEF Holds
<1> QED BY <1>2, <1>3

LEMMA HoldsAppended ==
  ASSUME NEW S, NEW queue \in Seq(S), NEW W, Holds(queue, W),
         NEW c \in S, c \notin W
  PROVE  /\ Append(queue, c) \in Seq(S)
         /\ Holds(Append(queue, c), W \cup {c})
<1> DEFINE new == Append(queue, c)
           n   == Len(queue)
<1>1. n \in Nat /\ DOMAIN queue = 1 .. n
  BY LenProperties
<1>2. /\ new \in Seq(S) /\ Len(new) = n + 1
      /\ \A i \in 1 .. n : new[i] = queue[i]
      /\ new[n + 1] = c
  BY AppendProperties
<1>3. DOMAIN new = 1 .. n + 1
  BY <1>2, LenProperties
<1> HIDE DEF new, n
<1>4. \A i \in 1 .. n : queue[i] \in W /\ queue[i] # c
  BY <1>1 DEF Holds
<1>5. {new[i] : i \in DOMAIN new} = W \cup {c}
  <2>1. \A i \in 1 .. n + 1 : new[i] \in W \cup {c}
    <3> SUFFICES ASSUME NEW i \in 1 .. n + 1 PROVE new[i] \in W \cup {c}
      OBVIOUS
    <3>1. i \in 1 .. n \/ i = n + 1
      BY <1>1
    <3> QED BY <3>1, <1>2, <1>4
  <2>2. \A w \in W : \E i \in 1 .. n + 1 : new[i] = w
    <3> SUFFICES ASSUME NEW w \in W PROVE \E i \in 1 .. n + 1 : new[i] = w
      OBVIOUS
    <3>1. PICK i \in 1 .. n : queue[i] = w
      BY <1>1 DEF Holds
    <3>2. i \in 1 .. n + 1
      BY <1>1
    <3> QED BY <3>1, <3>2, <1>2
  <2>3. n + 1 \in 1 .. n + 1
    BY <1>1
  <2> QED BY <1>2, <1>3, <2>1, <2>2, <2>3
<1>6. \A i, j \in DOMAIN new : new[i] = new[j] => i = j
  <2> SUFFICES ASSUME NEW i \in 1 .. n + 1, NEW j \in 1 .. n + 1, new[i] = new[j]
               PROVE  i = j
    BY <1>3
  <2>1. (i \in 1 .. n \/ i = n + 1) /\ (j \in 1 .. n \/ j = n + 1)
    BY <1>1
  <2>2. \A k, l \in 1 .. n : queue[k] = queue[l] => k = l
    BY <1>1 DEF Holds
  <2> QED BY <2>1, <2>2, <1>2, <1>4
<1> QED BY <1>2, <1>5, <1>6 DEF Holds, new

LEMMA HoldsServed ==
  ASSUME NEW S, NEW queue \in Seq(S), NEW W, Holds(queue, W), queue # <<>>
  PROVE  /\ Head(queue) \in W
         /\ Head(queue) \in S
         /\ Tail(queue) \in Seq(S)
         /\ Len(Tail(queue)) = Len(queue) - 1
         /\ Holds(Tail(queue), W \ {Head(queue)})
<1> DEFINE rest == Tail(queue)
           n    == Len(queue)
           h    == Head(queue)
<1>1. n \in Nat \ {0} /\ DOMAIN queue = 1 .. n
  BY LenProperties, EmptySeq
<1>2. /\ rest \in Seq(S) /\ Len(rest) = n - 1 /\ h \in S
      /\ \A i \in 1 .. n - 1 : rest[i] = queue[i + 1]
  BY HeadTailProperties
<1>3. DOMAIN rest = 1 .. n - 1
  BY <1>2, LenProperties
<1>4. h = queue[1]
  OBVIOUS
<1> HIDE DEF rest, n, h
<1>5. \A k, l \in 1 .. n : queue[k] = queue[l] => k = l
  BY <1>1 DEF Holds
<1>6. 1 \in 1 .. n /\ h \in W
  BY <1>1, <1>4 DEF Holds
<1>7. {rest[i] : i \in DOMAIN rest} = W \ {h}
  <2>1. \A i \in 1 .. n - 1 : rest[i] \in W \ {h}
    <3> SUFFICES ASSUME NEW i \in 1 .. n - 1 PROVE rest[i] \in W \ {h}
      OBVIOUS
    <3>1. i + 1 \in 1 .. n /\ i + 1 # 1
      BY <1>1
    <3>2. queue[i + 1] \in W
      BY <3>1, <1>1 DEF Holds
    <3> QED BY <3>1, <3>2, <1>2, <1>4, <1>5, <1>6
  <2>2. \A w \in W \ {h} : \E i \in 1 .. n - 1 : rest[i] = w
    <3> SUFFICES ASSUME NEW w \in W \ {h} PROVE \E i \in 1 .. n - 1 : rest[i] = w
      OBVIOUS
    <3>1. PICK k \in 1 .. n : queue[k] = w
      BY <1>1 DEF Holds
    <3>2. k - 1 \in 1 .. n - 1 /\ (k - 1) + 1 = k
      BY <1>1, <1>4, <3>1
    <3> QED BY <3>1, <3>2, <1>2
  <2> QED BY <1>3, <2>1, <2>2
<1>8. \A i, j \in DOMAIN rest : rest[i] = rest[j] => i = j
  <2> SUFFICES ASSUME NEW i \in 1 .. n - 1, NEW j \in 1 .. n - 1, rest[i] = rest[j]
               PROVE  i = j
    BY <1>3
  <2>1. i + 1 \in 1 .. n /\ j + 1 \in 1 .. n
    BY <1>1
  <2>2. i + 1 = j + 1
    BY <2>1, <1>2, <1>5
  <2> QED BY <2>2
<1> QED BY <1>2, <1>6, <1>7, <1>8 DEF Holds, rest, n, h

LEMMA HoldsRemoved ==
  ASSUME NEW S, NEW queue \in Seq(S), NEW W, Holds(queue, W), NEW c
  PROVE  /\ RemoveFirst(queue, c) \in Seq(S)
         /\ Holds(RemoveFirst(queue, c), W \ {c})
<1> DEFINE n == Len(queue)
           new == RemoveFirst(queue, c)
<1>1. n \in Nat /\ DOMAIN queue = 1 .. n /\ queue \in [1 .. n -> S]
  BY LenProperties
<1>2. \A k, l \in 1 .. n : queue[k] = queue[l] => k = l
  BY <1>1 DEF Holds
<1>3. CASE ~ \E i \in 1 .. n : queue[i] = c
  <2>1. new = queue
    BY <1>3 DEF RemoveFirst
  <2>2. c \notin W
    BY <1>1, <1>3 DEF Holds
  <2> QED BY <2>1, <2>2
<1>4. CASE \E i \in 1 .. n : queue[i] = c
  <2>1. PICK p \in 1 .. n : queue[p] = c
    BY <1>4
  <2>2. {i \in 1 .. n : queue[i] = c} = {p}
    BY <2>1, <1>2
  <2>3. Min({p}) = p
    BY <1>1 DEF Min
  <2>4. SelectInSeq(queue, LAMBDA v : v = c) = p
    BY <2>2, <2>3 DEF SelectInSeq
  <2>5. new = RemoveAt(queue, p)
    BY <1>4, <2>4 DEF RemoveFirst
  <2> DEFINE front == SubSeq(queue, 1, p - 1)
             back  == SubSeq(queue, p + 1, n)
  <2>6. /\ front \in Seq(S) /\ Len(front) = p - 1
        /\ \A i \in 1 .. p - 1 : front[i] = queue[i]
    <3>1. \A i \in 1 .. p - 1 : queue[i] \in S
      BY <1>1
    <3>2. /\ front \in Seq(S) /\ Len(front) = IF 1 <= p - 1 THEN (p - 1) - 1 + 1 ELSE 0
          /\ \A i \in 1 .. (p - 1) - 1 + 1 : front[i] = queue[1 + i - 1]
      BY <3>1, SubSeqProperties
    <3>3. \A i \in 1 .. p - 1 : 1 + i - 1 = i /\ i \in 1 .. (p - 1) - 1 + 1
      OBVIOUS
    <3> HIDE DEF front
    <3>4. Len(front) = p - 1
      BY <3>2
    <3> QED BY <3>2, <3>3, <3>4
  <2>7. /\ back \in Seq(S) /\ Len(back) = n - p
        /\ \A i \in 1 .. n - p : back[i] = queue[p + i]
    <3>1. \A i \in p + 1 .. n : queue[i] \in S
      BY <1>1
    <3>2. /\ back \in Seq(S) /\ Len(back) = IF p + 1 <= n THEN n - (p + 1) + 1 ELSE 0
          /\ \A i \in 1 .. n - (p + 1) + 1 : back[i] = queue[(p + 1) + i - 1]
      BY <1>1, <3>1, SubSeqProperties
    <3>3. \A i \in 1 .. n - p : (p + 1) + i - 1 = p + i /\ i \in 1 .. n - (p + 1) + 1
      BY <1>1
    <3> HIDE DEF back, n
    <3>4. Len(back) = n - p
      BY <1>1, <3>2
    <3> QED BY <3>2, <3>3, <3>4
  <2>8. new = front \o back
    BY <2>5 DEF RemoveAt
  <2> HIDE DEF front, back, new
  <2>9. /\ new \in Seq(S) /\ Len(new) = n - 1
        /\ \A i \in 1 .. n - 1 : new[i] = queue[IF i < p THEN i ELSE i + 1]
    <3>1. /\ new \in Seq(S) /\ Len(new) = (p - 1) + (n - p)
          /\ \A i \in 1 .. (p - 1) + (n - p) :
               new[i] = IF i <= p - 1 THEN front[i] ELSE back[i - (p - 1)]
      <4>1. /\ front \o back \in Seq(S)
            /\ Len(front \o back) = Len(front) + Len(back)
            /\ \A i \in 1 .. Len(front) + Len(back) : (front \o back)[i] =
                 IF i <= Len(front) THEN front[i] ELSE back[i - Len(front)]
        BY <2>6, <2>7, ConcatProperties
      <4> QED BY <4>1, <2>6, <2>7, <2>8
    <3>2. (p - 1) + (n - p) = n - 1
      BY <1>1
    <3>3. ASSUME NEW i \in 1 .. n - 1 PROVE new[i] = queue[IF i < p THEN i ELSE i + 1]
      <4>1. CASE i < p
        <5>1. i \in 1 .. p - 1 /\ i <= p - 1
          BY <4>1, <1>1
        <5> QED BY <5>1, <4>1, <3>1, <3>2, <2>6
      <4>2. CASE ~(i < p)
        <5>1. ~(i <= p - 1) /\ i - (p - 1) \in 1 .. n - p /\ p + (i - (p - 1)) = i + 1
          BY <4>2, <1>1
        <5> QED BY <5>1, <4>2, <3>1, <3>2, <2>7
      <4> QED BY <4>1, <4>2
    <3> QED BY <3>1, <3>2, <3>3
  <2>10. DOMAIN new = 1 .. n - 1
    BY <2>9, LenProperties
  <2> HIDE DEF n
  <2>11. ASSUME NEW i \in 1 .. n - 1
         PROVE  /\ (IF i < p THEN i ELSE i + 1) \in 1 .. n
                /\ (IF i < p THEN i ELSE i + 1) # p
    BY <1>1
  <2>12. {new[i] : i \in DOMAIN new} = W \ {c}
    <3>1. ASSUME NEW i \in 1 .. n - 1 PROVE new[i] \in W \ {c}
      <4> DEFINE k == IF i < p THEN i ELSE i + 1
      <4>1. k \in 1 .. n /\ k # p /\ new[i] = queue[k]
        BY <2>9, <2>11
      <4> HIDE DEF k
      <4>2. queue[k] \in W /\ queue[k] # c
        BY <4>1, <1>1, <1>2, <2>1 DEF Holds
      <4> QED BY <4>1, <4>2
    <3>2. ASSUME NEW w \in W \ {c} PROVE \E i \in 1 .. n - 1 : new[i] = w
      <4>1. PICK k \in 1 .. n : queue[k] = w
        BY <1>1 DEF Holds
      <4>2. k # p
        BY <4>1, <2>1
      <4> DEFINE i == IF k < p THEN k ELSE k - 1
      <4>3. i \in 1 .. n - 1 /\ k = IF i < p THEN i ELSE i + 1
        BY <4>2, <1>1
      <4> HIDE DEF i
      <4> QED BY <4>1, <4>3, <2>9
    <3> QED BY <2>10, <3>1, <3>2
  <2>13. \A i, j \in DOMAIN new : new[i] = new[j] => i = j
    <3> SUFFICES ASSUME NEW i \in 1 .. n - 1, NEW j \in 1 .. n - 1, new[i] = new[j]
                 PROVE  i = j
      BY <2>10
    <3>1. (IF i < p THEN i ELSE i + 1) = (IF j < p THEN j ELSE j + 1)
      BY <2>9, <2>11, <1>2
    <3> QED BY <3>1, <1>1
  <2> QED BY <2>9, <2>12, <2>13 DEF Holds, new
<1> QED BY <1>3, <1>4

-----------------------------------------------------------------------------
(* The inductive invariant, in the parts that the actions touch apart.     *)

EmbeddingOK ==
  /\ foregroundQueue \in Seq(Turns) /\ backgroundQueue \in Seq(Embeds)
  /\ embeddingInUse \in Nat /\ burst \in 0 .. MaxForegroundBurst
  /\ Holds(foregroundQueue, Queued(Turns))
  /\ Holds(backgroundQueue, Queued(Embeds))
  /\ embeddingInUse = Cardinality(Calling(Turns \cup Embeds))
  /\ embeddingInUse <= Capacity
  /\ embeddingInUse < Capacity => foregroundQueue = <<>> /\ backgroundQueue = <<>>

LlmOK ==
  /\ llmQueue \in Seq(Llms) /\ current \in Nat
  /\ Holds(llmQueue, Queued(Llms))
  /\ current = Cardinality(Calling(Llms)) /\ current <= LlmLimit
  /\ current < LlmLimit => llmQueue = <<>>

GateOK ==
  /\ foregroundActive \in Nat
  /\ foregroundActive = Cardinality(Active)
  /\ gate = {c \in Background : at[c] = "gate"}
  /\ foregroundActive = 0 => gate = {}

DownOK ==
  /\ down \in BOOLEAN
  /\ down => \A c \in Calls : at[c] \notin {"gate", "queued"}

IInv ==
  /\ at \in [Calls -> Place]
  /\ EmbeddingOK /\ LlmOK /\ GateOK /\ DownOK

\* The invariant implies, and is implied by, the three properties of the run.
LEMMA InvariantIsTheProperties ==
  IInv <=> TypeOK /\ PermitsConserved /\ NothingWaitsInVain
BY DEF IInv, EmbeddingOK, LlmOK, GateOK, DownOK, TypeOK, PermitsConserved,
       NothingWaitsInVain, QueuesAreTheWaiters

\* The callers are finite in number, apart, and the limits are positive.
LEMMA Constants ==
  /\ IsFiniteSet(Turns) /\ IsFiniteSet(Llms) /\ IsFiniteSet(Turns \cup Embeds)
  /\ Turns \cap Background = {} /\ Embeds \cap Llms = {}
  /\ Background = Embeds \cup Llms /\ Calls = Turns \cup Background
  /\ Capacity \in Nat /\ Capacity > 0 /\ LlmLimit \in Nat /\ LlmLimit > 0
  /\ MaxForegroundBurst \in Nat /\ MaxForegroundBurst > 0
<1>1. IsFiniteSet(Turns \cup Embeds)
  BY ResourcesAssumption, FS_Union
<1> QED BY <1>1, ResourcesAssumption DEF Background, Calls

\* A finite set of callers with one more, and with one less.
LEMMA Counting ==
  ASSUME NEW S, IsFiniteSet(S), NEW A \in SUBSET S
  PROVE  /\ IsFiniteSet(A) /\ Cardinality(A) \in Nat
         /\ \A c : c \notin A => Cardinality(A \cup {c}) = Cardinality(A) + 1
         /\ \A c : c \in A => Cardinality(A \ {c}) = Cardinality(A) - 1
                            /\ Cardinality(A) > 0
<1>1. IsFiniteSet(A) /\ Cardinality(A) \in Nat
  BY FS_Subset, FS_CardinalityType
<1>2. ASSUME NEW c, c \notin A PROVE Cardinality(A \cup {c}) = Cardinality(A) + 1
  BY <1>1, <1>2, FS_AddElement
<1>3. ASSUME NEW c, c \in A
      PROVE  Cardinality(A \ {c}) = Cardinality(A) - 1 /\ Cardinality(A) > 0
  <2>1. Cardinality(A \ {c}) = Cardinality(A) - 1
    BY <1>1, <1>3, FS_RemoveElement
  <2>2. Cardinality(A) # 0
    BY <1>1, <1>3, FS_EmptySet
  <2> QED BY <1>1, <2>1, <2>2
<1> QED BY <1>1, <1>2, <1>3

LEMMA EmbeddingFrame ==
  ASSUME EmbeddingOK, UNCHANGED embedding,
         \A c \in Turns \cup Embeds :
           /\ at'[c] = "queued" <=> at[c] = "queued"
           /\ at'[c] = "calling" <=> at[c] = "calling"
  PROVE  EmbeddingOK'
<1>1. /\ Queued(Turns)' = Queued(Turns) /\ Queued(Embeds)' = Queued(Embeds)
      /\ Calling(Turns \cup Embeds)' = Calling(Turns \cup Embeds)
  BY DEF Queued, Calling
<1> QED BY <1>1 DEF EmbeddingOK, embedding

LEMMA LlmFrame ==
  ASSUME LlmOK, UNCHANGED llm,
         \A c \in Llms : /\ at'[c] = "queued" <=> at[c] = "queued"
                         /\ at'[c] = "calling" <=> at[c] = "calling"
  PROVE  LlmOK'
<1>1. Queued(Llms)' = Queued(Llms) /\ Calling(Llms)' = Calling(Llms)
  BY DEF Queued, Calling
<1> QED BY <1>1 DEF LlmOK, llm

LEMMA GateFrame ==
  ASSUME GateOK, UNCHANGED <<gate, foregroundActive>>,
         \A t \in Turns : at'[t] = "idle" <=> at[t] = "idle",
         \A c \in Background : at'[c] = "gate" <=> at[c] = "gate"
  PROVE  GateOK'
<1>1. Active' = Active
  BY DEF Active
<1> QED BY <1>1 DEF GateOK

-----------------------------------------------------------------------------
(* The embedding permits.                                                  *)

\* drainEmbedding turns a state whose queues may have just been changed into
\* one where the counters, the queues and the callers agree again.
LEMMA DrainEffect ==
  ASSUME burst \in 0 .. MaxForegroundBurst,
         NEW places \in [Calls -> Place], NEW inUse \in Nat,
         NEW fore \in Seq(Turns), NEW back \in Seq(Embeds),
         Holds(fore, {c \in Turns : places[c] = "queued"}),
         Holds(back, {c \in Embeds : places[c] = "queued"}),
         inUse = Cardinality({c \in Turns \cup Embeds : places[c] = "calling"}),
         inUse <= Capacity,
         inUse + 1 < Capacity => Len(fore) + Len(back) <= 1,
         DrainEmbedding(places, fore, back, inUse)
  PROVE  /\ at' \in [Calls -> Place]
         /\ \/ at' = places
            \/ \E h \in Turns \cup Embeds :
                 places[h] = "queued" /\ at' = [places EXCEPT ![h] = "calling"]
         /\ EmbeddingOK'
<1> USE Constants
<1>1. Len(fore) \in Nat /\ Len(back) \in Nat
  BY LenProperties
<1>2. CASE inUse >= Capacity \/ (fore = <<>> /\ back = <<>>)
  <2>1. /\ foregroundQueue' = fore /\ backgroundQueue' = back
        /\ embeddingInUse' = inUse /\ at' = places /\ burst' = burst
    BY <1>2 DEF DrainEmbedding
  <2>2. /\ Queued(Turns)' = {c \in Turns : places[c] = "queued"}
        /\ Queued(Embeds)' = {c \in Embeds : places[c] = "queued"}
        /\ Calling(Turns \cup Embeds)' = {c \in Turns \cup Embeds : places[c] = "calling"}
    BY <2>1 DEF Queued, Calling
  <2>3. inUse < Capacity => fore = <<>> /\ back = <<>>
    BY <1>2
  <2>4. EmbeddingOK'
    BY <2>1, <2>2, <2>3 DEF EmbeddingOK
  <2> QED BY <2>1, <2>4
<1>3. CASE ~(inUse >= Capacity \/ (fore = <<>> /\ back = <<>>))
  <2> DEFINE A == {c \in Turns \cup Embeds : places[c] = "calling"}
  <2>1. inUse < Capacity /\ embeddingInUse' = inUse + 1
    BY <1>3 DEF DrainEmbedding
  <2>2. ASSUME NEW h \in Turns \cup Embeds, places[h] = "queued",
               at' = [places EXCEPT ![h] = "calling"]
        PROVE  /\ at' \in [Calls -> Place]
               /\ Calling(Turns \cup Embeds)' = A \cup {h}
               /\ embeddingInUse' = Cardinality(Calling(Turns \cup Embeds)')
               /\ Queued(Turns)' = {c \in Turns : places[c] = "queued"} \ {h}
               /\ Queued(Embeds)' = {c \in Embeds : places[c] = "queued"} \ {h}
    <3>1. h \in Calls /\ \A c \in Calls : at'[c] = IF c = h THEN "calling" ELSE places[c]
      BY <2>2
    <3>2. at' \in [Calls -> Place]
      BY <2>2, <3>1 DEF Place
    <3>3. Calling(Turns \cup Embeds)' = A \cup {h}
      BY <3>1 DEF Calling
    <3>4. h \notin A
      BY <2>2
    <3>5. Cardinality(A \cup {h}) = Cardinality(A) + 1
      BY <3>4, Counting
    <3>6. /\ Queued(Turns)' = {c \in Turns : places[c] = "queued"} \ {h}
          /\ Queued(Embeds)' = {c \in Embeds : places[c] = "queued"} \ {h}
      BY <3>1 DEF Queued
    <3> QED BY <2>1, <3>2, <3>3, <3>5, <3>6
  <2>3. CASE BackgroundNext(fore, back)
    <3> DEFINE h == Head(back)
    <3>1. back # <<>>
      BY <2>3 DEF BackgroundNext
    <3>2. /\ h \in {c \in Embeds : places[c] = "queued"}
          /\ Tail(back) \in Seq(Embeds) /\ Len(Tail(back)) = Len(back) - 1
          /\ Holds(Tail(back), {c \in Embeds : places[c] = "queued"} \ {h})
      BY ONLY <3>1, HoldsServed, back \in Seq(Embeds),
              Holds(back, {c \in Embeds : places[c] = "queued"})
    <3>3. /\ at' = [places EXCEPT ![h] = "calling"]
          /\ backgroundQueue' = Tail(back) /\ foregroundQueue' = fore /\ burst' = 0
      BY <1>3, <2>3 DEF DrainEmbedding
    <3> HIDE DEF h
    <3>4. {c \in Turns : places[c] = "queued"} \ {h} = {c \in Turns : places[c] = "queued"}
      BY <3>2
    <3>5. inUse + 1 < Capacity => foregroundQueue' = <<>> /\ backgroundQueue' = <<>>
      <4> SUFFICES ASSUME inUse + 1 < Capacity
                   PROVE  foregroundQueue' = <<>> /\ backgroundQueue' = <<>>
        OBVIOUS
      <4>1. Len(back) # 0
        BY <3>1, <1>1, EmptySeq
      <4>2. Len(fore) = 0 /\ Len(Tail(back)) = 0
        BY <1>1, <3>2, <4>1
      <4> QED BY <3>2, <3>3, <4>2, EmptySeq
    <3>6. 0 \in 0 .. MaxForegroundBurst
      OBVIOUS
    <3>7. EmbeddingOK'
      <4>1. /\ embeddingInUse' \in Nat /\ embeddingInUse' <= Capacity
            /\ embeddingInUse' < Capacity => foregroundQueue' = <<>> /\ backgroundQueue' = <<>>
        BY <2>1, <3>5
      <4>2. h \in Turns \cup Embeds /\ places[h] = "queued"
        BY <3>2
      <4>3. /\ embeddingInUse' = Cardinality(Calling(Turns \cup Embeds)')
            /\ Queued(Turns)' = {c \in Turns : places[c] = "queued"} \ {h}
            /\ Queued(Embeds)' = {c \in Embeds : places[c] = "queued"} \ {h}
        BY <2>2, <3>3, <4>2
      <4>4. Holds(foregroundQueue', Queued(Turns)') /\ Holds(backgroundQueue', Queued(Embeds)')
        BY <3>2, <3>3, <3>4, <4>3
      <4>5. foregroundQueue' \in Seq(Turns) /\ backgroundQueue' \in Seq(Embeds)
        BY <3>2, <3>3
      <4> QED BY ONLY <4>1, <4>3, <4>4, <4>5, <3>3, <3>6 DEF EmbeddingOK
    <3> QED BY <2>2, <3>2, <3>3, <3>7
  <2>4. CASE ~BackgroundNext(fore, back)
    <3> DEFINE h == Head(fore)
    <3>1. fore # <<>>
      BY <1>3, <2>4 DEF BackgroundNext
    <3>2. /\ h \in {c \in Turns : places[c] = "queued"}
          /\ Tail(fore) \in Seq(Turns) /\ Len(Tail(fore)) = Len(fore) - 1
          /\ Holds(Tail(fore), {c \in Turns : places[c] = "queued"} \ {h})
      BY ONLY <3>1, HoldsServed, fore \in Seq(Turns),
              Holds(fore, {c \in Turns : places[c] = "queued"})
    <3>3. /\ at' = [places EXCEPT ![h] = "calling"]
          /\ foregroundQueue' = Tail(fore) /\ backgroundQueue' = back
          /\ burst' = IF burst < MaxForegroundBurst THEN burst + 1 ELSE burst
      BY <1>3, <2>4 DEF DrainEmbedding
    <3> HIDE DEF h
    <3>4. {c \in Embeds : places[c] = "queued"} \ {h} = {c \in Embeds : places[c] = "queued"}
      BY <3>2
    <3>5. inUse + 1 < Capacity => foregroundQueue' = <<>> /\ backgroundQueue' = <<>>
      <4> SUFFICES ASSUME inUse + 1 < Capacity
                   PROVE  foregroundQueue' = <<>> /\ backgroundQueue' = <<>>
        OBVIOUS
      <4>1. Len(fore) # 0
        BY <3>1, <1>1, EmptySeq
      <4>2. Len(back) = 0 /\ Len(Tail(fore)) = 0
        BY <1>1, <3>2, <4>1
      <4> QED BY <3>2, <3>3, <4>2, EmptySeq
    <3>6. burst' \in 0 .. MaxForegroundBurst
      BY <3>3
    <3>7. EmbeddingOK'
      <4>1. /\ embeddingInUse' \in Nat /\ embeddingInUse' <= Capacity
            /\ embeddingInUse' < Capacity => foregroundQueue' = <<>> /\ backgroundQueue' = <<>>
        BY <2>1, <3>5
      <4>2. h \in Turns \cup Embeds /\ places[h] = "queued"
        BY <3>2
      <4>3. /\ embeddingInUse' = Cardinality(Calling(Turns \cup Embeds)')
            /\ Queued(Turns)' = {c \in Turns : places[c] = "queued"} \ {h}
            /\ Queued(Embeds)' = {c \in Embeds : places[c] = "queued"} \ {h}
        BY <2>2, <3>3, <4>2
      <4>4. Holds(foregroundQueue', Queued(Turns)') /\ Holds(backgroundQueue', Queued(Embeds)')
        BY <3>2, <3>3, <3>4, <4>3
      <4>5. foregroundQueue' \in Seq(Turns) /\ backgroundQueue' \in Seq(Embeds)
        BY <3>2, <3>3
      <4> QED BY ONLY <4>1, <4>3, <4>4, <4>5, <3>3, <3>6 DEF EmbeddingOK
    <3> QED BY <2>2, <3>2, <3>3, <3>7
  <2> QED BY <2>3, <2>4
<1> QED BY <1>2, <1>3

-----------------------------------------------------------------------------
(* One lemma per action.                                                   *)

LEMMA InitHolds == Init => IInv
<1> SUFFICES ASSUME Init PROVE IInv
  OBVIOUS
<1> USE Constants DEF Init
<1>1. /\ Queued(Turns) = {} /\ Queued(Embeds) = {} /\ Queued(Llms) = {}
      /\ Calling(Turns \cup Embeds) = {} /\ Calling(Llms) = {} /\ Active = {}
      /\ {c \in Background : at[c] = "gate"} = {}
  BY DEF Queued, Calling, Active
<1>2. at \in [Calls -> Place]
  BY DEF Place
<1>3. EmbeddingOK
  <2>1. <<>> \in Seq(Turns) /\ <<>> \in Seq(Embeds) /\ 0 \in 0 .. MaxForegroundBurst
    OBVIOUS
  <2>2. Cardinality({}) = 0 /\ 0 <= Capacity
    BY FS_EmptySet
  <2> QED BY <1>1, <2>1, <2>2, HoldsNothing DEF EmbeddingOK
<1>4. LlmOK
  BY <1>1, HoldsNothing, FS_EmptySet DEF LlmOK
<1>5. GateOK /\ DownOK
  BY <1>1, FS_EmptySet DEF GateOK, DownOK
<1> QED BY <1>2, <1>3, <1>4, <1>5 DEF IInv

LEMMA EnterForegroundStep ==
  ASSUME IInv, NEW t \in Turns, EnterForeground(t) PROVE IInv'
<1> USE Constants DEF IInv, EnterForeground
<1>1. /\ at' \in [Calls -> Place]
      /\ \A c \in Calls : at'[c] = IF c = t THEN "entered" ELSE at[c]
  BY DEF Place
<1>2. EmbeddingOK'
  BY <1>1, EmbeddingFrame
<1>3. LlmOK'
  BY <1>1, LlmFrame
<1>4. GateOK'
  <2>1. Active' = Active \cup {t} /\ t \notin Active /\ Active \subseteq Turns
    BY <1>1 DEF Active
  <2>2. /\ foregroundActive \in Nat
        /\ foregroundActive' = Cardinality(Active') /\ foregroundActive' # 0
    BY <2>1, Counting DEF GateOK
  <2>3. gate' = {c \in Background : at'[c] = "gate"}
    BY <1>1 DEF GateOK
  <2> QED BY <2>2, <2>3 DEF GateOK
<1>5. DownOK'
  BY <1>1 DEF DownOK
<1> QED BY <1>1, <1>2, <1>3, <1>4, <1>5

LEMMA LeaveForegroundStep ==
  ASSUME IInv, NEW t \in Turns, LeaveForeground(t) PROVE IInv'
<1> USE Constants DEF IInv
<1> DEFINE opened == IF foregroundActive' > 0 THEN {} ELSE gate
<1>1. /\ foregroundActive' = foregroundActive - 1 /\ gate' = gate \ opened
      /\ at' = [c \in Calls |-> IF c = t THEN "idle"
                              ELSE IF c \in opened THEN "passed" ELSE at[c]]
      /\ at[t] \in {"entered", "returned"}
      /\ UNCHANGED <<embedding, llm, down>>
  BY DEF LeaveForeground
<1>2. opened \subseteq gate /\ \A c \in opened : c \in Background /\ at[c] = "gate"
  BY DEF GateOK
<1> HIDE DEF opened
<1>3. at' \in [Calls -> Place]
  BY <1>1 DEF Place
<1>4. EmbeddingOK'
  BY <1>1, <1>2, EmbeddingFrame
<1>5. LlmOK'
  BY <1>1, <1>2, LlmFrame
<1>6. GateOK'
  <2>1. Active' = Active \ {t} /\ t \in Active /\ Active \subseteq Turns
    BY <1>1, <1>2 DEF Active
  <2>2. foregroundActive' \in Nat /\ foregroundActive' = Cardinality(Active')
    <3>1. /\ Cardinality(Active \ {t}) = Cardinality(Active) - 1
          /\ Cardinality(Active) > 0
      BY ONLY <2>1, IsFiniteSet(Turns), Counting
    <3>2. foregroundActive \in Nat /\ foregroundActive = Cardinality(Active)
      BY DEF GateOK
    <3> QED BY <1>1, <2>1, <3>1, <3>2
  <2>3. gate' = {c \in Background : at'[c] = "gate"}
    BY <1>1, <1>2 DEF GateOK
  <2>4. foregroundActive' = 0 => gate' = {}
    BY <1>1, <2>2 DEF opened
  <2> QED BY <2>2, <2>3, <2>4 DEF GateOK
<1>7. DownOK'
  BY <1>1 DEF DownOK
<1> QED BY <1>3, <1>4, <1>5, <1>6, <1>7

LEMMA WaitForBackgroundStep ==
  ASSUME IInv, NEW c \in Background, WaitForBackground(c) PROVE IInv'
<1> USE Constants DEF IInv
<1>1. /\ at[c] = "idle" /\ ~down
      /\ Gated \in {"passed", "gate"}
      /\ Gated = "gate" => foregroundActive # 0
      /\ at' = [at EXCEPT ![c] = Gated]
      /\ gate' = IF Gated = "gate" THEN gate \cup {c} ELSE gate
      /\ UNCHANGED <<foregroundActive, embedding, llm, down>>
  BY DEF WaitForBackground, Gated
<1>2. /\ at' \in [Calls -> Place]
      /\ \A d \in Calls : at'[d] = IF d = c THEN Gated ELSE at[d]
  BY <1>1 DEF Place
<1>3. EmbeddingOK'
  BY <1>1, <1>2, EmbeddingFrame
<1>4. LlmOK'
  BY <1>1, <1>2, LlmFrame
<1>5. GateOK'
  <2>1. Active' = Active
    BY <1>2 DEF Active
  <2>2. gate' = {d \in Background : at'[d] = "gate"}
    BY <1>1, <1>2 DEF GateOK
  <2>3. foregroundActive = 0 => gate' = {}
    BY <1>1 DEF GateOK
  <2> QED BY <1>1, <2>1, <2>2, <2>3 DEF GateOK
<1>6. DownOK'
  BY <1>1 DEF DownOK
<1> QED BY <1>2, <1>3, <1>4, <1>5, <1>6

LEMMA AcquireEmbeddingStep ==
  ASSUME IInv, NEW c \in Turns \cup Embeds, AcquireEmbedding(c) PROVE IInv'
<1> USE Constants DEF IInv
<1>1. /\ at[c] \in {"entered", "passed"} /\ c \in Calls
      /\ c \in Turns => at[c] = "entered"
      /\ UNCHANGED <<foregroundActive, gate, llm, down>>
  BY DEF AcquireEmbedding
<1>2. ASSUME at' \in [Calls -> Place], EmbeddingOK',
             \A d \in Calls :
               \/ at'[d] = at[d]
               \/ d = c /\ at'[d] = Back(d)
               \/ /\ d \in Turns \cup Embeds /\ at[d] \in {"entered", "passed", "queued"}
                  /\ at'[d] = "calling"
               \/ /\ d \in Turns \cup Embeds /\ at[d] \in {"entered", "passed"}
                  /\ at'[d] = "queued" /\ ~down
      PROVE  IInv'
  <2>1. LlmOK'
    BY <1>1, <1>2, LlmFrame
  <2>2. GateOK'
    <3>1. \A t \in Turns : at'[t] = "idle" <=> at[t] = "idle"
      BY <1>1, <1>2 DEF Back
    <3>2. \A d \in Background : at'[d] = "gate" <=> at[d] = "gate"
      BY <1>1, <1>2 DEF Back
    <3> QED BY <1>1, <3>1, <3>2, GateFrame
  <2>3. DownOK'
    <3>1. \A d \in Calls : Back(d) \notin {"gate", "queued"}
      BY DEF Back
    <3> QED BY <1>1, <1>2, <3>1 DEF DownOK
  <2> QED BY <1>2, <2>1, <2>2, <2>3
<1>3. CASE down
  <2>1. at' = [at EXCEPT ![c] = Back(c)] /\ UNCHANGED embedding
    BY <1>3 DEF AcquireEmbedding
  <2>2. /\ at' \in [Calls -> Place]
        /\ \A d \in Calls : at'[d] = IF d = c THEN Back(c) ELSE at[d]
    BY <1>1, <2>1 DEF Place, Back
  <2>3. EmbeddingOK'
    BY <1>1, <2>1, <2>2, EmbeddingFrame DEF Back
  <2> QED BY <1>1, <1>2, <2>2, <2>3
<1>4. CASE ~down
  <2> DEFINE places == [at EXCEPT ![c] = "queued"]
             fore == IF c \in Turns THEN Append(foregroundQueue, c) ELSE foregroundQueue
             back == IF c \in Turns THEN backgroundQueue ELSE Append(backgroundQueue, c)
  <2>1. DrainEmbedding(places, fore, back, embeddingInUse)
    BY <1>4 DEF AcquireEmbedding
  <2>2. /\ places \in [Calls -> Place]
        /\ \A d \in Calls : places[d] = IF d = c THEN "queued" ELSE at[d]
    BY <1>1 DEF Place
  <2> HIDE DEF places
  <2>3. /\ {d \in Turns : places[d] = "queued"} =
             IF c \in Turns THEN Queued(Turns) \cup {c} ELSE Queued(Turns)
        /\ {d \in Embeds : places[d] = "queued"} =
             IF c \in Turns THEN Queued(Embeds) ELSE Queued(Embeds) \cup {c}
        /\ {d \in Turns \cup Embeds : places[d] = "calling"} = Calling(Turns \cup Embeds)
        /\ c \notin Queued(Turns) /\ c \notin Queued(Embeds)
    BY <1>1, <2>2 DEF Queued, Calling
  <2>4. /\ fore \in Seq(Turns) /\ back \in Seq(Embeds)
        /\ Holds(fore, {d \in Turns : places[d] = "queued"})
        /\ Holds(back, {d \in Embeds : places[d] = "queued"})
    <3>1. /\ foregroundQueue \in Seq(Turns) /\ Holds(foregroundQueue, Queued(Turns))
          /\ backgroundQueue \in Seq(Embeds) /\ Holds(backgroundQueue, Queued(Embeds))
      BY DEF EmbeddingOK
    <3>2. CASE c \in Turns
      <4>1. /\ Append(foregroundQueue, c) \in Seq(Turns)
            /\ Holds(Append(foregroundQueue, c), Queued(Turns) \cup {c})
        BY ONLY <2>3, <3>1, <3>2, HoldsAppended
      <4> QED BY <2>3, <3>1, <3>2, <4>1
    <3>3. CASE c \notin Turns
      <4>1. /\ Append(backgroundQueue, c) \in Seq(Embeds)
            /\ Holds(Append(backgroundQueue, c), Queued(Embeds) \cup {c})
        <5>1. c \in Embeds
          BY <3>3
        <5> QED BY ONLY <2>3, <3>1, <5>1, HoldsAppended
      <4> QED BY <2>3, <3>1, <3>3, <4>1
    <3> QED BY <3>2, <3>3
  <2>5. embeddingInUse + 1 < Capacity => Len(fore) + Len(back) <= 1
    <3> SUFFICES ASSUME embeddingInUse + 1 < Capacity PROVE Len(fore) + Len(back) <= 1
      OBVIOUS
    <3>1. foregroundQueue = <<>> /\ backgroundQueue = <<>>
      BY DEF EmbeddingOK
    <3> QED BY <3>1
  <2> HIDE DEF fore, back
  <2>6. /\ at' \in [Calls -> Place]
        /\ \/ at' = places
           \/ \E h \in Turns \cup Embeds :
                places[h] = "queued" /\ at' = [places EXCEPT ![h] = "calling"]
        /\ EmbeddingOK'
    <3>1. /\ embeddingInUse \in Nat /\ embeddingInUse <= Capacity
          /\ burst \in 0 .. MaxForegroundBurst
          /\ embeddingInUse = Cardinality({d \in Turns \cup Embeds : places[d] = "calling"})
      BY <2>3 DEF EmbeddingOK
    <3> QED BY <2>1, <2>2, <2>4, <2>5, <3>1, DrainEffect
  <2>7. \A d \in Calls :
          \/ at'[d] = at[d]
          \/ /\ d \in Turns \cup Embeds /\ at[d] \in {"entered", "passed", "queued"}
             /\ at'[d] = "calling"
          \/ /\ d \in Turns \cup Embeds /\ at[d] \in {"entered", "passed"}
             /\ at'[d] = "queued"
    BY <1>1, <2>2, <2>6
  <2> QED BY <1>2, <1>4, <2>6, <2>7
<1> QED BY <1>3, <1>4

LEMMA FinishEmbeddingStep ==
  ASSUME IInv, NEW c \in Turns \cup Embeds, FinishEmbedding(c) PROVE IInv'
<1> USE Constants DEF IInv
<1>1. /\ at[c] = "calling" /\ c \in Calls
      /\ UNCHANGED <<foregroundActive, llm, down>>
  BY DEF FinishEmbedding
<1>2. PICK next \in IF c \in Turns THEN {"returned"} ELSE {"idle", Gated} :
        /\ DrainEmbedding([at EXCEPT ![c] = next],
                          foregroundQueue, backgroundQueue, embeddingInUse - 1)
        /\ gate' = IF next = "gate" THEN gate \cup {c} ELSE gate
  BY DEF FinishEmbedding
<1>3. /\ next \in {"returned", "idle", "passed", "gate"}
      /\ next = "gate" => c \in Background /\ foregroundActive # 0 /\ ~down
      /\ c \in Turns => next = "returned"
  BY DEF Gated
<1> DEFINE places == [at EXCEPT ![c] = next]
           inUse   == embeddingInUse - 1
           A      == Calling(Turns \cup Embeds)
<1>4. /\ places \in [Calls -> Place]
      /\ \A d \in Calls : places[d] = IF d = c THEN next ELSE at[d]
  BY <1>1, <1>3 DEF Place
<1>5. DrainEmbedding(places, foregroundQueue, backgroundQueue, inUse)
  BY <1>2
<1> HIDE DEF places
<1>6. /\ {d \in Turns : places[d] = "queued"} = Queued(Turns)
      /\ {d \in Embeds : places[d] = "queued"} = Queued(Embeds)
      /\ {d \in Turns \cup Embeds : places[d] = "calling"} = A \ {c}
      /\ c \in A /\ A \subseteq Turns \cup Embeds
  BY <1>1, <1>3, <1>4 DEF Queued, Calling
<1>7. /\ inUse \in Nat /\ inUse <= Capacity
      /\ inUse = Cardinality({d \in Turns \cup Embeds : places[d] = "calling"})
      /\ inUse + 1 < Capacity => foregroundQueue = <<>> /\ backgroundQueue = <<>>
  <2>1. Cardinality(A \ {c}) = Cardinality(A) - 1 /\ Cardinality(A) > 0
    <3> HIDE DEF A
    <3> QED BY <1>6, Counting
  <2>2. /\ embeddingInUse \in Nat /\ embeddingInUse = Cardinality(A)
        /\ embeddingInUse <= Capacity
        /\ embeddingInUse < Capacity => foregroundQueue = <<>> /\ backgroundQueue = <<>>
    BY DEF EmbeddingOK
  <2> HIDE DEF A
  <2>3. inUse = Cardinality(A \ {c})
    BY <2>1, <2>2
  <2>4. /\ inUse \in Nat /\ inUse <= Capacity
        /\ inUse + 1 < Capacity => embeddingInUse < Capacity
    BY <2>1, <2>2
  <2> QED BY <1>6, <2>2, <2>3, <2>4
<1> HIDE DEF inUse, A
<1>8. /\ foregroundQueue \in Seq(Turns) /\ backgroundQueue \in Seq(Embeds)
      /\ Holds(foregroundQueue, {d \in Turns : places[d] = "queued"})
      /\ Holds(backgroundQueue, {d \in Embeds : places[d] = "queued"})
      /\ burst \in 0 .. MaxForegroundBurst
      /\ inUse + 1 < Capacity => Len(foregroundQueue) + Len(backgroundQueue) <= 1
  <2>1. foregroundQueue = <<>> /\ backgroundQueue = <<>>
        => Len(foregroundQueue) + Len(backgroundQueue) <= 1
    OBVIOUS
  <2> QED BY <1>6, <1>7, <2>1 DEF EmbeddingOK
<1>9. /\ at' \in [Calls -> Place]
      /\ \/ at' = places
         \/ \E h \in Turns \cup Embeds :
              places[h] = "queued" /\ at' = [places EXCEPT ![h] = "calling"]
      /\ EmbeddingOK'
  BY <1>4, <1>5, <1>7, <1>8, DrainEffect
<1>10. \A d \in Calls :
         \/ d # c /\ at'[d] = at[d]
         \/ d = c /\ at'[d] = next
         \/ /\ d # c /\ d \in Turns \cup Embeds
            /\ at[d] = "queued" /\ at'[d] = "calling"
  BY <1>3, <1>4, <1>9
<1>11. LlmOK'
  BY <1>1, <1>10, LlmFrame
<1>12. GateOK'
  <2>1. Active' = Active
    BY <1>1, <1>3, <1>10 DEF Active
  <2>2. gate' = {d \in Background : at'[d] = "gate"}
    BY <1>1, <1>2, <1>3, <1>10 DEF GateOK
  <2> QED BY <1>1, <1>2, <1>3, <2>1, <2>2 DEF GateOK
<1>13. DownOK'
  BY <1>1, <1>3, <1>10 DEF DownOK
<1> QED BY <1>9, <1>11, <1>12, <1>13

-----------------------------------------------------------------------------
(* The semaphore, aborts and shutdown.                                     *)

LEMMA AcquireLlmStep ==
  ASSUME IInv, NEW c \in Llms, AcquireLlm(c) PROVE IInv'
<1> USE Constants DEF IInv
<1>1. /\ at[c] = "passed" /\ c \in Calls /\ c \in Background
      /\ c \notin Turns \cup Embeds
      /\ UNCHANGED <<foregroundActive, gate, embedding, down>>
  BY DEF AcquireLlm
<1>2. PICK next \in {"idle", "calling", "queued"} :
        /\ at' = [at EXCEPT ![c] = next]
        /\ next = "idle" => UNCHANGED llm
        /\ next = "calling" =>
             current < LlmLimit /\ current' = current + 1 /\ UNCHANGED llmQueue
        /\ next = "queued" =>
             /\ ~down /\ current >= LlmLimit
             /\ llmQueue' = Append(llmQueue, c) /\ UNCHANGED current
  BY DEF AcquireLlm
<1>3. /\ at' \in [Calls -> Place]
      /\ \A d \in Calls : at'[d] = IF d = c THEN next ELSE at[d]
  BY <1>1, <1>2 DEF Place
<1>4. EmbeddingOK'
  BY <1>1, <1>3, EmbeddingFrame
<1>5. GateOK'
  BY <1>1, <1>3, GateFrame
<1>6. DownOK'
  BY <1>1, <1>2, <1>3 DEF DownOK
<1>7. LlmOK'
  <2>1. CASE next = "idle"
    BY <2>1, <1>1, <1>2, <1>3, LlmFrame
  <2>2. CASE next = "calling"
    <3>1. /\ Calling(Llms)' = Calling(Llms) \cup {c} /\ c \notin Calling(Llms)
          /\ Queued(Llms)' = Queued(Llms)
          /\ Calling(Llms) \subseteq Llms
      BY <2>2, <1>1, <1>3 DEF Calling, Queued
    <3>2. Cardinality(Calling(Llms) \cup {c}) = Cardinality(Calling(Llms)) + 1
      BY <3>1, Counting
    <3>3. /\ current' = Cardinality(Calling(Llms)') /\ current' \in Nat
          /\ current' <= LlmLimit /\ llmQueue = <<>>
      BY <2>2, <3>1, <3>2, <1>2 DEF LlmOK
    <3>4. /\ llmQueue' = <<>> /\ llmQueue' \in Seq(Llms)
          /\ Holds(llmQueue', Queued(Llms)')
      BY <2>2, <3>1, <3>3, <1>2 DEF LlmOK
    <3> QED BY ONLY <3>3, <3>4 DEF LlmOK
  <2>3. CASE next = "queued"
    <3>1. /\ Calling(Llms)' = Calling(Llms) /\ c \notin Queued(Llms)
          /\ Queued(Llms)' = Queued(Llms) \cup {c}
      BY <2>3, <1>1, <1>3 DEF Calling, Queued
    <3>2. /\ Append(llmQueue, c) \in Seq(Llms)
          /\ Holds(Append(llmQueue, c), Queued(Llms) \cup {c})
      BY <3>1, HoldsAppended DEF LlmOK
    <3>3. /\ current' \in Nat /\ current' = Cardinality(Calling(Llms)')
          /\ current' <= LlmLimit /\ ~(current' < LlmLimit)
      BY <2>3, <3>1, <1>2 DEF LlmOK
    <3>4. llmQueue' \in Seq(Llms) /\ Holds(llmQueue', Queued(Llms)')
      BY <2>3, <3>1, <3>2, <1>2
    <3> QED BY ONLY <3>3, <3>4 DEF LlmOK
  <2> QED BY <2>1, <2>2, <2>3
<1> QED BY <1>3, <1>4, <1>5, <1>6, <1>7

LEMMA FinishLlmStep ==
  ASSUME IInv, NEW c \in Llms, FinishLlm(c) PROVE IInv'
<1> USE Constants DEF IInv
<1> DEFINE A == Calling(Llms)
           h == Head(llmQueue)
<1>1. /\ at[c] = "calling" /\ c \in Calls
      /\ UNCHANGED <<foregroundActive, gate, embedding, down>>
  BY DEF FinishLlm
<1>2. /\ c \in A /\ A \in SUBSET Llms
      /\ current \in Nat /\ current = Cardinality(A) /\ current <= LlmLimit
      /\ llmQueue \in Seq(Llms) /\ Holds(llmQueue, Queued(Llms))
      /\ current < LlmLimit => llmQueue = <<>>
  BY <1>1 DEF Calling, LlmOK
<1>3. /\ Cardinality(A \ {c}) = current - 1 /\ current > 0
      /\ Cardinality(A \ {c}) \in Nat
      /\ \A d : d \notin A \ {c} => Cardinality((A \ {c}) \cup {d}) = current
  <2> HIDE DEF A
  <2>1. Cardinality(A \ {c}) = current - 1 /\ current > 0
    BY <1>2, Counting
  <2>2. A \ {c} \in SUBSET Llms
    BY <1>2
  <2>3. /\ Cardinality(A \ {c}) \in Nat
        /\ \A d : d \notin A \ {c} =>
             Cardinality((A \ {c}) \cup {d}) = Cardinality(A \ {c}) + 1
    BY <2>2, Counting
  <2> QED BY <1>2, <2>1, <2>3
<1>4. CASE llmQueue = <<>>
  <2>1. /\ at' = [at EXCEPT ![c] = "idle"]
        /\ current' = current - 1 /\ llmQueue' = <<>>
    BY <1>3, <1>4 DEF FinishLlm
  <2>2. /\ at' \in [Calls -> Place]
        /\ \A d \in Calls : at'[d] = IF d = c THEN "idle" ELSE at[d]
    BY <1>1, <2>1 DEF Place
  <2>3. /\ Calling(Llms)' = A \ {c} /\ Queued(Llms)' = Queued(Llms)
    BY <1>1, <2>2 DEF Calling, Queued
  <2>4. LlmOK'
    <3>1. /\ current' = Cardinality(Calling(Llms)') /\ current' \in Nat
          /\ current' <= LlmLimit
      BY <1>2, <1>3, <2>1, <2>3
    <3> QED BY <1>2, <1>4, <2>1, <2>3, <3>1 DEF LlmOK
  <2>5. EmbeddingOK'
    BY <1>1, <2>2, EmbeddingFrame
  <2>6. GateOK'
    BY <1>1, <2>2, GateFrame
  <2>7. DownOK'
    BY <1>1, <2>2 DEF DownOK
  <2> QED BY <2>2, <2>4, <2>5, <2>6, <2>7
<1>5. CASE llmQueue # <<>>
  <2>1. /\ h \in Queued(Llms) /\ Tail(llmQueue) \in Seq(Llms)
        /\ Holds(Tail(llmQueue), Queued(Llms) \ {h})
    BY ONLY <1>2, <1>5, HoldsServed
  <2>2. /\ at' = [at EXCEPT ![c] = "idle", ![h] = "calling"]
        /\ current' = current /\ llmQueue' = Tail(llmQueue)
    BY <1>2, <1>3, <1>5 DEF FinishLlm
  <2> HIDE DEF h
  <2>3. h \in Llms /\ at[h] = "queued" /\ h # c /\ h \in Calls
    BY <1>1, <2>1 DEF Queued
  <2>4. /\ at' \in [Calls -> Place]
        /\ \A d \in Calls : at'[d] = IF d = c THEN "idle"
                                     ELSE IF d = h THEN "calling" ELSE at[d]
    BY <1>1, <2>2, <2>3 DEF Place
  <2>5. /\ Calling(Llms)' = (A \ {c}) \cup {h} /\ h \notin A \ {c}
        /\ Queued(Llms)' = Queued(Llms) \ {h}
    BY <1>1, <2>3, <2>4 DEF Calling, Queued
  <2>6. current' = Cardinality(Calling(Llms)')
    BY <1>3, <2>2, <2>5
  <2>7. LlmOK'
    BY <1>2, <1>5, <2>1, <2>2, <2>5, <2>6 DEF LlmOK
  <2>8. EmbeddingOK'
    BY <1>1, <2>3, <2>4, EmbeddingFrame
  <2>9. GateOK'
    BY <1>1, <2>3, <2>4, GateFrame
  <2>10. DownOK'
    BY <1>1, <2>4 DEF DownOK
  <2> QED BY <2>4, <2>7, <2>8, <2>9, <2>10
<1> QED BY <1>4, <1>5

LEMMA AbortStep ==
  ASSUME IInv, NEW c \in Calls, Abort(c) PROVE IInv'
<1> USE Constants DEF IInv
<1>1. /\ at[c] \in {"gate", "queued"} /\ gate' = gate \ {c}
      /\ foregroundQueue' = RemoveFirst(foregroundQueue, c)
      /\ backgroundQueue' = RemoveFirst(backgroundQueue, c)
      /\ llmQueue' = RemoveFirst(llmQueue, c)
      /\ UNCHANGED <<foregroundActive, embeddingInUse, burst, current, down>>
  BY DEF Abort
<1>2. Back(c) \in {"idle", "returned"} /\ (c \in Turns => Back(c) = "returned")
  BY DEF Back
<1>3. /\ at' \in [Calls -> Place]
      /\ \A d \in Calls : at'[d] = IF d = c THEN Back(c) ELSE at[d]
  BY <1>2 DEF Abort, Place
<1>4. /\ Queued(Turns)' = Queued(Turns) \ {c} /\ Queued(Embeds)' = Queued(Embeds) \ {c}
      /\ Queued(Llms)' = Queued(Llms) \ {c}
      /\ Calling(Turns \cup Embeds)' = Calling(Turns \cup Embeds)
      /\ Calling(Llms)' = Calling(Llms) /\ Active' = Active
  BY <1>1, <1>2, <1>3 DEF Queued, Calling, Active
<1>5. EmbeddingOK'
  <2>1. /\ foregroundQueue \in Seq(Turns) /\ Holds(foregroundQueue, Queued(Turns))
        /\ backgroundQueue \in Seq(Embeds) /\ Holds(backgroundQueue, Queued(Embeds))
    BY DEF EmbeddingOK
  <2>2. /\ foregroundQueue' \in Seq(Turns) /\ Holds(foregroundQueue', Queued(Turns)')
        /\ backgroundQueue' \in Seq(Embeds) /\ Holds(backgroundQueue', Queued(Embeds)')
    BY ONLY <1>1, <1>4, <2>1, HoldsRemoved
  <2>3. /\ foregroundQueue = <<>> => foregroundQueue' = <<>>
        /\ backgroundQueue = <<>> => backgroundQueue' = <<>>
    BY <1>1 DEF RemoveFirst
  <2> QED BY <1>1, <1>4, <2>2, <2>3 DEF EmbeddingOK
<1>6. LlmOK'
  <2>1. llmQueue \in Seq(Llms) /\ Holds(llmQueue, Queued(Llms))
    BY DEF LlmOK
  <2>2. llmQueue' \in Seq(Llms) /\ Holds(llmQueue', Queued(Llms)')
    BY ONLY <1>1, <1>4, <2>1, HoldsRemoved
  <2>3. llmQueue = <<>> => llmQueue' = <<>>
    BY <1>1 DEF RemoveFirst
  <2> QED BY <1>1, <1>4, <2>2, <2>3 DEF LlmOK
<1>7. GateOK'
  <2>1. gate' = {d \in Background : at'[d] = "gate"}
    BY <1>1, <1>2, <1>3 DEF GateOK
  <2> QED BY <1>1, <1>4, <2>1 DEF GateOK
<1>8. DownOK'
  BY <1>1, <1>2, <1>3 DEF DownOK
<1> QED BY <1>3, <1>5, <1>6, <1>7, <1>8

LEMMA ShutdownStep ==
  ASSUME IInv, Shutdown PROVE IInv'
<1> USE Constants DEF IInv
<1>1. /\ down' = TRUE /\ gate' = {}
      /\ foregroundQueue' = <<>> /\ backgroundQueue' = <<>> /\ llmQueue' = <<>>
      /\ UNCHANGED <<foregroundActive, embeddingInUse, burst, current>>
  BY DEF Shutdown
<1>2. \A d \in Calls : Back(d) \in {"idle", "returned"} /\ (d \in Turns => Back(d) = "returned")
  BY DEF Back
<1>3. /\ at' \in [Calls -> Place]
      /\ \A d \in Calls :
           at'[d] = IF at[d] \in {"gate", "queued"} THEN Back(d) ELSE at[d]
  <2>1. at' = [d \in Calls |-> IF at[d] \in {"gate", "queued"} THEN Back(d) ELSE at[d]]
    BY DEF Shutdown
  <2> QED BY <1>2, <2>1 DEF Place
<1>4. /\ Queued(Turns)' = {} /\ Queued(Embeds)' = {} /\ Queued(Llms)' = {}
      /\ Calling(Turns \cup Embeds)' = Calling(Turns \cup Embeds)
      /\ Calling(Llms)' = Calling(Llms) /\ Active' = Active
      /\ {d \in Background : at'[d] = "gate"} = {}
  BY <1>2, <1>3 DEF Queued, Calling, Active
<1>5. EmbeddingOK'
  <2>1. <<>> \in Seq(Turns) /\ <<>> \in Seq(Embeds)
    OBVIOUS
  <2> QED BY <1>1, <1>4, <2>1, HoldsNothing DEF EmbeddingOK
<1>6. LlmOK'
  BY <1>1, <1>4, HoldsNothing DEF LlmOK
<1>7. GateOK' /\ DownOK'
  BY <1>1, <1>2, <1>3, <1>4 DEF GateOK, DownOK
<1> QED BY <1>3, <1>5, <1>6, <1>7

LEMMA InvariantStep == IInv /\ [Next]_vars => IInv'
<1> SUFFICES ASSUME IInv, [Next]_vars PROVE IInv'
  OBVIOUS
<1>1. ASSUME NEW t \in Turns, EnterForeground(t) PROVE IInv'
  BY <1>1, EnterForegroundStep
<1>2. ASSUME NEW t \in Turns, LeaveForeground(t) PROVE IInv'
  BY <1>2, LeaveForegroundStep
<1>3. ASSUME NEW c \in Background, WaitForBackground(c) PROVE IInv'
  BY <1>3, WaitForBackgroundStep
<1>4. ASSUME NEW c \in Turns \cup Embeds, AcquireEmbedding(c) PROVE IInv'
  BY <1>4, AcquireEmbeddingStep
<1>5. ASSUME NEW c \in Turns \cup Embeds, FinishEmbedding(c) PROVE IInv'
  BY <1>5, FinishEmbeddingStep
<1>6. ASSUME NEW c \in Llms, AcquireLlm(c) PROVE IInv'
  BY <1>6, AcquireLlmStep
<1>7. ASSUME NEW c \in Llms, FinishLlm(c) PROVE IInv'
  BY <1>7, FinishLlmStep
<1>8. ASSUME NEW c \in Calls, Abort(c) PROVE IInv'
  BY <1>8, AbortStep
<1>9. CASE Shutdown
  BY <1>9, ShutdownStep
<1>10. CASE UNCHANGED vars
  <2>1. /\ UNCHANGED <<at, gate, foregroundActive, down, embedding, llm>>
    BY <1>10 DEF vars
  <2>2. EmbeddingOK' /\ LlmOK' /\ GateOK'
    BY <2>1, EmbeddingFrame, LlmFrame, GateFrame DEF IInv
  <2> QED BY <2>1, <2>2 DEF IInv, DownOK
<1> QED BY <1>1, <1>2, <1>3, <1>4, <1>5, <1>6, <1>7, <1>8, <1>9, <1>10 DEF Next

-----------------------------------------------------------------------------
(* The theorems.                                                           *)

LEMMA Invariance == Spec => []IInv
BY InitHolds, InvariantStep, PTL DEF Spec

\* However many callers compete, every counter and queue keeps its type: in
\* particular no release drives a counter below zero, although the release of
\* an embedding permit, unlike the semaphore's, has no lower bound.
THEOREM TypeCorrect == Spec => []TypeOK
BY Invariance, InvariantIsTheProperties, PTL

\* A permit is neither lost nor given twice: the counters are the numbers of
\* calls at the provider and of turn starts on their way, within the limits.
THEOREM PermitsAreConserved == Spec => []PermitsConserved
BY Invariance, InvariantIsTheProperties, PTL

\* No wake-up is lost: nobody queues while a permit is free, nobody waits at
\* the gate while no turn start is active, nobody waits after shutdown.
THEOREM NoLostWakeUp == Spec => []NothingWaitsInVain
BY Invariance, InvariantIsTheProperties, PTL

-----------------------------------------------------------------------------
(* The hub.                                                                *)

\* What the hub answers, and what a flow and a stray request hold.
Said     == Status \cup {"awaited", "not_found", "username_taken", "ok", "unauthorized"}
Replies  == [status : Said, user : Users \cup {None}, key : Users \cup {None}, token : Tokens]
Frames   == [stage : Stage, copy : Conn, reply : Replies]
Requests == [stage : Stage, copy : Conn, name : Names]
Tables   == [Users -> Row \cup {NoRow, Gone}]

\* A token is held for an active user, by a row, a copy of one or a reply.
Held(row)    == row.token # None => row.user # None /\ row.status = "active"
Heard(reply) == Held(reply) /\ (reply.status = "ok" => reply.user # None)
Framed(frame) == frame \in Frames /\ Held(frame.copy) /\ Heard(frame.reply)

\* Every frame is sound, and a runtime that has not been taken yet has none.
FlowSound(frames, taken) ==
  /\ frames \in [Runtimes -> [Flows -> Frames]]
  /\ \A r \in Runtimes, f \in Flows : Framed(frames[r][f])
  /\ \A r \in Runtimes \ taken, f \in Flows : frames[r][f] = Idle
ConnSound(rows)   == rows \in [Clients -> Conn] /\ \A c \in Clients : Held(rows[c])
StraySound(all)   == all \subseteq Requests /\ \A req \in all : Held(req.copy)
RuntimeSound(now, taken) ==
  /\ now \in [Clients -> Runtimes \cup {NoRuntime}]
  /\ \A c \in Clients : now[c] \in taken \cup {NoRuntime}

\* A user the hub knows and has not removed, in a table of users.
Member(table, u) == table[u] \notin {NoRow, Gone} /\ table[u].status # "removed"

\* The names of the members are apart, but for those excused.
NamesApart(table, free) ==
  \A u, v \in Users \ free :
    Member(table, u) /\ Member(table, v) /\ table[u].name = table[v].name => u = v

\* Who has something shown, or is about to, is a member.
SharersAreMembers == \A u \in (shared \cup upload) \ excused : Member(user, u)

EventSound    == events \in 0 .. MaxEvents
HubSetsSound  == shared \subseteq Users /\ upload \subseteq Users /\ excused \subseteq Users
RuntimesSound == used \subseteq Runtimes /\ polling \subseteq used

HubInv ==
  /\ user \in Tables /\ NamesApart(user, excused) /\ SharersAreMembers
  /\ HubSetsSound /\ EventSound
  /\ ConnSound(conn) /\ StraySound(stray) /\ FlowSound(flow, used)
  /\ RuntimeSound(runtime, used) /\ RuntimesSound

\* A set of users that is not empty has a newest: the number of those not newer
\* than a user ranks the users, so that some user has the highest rank.
LEMMA NewestExists ==
  ASSUME NEW S \in SUBSET Users, S # {}
  PROVE  \E v \in S : \A w \in S : w <= v
<1> DEFINE upTo(s) == {w \in S : w <= s}
           rank == [s \in S |-> Cardinality(upTo(s))]
           n    == Cardinality(S)
<1>1. IsFiniteSet(S) /\ S \subseteq Int
  <2>1. IsFiniteSet(Users) /\ Users \subseteq Int
    BY HubAssumption, FS_Interval DEF Users
  <2> QED BY <2>1, FS_Subset
<1>2. n \in Nat /\ n # 0
  BY <1>1, FS_CardinalityType, FS_EmptySet
<1>3. \A s \in S : /\ IsFiniteSet(upTo(s)) /\ Cardinality(upTo(s)) \in 1 .. n
                   /\ Cardinality(upTo(s)) = n => upTo(s) = S
  <2> TAKE s \in S
  <2>1. IsFiniteSet(upTo(s)) /\ Cardinality(upTo(s)) <= n /\ (n = Cardinality(upTo(s)) => S = upTo(s))
    BY <1>1, FS_Subset
  <2>2. upTo(s) # {}
    BY <1>1
  <2>3. Cardinality(upTo(s)) \in Nat /\ Cardinality(upTo(s)) # 0
    BY <2>1, <2>2, FS_CardinalityType, FS_EmptySet
  <2> HIDE DEF upTo, n
  <2> QED BY <1>2, <2>1, <2>3
<1>4. \A s, t \in S : Cardinality(upTo(s)) = Cardinality(upTo(t)) => s = t
  <2>1. ASSUME NEW s \in S, NEW t \in S, s < t
        PROVE  Cardinality(upTo(s)) # Cardinality(upTo(t))
    <3>1. \A w \in S : w <= s => w <= t
      BY <1>1, <2>1
    <3>2. t <= t /\ ~(t <= s)
      BY <1>1, <2>1
    <3>3. upTo(s) \in SUBSET upTo(t) /\ t \in upTo(t) /\ t \notin upTo(s)
      BY <3>1, <3>2
    <3> HIDE DEF upTo
    <3> QED BY <1>3, <3>3, FS_Subset
  <2> HIDE DEF upTo
  <2> QED BY <1>1, <2>1
<1>5. rank \in Injection(S, 1 .. n)
  <2> HIDE DEF upTo, n
  <2> QED BY <1>3, <1>4 DEF Injection, IsInjective
<1>6. IsFiniteSet(1 .. n) /\ Cardinality(1 .. n) = n
  <2> HIDE DEF n
  <2> QED BY <1>2, FS_Interval
<1>7. rank \in Surjection(S, 1 .. n)
  <2> HIDE DEF rank
  <2> QED BY <1>5, <1>6, FS_Injection
<1>8. PICK v \in S : rank[v] = n
  <2>1. n \in 1 .. n
    <3> HIDE DEF n
    <3> QED BY <1>2
  <2> HIDE DEF rank, n
  <2> QED BY <1>7, <2>1 DEF Surjection
<1>9. upTo(v) = S
  <2> HIDE DEF upTo, n
  <2> QED BY <1>3, <1>8
<1> QED BY <1>9

\* Nobody goes by a name for which findUserByUsername finds nobody.
LEMMA NamedFree ==
  ASSUME NEW name, Named(name) = {}
  PROVE  \A u \in Users : Member(user, u) => user[u].name # name
<1> DEFINE all == {u \in Users : Exists(u) /\ user[u].name = name /\ user[u].status # "removed"}
<1>1. all = {}
  <2>1. Named(name) = {u \in all : \A v \in all : v <= u}
    BY DEF Named
  <2>2. all \in SUBSET Users
    OBVIOUS
  <2> HIDE DEF all
  <2> QED BY <2>1, <2>2, NewestExists
<1> QED BY <1>1 DEF Member, Exists

\* The user findUserByUsername finds is a member of that name.
LEMMA NamedMember ==
  ASSUME NEW name, NEW u \in Named(name)
  PROVE  u \in Users /\ Exists(u) /\ Member(user, u) /\ user[u].name = name
BY DEF Named, Member, Exists

\* A user who exists has a row.
LEMMA Rows ==
  ASSUME user \in Tables, NEW u \in Users
  PROVE  /\ Exists(u) => user[u] \in Row
         /\ Member(user, u) <=> Exists(u) /\ user[u].status # "removed"
         /\ user[u] = NoRow => ~Exists(u)
         /\ user[u] \in Row => Exists(u)
BY DEF Tables, Exists, Member, Row, NoRow, Gone, Status

\* What is told of a row that keeps a user of its name, or a name nobody else has.
TableSound(table) ==
  /\ table \in Tables /\ NamesApart(table, excused)
  /\ \A u \in Users : Member(user, u) => Member(table, u)
ReplySound(reply) == reply \in Replies /\ Heard(reply)

LEMMA TellSound ==
  ASSUME user \in Tables, NamesApart(user, excused),
         NEW u \in Users, NEW row \in Row,
         row.status = "removed" => ~Member(user, u),
         \/ Member(user, u) /\ user[u].name = row.name
         \/ row.status = "removed"
         \/ \A v \in Users : Member(user, v) => user[v].name # row.name
  PROVE  TableSound(Tell(u, row).table) /\ ReplySound(Tell(u, row).reply)
<1> DEFINE table == Tell(u, row).table
           reply == Tell(u, row).reply
<1>1. PICK token \in {u, None} :
        /\ token # None => row.status = "active"
        /\ table = [user EXCEPT ![u] = [row EXCEPT !.token = IF token = u THEN u ELSE @]]
        /\ reply = [status |-> row.status, user |-> u, key |-> row.key, token |-> token]
  BY DEF Tell
<1>2. u # None /\ None = 0 /\ u \in Nat
  BY HubAssumption DEF Users, None
<1>3. ReplySound(reply)
  BY <1>1, <1>2 DEF ReplySound, Replies, Heard, Held, Said, Row, Status, Tokens
<1>4. PICK new \in Row : /\ table = [user EXCEPT ![u] = new]
                         /\ new.name = row.name /\ new.status = row.status
  <2> DEFINE new == [row EXCEPT !.token = IF token = u THEN u ELSE @]
  <2>1. new \in Row /\ new.name = row.name /\ new.status = row.status
    BY <1>2 DEF Row
  <2>2. table = [user EXCEPT ![u] = new]
    BY <1>1
  <2> HIDE DEF new, table
  <2> QED BY <2>1, <2>2
<1> HIDE DEF table, reply
<1>5. table \in Tables
  BY <1>4 DEF Tables
<1>6. new \notin {NoRow, Gone}
  BY DEF Row, NoRow, Gone, Status
<1>7. Member(table, u) <=> row.status # "removed"
  BY <1>4, <1>6 DEF Member, Tables
<1>8. \A v \in Users \ {u} : table[v] = user[v]
  BY <1>4 DEF Tables
<1>9. \A v \in Users \ {u} : Member(table, v) <=> Member(user, v)
  BY <1>8 DEF Member
<1>10. table[u].name = row.name
  BY <1>4 DEF Tables
<1>11. NamesApart(table, excused)
  <2> SUFFICES ASSUME NEW v \in Users \ excused, NEW w \in Users \ excused,
                      Member(table, v), Member(table, w), table[v].name = table[w].name, v # w
               PROVE  FALSE
    BY DEF NamesApart
  <2>1. CASE v # u /\ w # u
    BY <2>1, <1>8, <1>9 DEF NamesApart
  <2>2. ASSUME NEW x \in Users \ excused, x # u, Member(table, x), Member(table, u),
               table[x].name = table[u].name, u \notin excused
        PROVE  FALSE
    <3>1. Member(user, x) /\ user[x].name = row.name /\ row.status # "removed"
      BY <2>2, <1>7, <1>8, <1>9, <1>10
    <3> QED BY <2>2, <3>1 DEF NamesApart
  <2> QED BY <2>1, <2>2
<1> QED BY <1>3, <1>5, <1>7, <1>9, <1>11 DEF TableSound, table, reply

LEMMA RefusalSound ==
  ASSUME user \in Tables, NamesApart(user, excused),
         NEW why \in {"not_found", "username_taken", "unauthorized"}
  PROVE  TableSound(Refusal(why).table) /\ ReplySound(Refusal(why).reply)
BY DEF Refusal, Reply, TableSound, ReplySound, Replies, Heard, Held, Said, Tokens

LEMMA CheckSound ==
  ASSUME user \in Tables, NamesApart(user, excused), NEW req \in Requests
  PROVE  TableSound(Check(req).table) /\ ReplySound(Check(req).reply)
<1> DEFINE known == req.copy.user # None /\ Exists(req.copy.user)
           who   == IF known THEN {req.copy.user} ELSE Named(req.name)
           u     == CHOOSE v \in who : TRUE
           row   == [user[u] EXCEPT !.name = req.name]
<1>1. Check(req) = IF known /\ user[req.copy.user].name # req.name /\ Named(req.name) # {}
                   THEN Refusal("username_taken")
                   ELSE IF who = {} THEN Refusal("not_found") ELSE Tell(u, row)
  BY DEF Check
<1>2. req.name \in Names /\ req.copy.user \in Users \cup {None}
  BY DEF Requests, Conn
<1>3. ASSUME who # {}, ~(known /\ user[req.copy.user].name # req.name /\ Named(req.name) # {})
      PROVE  TableSound(Tell(u, row).table) /\ ReplySound(Tell(u, row).reply)
  <2>1. u \in who
    <3> HIDE DEF who
    <3> QED BY <1>3
  <2>2. u \in Users /\ Exists(u) /\ (known => u = req.copy.user)
    BY <1>2, <2>1, NamedMember
  <2>3. user[u] \in Row
    BY <2>2, Rows
  <2>4. row \in Row /\ row.name = req.name /\ row.status = user[u].status
    BY <1>2, <2>3 DEF Row
  <2>5. row.status = "removed" => ~Member(user, u)
    BY <2>4 DEF Member
  <2>6. \/ Member(user, u) /\ user[u].name = row.name
        \/ row.status = "removed"
        \/ \A v \in Users : Member(user, v) => user[v].name # row.name
    <3>1. CASE known
      <4>1. CASE user[u].name = req.name
        BY <2>2, <2>4, <4>1, Rows
      <4>2. CASE Named(req.name) = {}
        BY <2>4, <4>2, NamedFree
      <4> QED BY <1>3, <2>2, <3>1, <4>1, <4>2
    <3>2. CASE ~known
      BY <2>1, <2>4, <3>2, NamedMember
    <3> QED BY <3>1, <3>2
  <2> HIDE DEF u, row
  <2> QED BY <2>2, <2>4, <2>5, <2>6, TellSound
<1> HIDE DEF known, who, u, row
<1> QED BY <1>1, <1>3, RefusalSound

LEMMA JoinSound ==
  ASSUME user \in Tables, NamesApart(user, excused), NEW req \in Requests, Unused # {}
  PROVE  TableSound(Join(req).table) /\ ReplySound(Join(req).reply)
<1> DEFINE who == IF Named(req.name) # {} THEN Named(req.name) ELSE Keyed(req.copy.key)
           u   == CHOOSE v \in IF who = {} THEN Unused ELSE who : TRUE
           new == [status |-> "pending", name |-> req.name, token |-> None,
                   key |-> IF req.copy.key = None THEN u ELSE req.copy.key]
           old == [user[u] EXCEPT !.name = req.name,
                     !.status = IF @ = "active" THEN "active" ELSE "pending"]
           row == IF who = {} THEN new ELSE old
<1>1. Join(req) = Tell(u, row)
  BY DEF Join
<1>2. req.name \in Names /\ req.copy.key \in Users \cup {None}
  BY DEF Requests, Conn
<1>3. u \in IF who = {} THEN Unused ELSE who
  <2> HIDE DEF who
  <2> QED OBVIOUS
<1>4. /\ u \in Users
      /\ who # {} => Exists(u)
  BY <1>3, NamedMember DEF Unused, Keyed
<1>5. row \in Row /\ row.name = req.name /\ row.status \in {"active", "pending"}
  <2>1. CASE who = {}
    <3>1. new \in Row
      BY <1>2, <1>4 DEF Row, Status
    <3> HIDE DEF who, u
    <3> QED BY <2>1, <3>1
  <2>2. CASE who # {}
    <3>1. user[u] \in Row
      BY <1>4, <2>2, Rows
    <3> HIDE DEF who, u
    <3> QED BY <1>2, <2>2, <3>1 DEF Row, Status
  <2> QED BY <2>1, <2>2
<1>6. \/ Member(user, u) /\ user[u].name = row.name
      \/ \A v \in Users : Member(user, v) => user[v].name # row.name
  <2>1. CASE Named(req.name) # {}
    BY <1>3, <1>5, <2>1, NamedMember
  <2>2. CASE Named(req.name) = {}
    BY <1>5, <2>2, NamedFree
  <2> QED BY <2>1, <2>2
<1> HIDE DEF u, row
<1> QED BY <1>1, <1>4, <1>5, <1>6, TellSound

LEMMA MeSound ==
  ASSUME user \in Tables, NamesApart(user, excused), NEW req \in Requests
  PROVE  TableSound(Me(req).table) /\ ReplySound(Me(req).reply)
<1>1. CASE Bearer(req.copy.token) = {}
  BY <1>1, RefusalSound DEF Me
<1>2. CASE Bearer(req.copy.token) # {}
  <2>1. req.copy.token \in Users /\ req.copy.token # None
    BY <1>2, HubAssumption DEF Bearer, Users, None
  <2>2. Me(req) = [table |-> user, reply |-> Reply("ok", req.copy.token)]
    BY <1>2 DEF Me
  <2> QED BY <2>1, <2>2 DEF Reply, TableSound, ReplySound, Replies, Heard, Held, Said, Tokens
<1> QED BY <1>1, <1>2

\* Whatever is asked, and whenever it arrives, the answer leaves the names of the
\* members apart and nobody removed.
LEMMA AnswerSound ==
  ASSUME user \in Tables, NamesApart(user, excused), NEW req \in Requests, Roomy(req)
  PROVE  TableSound(Answer(req).table) /\ ReplySound(Answer(req).reply)
<1>1. CASE req.stage = "me"
  BY <1>1, MeSound DEF Answer
<1>2. CASE req.stage = "join"
  BY <1>2, JoinSound DEF Answer, Roomy
<1>3. CASE req.stage \notin {"me", "join"}
  BY <1>3, CheckSound DEF Answer
<1> QED BY <1>1, <1>2, <1>3

-----------------------------------------------------------------------------
(* Tokens the hub forgets.                                                 *)

LEMMA StaledSound ==
  ASSUME NEW S \in SUBSET Users
  PROVE  /\ \A row \in Conn : Held(row) => Staled(row, S) \in Conn /\ Held(Staled(row, S))
         /\ \A reply : ReplySound(reply) => ReplySound(Staled(reply, S))
<1>1. Stale \in Tokens /\ None \notin S /\ Stale # None
  BY HubAssumption DEF Users, Tokens, Stale, None
<1>2. ASSUME NEW row \in Conn, Held(row)
      PROVE  Staled(row, S) \in Conn /\ Held(Staled(row, S))
  <2>1. PICK token \in Tokens : /\ Staled(row, S) = [row EXCEPT !.token = token]
                                /\ row.token = None => token = None
    BY <1>1, <1>2 DEF Staled, Conn
  <2> QED BY <1>2, <2>1 DEF Conn, Held
<1>3. ASSUME NEW reply, ReplySound(reply)
      PROVE  ReplySound(Staled(reply, S))
  <2>1. reply \in Replies /\ Heard(reply)
    BY <1>3 DEF ReplySound
  <2>2. PICK token \in Tokens : /\ Staled(reply, S) = [reply EXCEPT !.token = token]
                                /\ reply.token = None => token = None
    BY <1>1, <2>1 DEF Staled, Replies
  <2> QED BY <2>1, <2>2 DEF Replies, Held, Heard, ReplySound
<1> QED BY <1>2, <1>3

\* Nothing is forgotten in a flow that is not there.
LEMMA StaledIdle ==
  ASSUME NEW S \in SUBSET Users
  PROVE  [Idle EXCEPT !.copy = Staled(@, S), !.reply = Staled(@, S)] = Idle
<1>1. None \notin S
  BY HubAssumption DEF Users, None
<1>2. Staled(NoConn, S) = NoConn
  BY <1>1 DEF Staled, NoConn
<1>3. Staled(NoReply, S) = NoReply
  BY <1>1 DEF Staled, NoReply, Reply
<1>4. Idle.copy = NoConn /\ Idle.reply = NoReply
  BY DEF Idle
<1>5. [Idle EXCEPT !.copy = NoConn, !.reply = NoReply] = Idle
  <2> DEFINE idle == [Idle EXCEPT !.copy = NoConn, !.reply = NoReply]
  <2>1. /\ idle.stage = "idle" /\ idle.copy = NoConn /\ idle.reply = NoReply
        /\ idle = [x \in {"stage", "copy", "reply"} |-> idle[x]]
    BY DEF Idle
  <2>2. Idle = [x \in {"stage", "copy", "reply"} |-> Idle[x]]
    BY DEF Idle
  <2> QED BY <2>1, <2>2 DEF Idle
<1> QED BY <1>2, <1>3, <1>4, <1>5

LEMMA StaledFlowSound ==
  ASSUME FlowSound(flow, used), NEW S \in SUBSET Users
  PROVE  FlowSound(StaledFlow(S), used)
<1> DEFINE staled(frame) == [frame EXCEPT !.copy = Staled(@, S), !.reply = Staled(@, S)]
<1>1. StaledFlow(S) = [r \in Runtimes |-> [f \in Flows |-> staled(flow[r][f])]]
  BY DEF StaledFlow
<1>2. ASSUME NEW frame, Framed(frame)
      PROVE  staled(frame) \in Frames /\ Framed(staled(frame))
  <2>1. /\ frame \in Frames /\ frame.copy \in Conn /\ Held(frame.copy)
        /\ ReplySound(frame.reply)
    BY <1>2 DEF Framed, Frames, ReplySound
  <2>2. PICK copy \in Conn : Held(copy) /\ copy = Staled(frame.copy, S)
    BY <2>1, StaledSound
  <2>3. PICK reply \in Replies : Heard(reply) /\ reply = Staled(frame.reply, S)
    BY <2>1, StaledSound DEF ReplySound
  <2>4. staled(frame) = [frame EXCEPT !.copy = copy, !.reply = reply]
    BY <2>2, <2>3
  <2>5. /\ [frame EXCEPT !.copy = copy, !.reply = reply] \in Frames
        /\ [frame EXCEPT !.copy = copy, !.reply = reply].copy = copy
        /\ [frame EXCEPT !.copy = copy, !.reply = reply].reply = reply
    BY <2>1 DEF Frames
  <2> QED BY <2>2, <2>3, <2>4, <2>5 DEF Framed
<1>3. ASSUME NEW r \in Runtimes, NEW f \in Flows
      PROVE  Framed(flow[r][f]) /\ (r \notin used => flow[r][f] = Idle)
  BY <1>3 DEF FlowSound
<1>4. staled(Idle) = Idle
  BY StaledIdle
<1> HIDE DEF staled
<1>5. ASSUME NEW r \in Runtimes, NEW f \in Flows
      PROVE  /\ staled(flow[r][f]) \in Frames /\ Framed(staled(flow[r][f]))
             /\ r \notin used => staled(flow[r][f]) = Idle
  BY <1>2, <1>3, <1>4
<1> QED BY <1>1, <1>5 DEF FlowSound

LEMMA StaledStraySound ==
  ASSUME NEW all, StraySound(all), NEW S \in SUBSET Users
  PROVE  StraySound(StaledStray(all, S))
<1> SUFFICES ASSUME NEW m \in all
             PROVE  /\ [m EXCEPT !.copy = Staled(@, S)] \in Requests
                    /\ Held([m EXCEPT !.copy = Staled(@, S)].copy)
  BY DEF StraySound, StaledStray
<1>1. m \in Requests /\ m.copy \in Conn /\ Held(m.copy)
  BY DEF StraySound, Requests
<1>2. PICK copy \in Conn : Held(copy) /\ copy = Staled(m.copy, S)
  BY <1>1, StaledSound
<1>3. [m EXCEPT !.copy = Staled(@, S)] = [m EXCEPT !.copy = copy]
  BY <1>2
<1>4. [m EXCEPT !.copy = copy] \in Requests /\ [m EXCEPT !.copy = copy].copy = copy
  BY <1>1 DEF Requests
<1> QED BY <1>2, <1>3, <1>4

LEMMA StaledConnSound ==
  ASSUME ConnSound(conn), NEW S \in SUBSET Users
  PROVE  ConnSound([c \in Clients |-> Staled(conn[c], S)])
<1>1. \A c \in Clients : conn[c] \in Conn /\ Held(conn[c])
  BY DEF ConnSound
<1>2. \A c \in Clients : Staled(conn[c], S) \in Conn /\ Held(Staled(conn[c], S))
  BY <1>1, StaledSound
<1> QED BY <1>2 DEF ConnSound

\* One frame of a runtime is replaced.
LEMMA FrameSet ==
  ASSUME NEW frames, NEW taken, FlowSound(frames, taken), NEW r \in taken \cap Runtimes,
         NEW f \in Flows, NEW frame, Framed(frame)
  PROVE  FlowSound([frames EXCEPT ![r][f] = frame], taken)
<1>1. frames[r] \in [Flows -> Frames] /\ frame \in Frames
  BY DEF FlowSound, Framed
<1>2. PICK own \in [Flows -> Frames] : own = [frames[r] EXCEPT ![f] = frame]
  BY <1>1
<1>3. [frames EXCEPT ![r][f] = frame] = [frames EXCEPT ![r] = own]
  BY <1>2
<1>4. [frames EXCEPT ![r] = own] \in [Runtimes -> [Flows -> Frames]]
  BY DEF FlowSound
<1>5. ASSUME NEW q \in Runtimes, NEW g \in Flows
      PROVE  /\ Framed([frames EXCEPT ![r] = own][q][g])
             /\ q \notin taken => [frames EXCEPT ![r] = own][q][g] = Idle
  <2>1. CASE q = r /\ g = f
    BY <1>1, <1>2, <2>1 DEF FlowSound
  <2>2. CASE q = r /\ g # f
    BY <1>1, <1>2, <2>2 DEF FlowSound
  <2>3. CASE q # r
    BY <2>3 DEF FlowSound
  <2> QED BY <2>1, <2>2, <2>3
<1> QED BY <1>3, <1>4, <1>5 DEF FlowSound

-----------------------------------------------------------------------------
(* The hub's steps.                                                        *)

LEMMA EventStep == EventSound /\ Event => EventSound'
BY HubAssumption DEF EventSound, Event

\* Members stay members when a table is answered from.
LEMMA SharersKept ==
  ASSUME SharersAreMembers, HubSetsSound, TableSound(user'),
         UNCHANGED <<shared, upload, excused>>
  PROVE  SharersAreMembers'
BY DEF SharersAreMembers, TableSound, HubSetsSound

\* A request of a flow, and one that arrives late.
LEMMA RequestOf ==
  ASSUME FlowSound(flow, used), NEW r \in Runtimes, NEW f \in Flows
  PROVE  /\ [stage |-> flow[r][f].stage, copy |-> flow[r][f].copy, name |-> r.name] \in Requests
         /\ Framed(flow[r][f])
         /\ flow[r][f].stage # "idle" => r \in used
<1>1. Framed(flow[r][f]) /\ (r \notin used => flow[r][f] = Idle)
  BY DEF FlowSound
<1>2. r.name \in Names
  BY DEF Names
<1> QED BY <1>1, <1>2 DEF Framed, Frames, Requests, Idle

\* An answer gives out a token that is a user's, or none.
LEMMA AnswerToken ==
  ASSUME user \in Tables, NEW req \in Requests, Roomy(req)
  PROVE  Answer(req).reply.token \in Users \cup {None}
<1>1. \A why : Refusal(why).reply.token = None
  BY DEF Refusal, Reply
<1>2. \A u, row : Tell(u, row).reply.token \in {u, None}
  BY DEF Tell
<1>3. Me(req).reply.token = None
  BY <1>1 DEF Me, Reply
<1>4. Check(req).reply.token \in Users \cup {None}
  <2> DEFINE known == req.copy.user # None /\ Exists(req.copy.user)
             who   == IF known THEN {req.copy.user} ELSE Named(req.name)
             u     == CHOOSE v \in who : TRUE
  <2>1. who # {} => u \in Users
    <3>1. who \subseteq Users
      BY NamedMember DEF Requests, Conn
    <3> HIDE DEF who
    <3> QED BY <3>1
  <2>2. \/ Check(req) \in {Refusal("username_taken"), Refusal("not_found")}
        \/ who # {} /\ Check(req) = Tell(u, [user[u] EXCEPT !.name = req.name])
    BY DEF Check
  <2> HIDE DEF u, who
  <2> QED BY <1>1, <1>2, <2>1, <2>2
<1>5. req.stage = "join" => Join(req).reply.token \in Users \cup {None}
  <2> DEFINE who == IF Named(req.name) # {} THEN Named(req.name) ELSE Keyed(req.copy.key)
             u   == CHOOSE v \in IF who = {} THEN Unused ELSE who : TRUE
  <2> SUFFICES ASSUME req.stage = "join" PROVE Join(req).reply.token \in Users \cup {None}
    OBVIOUS
  <2>1. u \in Users
    <3>1. who \subseteq Users /\ Unused \subseteq Users /\ Unused # {}
      BY NamedMember DEF Keyed, Unused, Roomy
    <3> HIDE DEF who
    <3> QED BY <3>1
  <2>2. \E row : Join(req) = Tell(u, row)
    BY DEF Join
  <2> HIDE DEF u
  <2> QED BY <1>2, <2>1, <2>2
<1> QED BY <1>3, <1>4, <1>5 DEF Answer

LEMMA HandleStep ==
  ASSUME HubInv, NEW r \in Runtimes, NEW f \in Flows, Handle(r, f)
  PROVE  HubInv'
<1> DEFINE req == [stage |-> flow[r][f].stage, copy |-> flow[r][f].copy, name |-> r.name]
           new == {Answer(req).reply.token} \ {None}
<1>1. /\ flow[r][f].stage # "idle" /\ Roomy(req)
      /\ user' = Answer(req).table
      /\ conn' = [c \in Clients |-> Staled(conn[c], new)]
      /\ flow' = [StaledFlow(new) EXCEPT ![r][f].reply = Answer(req).reply]
      /\ stray' = StaledStray(stray, new)
      /\ UNCHANGED <<shared, upload, runtime, used, polling, excused, events>>
  BY DEF Handle
<1>2. /\ user \in Tables /\ NamesApart(user, excused) /\ SharersAreMembers
      /\ HubSetsSound /\ EventSound
      /\ ConnSound(conn) /\ StraySound(stray) /\ FlowSound(flow, used)
      /\ RuntimeSound(runtime, used) /\ RuntimesSound
  BY DEF HubInv
<1>3. req \in Requests /\ r \in used
  BY <1>1, <1>2, RequestOf
<1> HIDE DEF req
<1>4. TableSound(user') /\ ReplySound(Answer(req).reply)
  BY <1>1, <1>2, <1>3, AnswerSound
<1>5. new \in SUBSET Users
  BY <1>1, <1>2, <1>3, AnswerToken
<1> HIDE DEF new
<1>6. ConnSound(conn') /\ StraySound(stray') /\ FlowSound(StaledFlow(new), used)
  BY <1>1, <1>2, <1>5, StaledConnSound, StaledStraySound, StaledFlowSound
<1>7. FlowSound(flow', used)
  <2> DEFINE frames == StaledFlow(new)
             frame  == [frames[r][f] EXCEPT !.reply = Answer(req).reply]
  <2>1. Framed(frames[r][f])
    BY <1>6 DEF FlowSound
  <2> HIDE DEF frames
  <2>2. Framed(frame)
    BY <1>4, <2>1 DEF Framed, Frames, ReplySound
  <2>3. flow' = [frames EXCEPT ![r][f] = frame]
    BY <1>1 DEF frames
  <2>4. FlowSound(frames, used)
    BY <1>6 DEF frames
  <2> HIDE DEF frame
  <2> QED BY <1>3, <2>2, <2>3, <2>4, FrameSet
<1>8. user' \in Tables /\ NamesApart(user', excused')
  BY <1>1, <1>4 DEF TableSound
<1>9. SharersAreMembers'
  BY <1>1, <1>2, <1>4, SharersKept
<1>10. HubSetsSound' /\ EventSound' /\ RuntimeSound(runtime', used') /\ RuntimesSound'
  BY <1>1, <1>2 DEF HubSetsSound, EventSound, RuntimesSound
<1>11. FlowSound(flow', used')
  BY <1>1, <1>7
<1> QED BY <1>6, <1>8, <1>9, <1>10, <1>11 DEF HubInv

LEMMA HandleStrayStep ==
  ASSUME HubInv, NEW req \in stray, HandleStray(req)
  PROVE  HubInv'
<1> DEFINE new == {Answer(req).reply.token} \ {None}
<1>1. /\ Roomy(req)
      /\ user' = Answer(req).table
      /\ conn' = [c \in Clients |-> Staled(conn[c], new)]
      /\ flow' = StaledFlow(new)
      /\ stray' = StaledStray(stray \ {req}, new)
      /\ UNCHANGED <<shared, upload, runtime, used, polling, excused, events>>
  BY DEF HandleStray
<1>2. /\ user \in Tables /\ NamesApart(user, excused) /\ SharersAreMembers
      /\ HubSetsSound /\ EventSound
      /\ ConnSound(conn) /\ StraySound(stray) /\ FlowSound(flow, used)
      /\ RuntimeSound(runtime, used) /\ RuntimesSound
  BY DEF HubInv
<1>3. req \in Requests /\ StraySound(stray \ {req})
  BY <1>2 DEF StraySound
<1>4. TableSound(user')
  BY <1>1, <1>2, <1>3, AnswerSound
<1>5. new \in SUBSET Users
  BY <1>1, <1>2, <1>3, AnswerToken
<1> HIDE DEF new
<1>6. ConnSound(conn') /\ StraySound(stray') /\ FlowSound(flow', used)
  BY <1>1, <1>2, <1>3, <1>5, StaledConnSound, StaledStraySound, StaledFlowSound
<1>7. user' \in Tables /\ NamesApart(user', excused')
  BY <1>1, <1>4 DEF TableSound
<1>8. SharersAreMembers'
  BY <1>1, <1>2, <1>4, SharersKept
<1>9. HubSetsSound' /\ EventSound' /\ RuntimeSound(runtime', used') /\ RuntimesSound'
  BY <1>1, <1>2 DEF HubSetsSound, EventSound, RuntimesSound
<1>10. FlowSound(flow', used')
  BY <1>1, <1>6
<1> QED BY <1>6, <1>7, <1>8, <1>9, <1>10 DEF HubInv

\* What an administrator, or a day gone by, does to the row of one user.
LEMMA SetUserStep ==
  ASSUME HubInv, NEW u \in Users, NEW row \in Row, user' = [user EXCEPT ![u] = row],
         Exists(u), row.name = user[u].name,
         Forget({u}), UNCHANGED <<runtime, used, polling>>,
         shared' \subseteq shared, upload' = upload,
         excused \subseteq excused', excused' \subseteq excused \cup {u},
         row.status # "removed" /\ ~Member(user, u) => u \in excused',
         row.status = "removed" /\ Member(user, u) => u \in excused' \/ u \notin shared' \cup upload',
         EventSound'
  PROVE  HubInv'
<1>1. {u} \in SUBSET Users
  OBVIOUS
<1>2. ConnSound(conn') /\ StraySound(stray') /\ FlowSound(flow', used')
  BY <1>1, StaledConnSound, StaledStraySound, StaledFlowSound DEF HubInv, Forget
<1>3. HubSetsSound' /\ RuntimeSound(runtime', used') /\ RuntimesSound'
  BY DEF HubInv, HubSetsSound, RuntimesSound
<1>4. user \in Tables /\ user' \in Tables
  BY DEF HubInv, Tables
<1>5. \A v \in Users \ {u} : user'[v] = user[v]
  BY <1>4 DEF Tables
<1>6. \A v \in Users \ {u} : Member(user', v) <=> Member(user, v)
  BY <1>5 DEF Member
<1>7. user'[u] = row /\ (Member(user', u) <=> row.status # "removed")
  BY <1>4 DEF Tables, Member, Row, NoRow, Gone, Status
<1>8. \A v \in Users \ excused' : Member(user', v) => Member(user, v) /\ user'[v].name = user[v].name
  BY <1>5, <1>6, <1>7
<1>9. NamesApart(user', excused')
  <2>1. NamesApart(user, excused)
    BY DEF HubInv
  <2> QED BY <1>8, <2>1 DEF NamesApart
<1>10. SharersAreMembers'
  <2>1. SharersAreMembers
    BY DEF HubInv
  <2>2. ASSUME NEW v \in (shared' \cup upload') \ excused' PROVE Member(user', v)
    <3>1. v \in Users /\ Member(user, v)
      BY <2>1 DEF SharersAreMembers, HubInv, HubSetsSound
    <3> QED BY <1>6, <1>7, <3>1
  <2> QED BY <2>2 DEF SharersAreMembers
<1> QED BY <1>2, <1>3, <1>4, <1>9, <1>10 DEF HubInv

LEMMA ApproveStep ==
  ASSUME HubInv, NEW u \in Users, Approve(u)
  PROVE  HubInv'
<1>1. Exists(u) /\ user[u] \in Row /\ (Member(user, u) <=> user[u].status # "removed")
  BY Rows DEF Approve, HubInv
<1>2. PICK row \in Row : /\ row.status = "active" /\ row.name = user[u].name
                         /\ user' = [user EXCEPT ![u] = row]
  <2> DEFINE row == [user[u] EXCEPT !.status = "active", !.token = u]
  <2>1. row \in Row /\ row.status = "active" /\ row.name = user[u].name
    BY <1>1 DEF Row, Status
  <2>2. user' = [user EXCEPT ![u] = row]
    BY DEF Approve
  <2> HIDE DEF row
  <2> QED BY <2>1, <2>2
<1>3. EventSound'
  BY EventStep DEF Approve, HubInv, EventSound
<1>4. excused' = Revived(u) /\ shared' = shared /\ upload' = upload /\ Forget({u})
      /\ UNCHANGED <<runtime, used, polling>>
  BY DEF Approve
<1>5. /\ excused \subseteq excused' /\ excused' \subseteq excused \cup {u}
      /\ ~Member(user, u) => u \in excused'
  BY <1>1, <1>4 DEF Revived
<1> QED BY <1>1, <1>2, <1>3, <1>4, <1>5, SetUserStep

LEMMA RejectStep ==
  ASSUME HubInv, NEW u \in Users, Reject(u)
  PROVE  HubInv'
<1>1. Exists(u) /\ user[u] \in Row /\ (Member(user, u) <=> user[u].status # "removed")
  BY Rows DEF Reject, HubInv
<1>2. PICK row \in Row : /\ row.status = "rejected" /\ row.name = user[u].name
                         /\ user' = [user EXCEPT ![u] = row]
  <2> DEFINE row == [user[u] EXCEPT !.status = "rejected", !.token = None]
  <2>1. row \in Row /\ row.status = "rejected" /\ row.name = user[u].name
    BY <1>1 DEF Row, Status
  <2>2. user' = [user EXCEPT ![u] = row]
    BY DEF Reject
  <2> HIDE DEF row
  <2> QED BY <2>1, <2>2
<1>3. EventSound'
  BY EventStep DEF Reject, HubInv
<1>4. excused' = Revived(u) /\ shared' = shared /\ upload' = upload /\ Forget({u})
      /\ UNCHANGED <<runtime, used, polling>>
  BY DEF Reject
<1>5. /\ excused \subseteq excused' /\ excused' \subseteq excused \cup {u}
      /\ ~Member(user, u) => u \in excused'
  BY <1>1, <1>4 DEF Revived
<1> QED BY <1>1, <1>2, <1>3, <1>4, <1>5, SetUserStep

LEMMA RemoveStep ==
  ASSUME HubInv, NEW u \in Users, RemoveUser(u)
  PROVE  HubInv'
<1>1. Exists(u) /\ user[u] \in Row
  BY Rows DEF RemoveUser, HubInv
<1>2. PICK row \in Row : /\ row.status = "removed" /\ row.name = user[u].name
                         /\ user' = [user EXCEPT ![u] = row]
  <2> DEFINE row == [user[u] EXCEPT !.status = "removed", !.token = None]
  <2>1. row \in Row /\ row.status = "removed" /\ row.name = user[u].name
    BY <1>1 DEF Row, Status
  <2>2. user' = [user EXCEPT ![u] = row]
    BY DEF RemoveUser
  <2> HIDE DEF row
  <2> QED BY <2>1, <2>2
<1>3. EventSound'
  BY EventStep DEF RemoveUser, HubInv
<1>4. /\ excused' = IF u \in upload THEN excused \cup {u} ELSE excused
      /\ shared' = shared \ {u} /\ upload' = upload /\ Forget({u})
      /\ UNCHANGED <<runtime, used, polling>>
  BY DEF RemoveUser, HiddenOf
<1>5. /\ excused \subseteq excused' /\ excused' \subseteq excused \cup {u}
      /\ u \in excused' \/ u \notin shared' \cup upload'
  BY <1>4
<1>6. shared' \subseteq shared
  BY <1>4
<1> QED BY <1>1, <1>2, <1>3, <1>4, <1>5, <1>6, SetUserStep

LEMMA ExpireStep ==
  ASSUME HubInv, NEW u \in Users, Expire(u)
  PROVE  HubInv'
<1>1. Exists(u) /\ user[u] \in Row /\ (Member(user, u) <=> user[u].status # "removed")
  BY Rows DEF Expire, HubInv
<1>2. PICK row \in Row : /\ row.status = user[u].status /\ row.name = user[u].name
                         /\ user' = [user EXCEPT ![u] = row]
  <2> DEFINE row == [user[u] EXCEPT !.token = None]
  <2>1. row \in Row /\ row.status = user[u].status /\ row.name = user[u].name
    BY <1>1 DEF Row, Status
  <2>2. user' = [user EXCEPT ![u] = row]
    BY DEF Expire
  <2> HIDE DEF row
  <2> QED BY <2>1, <2>2
<1>3. EventSound'
  BY EventStep DEF Expire, HubInv
<1>4. excused' = excused /\ shared' = shared /\ upload' = upload /\ Forget({u})
      /\ UNCHANGED <<runtime, used, polling>>
  BY DEF Expire
<1> QED BY <1>1, <1>2, <1>3, <1>4, SetUserStep

LEMMA ResetStep ==
  ASSUME HubInv, Reset
  PROVE  HubInv'
<1>1. ConnSound(conn') /\ StraySound(stray') /\ FlowSound(flow', used')
  <2>1. Users \in SUBSET Users
    OBVIOUS
  <2> QED BY <2>1, StaledConnSound, StaledStraySound, StaledFlowSound DEF HubInv, Reset, Forget
<1>2. \A u \in Users : user'[u] \in {NoRow, Gone}
  BY DEF Reset, Exists
<1>3. user' \in Tables /\ NamesApart(user', excused')
  BY <1>2 DEF Tables, NamesApart, Member, Reset
<1>4. SharersAreMembers' /\ HubSetsSound' /\ RuntimeSound(runtime', used') /\ RuntimesSound'
  BY DEF Reset, SharersAreMembers, HubSetsSound, RuntimesSound, HubInv
<1>5. EventSound'
  BY EventStep DEF Reset, HubInv
<1> QED BY <1>1, <1>3, <1>4, <1>5 DEF HubInv

-----------------------------------------------------------------------------
(* The steps of a client.                                                  *)

\* A step that leaves the hub alone.
LEMMA ClientStep ==
  ASSUME HubInv, UNCHANGED <<user, shared, upload, excused>>, EventSound',
         ConnSound(conn'), StraySound(stray'), FlowSound(flow', used'),
         RuntimeSound(runtime', used'), RuntimesSound'
  PROVE  HubInv'
BY DEF HubInv, HubSetsSound, SharersAreMembers

\* A flow that asks has read the connection.
LEMMA AskingFramed ==
  ASSUME ConnSound(conn), NEW c \in Clients, NEW stage \in Stage
  PROVE  Framed(Asking(stage, conn[c]))
BY DEF ConnSound, Framed, Frames, Asking, NoReply, Reply, Replies, Said, Tokens, Heard, Held

LEMMA BeginStep ==
  ASSUME HubInv, NEW r \in Runtimes, Begin(r)
  PROVE  HubInv'
<1> DEFINE stage == IF conn[r.client].user = None THEN "join" ELSE "check"
           frame == Asking(stage, conn[r.client])
<1>1. /\ used' = used \cup {r} /\ runtime' = [runtime EXCEPT ![r.client] = r]
      /\ polling' = polling \ {runtime[r.client]}
      /\ flow' = [flow EXCEPT ![r]["start"] = frame]
      /\ UNCHANGED <<user, shared, upload, conn, stray, excused, events>>
  BY DEF Begin
<1>2. r.client \in Clients /\ stage \in Stage /\ "start" \in Flows
  BY DEF Clients, Stage, Flows
<1>3. Framed(frame)
  <2> HIDE DEF stage
  <2> QED BY <1>2, AskingFramed DEF HubInv
<1> HIDE DEF frame
<1>4. FlowSound(flow, used')
  BY <1>1 DEF HubInv, FlowSound
<1>5. r \in used' \cap Runtimes
  BY <1>1
<1>6. FlowSound(flow', used')
  BY <1>1, <1>2, <1>3, <1>4, <1>5, FrameSet
<1>7. RuntimeSound(runtime', used')
  BY <1>1, <1>2 DEF HubInv, RuntimeSound
<1>8. RuntimesSound' /\ EventSound' /\ ConnSound(conn') /\ StraySound(stray')
  BY <1>1 DEF HubInv, RuntimesSound, EventSound
<1> QED BY <1>1, <1>6, <1>7, <1>8, ClientStep

LEMMA AskStep ==
  ASSUME HubInv, NEW r \in used, NEW f \in Flows, Ask(r, f)
  PROVE  HubInv'
<1>1. /\ flow' = [flow EXCEPT ![r][f] = Asking("check", conn[r.client])]
      /\ UNCHANGED <<user, shared, upload, conn, runtime, used, polling, stray, excused, events>>
  BY DEF Ask
<1>2. r \in Runtimes /\ r.client \in Clients /\ "check" \in Stage
  BY DEF HubInv, RuntimesSound, Clients, Stage
<1>3. Framed(Asking("check", conn[r.client]))
  BY <1>2, AskingFramed DEF HubInv
<1>4. FlowSound(flow', used')
  BY <1>1, <1>2, <1>3, FrameSet DEF HubInv
<1>5. RuntimeSound(runtime', used') /\ RuntimesSound' /\ EventSound' /\ ConnSound(conn') /\ StraySound(stray')
  BY <1>1 DEF HubInv, RuntimesSound, EventSound
<1> QED BY <1>1, <1>4, <1>5, ClientStep

LEMMA RefreshStep ==
  ASSUME HubInv, NEW r \in Runtimes, Refresh(r)
  PROVE  HubInv'
<1>1. r \in used
  BY HubAssumption DEF Refresh, HubInv, RuntimeSound, Clients
<1> QED BY <1>1, AskStep DEF Refresh, Flows

LEMMA PollStep ==
  ASSUME HubInv, NEW r \in Runtimes, Poll(r)
  PROVE  HubInv'
<1>1. r \in used
  BY DEF Poll, HubInv, RuntimesSound
<1> QED BY <1>1, AskStep DEF Poll, Flows

\* What a flow makes of a sound frame is a sound row and a sound frame.
LEMMA CheckedSound ==
  ASSUME NEW copy \in Conn, NEW reply, ReplySound(reply), reply.status \in Status
  PROVE  Checked(copy, reply) \in Conn /\ Held(Checked(copy, reply))
<1>1. CASE reply.status \in {"active", "pending"}
  BY <1>1 DEF Checked, Conn, Held, Heard, ReplySound, Replies, Status
<1>2. CASE reply.status \notin {"active", "pending"}
  BY <1>2 DEF Checked, Conn, Held, Status, Tokens
<1> QED BY <1>1, <1>2

LEMMA ForgottenSound ==
  ASSUME NEW copy \in Conn, NEW status \in {"username_taken", "not_registered"}
  PROVE  /\ [copy EXCEPT !.status = status, !.token = None] \in Conn
         /\ Held([copy EXCEPT !.status = status, !.token = None])
         /\ [copy EXCEPT !.token = None] \in Conn /\ Held([copy EXCEPT !.token = None])
BY DEF Conn, Held, Tokens

LEMMA AuthenticatedSound ==
  ASSUME NEW copy \in Conn, NEW reply, ReplySound(reply), reply.status = "ok"
  PROVE  /\ [copy EXCEPT !.user = reply.user, !.status = "active"] \in Conn
         /\ Held([copy EXCEPT !.user = reply.user, !.status = "active"])
BY DEF Conn, Held, Heard, ReplySound, Replies, Status

LEMMA AskedSound ==
  ASSUME NEW copy \in Conn, Held(copy), NEW stage \in Stage
  PROVE  Framed(Asking(stage, copy)) /\ Framed(Second(copy))
<1>1. \A s \in Stage : Framed(Asking(s, copy))
  BY DEF Framed, Frames, Asking, NoReply, Reply, Replies, Said, Tokens, Heard, Held
<1> QED BY <1>1 DEF Second, Stage

LEMMA IdleSound == Framed(Idle)
<1>1. NoConn \in Conn /\ Held(NoConn)
  BY DEF NoConn, Conn, Tokens, Held
<1>2. ReplySound(NoReply)
  BY DEF NoReply, Reply, ReplySound, Replies, Said, Tokens, Heard, Held
<1> QED BY <1>1, <1>2 DEF Idle, Framed, Frames, ReplySound, Stage

\* A flow writes a sound row and goes on with a sound frame.
GoesSoundly(r, f, row, frame) == Goes(r, f, row, frame) /\ row \in Conn /\ Held(row) /\ Framed(frame)

LEMMA HearStartSound ==
  ASSUME HubInv, NEW r \in Runtimes, flow[r]["start"].reply # NoReply, HearStart(r)
  PROVE  /\ \E row, frame : GoesSoundly(r, "start", row, frame)
         /\ polling' \in {polling, polling \cup {r}}
<1> DEFINE copy == flow[r]["start"].copy
           reply == flow[r]["start"].reply
           stage == flow[r]["start"].stage
           same == conn[r.client]
<1>1. copy \in Conn /\ Held(copy) /\ ReplySound(reply)
  BY DEF HubInv, FlowSound, Framed, Frames, ReplySound, Flows
<1>2. same \in Conn /\ Held(same)
  BY DEF HubInv, ConnSound, Clients
<1>3. ASSUME NEW row \in Conn, Held(row), NEW frame, Framed(frame), NEW armed \in BOOLEAN,
             Write(r, row, frame, armed)
      PROVE  /\ \E x, y : GoesSoundly(r, "start", x, y)
             /\ polling' \in {polling, polling \cup {r}}
  BY <1>3 DEF Write, GoesSoundly
<1>4. "recheck" \in Stage /\ "lastcheck" \in Stage /\ "join" \in Stage
  BY DEF Stage
<1>5. CASE /\ stage \in {"check", "recheck", "lastcheck", "join"}
           /\ reply.status \in {"active", "pending"}
  <2>1. Write(r, Checked(copy, reply), Idle, reply.status = "pending")
    BY <1>5 DEF HearStart
  <2> QED BY <1>1, <1>3, <1>5, <2>1, CheckedSound, IdleSound DEF Status
<1>6. CASE stage = "check" /\ reply.status = "username_taken"
  <2>1. Write(r, [copy EXCEPT !.status = "username_taken", !.token = None], Idle, FALSE)
    BY <1>6 DEF HearStart
  <2> HIDE DEF copy
  <2> QED BY <1>1, <1>3, <2>1, ForgottenSound, IdleSound
<1>7. CASE stage = "check" /\ reply.status = "not_found"
  <2>1. Write(r, [copy EXCEPT !.status = "not_registered", !.token = None], Second(copy), FALSE)
    BY <1>7 DEF HearStart
  <2> HIDE DEF copy
  <2> QED BY <1>1, <1>3, <1>4, <2>1, ForgottenSound, AskedSound
<1>8. CASE stage = "check" /\ reply.status \in {"rejected", "removed"}
  <2>1. Write(r, Checked(copy, reply), Second(copy), FALSE)
    BY <1>8 DEF HearStart
  <2> HIDE DEF copy
  <2> QED BY <1>1, <1>3, <1>4, <1>8, <2>1, CheckedSound, AskedSound DEF Status
<1>9. CASE stage = "me" /\ reply.status = "ok"
  <2> DEFINE known == [copy EXCEPT !.user = reply.user, !.status = "active"]
  <2>1. Write(r, same, Asking("recheck", known), FALSE)
    BY <1>9 DEF HearStart
  <2>2. known \in Conn /\ Held(known)
    BY <1>1, <1>9, AuthenticatedSound
  <2> HIDE DEF known, same
  <2> QED BY <1>2, <1>3, <1>4, <2>1, <2>2, AskedSound
<1>10. CASE stage = "me" /\ reply.status = "unauthorized"
  <2> DEFINE blank == [copy EXCEPT !.token = None]
  <2>1. Write(r, same, Asking("lastcheck", blank), FALSE)
    BY <1>10 DEF HearStart
  <2>2. blank \in Conn /\ Held(blank)
    BY <1>1, ForgottenSound
  <2> HIDE DEF blank, same
  <2> QED BY <1>2, <1>3, <1>4, <2>1, <2>2, AskedSound
<1>11. CASE stage = "recheck" /\ reply.status \in {"rejected", "removed"}
  <2>1. Write(r, copy, Idle, FALSE)
    BY <1>11 DEF HearStart
  <2> QED BY <1>1, <1>3, <2>1, IdleSound
<1>12. CASE stage = "lastcheck" /\ reply.status \in {"rejected", "removed"}
  <2>1. Write(r, Checked(copy, reply), Asking("join", copy), FALSE)
    BY <1>12 DEF HearStart
  <2> HIDE DEF copy
  <2> QED BY <1>1, <1>3, <1>4, <1>12, <2>1, CheckedSound, AskedSound DEF Status
<1>13. CASE Write(r, same, Idle, FALSE)
  <2> HIDE DEF same
  <2> QED BY <1>2, <1>3, <1>13, IdleSound
<1>14. \/ stage \in {"check", "recheck", "lastcheck", "join"} /\ reply.status \in {"active", "pending"}
       \/ stage = "check" /\ reply.status \in {"username_taken", "not_found", "rejected", "removed"}
       \/ stage = "me" /\ reply.status \in {"ok", "unauthorized"}
       \/ stage \in {"recheck", "lastcheck"} /\ reply.status \in {"rejected", "removed"}
       \/ Write(r, same, Idle, FALSE)
  BY DEF HearStart
<1> HIDE DEF stage, reply
<1> QED BY <1>5, <1>6, <1>7, <1>8, <1>9, <1>10, <1>11, <1>12, <1>13, <1>14

LEMMA HearRefreshSound ==
  ASSUME HubInv, NEW r \in Runtimes, flow[r]["refresh"].reply # NoReply, HearRefresh(r)
  PROVE  /\ \E row, frame : GoesSoundly(r, "refresh", row, frame)
         /\ polling' \in {polling, polling \ {r}}
<1> DEFINE copy == flow[r]["refresh"].copy
           reply == flow[r]["refresh"].reply
           stage == flow[r]["refresh"].stage
           same == conn[r.client]
<1>1. copy \in Conn /\ Held(copy) /\ ReplySound(reply)
  BY DEF HubInv, FlowSound, Framed, Frames, ReplySound, Flows
<1>2. same \in Conn /\ Held(same)
  BY DEF HubInv, ConnSound, Clients
<1>3. polling' \in {polling, polling \ {r}}
  BY DEF HearRefresh
<1>4. CASE stage = "me" /\ reply.status = "ok"
  <2> DEFINE known == [copy EXCEPT !.user = reply.user, !.status = "active"]
  <2>1. Goes(r, "refresh", known, Idle)
    BY <1>4 DEF HearRefresh
  <2>2. known \in Conn /\ Held(known)
    BY <1>1, <1>4, AuthenticatedSound
  <2> HIDE DEF known
  <2> QED BY <1>3, <2>1, <2>2, IdleSound DEF GoesSoundly
<1>5. CASE stage = "check" /\ reply.status = "active"
  <2>1. Goes(r, "refresh", Checked(copy, reply), Asking("me", Checked(copy, reply)))
    BY <1>5 DEF HearRefresh
  <2>2. Checked(copy, reply) \in Conn /\ Held(Checked(copy, reply))
    BY <1>1, <1>5, CheckedSound DEF Status
  <2>3. Framed(Asking("me", Checked(copy, reply)))
    BY <2>2, AskedSound DEF Stage
  <2> QED BY <1>3, <2>1, <2>2, <2>3 DEF GoesSoundly
<1>6. CASE stage = "check" /\ reply.status \in {"pending", "rejected", "removed"}
  <2>1. Goes(r, "refresh", Checked(copy, reply), Idle)
    BY <1>6 DEF HearRefresh
  <2>2. Checked(copy, reply) \in Conn /\ Held(Checked(copy, reply))
    BY <1>1, <1>6, CheckedSound DEF Status
  <2> QED BY <1>3, <2>1, <2>2, IdleSound DEF GoesSoundly
<1>7. CASE stage = "check" /\ reply.status = "username_taken"
  <2> DEFINE row == [copy EXCEPT !.status = "username_taken", !.token = None]
  <2>1. Goes(r, "refresh", row, Idle)
    BY <1>7 DEF HearRefresh
  <2>2. row \in Conn /\ Held(row)
    BY <1>1, ForgottenSound
  <2> HIDE DEF row
  <2> QED BY <1>3, <2>1, <2>2, IdleSound DEF GoesSoundly
<1>8. CASE Goes(r, "refresh", same, Idle)
  BY <1>2, <1>3, <1>8, IdleSound DEF GoesSoundly
<1>9. \/ stage = "me" /\ reply.status = "ok"
      \/ stage = "check" /\ reply.status \in {"active", "pending", "rejected", "removed", "username_taken"}
      \/ Goes(r, "refresh", same, Idle)
  BY DEF HearRefresh
<1> HIDE DEF stage, reply, same
<1> QED BY <1>4, <1>5, <1>6, <1>7, <1>8, <1>9

LEMMA HearPollSound ==
  ASSUME HubInv, NEW r \in Runtimes, flow[r]["poll"].reply # NoReply, HearPoll(r)
  PROVE  /\ \E row, frame : GoesSoundly(r, "poll", row, frame)
         /\ polling' \in {polling, polling \ {r}}
<1> DEFINE copy == flow[r]["poll"].copy
           reply == flow[r]["poll"].reply
           row == IF reply.status \in Status THEN Checked(copy, reply) ELSE conn[r.client]
<1>1. copy \in Conn /\ Held(copy) /\ ReplySound(reply)
  BY DEF HubInv, FlowSound, Framed, Frames, ReplySound, Flows
<1>2. conn[r.client] \in Conn /\ Held(conn[r.client])
  BY DEF HubInv, ConnSound, Clients
<1>3. Goes(r, "poll", row, Idle) /\ polling' \in {polling, polling \ {r}}
  BY DEF HearPoll
<1>4. row \in Conn /\ Held(row)
  <2> HIDE DEF copy, reply
  <2> QED BY <1>1, <1>2, CheckedSound
<1> HIDE DEF row
<1> QED BY <1>3, <1>4, IdleSound DEF GoesSoundly

LEMMA HearStep ==
  ASSUME HubInv, NEW r \in Runtimes, NEW f \in Flows, Hear(r, f)
  PROVE  HubInv'
<1>1. /\ flow[r][f].reply # NoReply
      /\ UNCHANGED <<user, shared, upload, runtime, used, stray, excused, events>>
  BY DEF Hear
<1>2. r \in used
  <2>1. r \notin used => flow[r][f] = Idle
    BY DEF HubInv, FlowSound
  <2> QED BY <1>1, <2>1 DEF Idle
<1>3. /\ \E row, frame : GoesSoundly(r, f, row, frame)
      /\ polling' \in {polling, polling \cup {r}, polling \ {r}}
  <2>1. CASE f = "start" /\ HearStart(r)
    BY <1>1, <2>1, HearStartSound
  <2>2. CASE f = "refresh" /\ HearRefresh(r)
    BY <1>1, <2>2, HearRefreshSound
  <2>3. CASE f = "poll" /\ HearPoll(r)
    BY <1>1, <2>3, HearPollSound
  <2> QED BY <2>1, <2>2, <2>3 DEF Hear
<1>4. PICK row, frame : GoesSoundly(r, f, row, frame)
  BY <1>3
<1>5. ConnSound(conn')
  BY <1>4 DEF GoesSoundly, Goes, ConnSound, HubInv
<1>6. FlowSound(flow', used')
  <2>1. flow' = [flow EXCEPT ![r][f] = frame] /\ Framed(frame)
    BY <1>4 DEF GoesSoundly, Goes
  <2> QED BY <1>1, <1>2, <2>1, FrameSet DEF HubInv
<1>7. /\ RuntimeSound(runtime', used') /\ RuntimesSound' /\ EventSound' /\ StraySound(stray')
  BY <1>1, <1>2, <1>3 DEF HubInv, RuntimesSound, EventSound
<1> QED BY <1>1, <1>5, <1>6, <1>7, ClientStep

LEMMA LoseStep ==
  ASSUME HubInv, NEW r \in Runtimes, NEW f \in Flows, Lose(r, f)
  PROVE  HubInv'
<1> DEFINE req == [stage |-> flow[r][f].stage, copy |-> flow[r][f].copy, name |-> r.name]
<1>1. /\ flow[r][f].stage # "idle" /\ Event
      /\ flow' = [flow EXCEPT ![r][f] = Idle]
      /\ stray' \in {stray, stray \cup {req}}
      /\ UNCHANGED <<user, shared, upload, conn, runtime, used, polling, excused>>
  BY DEF Lose
<1>2. req \in Requests /\ Held(req.copy) /\ r \in used
  BY <1>1, RequestOf DEF HubInv, Framed
<1> HIDE DEF req
<1>3. StraySound(stray')
  BY <1>1, <1>2 DEF HubInv, StraySound
<1>4. FlowSound(flow', used')
  BY <1>1, <1>2, FrameSet, IdleSound DEF HubInv
<1>5. EventSound'
  BY <1>1, EventStep DEF HubInv
<1>6. ConnSound(conn') /\ RuntimeSound(runtime', used') /\ RuntimesSound'
  BY <1>1 DEF HubInv, RuntimesSound
<1> QED BY <1>1, <1>3, <1>4, <1>5, <1>6, ClientStep

LEMMA CrashStep ==
  ASSUME HubInv, NEW c \in Clients, Crash(c)
  PROVE  HubInv'
<1>1. /\ Event
      /\ runtime' = [runtime EXCEPT ![c] = NoRuntime]
      /\ polling' = {r \in polling : r.client # c}
      /\ flow' = [r \in Runtimes |-> IF r.client = c THEN [f \in Flows |-> Idle] ELSE flow[r]]
      /\ UNCHANGED <<user, shared, upload, conn, used, stray, excused>>
  BY DEF Crash
<1>2. FlowSound(flow', used')
  <2>1. Framed(Idle) /\ Idle \in Frames
    BY IdleSound DEF Framed
  <2> QED BY <1>1, <2>1 DEF HubInv, FlowSound
<1>3. RuntimeSound(runtime', used') /\ RuntimesSound'
  BY <1>1 DEF HubInv, RuntimeSound, RuntimesSound
<1>4. EventSound'
  BY <1>1, EventStep DEF HubInv
<1>5. ConnSound(conn') /\ StraySound(stray')
  BY <1>1 DEF HubInv
<1> QED BY <1>1, <1>2, <1>3, <1>4, <1>5, ClientStep

-----------------------------------------------------------------------------
(* Sharing.                                                                *)

LEMMA SharingStep ==
  ASSUME HubInv, HubSetsSound', SharersAreMembers', EventSound',
         UNCHANGED <<user, conn, runtime, used, polling, flow, stray, excused>>
  PROVE  HubInv'
BY DEF HubInv, RuntimesSound

LEMMA ShareStep ==
  ASSUME HubInv, NEW c \in Clients, Share(c)
  PROVE  HubInv'
<1>1. PICK u \in Bearer(conn[c].token) : upload' = upload \cup {u}
  BY DEF Share
<1>2. u \in Users /\ Member(user, u)
  BY <1>1 DEF Bearer, Member, Exists
<1>3. UNCHANGED <<user, shared, conn, runtime, used, polling, flow, stray, excused>> /\ Event
  BY DEF Share
<1>4. HubSetsSound' /\ SharersAreMembers'
  BY <1>1, <1>2, <1>3 DEF HubInv, HubSetsSound, SharersAreMembers
<1>5. EventSound'
  BY <1>3, EventStep DEF HubInv
<1> QED BY <1>3, <1>4, <1>5, SharingStep

LEMMA EndShareStep ==
  ASSUME HubInv, NEW u \in Users, EndShare(u)
  PROVE  HubInv'
<1>1. /\ u \in upload /\ upload' \subseteq upload /\ shared' \subseteq shared \cup {u}
      /\ UNCHANGED <<user, conn, runtime, used, polling, flow, stray, excused, events>>
  BY DEF EndShare
<1>2. HubSetsSound' /\ SharersAreMembers' /\ EventSound'
  BY <1>1 DEF HubInv, HubSetsSound, SharersAreMembers, EventSound
<1> QED BY <1>1, <1>2, SharingStep

-----------------------------------------------------------------------------
LEMMA HubInitInv == HubInit => HubInv
<1> SUFFICES ASSUME HubInit PROVE HubInv
  OBVIOUS
<1>1. user \in Tables /\ NamesApart(user, excused)
  BY DEF HubInit, Tables, NamesApart, Member
<1>2. ConnSound(conn)
  BY DEF HubInit, ConnSound, NoConn, Conn, Tokens, Held
<1>3. FlowSound(flow, used)
  BY IdleSound DEF HubInit, FlowSound, Framed
<1>4. RuntimeSound(runtime, used) /\ RuntimesSound /\ StraySound(stray)
  BY DEF HubInit, RuntimeSound, RuntimesSound, StraySound
<1>5. EventSound /\ HubSetsSound /\ SharersAreMembers
  BY HubAssumption DEF HubInit, EventSound, HubSetsSound, SharersAreMembers
<1> QED BY <1>1, <1>2, <1>3, <1>4, <1>5 DEF HubInv

LEMMA HubStep == HubInv /\ [HubNext]_hubVars => HubInv'
<1> SUFFICES ASSUME HubInv, [HubNext]_hubVars PROVE HubInv'
  OBVIOUS
<1>1. ASSUME NEW r \in Runtimes, Begin(r) \/ Refresh(r) \/ Poll(r) PROVE HubInv'
  BY <1>1, BeginStep, RefreshStep, PollStep
<1>2. ASSUME NEW r \in Runtimes, NEW f \in Flows, Handle(r, f) \/ Hear(r, f) \/ Lose(r, f)
      PROVE  HubInv'
  BY <1>2, HandleStep, HearStep, LoseStep
<1>3. ASSUME NEW req \in stray, HandleStray(req) PROVE HubInv'
  BY <1>3, HandleStrayStep
<1>4. ASSUME NEW u \in Users, Approve(u) \/ Reject(u) \/ RemoveUser(u) \/ Expire(u) \/ EndShare(u)
      PROVE  HubInv'
  BY <1>4, ApproveStep, RejectStep, RemoveStep, ExpireStep, EndShareStep
<1>5. ASSUME NEW c \in Clients, Crash(c) \/ Share(c) PROVE HubInv'
  BY <1>5, CrashStep, ShareStep
<1>6. CASE Reset
  BY <1>6, ResetStep
<1>7. CASE UNCHANGED hubVars
  BY <1>7 DEF hubVars, HubInv, RuntimesSound, HubSetsSound, EventSound, SharersAreMembers
<1> QED BY <1>1, <1>2, <1>3, <1>4, <1>5, <1>6, <1>7 DEF HubNext

LEMMA HubInvSound == HubInv => DirectorySound
<1> SUFFICES ASSUME HubInv PROVE DirectorySound
  OBVIOUS
<1>1. HubTypeOK
  <2>1. ASSUME NEW r \in Runtimes, NEW f \in Flows
        PROVE  flow[r][f].stage \in Stage /\ flow[r][f].copy.user \in Users \cup {None}
    <3>1. flow[r][f] \in Frames
      BY DEF HubInv, FlowSound
    <3> QED BY <3>1 DEF Frames, Conn
  <2> QED
    BY <2>1 DEF HubInv, HubTypeOK, Tables, ConnSound, Held, RuntimeSound, RuntimesSound,
                HubSetsSound, EventSound
<1>2. \A u \in Users : Member(user, u) <=> Exists(u) /\ user[u].status # "removed"
  BY DEF Member, Exists
<1>3. SharersAreMembers /\ NamesApart(user, excused) /\ HubSetsSound
  BY DEF HubInv
<1> QED BY <1>1, <1>2, <1>3 DEF DirectorySound, SharersAreMembers, NamesApart, HubSetsSound

\* The types, the names of the members apart, and nothing shown of a user who has
\* been removed, for any machines, nicknames and exchanges that cross: every
\* request is answered from a table in which the name it asks for is its user's
\* or nobody's, however late it arrives.
THEOREM DirectoryStaysSound == HubSpec => []DirectorySound
<1>1. HubSpec => []HubInv
  BY HubInitInv, HubStep, PTL DEF HubSpec
<1> QED BY <1>1, HubInvSound, PTL
=============================================================================
