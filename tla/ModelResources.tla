--------------------------- MODULE ModelResources ---------------------------
(***************************************************************************)
(* Who may call a model, and when: core/util/foreground-resources.ts,      *)
(* semaphore.ts and rate-limited-llm.ts.                                   *)
(*                                                                         *)
(* A turn start is foreground work from its first line to its last.  While *)
(* one is active, background calls wait at a gate.  Past the gate an       *)
(* embedding call takes one of Capacity permits, for which foreground and  *)
(* background calls queue apart, and a language-model call takes one of    *)
(* LlmLimit permits of a semaphore.  A waiting call may be aborted by its  *)
(* request; shutdown aborts all of them and refuses new ones.              *)
(*                                                                         *)
(* Between two awaits the code runs alone, so each action is the code of   *)
(* one call from one await to the next.                                    *)
(***************************************************************************)
EXTENDS Integers, SequencesExt

CONSTANTS
  Turns,      \* foreground turn starts; each looks one embedding up
  Embeds,     \* callers of the background embedder, batch by batch
  Llms,       \* callers of the rate-limited language model
  Capacity,   \* embeddingConcurrency
  LlmLimit,   \* bgLlmConcurrency
  MaxForegroundBurst

Background == Embeds \cup Llms
Calls      == Turns \cup Background

ASSUME ResourcesAssumption ==
  /\ Turns \cap Background = {} /\ Embeds \cap Llms = {}
  /\ IsFiniteSet(Turns) /\ IsFiniteSet(Embeds) /\ IsFiniteSet(Llms)
  /\ {Capacity, LlmLimit, MaxForegroundBurst} \subseteq Nat \ {0}

VARIABLES
  at,               \* where each caller is
  foregroundActive, \* turn starts inside enterForeground
  gate,             \* backgroundWaiters
  foregroundQueue, backgroundQueue,   \* embeddingWaiters
  embeddingInUse,
  burst,            \* foregroundBurst, counted up to MaxForegroundBurst
  llmQueue, current,   \* the semaphore's waiters and permits in use
  down              \* shutdownSignal.aborted

embedding == <<foregroundQueue, backgroundQueue, embeddingInUse, burst>>
llm       == <<llmQueue, current>>
vars      == <<at, foregroundActive, gate, embedding, llm, down>>

\* A turn: idle -> entered -> (queued ->) calling -> returned -> idle.
\* A background call: idle -> (gate ->) passed -> (queued ->) calling -> idle.
Place == {"idle", "entered", "returned", "gate", "passed", "queued", "calling"}

Init ==
  /\ at = [c \in Calls |-> "idle"]
  /\ foregroundActive = 0 /\ gate = {}
  /\ foregroundQueue = <<>> /\ backgroundQueue = <<>>
  /\ embeddingInUse = 0 /\ burst = 0
  /\ llmQueue = <<>> /\ current = 0
  /\ down = FALSE

\* Where a call goes when it has been refused, aborted or answered.
Back(c) == IF c \in Turns THEN "returned" ELSE "idle"

-----------------------------------------------------------------------------
(* The gate.                                                               *)

EnterForeground(t) ==
  /\ at[t] = "idle"
  /\ at' = [at EXCEPT ![t] = "entered"]
  /\ foregroundActive' = foregroundActive + 1
  /\ UNCHANGED <<gate, embedding, llm, down>>

\* Mutant: the gate is looked at before the turn is counted out.
LeaveForegroundFirst(t) ==
  /\ at[t] \in {"entered", "returned"}
  /\ foregroundActive' = foregroundActive - 1
  /\ LET opened == IF foregroundActive > 0 THEN {} ELSE gate
     IN  /\ gate' = gate \ opened
         /\ at' = [c \in Calls |-> IF c = t THEN "idle"
                                   ELSE IF c \in opened THEN "passed" ELSE at[c]]
  /\ UNCHANGED <<embedding, llm, down>>

\* The finally block of the turn start; the last one out opens the gate.
LeaveForeground(t) ==
  /\ at[t] \in {"entered", "returned"}
  /\ foregroundActive' = foregroundActive - 1
  /\ LET opened == IF foregroundActive' > 0 THEN {} ELSE gate
     IN  /\ gate' = gate \ opened
         /\ at' = [c \in Calls |-> IF c = t THEN "idle"
                                   ELSE IF c \in opened THEN "passed" ELSE at[c]]
  /\ UNCHANGED <<embedding, llm, down>>

\* Where waitForBackground leaves its caller.
Gated ==
  IF down THEN "idle" ELSE IF foregroundActive = 0 THEN "passed" ELSE "gate"

WaitForBackground(c) ==
  /\ at[c] = "idle" /\ ~down
  /\ at' = [at EXCEPT ![c] = Gated]
  /\ gate' = IF Gated = "gate" THEN gate \cup {c} ELSE gate
  /\ UNCHANGED <<foregroundActive, embedding, llm, down>>

-----------------------------------------------------------------------------
(* Embedding permits.                                                      *)

\* Mutant: background calls are served when no foreground call waits, only.
BackgroundNextLast(fore, back) == back # <<>> /\ fore = <<>>

\* nextEmbeddingWaiter: foreground first, but after a full burst background.
BackgroundNext(fore, back) ==
  back # <<>> /\ (fore = <<>> \/ burst >= MaxForegroundBurst)

\* drainEmbedding over the queues and the permits left in use.  Its loop admits
\* at most one call, because every change to a queue or a permit is followed by
\* it: NothingWaitsInVain is its exit condition.
DrainEmbedding(places, fore, back, used) ==
  IF used >= Capacity \/ (fore = <<>> /\ back = <<>>)
  THEN /\ foregroundQueue' = fore /\ backgroundQueue' = back
       /\ embeddingInUse' = used /\ at' = places
       /\ UNCHANGED burst
  ELSE /\ embeddingInUse' = used + 1
       /\ IF BackgroundNext(fore, back)
          THEN /\ at' = [places EXCEPT ![Head(back)] = "calling"]
               /\ backgroundQueue' = Tail(back) /\ foregroundQueue' = fore
               /\ burst' = 0
          ELSE /\ at' = [places EXCEPT ![Head(fore)] = "calling"]
               /\ foregroundQueue' = Tail(fore) /\ backgroundQueue' = back
               /\ burst' = IF burst < MaxForegroundBurst THEN burst + 1 ELSE burst

\* Mutant: every call queues as a foreground call.
AcquireEmbeddingUnranked(c) ==
  /\ at[c] = IF c \in Turns THEN "entered" ELSE "passed"
  /\ IF down
     THEN at' = [at EXCEPT ![c] = Back(c)] /\ UNCHANGED embedding
     ELSE DrainEmbedding([at EXCEPT ![c] = "queued"],
            Append(foregroundQueue, c), backgroundQueue, embeddingInUse)
  /\ UNCHANGED <<foregroundActive, gate, llm, down>>

AcquireEmbedding(c) ==
  /\ at[c] = IF c \in Turns THEN "entered" ELSE "passed"
  /\ IF down
     THEN at' = [at EXCEPT ![c] = Back(c)] /\ UNCHANGED embedding
     ELSE DrainEmbedding([at EXCEPT ![c] = "queued"],
            IF c \in Turns THEN Append(foregroundQueue, c) ELSE foregroundQueue,
            IF c \in Turns THEN backgroundQueue ELSE Append(backgroundQueue, c),
            embeddingInUse)
  /\ UNCHANGED <<foregroundActive, gate, llm, down>>

\* The provider answers or fails.  The permit is released before the batch goes
\* on: a background batch with slices left waits at the gate again.
FinishEmbedding(c) ==
  /\ at[c] = "calling"
  /\ \E next \in IF c \in Turns THEN {"returned"} ELSE {"idle", Gated} :
       /\ DrainEmbedding([at EXCEPT ![c] = next],
                         foregroundQueue, backgroundQueue, embeddingInUse - 1)
       /\ gate' = IF next = "gate" THEN gate \cup {c} ELSE gate
  /\ UNCHANGED <<foregroundActive, llm, down>>

-----------------------------------------------------------------------------
(* The semaphore of the background language-model calls.                   *)

AcquireLlm(c) ==
  /\ at[c] = "passed"
  /\ \/ /\ down
        /\ at' = [at EXCEPT ![c] = "idle"] /\ UNCHANGED llm
     \/ /\ ~down /\ current < LlmLimit
        /\ at' = [at EXCEPT ![c] = "calling"]
        /\ current' = current + 1 /\ UNCHANGED llmQueue
     \/ /\ ~down /\ current >= LlmLimit
        /\ at' = [at EXCEPT ![c] = "queued"]
        /\ llmQueue' = Append(llmQueue, c) /\ UNCHANGED current
  /\ UNCHANGED <<foregroundActive, gate, embedding, down>>

\* Mutant: the permit that is passed on is not counted.
FinishLlmUncounted(c) ==
  /\ at[c] = "calling"
  /\ current' = IF current > 0 THEN current - 1 ELSE 0
  /\ IF llmQueue = <<>>
     THEN at' = [at EXCEPT ![c] = "idle"] /\ UNCHANGED llmQueue
     ELSE /\ at' = [at EXCEPT ![c] = "idle", ![Head(llmQueue)] = "calling"]
          /\ llmQueue' = Tail(llmQueue)
  /\ UNCHANGED <<foregroundActive, gate, embedding, down>>

\* release: the permit is given back, and passed on to the first waiter.
FinishLlm(c) ==
  /\ at[c] = "calling"
  /\ LET left == IF current > 0 THEN current - 1 ELSE 0
     IN  IF llmQueue = <<>>
         THEN /\ at' = [at EXCEPT ![c] = "idle"]
              /\ current' = left /\ UNCHANGED llmQueue
         ELSE /\ at' = [at EXCEPT ![c] = "idle", ![Head(llmQueue)] = "calling"]
              /\ current' = left + 1 /\ llmQueue' = Tail(llmQueue)
  /\ UNCHANGED <<foregroundActive, gate, embedding, down>>

-----------------------------------------------------------------------------
(* Aborts and shutdown.                                                    *)

\* The request's signal fires while the call waits: it leaves whichever queue
\* it is in.  (Fired later, the signal makes the provider call fail.)
Abort(c) ==
  /\ at[c] \in {"gate", "queued"}
  /\ at' = [at EXCEPT ![c] = Back(c)]
  /\ gate' = gate \ {c}
  /\ foregroundQueue' = RemoveFirst(foregroundQueue, c)
  /\ backgroundQueue' = RemoveFirst(backgroundQueue, c)
  /\ llmQueue' = RemoveFirst(llmQueue, c)
  /\ UNCHANGED <<foregroundActive, embeddingInUse, burst, current, down>>

\* Every waiter listens to the shutdown signal too.
Shutdown ==
  /\ ~down /\ down' = TRUE
  /\ at' = [c \in Calls |-> IF at[c] \in {"gate", "queued"} THEN Back(c) ELSE at[c]]
  /\ gate' = {} /\ foregroundQueue' = <<>> /\ backgroundQueue' = <<>> /\ llmQueue' = <<>>
  /\ UNCHANGED <<foregroundActive, embeddingInUse, burst, current>>

Finish(c) == \/ c \notin Llms /\ FinishEmbedding(c)
             \/ c \in Llms /\ FinishLlm(c)

Next ==
  \/ \E t \in Turns : EnterForeground(t) \/ LeaveForeground(t)
  \/ \E c \in Background : WaitForBackground(c)
  \/ \E c \in Turns \cup Embeds : AcquireEmbedding(c) \/ FinishEmbedding(c)
  \/ \E c \in Llms : AcquireLlm(c) \/ FinishLlm(c)
  \/ \E c \in Calls : Abort(c)
  \/ Shutdown

Spec == Init /\ [][Next]_vars

\* A provider call ends (every client has a timeout), a caller that is let
\* through goes on, and a turn start that has its answer returns.
FairSpec ==
  /\ Spec
  /\ \A t \in Turns : WF_vars(LeaveForeground(t))
  /\ \A c \in Embeds : WF_vars(AcquireEmbedding(c))
  /\ \A c \in Llms : WF_vars(AcquireLlm(c))
  /\ \A c \in Calls : WF_vars(Finish(c))

-----------------------------------------------------------------------------
(* Properties.                                                             *)

TypeOK ==
  /\ at \in [Calls -> Place]
  /\ foregroundActive \in Nat /\ gate \subseteq Background
  /\ foregroundQueue \in Seq(Turns) /\ backgroundQueue \in Seq(Embeds)
  /\ llmQueue \in Seq(Llms)
  /\ embeddingInUse \in Nat /\ current \in Nat
  /\ burst \in 0 .. MaxForegroundBurst
  /\ down \in BOOLEAN

Calling(S) == {c \in S : at[c] = "calling"}
Active     == {t \in Turns : at[t] # "idle"}

\* The three counters count what they stand for, through every order of grants,
\* aborts, releases and shutdown: a permit is never lost, so the models stay
\* usable, and never given twice, so the limits hold.
PermitsConserved ==
  /\ embeddingInUse = Cardinality(Calling(Turns \cup Embeds)) /\ embeddingInUse <= Capacity
  /\ current = Cardinality(Calling(Llms)) /\ current <= LlmLimit
  /\ foregroundActive = Cardinality(Active)

\* A queue holds the calls that wait for it, each once: an abort that left its
\* entry behind would hand a permit to a caller that is gone.
Holds(queue, waiting) ==
  /\ {queue[i] : i \in DOMAIN queue} = waiting
  /\ \A i, j \in DOMAIN queue : queue[i] = queue[j] => i = j

Queued(S) == {c \in S : at[c] = "queued"}

QueuesAreTheWaiters ==
  /\ gate = {c \in Background : at[c] = "gate"}
  /\ Holds(foregroundQueue, Queued(Turns))
  /\ Holds(backgroundQueue, Queued(Embeds))
  /\ Holds(llmQueue, Queued(Llms))

\* No lost wake-up: the queues hold the calls that wait and no
\* others, nobody queues while a permit is free, nobody waits at the
\* gate while no turn is active, and after shutdown nobody waits at all.
NothingWaitsInVain ==
  /\ QueuesAreTheWaiters
  /\ embeddingInUse < Capacity => foregroundQueue = <<>> /\ backgroundQueue = <<>>
  /\ current < LlmLimit => llmQueue = <<>>
  /\ foregroundActive = 0 => gate = {}
  /\ down => \A c \in Calls : at[c] \notin {"gate", "queued"}

\* However many turns keep coming and however many calls are aborted, a call
\* that has queued for a permit gets it or is aborted, foreground and background.
QueuedIsServed == \A c \in Calls : at[c] = "queued" ~> at[c] # "queued"
=============================================================================
