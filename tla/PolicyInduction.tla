--------------------------- MODULE PolicyInduction ---------------------------
(***************************************************************************)
(* How rewarded traces become policies: core/memory/l2/l2.ts, subscriber.ts,*)
(* candidate-pool.ts, associate.ts and gain.ts.                            *)
(*                                                                         *)
(* A run over one episode associates its traces with the policies there    *)
(* are, puts the others into the candidate pool, and then goes through the *)
(* buckets of the whole pool that are ready: candidates of one signature   *)
(* nobody has promoted yet.  A bucket that resembles a policy is promoted   *)
(* to it, another one is drafted by the model.  In the end the run writes  *)
(* support, gain and status of every policy it touched, from the copies it *)
(* took on the way.  Runs of one episode are queued one behind the other;   *)
(* runs of different episodes overlap whenever one awaits the model.       *)
(*                                                                         *)
(* The code runs alone between two awaits: the episode in busy has the     *)
(* thread.  Traces resemble a policy when they have the signature it was   *)
(* induced from.  Gains are low (below archiveGain), fair, or good (at     *)
(* least minGain).                                                         *)
(*                                                                         *)
(* A write of a run may throw.  Some throws are caught next to the write    *)
(* and the run goes on; the others reach processReward, which gives the     *)
(* run up.  unlinked and dropped are history variables: no guard reads them. *)
(***************************************************************************)
EXTENDS Integers, Sequences, FiniteSets

CONSTANTS
  Traces,        \* records with an episode and a signature
  MaxPolicies,   \* bound on the policies that are ever induced
  MinEpisodes,   \* minEpisodesForInduction
  MinSupport,
  MaxEvents,     \* bound on rewards, edits and crashes together
  MaxThrows      \* bound on the steps in which writes of a run throw

Policies   == 1 .. MaxPolicies   \* ids, in the order they are given out
Episodes   == {t.episode : t \in Traces}
Signatures == {t.signature : t \in Traces}

NoPolicy == 0    \* policy_id NULL
Absent   == -1   \* a trace that is not in the pool
Nobody   == "nobody"

ASSUME InductionAssumption ==
  /\ IsFiniteSet(Traces) /\ Nobody \notin Episodes
  /\ {MinEpisodes, MinSupport, MaxPolicies} \subseteq Nat \ {0}
  /\ {MaxEvents, MaxThrows} \subseteq Nat

VARIABLES
  policy,      \* the policies table
  candidate,   \* l2_candidate_pool: whose candidate a trace is
  link,        \* trace_policy_links
  run,         \* the run of each episode: processEpisodeQueue and its frame
  pending,     \* pendingByEpisode: a newer reward waits for the run to end
  busy,        \* the episode whose run has the thread
  rewards,     \* how many there have been
  upsets,      \* the edits and crashes there have been
  faults,      \* in how many steps writes have thrown
  unlinked,    \* <<policy, trace>>: promoted, but the link was not written
  dropped      \* the policies whose support a write that threw kept from being counted

vars == <<policy, candidate, link, run, pending, busy, rewards, upsets, faults, unlinked, dropped>>

Gain == {"low", "fair", "good"}
Live == {"candidate", "active"}

Row   == [status : Live \cup {"archived"}, about : Signatures, support : Nat, good : BOOLEAN]
NoRow == [status |-> "none"]        \* not induced yet
Gone  == [status |-> "deleted"]
Stage == {"idle", "buckets", "drafting", "again", "leaving"}
Frame == [stage    : Stage,
          matched  : [Traces -> Policies \cup {NoPolicy}],
          ready    : SUBSET SUBSET Traces,
          bucket   : SUBSET Traces,
          touched  : [Policies -> Row \cup {NoRow}],
          evidence : [Policies -> SUBSET Traces]]

Idle == [stage |-> "idle", matched |-> [t \in Traces |-> NoPolicy],
         ready |-> {}, bucket |-> {},
         touched |-> [p \in Policies |-> NoRow], evidence |-> [p \in Policies |-> {}]]

Init ==
  /\ policy = [p \in Policies |-> NoRow]
  /\ candidate = [t \in Traces |-> Absent]
  /\ link = {}
  /\ run = [e \in Episodes |-> Idle]
  /\ pending = [e \in Episodes |-> FALSE]
  /\ busy = Nobody
  /\ rewards = 0 /\ upsets = <<>> /\ faults = 0
  /\ unlinked = {} /\ dropped = {}

Upset(kind) == rewards + Len(upsets) < MaxEvents /\ upsets' = Append(upsets, kind)
Happened(kind) == \E i \in DOMAIN upsets : upsets[i] = kind

Fault == faults < MaxThrows /\ faults' = faults + 1

\* The writes in missed throw and are only warned about.
Missing(missed) == IF missed = {} THEN UNCHANGED faults ELSE Fault

Exists(p)   == policy[p] \notin {NoRow, Gone}
Unused      == {p \in Policies : policy[p] = NoRow /\ \A q \in 1 .. p - 1 : policy[q] # NoRow}
LiveOn(sig) == {p \in Policies : policy[p].status \in Live /\ policy[p].about = sig}

\* What is left when the row of a policy goes: the foreign keys of its candidates
\* are set to NULL and its links are deleted.  policies.upsert is INSERT OR
\* REPLACE, which deletes the row before it inserts it again.
FreedFrom(p)    == [t \in Traces |-> IF candidate[t] = p THEN NoPolicy ELSE candidate[t]]
LinksWithout(p) == {l \in link : l[1] # p}

-----------------------------------------------------------------------------
(* A run begins.                                                           *)

\* bucketsReadyForInduction over the pool as it stands.
Buckets(pool) ==
  {b \in {{t \in Traces : pool[t] = NoPolicy /\ t.signature = sig} : sig \in Signatures} :
     Cardinality({t.episode : t \in b}) >= MinEpisodes}

\* Steps 1 to 3 up to the first bucket.  Which traces of the episode are worth
\* it is data; each is associated with a live policy it resembles, if there is one,
\* and linked to it or else put into the pool, if that write does not throw.
Begin(e) ==
  \E eligible \in SUBSET {t \in Traces : t.episode = e} :
  \E matched \in [Traces -> Policies \cup {NoPolicy}], missed \in SUBSET eligible :
    /\ \A t \in Traces :
         LET like == IF t \in eligible THEN LiveOn(t.signature) ELSE {}
         IN  IF like = {} THEN matched[t] = NoPolicy ELSE matched[t] \in like
    /\ Missing(missed)
    /\ link' = link \cup {l \in Policies \X (Traces \ missed) : matched[l[2]] = l[1]}
    /\ candidate' = [t \in Traces |->
         IF t \in eligible \ missed /\ matched[t] = NoPolicy /\ candidate[t] = Absent
         THEN NoPolicy ELSE candidate[t]]
    /\ run' = [run EXCEPT ![e] = [Idle EXCEPT !.stage = "buckets", !.matched = matched,
                                               !.ready = Buckets(candidate')]]
    /\ pending' = [pending EXCEPT ![e] = FALSE]
    /\ busy' = e
    /\ UNCHANGED <<policy, unlinked, dropped>>

\* reward.updated: the run begins at once, or the reward waits for the one there
\* is; a newer reward takes the place of a waiting one.
Reward(e) ==
  /\ busy = Nobody
  /\ rewards + Len(upsets) < MaxEvents /\ rewards' = rewards + 1 /\ UNCHANGED upsets
  /\ IF run[e].stage = "idle" THEN Begin(e)
     ELSE /\ pending' = [pending EXCEPT ![e] = TRUE]
          /\ UNCHANGED <<policy, candidate, link, run, busy, faults, unlinked, dropped>>

BeginAgain(e) ==
  /\ busy = Nobody /\ run[e].stage = "again"
  /\ Begin(e)
  /\ UNCHANGED <<rewards, upsets>>

-----------------------------------------------------------------------------
(* Its buckets, one by one, the ones with more evidence first.             *)

\* Mutant: a promoted bucket is not linked.
PromoteUnlinked(b, p, pool, links, missed) ==
  /\ candidate' = [t \in Traces |-> IF t \in b THEN p ELSE pool[t]]
  /\ link' = links
  /\ unlinked' = (unlinked \ ({p} \X b)) \cup ({p} \X missed)

\* promote, and a link for every trace of the bucket but the ones in missed.
Promote(b, p, pool, links, missed) ==
  /\ candidate' = [t \in Traces |-> IF t \in b THEN p ELSE pool[t]]
  /\ link' = links \cup ({p} \X (b \ missed))
  /\ unlinked' = (unlinked \ ({p} \X b)) \cup ({p} \X missed)

\* promote goes through the bucket and throws at one of its candidates: nothing
\* is linked.
PromoteThrows(b, p, pool, links) ==
  /\ Fault
  /\ \E part \in SUBSET b \ {b} : Promote(part, p, pool, links, part)

\* processEpisodeQueue: the loop goes on with the reward that waits.
AfterRun(e) == IF pending[e] THEN "again" ELSE "leaving"

\* The run is over, whether runL2 returned or processReward caught what it threw;
\* the policies in lost it has not counted.
EndRun(e, lost) ==
  /\ run' = [run EXCEPT ![e] = [Idle EXCEPT !.stage = AfterRun(e)]]
  /\ dropped' = dropped \cup lost
  /\ busy' = Nobody

GiveUp(e) == EndRun(e, {p \in Policies : run[e].touched[p] # NoRow})

\* The bucket resembles a live policy: it counts as evidence for it.
TakeMatched(e, b) ==
  \E p \in LiveOn((CHOOSE t \in b : TRUE).signature) :
    \/ /\ \E missed \in SUBSET b : Promote(b, p, candidate, link, missed) /\ Missing(missed)
       /\ run' = [run EXCEPT ![e].ready = @ \ {b}, ![e].touched[p] = policy[p],
                              ![e].evidence[p] = @ \cup b]
       /\ UNCHANGED <<busy, dropped>>
    \/ PromoteThrows(b, p, candidate, link) /\ GiveUp(e)

\* Otherwise the model is asked for a draft.
TakeNew(e, b) ==
  /\ LiveOn((CHOOSE t \in b : TRUE).signature) = {}
  /\ run' = [run EXCEPT ![e].ready = @ \ {b}, ![e].bucket = b, ![e].stage = "drafting"]
  /\ busy' = Nobody
  /\ UNCHANGED <<candidate, link, faults, unlinked, dropped>>

TakeBucket(e) ==
  /\ busy = e
  /\ \E b \in run[e].ready :
       /\ \A other \in run[e].ready : Cardinality(b) >= Cardinality(other)
       /\ TakeMatched(e, b) \/ TakeNew(e, b)
  /\ UNCHANGED <<policy, pending, rewards, upsets>>

\* The run has its answer and goes on to the next bucket.
GoOn(e) == [run EXCEPT ![e].stage = "buckets", ![e].bucket = {}]

\* What the draft of a bucket is stored as: a new policy, or the one there is that
\* it is near enough to - of any status and signature - and merged into with an
\* upsert.
Fresh(b) == [status |-> "candidate", about |-> (CHOOSE t \in b : TRUE).signature,
             support |-> 0, good |-> FALSE]
Stored(b, p) == IF Exists(p) THEN policy[p] ELSE Fresh(b)

Persist(e, p) ==
  LET b == run[e].bucket
  IN  /\ policy' = [policy EXCEPT ![p] = Stored(b, p)]
      /\ \E missed \in SUBSET b :
           Promote(b, p, FreedFrom(p), LinksWithout(p), missed) /\ Missing(missed)
      /\ run' = [GoOn(e) EXCEPT ![e].touched[p] = Stored(b, p), ![e].evidence[p] = b]
      /\ busy' = e
      /\ UNCHANGED dropped

\* A new policy is inserted, and the enqueue of its vector or promote throws: the
\* run goes on and does not know the policy.
InsertUncounted(e, p) ==
  /\ policy' = [policy EXCEPT ![p] = Fresh(run[e].bucket)]
  /\ PromoteThrows(run[e].bucket, p, candidate, link)
  /\ run' = GoOn(e)
  /\ dropped' = dropped \cup {p}
  /\ busy' = e

\* The upsert of a merge throws, or promote after it: the run is given up.
MergeThrows(e, p) ==
  /\ \/ PromoteThrows(run[e].bucket, p, FreedFrom(p), LinksWithout(p))
     \/ Fault /\ UNCHANGED <<candidate, link, unlinked>>
  /\ GiveUp(e)
  /\ UNCHANGED policy

\* The model answers; a refused, malformed or missing draft, or one that cannot be
\* inserted, leaves the bucket for a later run.
DraftAnswered(e) ==
  /\ busy = Nobody /\ run[e].stage = "drafting"
  /\ \/ \E p \in Unused : Persist(e, p) \/ InsertUncounted(e, p)
     \/ \E p \in {q \in Policies : Exists(q)} : Persist(e, p) \/ MergeThrows(e, p)
     \/ /\ run' = GoOn(e) /\ busy' = e
        /\ UNCHANGED <<policy, candidate, link, faults, unlinked, dropped>>
  /\ UNCHANGED <<pending, rewards, upsets>>

-----------------------------------------------------------------------------
(* The run ends.                                                           *)

\* Mutant: an archived policy is judged like a candidate.
NextStatusReviving(status, support, gain) ==
  IF status # "active" /\ support >= MinSupport /\ gain = "good" THEN "active"
  ELSE IF status = "active" /\ (gain = "low" \/ support <= 0) THEN "archived"
  ELSE status

NextStatus(status, support, gain) ==
  IF status = "candidate" /\ support >= MinSupport /\ gain = "good" THEN "active"
  ELSE IF status = "active" /\ (gain = "low" \/ support <= 0) THEN "archived"
  ELSE status

\* The copy of each policy the run has touched; one touched only by association
\* is read now.
Touched(e) ==
  LET frame == run[e]
      by    == {p \in Policies : \E t \in Traces : frame.matched[t] = p}
  IN  [p \in Policies |-> IF frame.touched[p] # NoRow THEN frame.touched[p]
                          ELSE IF p \in by /\ Exists(p) THEN policy[p] ELSE NoRow]

\* Mutant: the traces a policy was induced from are not counted.
NewSupportAssociated(e, p) == {t \in Traces : run[e].matched[t] = p}

\* The traces of this run that speak for a policy.
NewSupport(e, p) == {t \in Traces : run[e].matched[t] = p} \cup run[e].evidence[p]

\* Steps 4 and 5: first the policies the run has touched, then the candidates it
\* has not.  An UPDATE of a policy deleted meanwhile changes nothing, and one that
\* throws is the last of the run.
Finish(e) ==
  /\ busy = e /\ run[e].stage = "buckets" /\ run[e].ready = {}
  /\ LET copy == Touched(e)
         mine == {p \in Policies : copy[p] # NoRow}
         more(p) == copy[p].support + Cardinality(NewSupport(e, p))
     IN  \E gain \in [mine -> Gain], unwritten \in SUBSET Policies :
           /\ Missing(unwritten) /\ (unwritten \cap mine = {} \/ Policies \ mine \subseteq unwritten)
           /\ policy' = [p \in Policies |->
                IF ~Exists(p) \/ p \in unwritten THEN policy[p]
                ELSE IF p \in mine
                THEN [policy[p] EXCEPT !.support = more(p), !.good = (gain[p] = "good"),
                        !.status = NextStatus(copy[p].status, more(p), gain[p])]
                ELSE IF policy[p].status = "candidate" /\ policy[p].good
                THEN [policy[p] EXCEPT !.status = NextStatus(@, policy[p].support, "good")]
                ELSE policy[p]]
           /\ EndRun(e, mine \cap unwritten)
  /\ UNCHANGED <<candidate, link, pending, rewards, upsets, unlinked>>

\* The finally callback that takes the run out of inflightByEpisode comes one
\* microtask after the loop has looked for a newer reward for the last time.
Leave(e) ==
  /\ busy = Nobody /\ run[e].stage = "leaving"
  /\ run' = [run EXCEPT ![e].stage = "idle"]
  /\ UNCHANGED <<policy, candidate, link, pending, busy, rewards, upsets, faults, unlinked, dropped>>

-----------------------------------------------------------------------------
(* The viewer, and the loss of the process.                                *)

\* setPolicyStatus, with an upsert.
SetStatus(p, status) ==
  /\ busy = Nobody /\ Exists(p) /\ policy[p].status # status
  /\ Upset("edit")
  /\ policy' = [policy EXCEPT ![p].status = status]
  /\ candidate' = FreedFrom(p) /\ link' = LinksWithout(p)
  /\ UNCHANGED <<run, pending, busy, rewards, faults, unlinked, dropped>>

\* deletePolicy
Delete(p) ==
  /\ busy = Nobody /\ Exists(p)
  /\ Upset("edit")
  /\ policy' = [policy EXCEPT ![p] = Gone]
  /\ candidate' = FreedFrom(p) /\ link' = LinksWithout(p)
  /\ UNCHANGED <<run, pending, busy, rewards, faults, unlinked, dropped>>

Crash ==
  /\ busy = Nobody
  /\ Upset("crash")
  /\ run' = [e \in Episodes |-> Idle]
  /\ pending' = [e \in Episodes |-> FALSE]
  /\ UNCHANGED <<policy, candidate, link, busy, rewards, faults, unlinked, dropped>>

Step(e) == BeginAgain(e) \/ TakeBucket(e) \/ DraftAnswered(e) \/ Finish(e) \/ Leave(e)

Next ==
  \/ \E e \in Episodes : Reward(e) \/ Step(e)
  \/ \E p \in Policies :
       Delete(p) \/ \E status \in Live \cup {"archived"} : SetStatus(p, status)
  \/ Crash

Spec == Init /\ [][Next]_vars

-----------------------------------------------------------------------------
(* Properties.                                                             *)

TypeOK ==
  /\ policy \in [Policies -> Row \cup {NoRow, Gone}]
  /\ candidate \in [Traces -> Policies \cup {Absent, NoPolicy}]
  /\ link \subseteq Policies \X Traces
  /\ \A e \in Episodes :
       /\ run[e].stage \in Stage /\ run[e].bucket \subseteq Traces
       /\ run[e].ready \subseteq SUBSET Traces
       /\ run[e].touched \in [Policies -> Row \cup {NoRow}]
       /\ run[e].evidence \in [Policies -> SUBSET Traces]
       /\ run[e].matched \in [Traces -> Policies \cup {NoPolicy}]
  /\ pending \in [Episodes -> BOOLEAN]
  /\ busy \in Episodes \cup {Nobody}
  /\ rewards \in Nat /\ upsets \in Seq({"edit", "crash"}) /\ faults \in Nat
  /\ unlinked \subseteq Policies \X Traces /\ dropped \subseteq Policies

\* Whoever promotes a candidate, and however often, its trace is linked to the
\* policy, unless the write of that very link threw or was not reached: the gain
\* of a policy is computed over all the traces it came from.
PromotedIsLinked ==
  \A t \in Traces : candidate[t] \in Policies => <<candidate[t], t>> \in link \cup unlinked

\* A policy without support is one a run is still about to count for: otherwise
\* it would stay a candidate for ever.  (A process lost in between leaves one, and
\* so does a write that throws between its insert and its count.)
InducedIsCounted ==
  \A p \in Policies :
    Exists(p) /\ policy[p].support = 0 =>
      \/ Happened("crash")
      \/ p \in dropped
      \/ \E e \in Episodes : run[e].touched[p] # NoRow /\ run[e].evidence[p] # {}

\* Both, and the types: what a run promotes is linked when it is promoted, and counted
\* before the run ends, whatever other runs do while it awaits its drafts, but for
\* the links and counts of the writes that threw.
PromotionsCounted == TypeOK /\ PromotedIsLinked /\ InducedIsCounted

\* An archived policy stays so, unless the viewer brings it back or a run ends
\* that took its copy before the policy was archived.
ArchivedStands ==
  [][\A p \in Policies :
       policy[p].status = "archived" /\ policy'[p].status \in Live =>
         \/ upsets' # upsets
         \/ busy # Nobody /\ run[busy].touched[p].status \in Live]_vars
=============================================================================
