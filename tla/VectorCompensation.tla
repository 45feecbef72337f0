------------------------- MODULE VectorCompensation -------------------------
(***************************************************************************)
(* What the durable embedding retry queue promises, with no worker, lease, *)
(* clock or batch in sight.  A memory slot (one vector column of a trace,  *)
(* policy, world model or skill row) either has no outstanding request or  *)
(* asks for the vector of one particular text.  A request is answered once,*)
(* with the vector of the text it asks for now, or is given up after       *)
(* MaxAttempts recorded failures.                                          *)
(***************************************************************************)
EXTENDS Naturals

CONSTANTS Jobs,         \* slots: (target_kind, target_id, vector_field)
          MaxAttempts,  \* failures recorded before a request is given up
          MaxText       \* bound on the number of texts written per slot

VARIABLES exists,   \* exists[j]: the target row is in its table
          version,  \* version[j]: texts written so far to the target
          vec,      \* vec[j]: version whose vector is stored, 0 for NULL
          ask,      \* ask[j]: version whose vector is requested, 0 for none
          tries     \* tries[j]: failures recorded against the job row

vars == <<exists, version, vec, ask, tries>>

Init ==
  /\ exists = [j \in Jobs |-> FALSE]
  /\ version = [j \in Jobs |-> 0]
  /\ vec = [j \in Jobs |-> 0]
  /\ ask = [j \in Jobs |-> 0]
  /\ tries = [j \in Jobs |-> 0]

\* The slot's text is written and its vector is not available: a new request
\* starts counting from zero, an outstanding one keeps its count.
Request(j) ==
  /\ version[j] < MaxText
  /\ version' = [version EXCEPT ![j] = @ + 1]
  /\ exists' = [exists EXCEPT ![j] = TRUE]
  /\ vec' = [vec EXCEPT ![j] = 0]
  /\ ask' = [ask EXCEPT ![j] = version[j] + 1]
  /\ tries' = [tries EXCEPT ![j] = IF ask[j] = 0 THEN 0 ELSE @]

\* The text is written together with a vector; the queue is not told.
WriteThrough(j) ==
  /\ version[j] < MaxText
  /\ version' = [version EXCEPT ![j] = @ + 1]
  /\ exists' = [exists EXCEPT ![j] = TRUE]
  /\ \E v \in {version[j] + 1, vec[j]} \ {0} : vec' = [vec EXCEPT ![j] = v]
  /\ UNCHANGED <<ask, tries>>

\* The vector of the text asked for is stored and the request is over.
Fulfil(j) ==
  /\ exists[j]
  /\ ask[j] # 0
  /\ vec' = [vec EXCEPT ![j] = ask[j]]
  /\ ask' = [ask EXCEPT ![j] = 0]
  /\ UNCHANGED <<exists, version, tries>>

\* One failed attempt is recorded; the last allowed one ends the request.
RecordFailure(j) ==
  /\ ask[j] # 0
  /\ tries' = [tries EXCEPT ![j] = @ + 1]
  /\ ask' = [ask EXCEPT ![j] = IF tries[j] + 1 >= MaxAttempts THEN 0 ELSE @]
  /\ UNCHANGED <<exists, version, vec>>

Delete(j) ==
  /\ exists[j]
  /\ exists' = [exists EXCEPT ![j] = FALSE]
  /\ vec' = [vec EXCEPT ![j] = 0]
  /\ UNCHANGED <<version, ask, tries>>

Next == \E j \in Jobs : \/ Request(j)
                        \/ WriteThrough(j)
                        \/ Fulfil(j)
                        \/ RecordFailure(j)
                        \/ Delete(j)

Spec == Init /\ [][Next]_vars
=============================================================================
