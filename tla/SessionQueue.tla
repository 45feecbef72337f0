---------------------------- MODULE SessionQueue ----------------------------
(***************************************************************************)
(* What an adapter owes the core for each memory session, and what         *)
(* TurnRouting assumes of it as Serial: the turns that ended are captured  *)
(* one at a time, in the order in which they ended, and the session is     *)
(* closed only when no turn of it is being captured or waits to be.        *)
(***************************************************************************)
EXTENDS Sequences

CONSTANTS Ids,    \* memory sessions
          Turns   \* turns, whoever they belong to

VARIABLES pending,  \* pending[i]: ended turns not yet handed to the core
          busy,     \* busy[i]: the set of the turn the core is working on
          closing   \* sessions being closed

vars == <<pending, busy, closing>>

Init ==
  /\ pending = [i \in Ids |-> <<>>]
  /\ busy = [i \in Ids |-> {}]
  /\ closing = {}

Submit(i, turn) ==
  /\ pending' = [pending EXCEPT ![i] = Append(@, turn)]
  /\ UNCHANGED <<busy, closing>>

Begin(i) ==
  /\ busy[i] = {} /\ i \notin closing /\ pending[i] # <<>>
  /\ busy' = [busy EXCEPT ![i] = {Head(pending[i])}]
  /\ pending' = [pending EXCEPT ![i] = Tail(@)]
  /\ UNCHANGED closing

End(i) ==
  /\ busy' = [busy EXCEPT ![i] = {}]
  /\ UNCHANGED <<pending, closing>>

BeginClose(i) ==
  /\ busy[i] = {} /\ pending[i] = <<>>
  /\ closing' = closing \cup {i}
  /\ UNCHANGED <<pending, busy>>

EndClose(i) ==
  /\ closing' = closing \ {i}
  /\ UNCHANGED <<pending, busy>>

Next == \E i \in Ids : \/ \E turn \in Turns : Submit(i, turn)
                       \/ Begin(i) \/ End(i)
                       \/ BeginClose(i) \/ EndClose(i)

Spec == Init /\ [][Next]_vars
=============================================================================
