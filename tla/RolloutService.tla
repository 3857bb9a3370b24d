--------------------------- MODULE RolloutService ---------------------------
(***************************************************************************)
(* What one rollout batch promises its caller, without blocks, chunks,     *)
(* steps or mirrors: prompts are served in arrival order, at most Capacity *)
(* of them at a time; a served prompt's response only grows, up to the     *)
(* cap, unless it is cut short by a cancellation; once answered it is      *)
(* never touched again; and everyone is answered.                          *)
(***************************************************************************)
EXTENDS Integers, FiniteSets

CONSTANTS
  Rows,       \* row ids, in arrival order
  Capacity,   \* rows served at a time
  MaxNew      \* response cap

VARIABLES
  arrived,    \* rows the batch has received: 1 .. arrived
  phase,      \* "queued", "served" or "answered"
  tokens      \* response tokens of each row

vars == <<arrived, phase, tokens>>

In(p) == {r \in Rows : phase[r] = p}

Init ==
  /\ arrived \in Rows
  /\ phase = [r \in Rows |-> "queued"]
  /\ tokens = [r \in Rows |-> 0]

Arrive ==
  /\ arrived' \in Rows /\ arrived' > arrived
  /\ UNCHANGED <<phase, tokens>>

\* The longest-waiting row is taken in.
Serve(r) ==
  /\ r <= arrived /\ phase[r] = "queued"
  /\ \A q \in Rows : q < r => phase[q] # "queued"
  /\ Cardinality(In("served")) < Capacity
  /\ phase' = [phase EXCEPT ![r] = "served"]
  /\ UNCHANGED <<arrived, tokens>>

\* Some served rows get tokens or are cut back, and some of them are answered.
Advance(rows, ended) ==
  /\ rows # {} /\ rows \subseteq In("served") /\ ended \subseteq rows
  /\ \E new \in [rows -> 1 .. MaxNew] :
       /\ \A r \in rows \ ended : new[r] >= tokens[r]
       /\ tokens' = [r \in Rows |-> IF r \in rows THEN new[r] ELSE tokens[r]]
  /\ phase' = [r \in Rows |-> IF r \in ended THEN "answered" ELSE phase[r]]
  /\ UNCHANGED arrived

Work ==
  \/ \E r \in Rows : Serve(r)
  \/ \E rows \in SUBSET Rows : \E ended \in SUBSET rows : Advance(rows, ended)

Next == Arrive \/ Work
Spec == Init /\ [][Next]_vars

\* The promise of progress, for every row that arrived.
Promise == \A r \in Rows : (r <= arrived) ~> (phase[r] = "answered")
FairSpec == Spec /\ Promise
=============================================================================
