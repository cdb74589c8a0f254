----------------------------- MODULE MCResponses -----------------------------
(***************************************************************************)
(* Threads of the API process: instances of BackgroundResponses and of     *)
(* SurvivalLane.  `part` says which of them a behaviour is of; it never    *)
(* changes, and the variables of the other keep their initial values.      *)
(***************************************************************************)
EXTENDS BackgroundResponses, TLC

CONSTANTS r1, r2, c1, c2, w1, w2, w3, b1, b2

VARIABLES
  part,
  time, cache, active, cooldown, at, next, deadline, quiet, beside  \* SurvivalLane

laneVars == <<time, cache, active, cooldown, at, next, deadline, quiet, beside>>

Responses == {r1, r2}
Callers == {c1, c2}
Workers == {w1, w2, w3}

\* Threads have no names the code goes by.
AnyThread == Permutations(Callers) \cup Permutations(Workers)

\* Three threads with a question each, two slots, two backends of which one is used by
\* way of a browser: a challenge, and somebody who is with the backend already.
Lane == INSTANCE SurvivalLane WITH
  Request <- Workers, Key <- Workers, Backend <- {b1, b2}, KeyOf <- [w \in Workers |-> w],
  Order <- <<b1, b2>>, Ui <- {b2}, MaxActive <- 2, QueueTimeout <- 1, CacheTtl <- 1,
  ChallengeCooldown <- 2, UnavailableCooldown <- 1, MaxTime <- 3, now <- time

-----------------------------------------------------------------------------
MCInit == part \in {"responses", "lane"} /\ Init /\ Lane!Init

MCNext ==
  /\ UNCHANGED part
  /\ \/ part = "responses" /\ Next /\ UNCHANGED laneVars
     \/ part = "lane" /\ Lane!Next /\ UNCHANGED vars

MCSpec == MCInit /\ [][MCNext]_<<part, vars, laneVars>>

-----------------------------------------------------------------------------
\* SurvivalLane: a backend that asked for a challenge is left alone for its cooldown,
\* whoever else has a slot.
CooldownKept == Lane!CooldownKept
=============================================================================
