------------------------------ MODULE MCSpatial ------------------------------
(***************************************************************************)
(* Instances of SpatialLedger and of SpatialBuild.  `part` says which of   *)
(* them a behaviour is of; it never changes, and the variables of the      *)
(* others keep their initial values.                                       *)
(***************************************************************************)
EXTENDS SpatialLedger, TLC

CONSTANTS p1, p2, c1, b1, s1, m1, m2, t1, t2, q1, q2, w1, w2, w3, nobuild

VARIABLES
  part,
  log, workerPc, build, request, latest, answer, calls, took, crashes  \* SpatialBuild

buildVars == <<log, workerPc, build, request, latest, answer, calls, took, crashes>>

Procs == {p1, p2}
CompositionKeys == {c1}
BuildKeys == {b1}
ScopeKeys == {s1}

-----------------------------------------------------------------------------
(* Ledgers: one key of each family; what callers bring and the faults differ. *)

BuildReceipt(q, state, pending) ==
  [req |-> q, state |-> state, attempt |-> 0, output |-> FALSE,
   quota |-> IF state = "reservation_held" THEN {"reservation"} ELSE {},
   pending |-> pending, failed |-> "none", settled |-> FALSE]

Verified(q) == BuildReceipt(q, "authorization_verified", "reserve")
Held == BuildReceipt(q1, "reservation_held", "commit_attempt")

Committed(state, attempt) ==
  [Held EXCEPT !.state = state, !.attempt = attempt, !.pending = "none",
               !.quota = {"reservation", "mutation"}]

\* A release may be claimed after anything, with attempt 0 or 1.
Released(attempt) ==
  [Held EXCEPT !.state = "released", !.attempt = attempt, !.pending = "none",
               !.settled = TRUE]

Chain ==
  {Verified(q1), Held, Committed("attempt_committed", 1),
   Committed("charge_pending", 1), Committed("cancelled_reconciliation_pending", 1),
   Committed("attempt_committed", 2), Released(0), Released(1)}

Bring(compositions, builds, actions) == c1 :> compositions @@ b1 :> builds @@ s1 :> actions

OfferedToAny == Bring({m1, m2}, Chain \cup {Verified(q2)}, {t1, t2})
OfferedToAll == Bring({m1, m2}, {Verified(q1), Verified(q2), Held}, {t1, t2})
OfferedToTwo == Bring({}, {Verified(q1), Held}, {t1, t2})
OfferedToChain == Bring({}, Chain, {})

AllKinds == {"crash", "write", "sync"}

Case(offered, length, kinds, most) ==
  [offered |-> offered, length |-> length, kinds |-> kinds, most |-> most]

\* A full disk; processes that die; syncs that fail; the whole history of one build.
Cases ==
  [shared |-> Case(OfferedToAll, 2, {"write"}, 1),
   crash  |-> Case(OfferedToTwo, 2, {"crash", "write"}, 2),
   faults |-> Case(OfferedToTwo, 2, AllKinds, 2),
   chain  |-> Case(OfferedToChain, 6, {}, 0)]

Ledger(c) == INSTANCE SpatialLedger WITH
  Offered <- c.offered, MaxLength <- c.length, Faults <- c.kinds, MaxFaults <- c.most

-----------------------------------------------------------------------------
(* Builds: three workers, two of which may die, one build of one composition. *)

Workers == {w1, w2, w3}

Builds == INSTANCE SpatialBuild WITH
  Composition <- {}, Build <- BuildKeys, Scope <- ScopeKeys, MaxAttempts <- 1,
  Worker <- Workers, Request <- {q1, q2}, Material <- {t1}, NoBuild <- nobuild,
  ScopeOf <- [b \in BuildKeys |-> s1], MaxCrashes <- 2, pc <- workerPc

ASSUME Builds!BuildAssumption /\ Log!AttemptBound /\ Log!FamiliesApart

-----------------------------------------------------------------------------
MCInit == Init /\ Builds!Init /\ part \in DOMAIN Cases \cup {"build"}

MCNext ==
  /\ UNCHANGED part
  /\ \/ /\ \E c \in DOMAIN Cases : part = c /\ Ledger(Cases[c])!Next
        /\ UNCHANGED buildVars
     \/ /\ part = "build" /\ Builds!Next
        /\ UNCHANGED vars

\* A call runs on; adapters answer.
Works(w) == part = "build" /\ Builds!Work(w) /\ UNCHANGED <<part, vars>>

MCSpec ==
  /\ MCInit /\ [][MCNext]_<<vars, buildVars, part>>
  /\ \A w \in Workers : WF_<<vars, buildVars, part>>(Works(w))

-----------------------------------------------------------------------------
\* Where no process dies and no sync fails, the directory can always be opened; where
\* syncs do not fail, a reader of the index finds what it names; a directory that is
\* found damaged is left as it is; and over the whole history of a build, quota for which
\* an attempt was committed is never recorded as given back.
DirectoryKept ==
  /\ [](/\ part \in {"shared", "chain"} => Loadable
        /\ part # "faults" => RecordsFirst
        /\ part = "chain" => AttemptsNotReleased)
  /\ DamageFrozen

\* SpatialBuild: workers that die or are asked twice call nothing twice, nothing that
\* was not announced.
CalledOnce == Builds!TypeOK /\ Builds!CalledOnce /\ Builds!Announced

\* SpatialBuild: a build that says it is settled left nothing open outside.
SettledMeansSettled == Builds!SettledMeansSettled

\* SpatialBuild implements ReceiptLog, and no outcome is refused by its rules.
KeepsReceiptLog == Builds!KeepsReceiptLog /\ []Builds!Recordable

\* SpatialBuild: every build concludes unless a worker died.
Concludes == Builds!Concludes
=============================================================================
