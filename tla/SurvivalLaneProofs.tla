------------------------- MODULE SurvivalLaneProofs -------------------------
(* What SurvivalLane keeps for any number of requests, keys, backends and   *)
(* slots, and what one slot gives on top of that.                           *)
EXTENDS SurvivalLane, FiniteSetTheorems, TLAPS

\* A request that calls is not past the end of its route.
OnRoute == \A r \in Request : at[r] = "call" => next[r] \in 1..Len(Order)

\* The invariant that holds for any number of slots.
IInv == TypeOK /\ OnRoute /\ SlotsHeld

\* Nobody else has a slot.
Alone == \A r, s \in Holders : r = s

\* A backend that is to be left alone is on cooldown for that long.
Resting == \A b \in Backend : quiet[b] <= now \/ quiet[b] <= cooldown[b]

\* Who calls such a backend was there when it asked for the challenge.
BesideIt ==
  \A r \in Request :
    at[r] = "call" => quiet[backend(r)] <= now \/ r \in beside[backend(r)]

RestInv == IInv /\ Resting /\ BesideIt

\* Whoever chooses a backend or calls it found no answer, and there still is none.
Unanswered == \A r \in Request : at[r] \in {"route", "call"} => ~Live(KeyOf[r])

\* The invariant that one slot gives.
OneInv == IInv /\ Unanswered

-----------------------------------------------------------------------------
(* Types and slots *)

LEMMA InitInv == Init => IInv
<1> SUFFICES ASSUME Init PROVE IInv
  OBVIOUS
<1>1. TypeOK
  <2>1. Len(Order) \in Nat
    BY SurvivalAssumption
  <2> QED BY <2>1, SurvivalAssumption DEF Init, TypeOK, Places
<1>2. OnRoute
  BY DEF Init, OnRoute
<1>3. Holders = {}
  BY DEF Init, Holders, Holding
<1> QED BY <1>1, <1>2, <1>3, FS_EmptySet DEF IInv, SlotsHeld, Init

\* The constants as numbers.
LEMMA Numbers ==
  /\ QueueTimeout \in Nat /\ CacheTtl \in Nat
  /\ ChallengeCooldown \in Nat /\ UnavailableCooldown \in Nat
  /\ MaxActive \in Nat /\ MaxTime \in Nat /\ Len(Order) \in Nat
  /\ \A code \in DOMAIN Until : Until[code] \in Nat
  /\ Until["unavailable"] \in Nat
<1>1. Len(Order) \in Nat
  BY SurvivalAssumption
<1>2. {QueueTimeout, CacheTtl, ChallengeCooldown, UnavailableCooldown} \subseteq Nat
      /\ {MaxActive, MaxTime} \subseteq Nat
  BY SurvivalAssumption
<1> QED BY <1>1, <1>2 DEF Until

LEMMA TypeStep == ASSUME IInv, [Next]_vars PROVE TypeOK' /\ OnRoute'
<1> USE Numbers DEF IInv
<1>0. now \in Nat /\ \A n \in Nat : now + n \in Nat
  BY DEF TypeOK
<1>a. ASSUME NEW r \in Request, at[r] = "call" PROVE next[r] + 1 \in 1..Len(Order) + 1
  BY <1>a DEF OnRoute
<1>b. ASSUME NEW r \in Request, NEW code \in DOMAIN Until, Noted(r, code)
      PROVE  quiet' \in [Backend -> Nat] /\ beside' \in [Backend -> SUBSET Request]
  <2> DEFINE b == backend(r)
             others == {s \in Request \ {r} : at[s] = "call" /\ backend(s) = b}
  <2>1. quiet \in [Backend -> Nat] /\ beside \in [Backend -> SUBSET Request]
    BY DEF TypeOK
  <2>2. others \in SUBSET Request /\ now + ChallengeCooldown \in Nat
    BY <1>0
  <2>3. ASSUME NEW until \in Nat, NEW who \in SUBSET Request, Quieten(b, until, who)
        PROVE  quiet' \in [Backend -> Nat] /\ beside' \in [Backend -> SUBSET Request]
    <3> HIDE DEF b
    <3> QED BY <2>1, <2>3 DEF Quieten
  <2>4. \/ Quieten(b, now + ChallengeCooldown, others)
        \/ Quieten(b, 0, {})
        \/ UNCHANGED <<quiet, beside>>
    BY <1>b DEF Noted
  <2> HIDE DEF b, others
  <2>5. 0 \in Nat /\ {} \in SUBSET Request
    OBVIOUS
  <2> QED BY <2>1, <2>2, <2>3, <2>4, <2>5
<1>c. "unavailable" \in DOMAIN Until
  BY DEF Until
<1>1. CASE Tick
  BY <1>1 DEF Tick, TypeOK, OnRoute
<1>2. ASSUME NEW r \in Request, Begin(r) PROVE TypeOK' /\ OnRoute'
  <2>1. TypeOK'
    BY <1>0, <1>2 DEF Begin, Goto, TypeOK, Places
  <2>2. OnRoute'
    BY <1>2 DEF Begin, Goto, TypeOK, OnRoute
  <2> QED BY <2>1, <2>2
<1>3. ASSUME NEW r \in Request, Enter(r) PROVE TypeOK' /\ OnRoute'
  <2>1. TypeOK'
    BY <1>3 DEF Enter, Busy, Goto, TypeOK, Places
  <2>2. OnRoute'
    BY <1>3 DEF Enter, Busy, Goto, TypeOK, OnRoute
  <2> QED BY <2>1, <2>2
<1>4. ASSUME NEW r \in Request, GiveUp(r) PROVE TypeOK' /\ OnRoute'
  <2>1. TypeOK'
    BY <1>4 DEF GiveUp, Goto, TypeOK, Places
  <2>2. OnRoute'
    BY <1>4 DEF GiveUp, Goto, TypeOK, OnRoute
  <2> QED BY <2>1, <2>2
<1>5. ASSUME NEW r \in Request, Look(r) PROVE TypeOK' /\ OnRoute'
  <2>1. TypeOK'
    BY <1>5 DEF Look, Goto, TypeOK, Places
  <2>2. OnRoute'
    BY <1>5 DEF Look, Goto, TypeOK, OnRoute
  <2> QED BY <2>1, <2>2
<1>6. ASSUME NEW r \in Request, NoBackend(r) \/ Raises(r) PROVE TypeOK' /\ OnRoute'
  <2>1. TypeOK'
    BY <1>6 DEF NoBackend, Raises, Goto, TypeOK, Places
  <2>2. OnRoute'
    BY <1>6 DEF NoBackend, Raises, Goto, TypeOK, OnRoute
  <2> QED BY <2>1, <2>2
<1>7. ASSUME NEW r \in Request, Skip(r) PROVE TypeOK' /\ OnRoute'
  <2>1. TypeOK'
    BY <1>7 DEF Skip, Advance, TypeOK, Places
  <2>2. OnRoute'
    BY <1>7 DEF Skip, Advance, TypeOK, OnRoute
  <2> QED BY <2>1, <2>2
<1>8. ASSUME NEW r \in Request, Ask(r) PROVE TypeOK' /\ OnRoute'
  <2>1. TypeOK'
    BY <1>8 DEF Ask, Goto, TypeOK, Places
  <2>2. OnRoute'
    BY <1>8 DEF Ask, Goto, TypeOK, OnRoute
  <2> QED BY <2>1, <2>2
<1>9. ASSUME NEW r \in Request, Store(r) PROVE TypeOK' /\ OnRoute'
  <2>1. TypeOK'
    BY <1>0, <1>9 DEF Store, Goto, TypeOK, Places
  <2>2. OnRoute'
    BY <1>9 DEF Store, Goto, TypeOK, OnRoute
  <2> QED BY <2>1, <2>2
<1>10. ASSUME NEW r \in Request, Leave(r) PROVE TypeOK' /\ OnRoute'
  <2>1. TypeOK'
    BY <1>10 DEF Leave, Goto, TypeOK, Places
  <2>2. OnRoute'
    BY <1>10 DEF Leave, Goto, TypeOK, OnRoute
  <2> QED BY <2>1, <2>2
<1>11. ASSUME NEW r \in Request, Answers(r) PROVE TypeOK' /\ OnRoute'
  <2>1. TypeOK'
    BY <1>11 DEF Answers, Quieten, Goto, TypeOK, Places
  <2>2. OnRoute'
    BY <1>11 DEF Answers, Goto, TypeOK, OnRoute
  <2> QED BY <2>1, <2>2
<1>12. ASSUME NEW r \in Request, Empty(r) PROVE TypeOK' /\ OnRoute'
  <2>1. TypeOK'
    BY <1>a, <1>12 DEF Empty, Advance, Goto, TypeOK, Places
  <2>2. OnRoute'
    BY <1>a, <1>12 DEF Empty, Advance, Goto, TypeOK, OnRoute
  <2> QED BY <2>1, <2>2
<1>13. ASSUME NEW r \in Request, NEW code \in DOMAIN Until, Fails(r, code) PROVE TypeOK' /\ OnRoute'
  <2>1. TypeOK'
    BY <1>0, <1>a, <1>b, <1>13 DEF Fails, Recorded, Advance, Goto, TypeOK, Places
  <2>2. OnRoute'
    BY <1>13 DEF Fails, Recorded, Advance, Goto, TypeOK, OnRoute
  <2> QED BY <2>1, <2>2
<1>14. ASSUME NEW r \in Request, NoBinding(r) PROVE TypeOK' /\ OnRoute'
  <2>1. TypeOK'
    BY <1>0, <1>a, <1>b, <1>c, <1>14 DEF NoBinding, Recorded, Advance, Goto, TypeOK, Places
  <2>2. OnRoute'
    BY <1>14 DEF NoBinding, Recorded, Advance, Goto, TypeOK, OnRoute
  <2> QED BY <2>1, <2>2
<1>15. CASE UNCHANGED vars
  BY <1>15 DEF vars, TypeOK, OnRoute
<1> QED
  BY <1>1, <1>2, <1>3, <1>4, <1>5, <1>6, <1>7, <1>8, <1>9, <1>10, <1>11, <1>12, <1>13, <1>14, <1>15
  DEF Next, RunOn, Return

\* Every step leaves the holders and their number alone, or adds or takes away one of
\* each.
LEMMA HoldersStep ==
  ASSUME IInv, [Next]_vars
  PROVE  \/ Holders' = Holders /\ active' = active
         \/ \E r \in Request \ Holders :
              Holders' = Holders \cup {r} /\ active' = active + 1 /\ active < MaxActive
         \/ \E r \in Holders :
              Holders' = Holders \ {r} /\ active' = (IF active > 0 THEN active - 1 ELSE active)
<1> USE DEF IInv, Holders, Holding
<1>1. CASE Tick \/ UNCHANGED vars
  BY <1>1 DEF Tick, vars
<1>2. ASSUME NEW r \in Request, Enter(r)
      PROVE  /\ r \in Request \ Holders /\ Holders' = Holders \cup {r}
             /\ active' = active + 1 /\ active < MaxActive
  BY <1>2, SurvivalAssumption DEF Enter, Busy, Goto, TypeOK
<1>3. ASSUME NEW r \in Request, Leave(r)
      PROVE  /\ r \in Holders /\ Holders' = Holders \ {r}
             /\ active' = (IF active > 0 THEN active - 1 ELSE active)
  BY <1>3 DEF Leave, Goto, TypeOK
<1>4. ASSUME NEW r \in Request, Begin(r) \/ GiveUp(r) PROVE Holders' = Holders /\ active' = active
  BY <1>4 DEF Begin, GiveUp, Goto, TypeOK
<1>5. ASSUME NEW r \in Request, Look(r) \/ Skip(r) \/ Ask(r) \/ NoBackend(r) \/ Store(r)
      PROVE  Holders' = Holders /\ active' = active
  BY <1>5 DEF Look, Skip, Ask, NoBackend, Store, Goto, TypeOK
<1>6. ASSUME NEW r \in Request, Return(r) PROVE Holders' = Holders /\ active' = active
  BY <1>6 DEF Return, NoBinding, Fails, Empty, Answers, Raises, Goto, TypeOK
<1> QED BY <1>1, <1>2, <1>3, <1>4, <1>5, <1>6 DEF Next, RunOn

LEMMA HoldersFinite == IsFiniteSet(Holders)
<1>1. Holders \in SUBSET Request
  BY DEF Holders
<1> QED BY <1>1, FS_Subset, SurvivalAssumption

LEMMA StepInv == IInv /\ [Next]_vars => IInv'
<1> SUFFICES ASSUME IInv, [Next]_vars PROVE SlotsHeld'
  BY TypeStep DEF IInv
<1>1. IsFiniteSet(Holders)
  BY HoldersFinite
<1>2. active = Cardinality(Holders) /\ active \in Nat
  BY SurvivalAssumption DEF IInv, SlotsHeld, TypeOK
<1>3. CASE Holders' = Holders /\ active' = active
  BY <1>2, <1>3 DEF SlotsHeld
<1>4. ASSUME NEW r \in Request \ Holders, Holders' = Holders \cup {r}, active' = active + 1
      PROVE  SlotsHeld'
  <2>1. Cardinality(Holders \cup {r}) = Cardinality(Holders) + 1
    BY <1>1, FS_AddElement
  <2> QED BY <1>2, <1>4, <2>1 DEF SlotsHeld
<1>5. ASSUME NEW r \in Holders, Holders' = Holders \ {r},
             active' = (IF active > 0 THEN active - 1 ELSE active)
      PROVE  SlotsHeld'
  <2>1. Cardinality(Holders \ {r}) = Cardinality(Holders) - 1
    BY <1>1, FS_RemoveElement
  <2>2. Cardinality(Holders) # 0
    BY <1>1, FS_EmptySet
  <2> QED BY <1>2, <1>5, <2>1, <2>2 DEF SlotsHeld
<1> QED BY <1>3, <1>4, <1>5, HoldersStep

\* Types, and a counter of active requests that never exceeds the limit.
THEOREM TypeCorrect == Spec => []TypeOK
<1>1. Spec => []IInv
  BY InitInv, StepInv, PTL DEF Spec
<1>2. IInv => TypeOK
  BY DEF IInv
<1> QED BY <1>1, <1>2, PTL

\* The counter is the number of requests that hold a slot, however they leave.
THEOREM SlotsCounted == Spec => []SlotsHeld
<1>1. Spec => []IInv
  BY InitInv, StepInv, PTL DEF Spec
<1>2. IInv => SlotsHeld
  BY DEF IInv
<1> QED BY <1>1, <1>2, PTL

-----------------------------------------------------------------------------
(* Cooldowns *)

LEMMA RestInit == Init => RestInv
<1> SUFFICES ASSUME Init PROVE Resting /\ BesideIt
  BY InitInv DEF RestInv
<1> QED BY DEF Init, Resting, BesideIt

\* What a call notes of its backend when that fails with one of the codes.
LEMMA FailureNoted ==
  ASSUME RestInv, NEW r \in Request, NEW code \in DOMAIN Until, at[r] = "call",
         Recorded(backend(r), code), Noted(r, code), next' = [next EXCEPT ![r] = @ + 1],
         at' = [at EXCEPT ![r] = "route"], now' = now
  PROVE  Resting' /\ BesideIt'
<1> DEFINE b == backend(r)
<1>1. b \in Backend /\ (quiet[b] <= now \/ r \in beside[b])
  <2>1. backend(r) \in Backend
    BY SurvivalAssumption DEF RestInv, IInv, OnRoute, backend
  <2>2. quiet[backend(r)] <= now \/ r \in beside[backend(r)]
    BY DEF RestInv, BesideIt
  <2> QED BY <2>1, <2>2
<1>2. Until[code] \in Nat /\ (code = "challenge" => Until[code] = ChallengeCooldown)
      /\ ChallengeCooldown \in Nat
  BY Numbers DEF Until
<1>3. now \in Nat /\ cooldown \in [Backend -> Nat] /\ quiet \in [Backend -> Nat]
      /\ beside \in [Backend -> SUBSET Request] /\ at \in [Request -> Places]
      /\ next \in [Request -> 1..Len(Order) + 1]
  BY Numbers DEF RestInv, IInv, TypeOK
<1>4. ASSUME NEW s \in Request, at'[s] = "call"
      PROVE  s # r /\ at[s] = "call" /\ backend(s)' = backend(s) /\ backend(s) \in Backend
             /\ (quiet[backend(s)] <= now \/ s \in beside[backend(s)])
  <2>1. s # r /\ at[s] = "call" /\ next'[s] = next[s]
    BY <1>3, <1>4
  <2> QED BY <2>1, SurvivalAssumption DEF RestInv, IInv, OnRoute, backend, BesideIt
<1>5. cooldown' = [cooldown EXCEPT ![b] = now + Until[code]]
  BY DEF Recorded
<1>6. CASE code = "challenge"
  <2>1. quiet' = [quiet EXCEPT ![b] = now + ChallengeCooldown]
        /\ beside' = [beside EXCEPT ![b] =
                        {s \in Request \ {r} : at[s] = "call" /\ backend(s) = b}]
    BY <1>6 DEF Noted, Quieten
  <2>2. Resting'
    BY <1>1, <1>2, <1>3, <1>5, <1>6, <2>1 DEF RestInv, Resting
  <2>3. BesideIt'
    BY <1>1, <1>3, <1>4, <2>1 DEF BesideIt
  <2> QED BY <2>2, <2>3
<1>7. CASE code # "challenge" /\ r \in beside[b]
  <2>1. quiet' = [quiet EXCEPT ![b] = 0] /\ beside' = [beside EXCEPT ![b] = {}]
    BY <1>7 DEF Noted, Quieten
  <2>2. Resting'
    BY <1>1, <1>3, <1>5, <2>1 DEF RestInv, Resting
  <2>3. BesideIt'
    BY <1>1, <1>3, <1>4, <2>1 DEF BesideIt
  <2> QED BY <2>2, <2>3
<1>8. CASE code # "challenge" /\ r \notin beside[b]
  <2>1. quiet' = quiet /\ beside' = beside
    BY <1>8 DEF Noted
  <2>2. Resting'
    BY <1>1, <1>3, <1>5, <1>8, <2>1 DEF RestInv, Resting
  <2>3. BesideIt'
    BY <1>3, <1>4, <2>1 DEF BesideIt
  <2> QED BY <2>2, <2>3
<1> QED BY <1>6, <1>7, <1>8

LEMMA RestStep == ASSUME RestInv, [Next]_vars PROVE RestInv'
<1>1. IInv'
  BY StepInv DEF RestInv
<1> USE SurvivalAssumption DEF RestInv, IInv
<1>2. \A r \in Request : at[r] = "call" => backend(r) \in Backend
  BY DEF backend, OnRoute
<1>3. CASE Tick
  <2>1. now \in Nat /\ now' = now + 1 /\ quiet \in [Backend -> Nat]
    BY <1>3 DEF Tick, TypeOK
  <2>2. Resting'
    BY <1>3, <2>1 DEF Tick, Resting
  <2>3. BesideIt'
    BY <1>2, <1>3, <2>1 DEF Tick, BesideIt, backend
  <2> QED BY <1>1, <2>2, <2>3
<1>4. CASE UNCHANGED vars
  BY <1>1, <1>4 DEF vars, Resting, BesideIt, backend
<1>5. ASSUME NEW r \in Request,
             \/ Begin(r) \/ Enter(r) \/ GiveUp(r) \/ Look(r) \/ NoBackend(r)
             \/ Raises(r) \/ Store(r) \/ Leave(r)
      PROVE  Resting' /\ BesideIt'
  <2>1. UNCHANGED <<now, cooldown, quiet, beside>>
    BY <1>5 DEF Begin, Enter, GiveUp, Look, NoBackend, Raises, Store, Leave
  <2>2. \A s \in Request : at'[s] = "call" => at[s] = "call" /\ next'[s] = next[s]
    BY <1>5 DEF Begin, Enter, GiveUp, Look, NoBackend, Raises, Store, Leave, Goto, TypeOK
  <2> QED BY <2>1, <2>2 DEF Resting, BesideIt, backend
<1>6. ASSUME NEW r \in Request, Skip(r) \/ Empty(r) PROVE Resting' /\ BesideIt'
  <2>1. UNCHANGED <<now, cooldown, quiet, beside>>
    BY <1>6 DEF Skip, Empty
  <2>2. \A s \in Request : at'[s] = "call" => at[s] = "call" /\ next'[s] = next[s]
    BY <1>6 DEF Skip, Empty, Advance, Goto, TypeOK
  <2> QED BY <2>1, <2>2 DEF Resting, BesideIt, backend
<1>7. ASSUME NEW r \in Request, Ask(r) PROVE Resting' /\ BesideIt'
  <2>1. backend(r) \in Backend
    BY <1>7, Numbers DEF Ask, TypeOK, backend
  <2>2. quiet[backend(r)] <= now
    BY <1>7, <2>1 DEF Ask, Cooling, Resting, TypeOK
  <2> QED BY <1>7, <2>2 DEF Ask, Goto, Resting, BesideIt, backend, TypeOK
<1>8. ASSUME NEW r \in Request, NEW code \in DOMAIN Until, Fails(r, code)
      PROVE  Resting' /\ BesideIt'
  BY <1>8, FailureNoted DEF Fails, Advance, Goto
<1>9. ASSUME NEW r \in Request, NoBinding(r) PROVE Resting' /\ BesideIt'
  <2>1. "unavailable" \in DOMAIN Until
    BY DEF Until
  <2> QED BY <1>9, <2>1, FailureNoted DEF NoBinding, Advance, Goto
<1>10. ASSUME NEW r \in Request, Answers(r) PROVE Resting' /\ BesideIt'
  BY <1>2, <1>10 DEF Answers, Quieten, Goto, Resting, BesideIt, backend, TypeOK
<1> QED
  BY <1>1, <1>3, <1>4, <1>5, <1>6, <1>7, <1>8, <1>9, <1>10 DEF Next, RunOn, Return

\* A challenged backend rests for its whole cooldown, unless it answers or fails somebody
\* who was there already: for any number of requests, slots and backends.
THEOREM ChallengedRests == Spec => CooldownKept
<1> DEFINE Rule == \A r \in Request : at[r] = "route" /\ at'[r] = "call" => quiet[backend(r)] <= now
<1>1. Spec => []RestInv
  BY RestInit, RestStep, PTL DEF Spec
<1>2. RestInv /\ [Next]_vars => [Rule]_vars
  <2> SUFFICES ASSUME RestInv, Next, NEW r \in Request, at[r] = "route", at'[r] = "call"
               PROVE  quiet[backend(r)] <= now
    OBVIOUS
  <2>1. Ask(r)
    BY DEF Next, Tick, RunOn, Return, Begin, Enter, GiveUp, Look, Skip, Ask, NoBackend, Store, Leave,
           NoBinding, Fails, Empty, Answers, Raises, Goto, RestInv, IInv, TypeOK
  <2>2. backend(r) \in Backend
    BY <2>1, SurvivalAssumption DEF Ask, backend, RestInv, IInv, TypeOK
  <2> QED BY <2>1, <2>2, SurvivalAssumption DEF Ask, Cooling, RestInv, IInv, TypeOK, Resting
<1> QED BY <1>1, <1>2, PTL DEF Spec, CooldownKept

-----------------------------------------------------------------------------
(* One slot *)

LEMMA AloneWithOneSlot == ASSUME MaxActive = 1, IInv PROVE Alone
<1> SUFFICES ASSUME NEW r \in Holders, NEW s \in Holders, r # s PROVE FALSE
  BY DEF Alone
<1>1. {r, s} \in SUBSET Holders /\ IsFiniteSet(Holders)
  BY HoldersFinite
<1>2. Cardinality({r, s}) <= Cardinality(Holders)
  BY <1>1, FS_Subset
<1>3. Cardinality({r} \cup {s}) = Cardinality({r}) + 1
  <2>1. s \notin {r} /\ IsFiniteSet({r})
    BY FS_Singleton
  <2> QED BY <2>1, FS_AddElement
<1>4. Cardinality({r, s}) = 2
  <2>1. {r, s} = {r} \cup {s}
    OBVIOUS
  <2>2. Cardinality({r}) = 1
    BY FS_Singleton
  <2> QED BY <1>3, <2>1, <2>2
<1>5. Cardinality(Holders) \in 0..1
  BY DEF IInv, SlotsHeld, TypeOK
<1> QED BY <1>2, <1>4, <1>5

LEMMA OneInit == Init => OneInv
BY InitInv DEF Init, OneInv, Unanswered

\* What a holder does while nobody else holds a slot.
LEMMA OneStep == ASSUME MaxActive = 1, OneInv, [Next]_vars PROVE OneInv'
<1>1. IInv' /\ Alone
  BY StepInv, AloneWithOneSlot DEF OneInv
<1> USE SurvivalAssumption DEF OneInv, IInv
<1>2. CASE Tick
  <2>1. now \in Nat /\ now' = now + 1 /\ cache \in [Key -> Nat]
    BY <1>2 DEF Tick, TypeOK
  <2> QED BY <1>1, <1>2, <2>1 DEF Tick, Unanswered, Live
<1>3. CASE UNCHANGED vars
  BY <1>1, <1>3 DEF vars, Unanswered, Live
<1>4. ASSUME NEW r \in Request,
             Begin(r) \/ Enter(r) \/ GiveUp(r) \/ NoBackend(r) \/ Raises(r) \/ Leave(r)
      PROVE  Unanswered'
  BY <1>4 DEF Begin, Enter, GiveUp, NoBackend, Raises, Leave, Goto, Unanswered, Live, TypeOK
<1>5. ASSUME NEW r \in Request, Look(r) \/ Skip(r) \/ Empty(r) \/ Ask(r) PROVE Unanswered'
  BY <1>5 DEF Look, Skip, Empty, Ask, Advance, Goto, Unanswered, Live, TypeOK
<1>6. ASSUME NEW r \in Request, NEW code \in DOMAIN Until,
             Fails(r, code) \/ NoBinding(r) \/ Answers(r)
      PROVE  Unanswered'
  BY <1>6 DEF Fails, NoBinding, Answers, Goto, Unanswered, Live, TypeOK
<1>7. ASSUME NEW r \in Request, Store(r) PROVE Unanswered'
  <2>1. \A s \in Request : at[s] \notin {"route", "call"}
    BY <1>1, <1>7 DEF Store, Alone, Holders, Holding
  <2> QED BY <1>7, <2>1 DEF Store, Goto, Unanswered, TypeOK
<1>8. "challenge" \in DOMAIN Until
  BY DEF Until
<1> QED BY <1>1, <1>2, <1>3, <1>4, <1>5, <1>6, <1>7, <1>8 DEF Next, RunOn, Return

\* With one slot a backend is never asked what is already answered in the cache.
THEOREM AnsweredNotAsked == ASSUME MaxActive = 1 PROVE Spec => AskedOnce
<1> DEFINE Rule == \A r \in Request : at[r] = "route" /\ at'[r] = "call" => ~Live(KeyOf[r])
<1>1. Spec => []OneInv
  BY OneInit, OneStep, PTL DEF Spec
<1>2. OneInv /\ [Next]_vars => [Rule]_vars
  BY DEF OneInv, Unanswered
<1> QED BY <1>1, <1>2, PTL DEF Spec, AskedOnce
=============================================================================
