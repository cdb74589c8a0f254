------------------------------ MODULE MCOutbound ------------------------------
(***************************************************************************)
(* What leaves for other people: instances of DeliveryOutbox and of        *)
(* EmailGuard.  `part` says which of them a behaviour is of; it never      *)
(* changes, and the variables of the other component keep their initial    *)
(* values.                                                                 *)
(***************************************************************************)
EXTENDS DeliveryOutbox, Sequences, TLC

CONSTANTS d3, e1, e2, w1, k1, g1, g2, m1, m2, none

VARIABLES
  part,
  entries, torn, sender, attempts, now, crashes  \* EmailGuard

guardVars == <<entries, torn, sender, attempts, now, crashes>>

Mailers == {m1, m2}
Repeated == {e1, e2}
Pair == {g1, g2}

\* None of these has a name the code goes by.
Alike == Permutations(Mailers) \cup Permutations(Repeated) \cup Permutations(Pair)

-----------------------------------------------------------------------------
(* DeliveryOutbox: a call that sends its row itself, two calls with one key, and one *)
(* scheduler.                                                                        *)

Calls == Repeated \cup {d3}
Keys == {k1}
Schedulers == {w1}
SendsItself == {d3}
KeyOfCall == e1 :> k1 @@ e2 :> k1 @@ d3 :> none

\* Two calls with one key, which may be deferred, and a row of another channel in the
\* list.
Repeats == INSTANCE DeliveryOutbox WITH
  Drained <- Repeated, MaxSends <- 1, MaxMarks <- 0, MaxDeferrals <- 1

\* Of the two calls with one key only one is made: the proactive sender beside the
\* scheduler and the API's marks.
Senders == Next /\ \E c \in Repeated : at'[c] = "start"

\* One key; the provider may ask to wait; two ticks to the second.  The clock runs half
\* as long again as a window: attempts are pruned and others take their place.
Guard == INSTANCE EmailGuard WITH
  Key <- {k1}, Sender <- Mailers, NoKey <- none, PerSecond <- 2,
  Cooldown <- 2, FailureCooldown <- 1, Window <- 3, MaxPerWindow <- 2, MaxKeys <- 1,
  RetryAfters <- {2}, MaxWait <- 1, MaxTime <- 9, MaxCrashes <- 1, WritesDie <- FALSE,
  history <- attempts

\* Two keys in a file that keeps one, and may be cut off; the window passes here too.
Worn == INSTANCE EmailGuard WITH
  Key <- Pair, Sender <- Mailers, NoKey <- none, PerSecond <- 2,
  Cooldown <- 2, FailureCooldown <- 1, Window <- 2, MaxPerWindow <- 2, MaxKeys <- 1,
  RetryAfters <- {}, MaxWait <- 1, MaxTime <- 6, MaxCrashes <- 1, WritesDie <- TRUE,
  history <- attempts

ASSUME OutboxAssumption /\ Repeats!OutboxAssumption
ASSUME Guard!GuardAssumption /\ Worn!GuardAssumption

-----------------------------------------------------------------------------
MCInit ==
  /\ Init
  /\ \/ part \in {"repeats", "senders", "guard"} /\ Guard!Init
     \/ part = "worn" /\ Worn!Init

MCNext ==
  /\ UNCHANGED part
  /\ \/ /\ \/ part = "repeats" /\ Repeats!Next
           \/ part = "senders" /\ Senders
        /\ UNCHANGED guardVars
     \/ /\ \/ part = "guard" /\ Guard!Next
           \/ part = "worn" /\ Worn!Next
        /\ UNCHANGED vars

MCSpec == MCInit /\ [][MCNext]_<<vars, guardVars, part>>

\* The attempts that were made decide nothing, and their number grows with the clock.
\* The properties of the worn file do not look at them.  Those of "guard" say of each new
\* attempt how far it is from those of the window before it: of older ones, and of how an
\* attempt ended but for a failure, the view knows nothing.
Lately(t) ==
  LET fresh == SelectSeq(attempts[k1], LAMBDA a : a.at + 6 >= t) IN
  [n \in DOMAIN fresh |->
     <<fresh[n].at, fresh[n].status = "failed",
       IF fresh[n].status = "started" THEN fresh[n].by ELSE none>>]

Distinct ==
  CASE part = "worn"  -> <<part, entries, torn, sender, now, crashes>>
    [] part = "guard" -> <<part, entries, torn, sender, now, crashes, Lately(now)>>
    [] OTHER          -> <<part, vars>>

-----------------------------------------------------------------------------
\* EmailGuard: no window holds more attempts than the policy allows, and two attempts
\* begin a cooldown apart.
WindowBudget == part = "guard" => Guard!TypeOK /\ Guard!WindowBudget /\ Guard!Apart

\* EmailGuard: a summary that says "clear" means that nobody would be refused, and the
\* file keeps attempts in the order of their times, also when it is too small or cut.
ClearMeansFree == part = "worn" => Worn!ClearMeansFree /\ Worn!InOrder
=============================================================================
