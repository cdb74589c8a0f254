------------------------------ MODULE EmailGuard ------------------------------
(***************************************************************************)
(* services/outbound_email_bounds.py: how often mail of one kind may go to *)
(* one recipient.  bounded_outbound_email reserves an attempt, lets the    *)
(* mail be sent, and records how that went; reservations and outcomes are  *)
(* written into one JSON file under an flock, shared by every process.     *)
(* A key is a kind with a recipient; all keys here are of one policy.      *)
(* The clock ticks PerSecond times a second: waits are cut to whole        *)
(* seconds.  A sender reads the clock before it has the lock.              *)
(***************************************************************************)
EXTENDS Naturals, Sequences, FiniteSets, SequencesExt

CONSTANTS
  Key,
  Sender,
  NoKey,
  PerSecond,        \* ticks of the clock in a second
  Cooldown,         \* cooldown_seconds
  FailureCooldown,  \* EA_OUTBOUND_EMAIL_FAILURE_COOLDOWN_SECONDS
  Window,           \* window_seconds
  MaxPerWindow,
  MaxKeys,          \* EA_OUTBOUND_EMAIL_GUARD_MAX_KEYS
  RetryAfters,      \* the seconds a provider may ask to wait; 0 asks nothing
  MaxWait,          \* bound on the ticks a sender waits for the lock
  MaxTime,          \* bound on the clock
  MaxCrashes,       \* bound on deaths of senders
  WritesDie         \* whether one may die while it writes the file

GuardAssumption ==
  /\ PerSecond \in Nat \ {0} /\ Cooldown \in Nat \ {0} /\ FailureCooldown \in Nat \ {0}
  /\ Window \in Nat \ {0} /\ MaxPerWindow \in Nat \ {0} /\ MaxKeys \in Nat \ {0}
  /\ RetryAfters \subseteq Nat /\ MaxWait \in Nat /\ MaxTime \in Nat /\ MaxCrashes \in Nat
  /\ WritesDie \in BOOLEAN

VARIABLES
  entries,  \* per key: its attempts in the file, [by, at, status, done, retry]
  torn,     \* whether the file is cut off, and no longer JSON
  sender,   \* per sender: [at, key, read]
  history,  \* per key: every attempt that was made, [by, at, status, until]
  now,
  crashes

vars == <<entries, torn, sender, history, now, crashes>>

Statuses == {"started", "sent", "failed"}
Idle == [at |-> "idle", key |-> NoKey, read |-> 0]

Init ==
  /\ entries = [k \in Key |-> <<>>]
  /\ torn = FALSE
  /\ sender = [s \in Sender |-> Idle]
  /\ history = [k \in Key |-> <<>>]
  /\ now = 0
  /\ crashes = 0

Least(a, b) == IF a < b THEN a ELSE b
Most(a, b) == IF a < b THEN b ELSE a

\* _attempt_cooldown_seconds, in ticks.
CooldownOf(a) ==
  PerSecond * IF a.status = "failed"
              THEN Least(Window, Most(Least(FailureCooldown, Cooldown), a.retry))
              ELSE Cooldown

\* Mutant of Recent: an attempt at the very beginning of the window is forgotten.
RecentExclusive(attempts, t) ==
  SelectSeq(attempts, LAMBDA a : a.at + PerSecond * Window > t)

\* _prune_attempts: those of the window that ends at t.
Recent(attempts, t) ==
  LET kept == {n \in DOMAIN attempts : attempts[n].at + PerSecond * Window >= t} IN
  [n \in 1..Cardinality(kept) |->
     attempts[CHOOSE i \in kept : Cardinality({j \in kept : j <= i}) = n]]

\* Mutant of Activity: a mail that is on its way does not count.
ActivityFinished(a) == a.done

\* _attempt_timestamp.
Activity(a) == IF a.done > 0 THEN a.done ELSE a.at
\* _entry_last_activity.
LastActivity(attempts) ==
  CHOOSE t \in {Activity(attempts[n]) : n \in DOMAIN attempts} :
    \A n \in DOMAIN attempts : Activity(attempts[n]) <= t

\* _prune_entries: what may be left of the entries e when the lock is taken or given
\* back.  Of too many keys the least active go; which of two equals goes is a matter
\* of their names.
Pruned(e) ==
  LET recent == [k \in Key |-> Recent(e[k], now)]
      live == {k \in Key : recent[k] # <<>>}
  IN {[k \in Key |-> IF k \in kept THEN recent[k] ELSE <<>>] :
        kept \in {K \in SUBSET live :
                    /\ Cardinality(K) = Least(MaxKeys, Cardinality(live))
                    /\ \A k \in K, d \in live \ K :
                         LastActivity(recent[d]) <= LastActivity(recent[k])}}

\* What is left of the cooldown of the newest attempt, cut to whole seconds, is not 0.
CoolingDown(attempts, t) ==
  attempts # <<>> /\ Last(attempts).at + CooldownOf(Last(attempts)) >= t + PerSecond

Exhausted(attempts) == Len(attempts) >= MaxPerWindow

Refused(attempts, t) == CoolingDown(attempts, t) \/ Exhausted(attempts)

-----------------------------------------------------------------------------
(* bounded_outbound_email *)

Attempt(s, k) ==
  /\ sender[s] = Idle
  /\ sender' = [sender EXCEPT ![s] = [at |-> "reserve", key |-> k, read |-> now]]
  /\ UNCHANGED <<entries, torn, history, now, crashes>>

Leave(s) == sender' = [sender EXCEPT ![s] = Idle]

\* _reserve_attempt: refused, or the attempt is written under the time that was read.
\* From a torn file nothing can be reserved.
Reserve(s) ==
  LET k == sender[s].key
      t == sender[s].read IN
  /\ sender[s].at = "reserve"
  /\ \/ torn /\ Leave(s) /\ UNCHANGED <<entries, history>>
     \/ /\ ~torn
        /\ \E e \in Pruned(entries) :
             LET attempts == Recent(e[k], t) IN
             \/ /\ Refused(attempts, t)
                /\ entries' = entries
                /\ Leave(s)
                /\ UNCHANGED history
             \/ /\ ~Refused(attempts, t)
                /\ entries' \in Pruned([e EXCEPT ![k] =
                     Append(attempts, [by |-> s, at |-> t, status |-> "started", done |-> 0, retry |-> 0])])
                /\ history' = [history EXCEPT ![k] =
                     Append(@, [by |-> s, at |-> now, status |-> "started", until |-> 0])]
                /\ sender' = [sender EXCEPT ![s].at = "send"]
  /\ UNCHANGED <<torn, now, crashes>>

\* The newest attempt of a sequence that is s's.
Own(attempts, s) == SelectLastInSeq(attempts, LAMBDA a : a.by = s /\ a.status = "started")

Finished(attempts, s, status, wait) ==
  LET n == Own(attempts, s) IN
  IF n = 0 THEN attempts
  ELSE [attempts EXCEPT ![n].status = status, ![n].done = now, ![n].retry = wait]

\* _finish_attempt, after the provider took the mail or raised an error with or without
\* a retry_after_seconds.  An attempt that was pruned meanwhile is not written again.
Finish(s, status, wait) ==
  LET k == sender[s].key IN
  /\ sender[s].at = "send"
  /\ status = "sent" => wait = 0
  /\ \/ torn /\ UNCHANGED entries
     \/ /\ ~torn
        /\ \E e \in Pruned(entries) :
             entries' \in Pruned([e EXCEPT ![k] = Finished(e[k], s, status, wait)])
  /\ history' =
       LET n == Own(history[k], s) IN
       [history EXCEPT ![k][n].status = status,
                       ![k][n].until = IF wait > 0 THEN now + PerSecond * wait ELSE 0]
  /\ Leave(s)
  /\ UNCHANGED <<torn, now, crashes>>

-----------------------------------------------------------------------------
\* outbound_email_guard_summary: taking the lock prunes the file.
Summarize ==
  /\ ~torn
  /\ entries' \in Pruned(entries)
  /\ UNCHANGED <<torn, sender, history, now, crashes>>

\* It reports "clear".
Clear ==
  \A k \in Key :
    LET attempts == Recent(entries[k], now) IN
    attempts # <<>> =>
      /\ LastActivity(attempts) + CooldownOf(Last(attempts)) <= now
      /\ ~Exhausted(attempts)

\* A sender dies while the mail is on its way: its attempt stays "started".
Die(s) ==
  /\ sender[s].at = "send"
  /\ crashes < MaxCrashes
  /\ crashes' = crashes + 1
  /\ Leave(s)
  /\ UNCHANGED <<entries, torn, history, now>>

\* What s asks for is not refused; only then is the file written.
Admitted(s) ==
  \E e \in Pruned(entries) :
    ~Refused(Recent(e[sender[s].key], sender[s].read), sender[s].read)

\* A sender dies while it writes the file, after truncate(0): nothing of it is left, or
\* a part.
DieWriting(s) ==
  /\ WritesDie
  /\ sender[s].at = "send" \/ (sender[s].at = "reserve" /\ Admitted(s))
  /\ ~torn
  /\ crashes < MaxCrashes
  /\ crashes' = crashes + 1
  /\ entries' = [k \in Key |-> <<>>]
  /\ torn' \in BOOLEAN
  /\ Leave(s)
  /\ UNCHANGED <<history, now>>

Tick ==
  /\ now < MaxTime
  /\ \A s \in Sender : sender[s].at = "reserve" => now < sender[s].read + MaxWait
  /\ now' = now + 1
  /\ UNCHANGED <<entries, torn, sender, history, crashes>>

Next ==
  \/ \E s \in Sender :
       \/ \E k \in Key : Attempt(s, k)
       \/ Reserve(s)
       \/ \E status \in {"sent", "failed"}, wait \in RetryAfters \cup {0} : Finish(s, status, wait)
       \/ Die(s) \/ DieWriting(s)
  \/ Summarize
  \/ Tick

Spec == Init /\ [][Next]_vars

-----------------------------------------------------------------------------
(* Properties *)

TypeOK ==
  /\ \A k \in Key :
       \A n \in DOMAIN entries[k] :
         entries[k][n] \in [by : Sender, at : 0..MaxTime, status : Statuses,
                           done : 0..MaxTime, retry : RetryAfters \cup {0}]
  /\ torn \in BOOLEAN
  /\ sender \in [Sender -> [at : {"idle", "reserve", "send"}, key : Key \cup {NoKey},
                            read : 0..MaxTime]]
  /\ \A k \in Key : \A n \in DOMAIN history[k] : history[k][n].status \in Statuses
  /\ now \in 0..MaxTime
  /\ crashes \in 0..MaxCrashes

\* Two attempts for one key begin a cooldown apart, the shorter one after a failure, up
\* to the second that is cut off and the wait for the lock: whoever else sends, and
\* whatever dies with a mail on its way.
Apart ==
  \A k \in Key : \A i, j \in DOMAIN history[k] :
    i < j =>
      LET wait == IF history[k][i].status = "failed" THEN Least(FailureCooldown, Cooldown)
                  ELSE Cooldown
      IN history[k][j].at + PerSecond + MaxWait > history[k][i].at + PerSecond * wait

\* No window of time holds more attempts for one key than the policy allows, up to the
\* wait for the lock.
WindowBudget ==
  \A k \in Key : \A j \in DOMAIN history[k] :
    Cardinality({i \in 1..j : history[k][i].at + PerSecond * Window >= history[k][j].at + MaxWait})
      <= MaxPerWindow

\* The attempts of the file are in the order of their times, though senders read the
\* clock before the lock: the code takes the last for the newest, the first for the oldest.
InOrder ==
  \A k \in Key : \A i, j \in DOMAIN entries[k] :
    i < j => entries[k][i].at <= entries[k][j].at

\* When the summary says "clear", nobody would be refused.
ClearMeansFree ==
  Clear => \A k \in Key : ~Refused(Recent(entries[k], now), now)

\* What a test's name says: "sent_delivery_keeps_full_cooldown".
\* Not kept by the code: README.md, "Departures from the documents".
SentKeepsCooldown ==
  \A k \in Key : \A i, j \in DOMAIN history[k] :
    i < j /\ history[k][i].status = "sent" =>
      history[k][j].at + PerSecond + MaxWait > history[k][i].at + PerSecond * Cooldown

\* What a test's name says: "provider_retry_after_is_preserved_for_failed_delivery".
\* Not kept by the code: README.md, "Departures from the documents".
RetryAfterKept ==
  \A k \in Key : \A i, j \in DOMAIN history[k] :
    i < j => history[k][j].at + PerSecond + MaxWait > history[k][i].until
=============================================================================
