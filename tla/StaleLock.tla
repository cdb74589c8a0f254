------------------------------ MODULE StaleLock ------------------------------
(***************************************************************************)
(* What a queue of leased rows promises to the clients that share it: one  *)
(* lock per item that can go stale.  An item has at most one holder, and   *)
(* one more for every time its lock was declared stale.  Nobody is told    *)
(* that its lock went stale, so a holder may leave long afterwards.        *)
(* LedgerClients implements this specification.                            *)
(***************************************************************************)
EXTENDS Naturals, FiniteSets

CONSTANTS Item, Client

VARIABLES
  holders,  \* per item: the clients that believe they hold it
  stale     \* per item: how often its lock was declared stale

lockVars == <<holders, stale>>

LockInit ==
  /\ holders = [i \in Item |-> {}]
  /\ stale = [i \in Item |-> 0]

Acquire(c, i) ==
  /\ c \notin holders[i]
  /\ Cardinality(holders[i]) <= stale[i]
  /\ holders' = [holders EXCEPT ![i] = @ \cup {c}]
  /\ UNCHANGED stale

Leave(c, i) ==
  /\ c \in holders[i]
  /\ holders' = [holders EXCEPT ![i] = @ \ {c}]
  /\ UNCHANGED stale

\* A client that stops leaves everything it holds at once.
Vanish(c) ==
  /\ holders' = [i \in Item |-> holders[i] \ {c}]
  /\ UNCHANGED stale

GoStale(i) ==
  /\ stale' = [stale EXCEPT ![i] = @ + 1]
  /\ UNCHANGED holders

LockNext ==
  \/ \E i \in Item : GoStale(i)
  \/ \E c \in Client : Vanish(c) \/ \E i \in Item : Acquire(c, i) \/ Leave(c, i)

LockSpec == LockInit /\ [][LockNext]_lockVars
=============================================================================
