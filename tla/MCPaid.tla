-------------------------------- MODULE MCPaid --------------------------------
(***************************************************************************)
(* What is paid for: instances of VocalLab and of OneMinLeases.  `part`    *)
(* says which of them a behaviour is of; it never changes, and the         *)
(* variables of the other component keep their initial values.             *)
(***************************************************************************)
EXTENDS VocalLab, TLC

CONSTANTS w1, o1, r1, r2, r3, k1, k2, k3, f1, f2, j1, b1, b2, c1, c2, s1, p1, a1, l1, l2, l3, none

VARIABLES
  part,
  leases, overdue, locked, place, looked, eligible, listed, copy,  \* OneMinLeases
  lease, orphans, used, mishaps

leaseVars == <<leases, overdue, locked, place, looked, eligible, listed, copy, lease,
               orphans, used, mishaps>>

-----------------------------------------------------------------------------
(* VocalLab: two segments of one job and requests for them under three keys; one *)
(* worker that crashes and retries.                                              *)

Workers == {w1}
NoObservers == {}
Requests == {r1, r2, r3}
Slots == {k1, k2, k3}
Texts == {f1, f2}
Jobs == {j1}
OneJob == [s \in Slots |-> j1]

\* r1 and r2 ask for the same text under two keys, r3 for the other segment; the
\* points of the job run short.
Keys == r1 :> k1 @@ r2 :> k2 @@ r3 :> k3
Segment == r1 :> f1 @@ r2 :> f1 @@ r3 :> f2
Points == f1 :> 1 @@ f2 :> 2

\* r2 uses the key of r1 for another text; a process observes the account, whose
\* balance runs short.
Short == INSTANCE VocalLab WITH
  MaxPointsPerJob <- 3, MaxSegmentsPerJob <- 2, Observer <- {o1},
  SlotOf <- r1 :> k1 @@ r2 :> k1 @@ r3 :> k2, FpOf <- r1 :> f1 @@ r2 :> f2 @@ r3 :> f2,
  StartBalance <- 4

-----------------------------------------------------------------------------
(* OneMinLeases: one server process, one account, three leases. *)

Leases == {l1, l2, l3}

\* Leases have no names the code goes by, nor have callers of one class.
Alike == Permutations(Leases) \cup Permutations({b1, b2})

\* Three callers of two core classes compete.
Caps == INSTANCE OneMinLeases WITH
  Caller <- {b1, b2, c2}, Remote <- {}, Reader <- {}, Process <- {p1},
  ProcessOf <- [t \in {b1, b2, c2} |-> p1],
  ClassOf <- b1 :> "core_code" @@ b2 :> "core_code" @@ c2 :> "core_review",
  Account <- {a1}, Lease <- Leases, NoLease <- none, NoAccount <- none, Nobody <- none,
  MaxTotal <- 2, MaxCore <- 2, MaxImage <- 1, MaxFaults <- 0,
  rows <- leases, lock <- locked, at <- place, faults <- mishaps

\* Two compete for one place, which a process that died may hold.
Died == INSTANCE OneMinLeases WITH
  Caller <- {b1, b2}, Remote <- {}, Reader <- {}, Process <- {p1},
  ProcessOf <- [t \in {b1, b2} |-> p1], ClassOf <- [c \in {b1, b2} |-> "core_code"],
  Account <- {a1}, Lease <- Leases, NoLease <- none, NoAccount <- none, Nobody <- none,
  MaxTotal <- 1, MaxCore <- 1, MaxImage <- 1, MaxFaults <- 2,
  rows <- leases, lock <- locked, at <- place, faults <- mishaps

\* A caller over the API, whose report starts with a snapshot, and one in the process.
Reports == INSTANCE OneMinLeases WITH
  Caller <- {c1, c2}, Remote <- {c1}, Reader <- {}, Process <- {p1},
  ProcessOf <- [t \in {c1, c2} |-> p1],
  ClassOf <- c1 :> "image_generation" @@ c2 :> "core_review",
  Account <- {a1}, Lease <- Leases, NoLease <- none, NoAccount <- none, Nobody <- none,
  MaxTotal <- 2, MaxCore <- 1, MaxImage <- 1, MaxFaults <- 1,
  rows <- leases, lock <- locked, at <- place, faults <- mishaps

\* Snapshots while a caller over the API reports.
Watched == INSTANCE OneMinLeases WITH
  Caller <- {c1}, Remote <- {c1}, Reader <- {s1}, Process <- {p1},
  ProcessOf <- [t \in {c1, s1} |-> p1], ClassOf <- c1 :> "image_generation",
  Account <- {a1}, Lease <- Leases, NoLease <- none, NoAccount <- none, Nobody <- none,
  MaxTotal <- 2, MaxCore <- 1, MaxImage <- 1, MaxFaults <- 1,
  rows <- leases, lock <- locked, at <- place, faults <- mishaps

ASSUME VocalLabAssumption /\ Short!VocalLabAssumption
ASSUME Caps!OneMinAssumption /\ Died!OneMinAssumption /\ Reports!OneMinAssumption
ASSUME Watched!OneMinAssumption

-----------------------------------------------------------------------------
MCInit ==
  \/ part = "voice" /\ Init /\ Caps!Init
  \/ part = "short" /\ Short!Init /\ Caps!Init
  \/ part = "caps" /\ Init /\ Caps!Init
  \/ part = "died" /\ Init /\ Died!Init
  \/ part = "reports" /\ Init /\ Reports!Init
  \/ part = "watched" /\ Init /\ Watched!Init

MCNext ==
  /\ UNCHANGED part
  /\ \/ /\ \/ part = "voice" /\ Next
           \/ part = "short" /\ Short!Next
        /\ UNCHANGED leaseVars
     \/ /\ \/ part = "caps" /\ Caps!Next
           \/ part = "died" /\ Died!Next
           \/ part = "reports" /\ Reports!Next
           \/ part = "watched" /\ Watched!Next
        /\ UNCHANGED vars

MCSpec == MCInit /\ [][MCNext]_<<vars, leaseVars, part>>

-----------------------------------------------------------------------------
\* The ceilings: a job is charged no more than it may be and no charge is forgotten
\* (VocalLab); the caps hold for the calls that run, a call that ended, or died and is
\* overdue, blocks no account, and what it reported stays in its row (OneMinLeases).
CapsKept ==
  /\ part = "voice" => TypeOK /\ ChargesRemembered /\ JobCeilingKept
  /\ part = "short" => Short!TypeOK /\ ChargesRemembered
  /\ part = "caps" => Caps!TypeOK /\ Caps!CapsKept
  /\ part = "died" => Died!CapsKept /\ Died!NoPhantoms
  /\ part = "reports" =>
       Reports!TypeOK /\ Reports!CapsKept /\ Reports!NoPhantoms /\ Reports!UsageKept
  /\ part = "watched" =>
       Watched!TypeOK /\ Watched!CapsKept /\ Watched!NoPhantoms /\ Watched!UsageKept
===============================================================================
