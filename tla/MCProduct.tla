------------------------------ MODULE MCProduct ------------------------------
(***************************************************************************)
(* What people decide: HumanTasks, and instances of it, of DraftDelivery   *)
(* and of CommitmentCandidates.  `part` says which of them a behaviour is  *)
(* of; it never changes, and the variables of the others stay as they are. *)
(***************************************************************************)
EXTENDS HumanTasks, TLC

CONSTANTS c1, c2, o1, o2, t1, t2, s1, s2, a1, a2, a3, x, none

VARIABLES
  part,
  handoff, client, begun,                                           \* DraftDelivery
  approval, resolution, followed, mails, told,
  request,                                                          \* CommitmentCandidates
  cand, item, commitment, resolves, accepted, dropped, refused, overtaken,
  crashes                                                           \* the last two

draftVars == <<handoff, client, begun, approval, resolution, followed, mails, told>>
candVars == <<request, cand, item, commitment, resolves, accepted, dropped, refused,
              overtaken>>
all == <<part, vars, draftVars, candVars, crashes>>

Threads == {c1, c2}
Operators == {o1, o2}
Tasks == {t1, t2}
Candidates == {a1, a2, a3}
Steps == {s1, s2}

\* None of these has a name the code goes by.
Alike == Permutations(Threads) \cup Permutations(Operators) \cup Permutations(Candidates)

-----------------------------------------------------------------------------
\* HumanTasks itself: two tasks hold up two steps; operators claim, return, reassign
\* them.

\* Tasks are being created meanwhile, payloads are refused, the process restarts.
Created == INSTANCE HumanTasks WITH
  Step <- {s1}, MaxCalls <- 3, MaxRestarts <- 1, OutputsFail <- TRUE

\* Two tasks of one draft, two clients at a time.
Drafts == INSTANCE DraftDelivery WITH
  Client <- Threads, MaxCalls <- 3, MaxCrashes <- 0, ResumesRaise <- FALSE,
  task <- handoff, call <- client, calls <- begun

\* One client at a time, who uses the product's routes only; restarts.
InTurn == INSTANCE DraftDelivery WITH
  Client <- {x}, MaxCalls <- 4, MaxCrashes <- 1, ResumesRaise <- TRUE,
  task <- handoff, call <- client, calls <- begun

\* Three candidates of one identity, so that the later ones duplicate the commitment
\* the first became; one client.
Alone == INSTANCE CommitmentCandidates WITH
  Client <- {x}, Candidate <- Candidates, Title <- {x}, TitleOf <- [c \in Candidates |-> x],
  MaxItems <- 3, MaxCommitments <- 3, MaxResolves <- 1, MaxCrashes <- 0, AtOnce <- 1,
  NoItem <- none, NoRef <- none, Nothing <- none, call <- request

\* Two of them and two clients at once, one of which may die.
Together == INSTANCE CommitmentCandidates WITH
  Client <- Threads, Candidate <- {a1, a2}, Title <- {x}, TitleOf <- [c \in {a1, a2} |-> x],
  MaxItems <- 2, MaxCommitments <- 2, MaxResolves <- 1, MaxCrashes <- 1, AtOnce <- 2,
  NoItem <- none, NoRef <- none, Nothing <- none, call <- request

ASSUME HumanTasksAssumption /\ Created!HumanTasksAssumption
ASSUME Drafts!DraftBounds /\ InTurn!DraftBounds
ASSUME Alone!CandidatesAssumption /\ Together!CandidatesAssumption

-----------------------------------------------------------------------------
NoDrafts ==
  /\ handoff = 0 /\ client = 0 /\ begun = 0
  /\ approval = 0 /\ resolution = 0 /\ followed = 0 /\ mails = 0 /\ told = 0
NoCandidates ==
  /\ request = 0 /\ cand = 0 /\ item = 0 /\ commitment = 0 /\ resolves = 0
  /\ accepted = 0 /\ dropped = 0 /\ refused = 0 /\ overtaken = 0

MCInit ==
  \/ /\ \/ part = "returned" /\ InitPaused
        \/ part = "created" /\ Created!Init
     /\ NoDrafts /\ NoCandidates /\ crashes = 0
  \/ /\ \/ part = "drafts" /\ Drafts!Init
        \/ part = "in turn" /\ InTurn!Init
     /\ Init /\ NoCandidates
  \/ /\ \/ part = "alone" /\ Alone!Init
        \/ part = "together" /\ Together!Init
     /\ Init /\ NoDrafts

MCNext ==
  /\ UNCHANGED part
  /\ \/ /\ \/ part = "returned" /\ NextPaused
           \/ part = "created" /\ Created!Next
        /\ UNCHANGED <<draftVars, candVars, crashes>>
     \/ /\ \/ part = "drafts" /\ Drafts!Next
           \/ part = "in turn" /\ InTurn!NextProduct
        /\ UNCHANGED <<vars, candVars>>
     \/ /\ \/ part = "alone" /\ Alone!Next
           \/ part = "together" /\ Together!Next
        /\ UNCHANGED <<vars, draftVars>>

MCSpec == MCInit /\ [][MCNext]_all

-----------------------------------------------------------------------------
\* HumanTasks: a paused session has somebody to wait for, a completed one has no step
\* that waits, and a waiting step goes on only when a task of its own was returned.
PausesKept ==
  /\ [](part = "returned" => TypeOK /\ WaitsForSomeone /\ CompletedWaitsForNone)
  /\ [][part = "created" => Created!ReturnedBefore]_all

\* DraftDelivery: a draft is approved once, whoever approves it at once; then it is
\* delivered or a follow-up says so, one if requests come one at a time; an event tells
\* of every accepted mail, and a follow-up closed as retried had its mail accepted.
DraftKept ==
  /\ part = "drafts" =>
       /\ Drafts!TypeOK
       /\ Drafts!ApprovedOnce
       /\ Drafts!DeliveredOrFollowed
       /\ Drafts!EveryMailTold
       /\ Drafts!RetriedWasMailed
  /\ part = "in turn" => InTurn!OneFollowup

\* CommitmentCandidates: what is promoted has its memory item, what is accepted its
\* commitment, and a commitment knows what was merged into it unless an older read of it
\* is written back, also when a client dies or another works on the same, and when the
\* commitment is completed and opened again meanwhile; one client makes one item of a
\* candidate.
AcceptedKept ==
  /\ part = "alone" =>
       /\ Alone!TypeOK
       /\ Alone!PromotedHasItem
       /\ Alone!OneItem
       /\ Alone!AcceptedIsCommitment
       /\ Alone!MergedRemembered
  /\ part = "together" =>
       /\ Together!PromotedHasItem
       /\ Together!AcceptedIsCommitment
       /\ Together!MergedRemembered
=============================================================================
