------------------------ MODULE CommitmentCandidates ------------------------
(***************************************************************************)
(* Memory candidates under review: the product stages what it found in a   *)
(* message, a reviewer accepts or rejects it, and accepting promotes it to *)
(* a memory item and turns it into a commitment, or merges it into the one *)
(* it duplicates.  Three tables, no transaction over two statements, so    *)
(* one action is one statement; clients are requests that may die.         *)
(*                                                                         *)
(* Follow-ups (the other kind of commitment, with the same code) and the   *)
(* content of a candidate but for its identity key are left out.           *)
(***************************************************************************)
EXTENDS Naturals, FiniteSets

CONSTANTS
  Client, Candidate, Title,
  TitleOf,          \* per candidate: _commitment_identity_key
  MaxItems,         \* bound: memory items made
  MaxCommitments,   \* bound: commitments made
  MaxResolves,      \* bound: resolutions of commitments
  MaxCrashes,       \* bound: requests that die
  AtOnce,           \* requests served at the same time
  NoItem, NoRef, Nothing

Item == 1..MaxItems
Commitment == 1..MaxCommitments

CandidatesAssumption ==
  /\ TitleOf \in [Candidate -> Title]
  /\ {MaxItems, MaxCommitments, MaxResolves, MaxCrashes, AtOnce} \subseteq Nat
  /\ NoItem \notin Item /\ NoRef \notin Commitment
  /\ Nothing \notin Candidate \cup Title

VARIABLES
  cand,      \* memory_candidates
  item,      \* memory_items: the candidate in its provenance
  commitment,\* commitments
  call,      \* per client: what it is doing, and what it read
  resolves, crashes,
  accepted,  \* history: candidates and the commitments they became or were merged into
  dropped,   \* history: candidates a request for which died
  refused,   \* history: candidates that were rejected at some time
  overtaken  \* history: candidates merged while another held the commitment as it was before

vars == <<cand, item, commitment, call, resolves, crashes, accepted, dropped, refused,
          overtaken>>

Absent == [status |-> "none", title |-> Nothing, merged |-> {}]
Idle == [at |-> "idle", of |-> Nothing, item |-> NoItem, ref |-> NoRef, row |-> Absent]

Places ==
  {"idle", "stage", "stage_write", "check", "get", "create_item", "review", "merge_read", "merge_write",
   "create", "get_rejected", "review_rejected", "resolve_read", "resolve_write"}

Init ==
  /\ cand = [c \in Candidate |-> [status |-> "none", item |-> NoItem, dup |-> NoRef]]
  /\ item = [i \in Item |-> Nothing]
  /\ commitment = [m \in Commitment |-> Absent]
  /\ call = [k \in Client |-> Idle]
  /\ resolves = 0 /\ crashes = 0
  /\ accepted = {} /\ dropped = {} /\ refused = {} /\ overtaken = {}

Unmade(table, none, ids) == {i \in ids : table[i] = none}
\* uuid4: an id that nobody has.
Fresh(i, S) == i \in S /\ \A j \in S : i <= j

Now(k, place) == call' = [call EXCEPT ![k].at = place]
Done(k) == call' = [call EXCEPT ![k] = Idle]

\* A request arrives: to stage, to accept (by the API, or by the sweep over candidates
\* linked to a sent reply, which looks at the status first), to reject or to resolve.
\* Staging makes a new row; the others name one there is, or end at once.
Arrive(k) ==
  /\ call[k] = Idle
  /\ Cardinality({j \in Client : call[j] # Idle}) < AtOnce
  /\ \/ \E c \in Candidate, place \in {"stage", "check", "get", "get_rejected"} :
          /\ (place = "stage") = (cand[c].status = "none")
          /\ place = "stage" => \A j \in Client : call[j].of # c
          /\ call' = [call EXCEPT ![k] = [Idle EXCEPT !.at = place, !.of = c]]
     \/ /\ resolves < MaxResolves
        /\ \E m \in Commitment :
             /\ commitment[m].status # "none"
             /\ call' = [call EXCEPT ![k] = [Idle EXCEPT !.at = "resolve_read", !.ref = m]]
  /\ UNCHANGED <<cand, item, commitment, resolves, crashes, accepted, dropped, refused, overtaken>>

\* Commitments with the identity of a candidate, of any status.
Duplicates(c) == {m \in Commitment : commitment[m].title = TitleOf[c]}

\* stage_extracted_commitments: the duplicate is looked for before the row is made; of
\* several the list yields one.
Stage(k) ==
  LET c == call[k].of
  IN /\ call[k].at = "stage"
     /\ \E d \in IF Duplicates(c) = {} THEN {NoRef} ELSE Duplicates(c) :
          call' = [call EXCEPT ![k].at = "stage_write", ![k].ref = d]
     /\ UNCHANGED <<cand, item, commitment, resolves, crashes, accepted, dropped, refused, overtaken>>

\* create_candidate.
StageWrite(k) ==
  /\ call[k].at = "stage_write"
  /\ cand' = [cand EXCEPT ![call[k].of] =
                [status |-> "pending", item |-> NoItem, dup |-> call[k].ref]]
  /\ Done(k)
  /\ UNCHANGED <<item, commitment, resolves, crashes, accepted, dropped, refused, overtaken>>

\* _accept_linked_signal_candidates: only what is still to be reviewed.
Check(k) ==
  /\ call[k].at = "check"
  /\ IF cand[call[k].of].status = "pending" THEN Now(k, "get") ELSE Done(k)
  /\ UNCHANGED <<cand, item, commitment, resolves, crashes, accepted, dropped, refused, overtaken>>

\* The item a promoted candidate names.
Known(c) == cand[c].status = "promoted" /\ cand[c].item # NoItem /\ item[cand[c].item] # Nothing

\* promote_candidate, up to the item.
Get(k) ==
  LET c == call[k].of
  IN /\ call[k].at = "get"
     /\ call' = [call EXCEPT ![k] =
                   IF Known(c) THEN [@ EXCEPT !.at = "review", !.item = cand[c].item]
                   ELSE [@ EXCEPT !.at = "create_item"]]
     /\ UNCHANGED <<cand, item, commitment, resolves, crashes, accepted, dropped, refused, overtaken>>

CreateItem(k) ==
  /\ call[k].at = "create_item"
  /\ \E i \in Item :
       /\ Fresh(i, Unmade(item, Nothing, Item))
       /\ item' = [item EXCEPT ![i] = call[k].of]
       /\ call' = [call EXCEPT ![k].at = "review", ![k].item = i]
  /\ UNCHANGED <<cand, commitment, resolves, crashes, accepted, dropped, refused, overtaken>>

Promoted(row, i) == [row EXCEPT !.status = "promoted", !.item = i]

\* The review is unconditional; accept_commitment_candidate goes on with what it returns.
Review(k) ==
  LET c == call[k].of
  IN /\ call[k].at = "review"
     /\ cand' = [cand EXCEPT ![c] = Promoted(@, call[k].item)]
     /\ IF cand[c].dup = NoRef
        THEN Now(k, "create")
        ELSE call' = [call EXCEPT ![k].at = "merge_read", ![k].ref = cand[c].dup]
     /\ UNCHANGED <<item, commitment, resolves, crashes, accepted, dropped, refused, overtaken>>

\* create_commitment.
Create(k) ==
  /\ call[k].at = "create"
  /\ \E m \in Commitment :
       /\ Fresh(m, Unmade(commitment, Absent, Commitment))
       /\ commitment' = [commitment EXCEPT ![m] =
                           [status |-> "open", title |-> TitleOf[call[k].of], merged |-> {}]]
       /\ accepted' = accepted \cup {<<call[k].of, m>>}
  /\ Done(k)
  /\ UNCHANGED <<cand, item, resolves, crashes, dropped, refused, overtaken>>

\* Mutant of MergeRead: nothing is merged into a commitment that is completed.
MergeReadOpen(k) ==
  /\ call[k].at = "merge_read"
  /\ LET row == commitment[call[k].ref]
     IN IF row.status = "completed" THEN Done(k)
        ELSE call' = [call EXCEPT ![k].at = "merge_write", ![k].row = row]
  /\ UNCHANGED <<cand, item, commitment, resolves, crashes, accepted, dropped, refused, overtaken>>
\* _merge_candidate_into_existing reads the commitment it will write.
MergeRead(k) ==
  /\ call[k].at = "merge_read"
  /\ call' = [call EXCEPT ![k].at = "merge_write", ![k].row = commitment[call[k].ref]]
  /\ UNCHANGED <<cand, item, commitment, resolves, crashes, accepted, dropped, refused, overtaken>>

\* The row as it was read, open, with the candidate added.
Merged(row, c) == [row EXCEPT !.status = "open", !.merged = @ \cup {c}]

\* Who else has read m and will write it back.
Writers(m, k) ==
  {j \in Client \ {k} : call[j].ref = m /\ call[j].at \in {"merge_write", "resolve_write"}}

MergeWrite(k) ==
  LET c == call[k].of  m == call[k].ref
  IN /\ call[k].at = "merge_write"
     /\ commitment' = [commitment EXCEPT ![m] = Merged(call[k].row, c)]
     /\ accepted' = accepted \cup {<<c, m>>}
     /\ overtaken' = IF Writers(m, k) = {} THEN overtaken ELSE overtaken \cup {c}
     /\ Done(k)
     /\ UNCHANGED <<cand, item, resolves, crashes, dropped, refused>>

\* reject_candidate, whatever the status; the item, if there is one, stays.
GetRejected(k) ==
  /\ call[k].at = "get_rejected"
  /\ Now(k, "review_rejected")
  /\ UNCHANGED <<cand, item, commitment, resolves, crashes, accepted, dropped, refused, overtaken>>

ReviewRejected(k) ==
  LET c == call[k].of
  IN /\ call[k].at = "review_rejected"
     /\ cand' = [cand EXCEPT ![c].status = "rejected", ![c].item = NoItem]
     /\ refused' = refused \cup {c}
     /\ Done(k)
     /\ UNCHANGED <<item, commitment, resolves, crashes, accepted, dropped, overtaken>>

\* resolve_commitment: reads the row, and writes it back with another status.
ResolveRead(k) ==
  /\ call[k].at = "resolve_read"
  /\ call' = [call EXCEPT ![k].at = "resolve_write", ![k].row = commitment[call[k].ref]]
  /\ UNCHANGED <<cand, item, commitment, resolves, crashes, accepted, dropped, refused, overtaken>>

ResolveWrite(k) ==
  /\ call[k].at = "resolve_write"
  /\ \E status \in {"open", "completed"} :
       commitment' = [commitment EXCEPT ![call[k].ref] = [call[k].row EXCEPT !.status = status]]
  /\ resolves' = resolves + 1
  /\ Done(k)
  /\ UNCHANGED <<cand, item, crashes, accepted, dropped, refused, overtaken>>

\* The request ends between two statements, with its process or its connection.
Crash(k) ==
  /\ call[k] # Idle /\ crashes < MaxCrashes
  /\ crashes' = crashes + 1
  /\ dropped' = dropped \cup {call[k].of}
  /\ Done(k)
  /\ UNCHANGED <<cand, item, commitment, resolves, accepted, refused, overtaken>>

Next ==
  \E k \in Client :
    \/ Arrive(k) \/ Stage(k) \/ StageWrite(k) \/ Check(k) \/ Get(k) \/ CreateItem(k) \/ Review(k) \/ Create(k)
    \/ MergeRead(k) \/ MergeWrite(k) \/ GetRejected(k) \/ ReviewRejected(k)
    \/ ResolveRead(k) \/ ResolveWrite(k) \/ Crash(k)

Spec == Init /\ [][Next]_vars

-----------------------------------------------------------------------------
\* The kinds of values.
Rows == [status : {"none", "open", "completed"}, title : Title \cup {Nothing}, merged : SUBSET Candidate]
TypeOK ==
  /\ cand \in [Candidate -> [status : {"none", "pending", "promoted", "rejected"},
                             item : Item \cup {NoItem}, dup : Commitment \cup {NoRef}]]
  /\ item \in [Item -> Candidate \cup {Nothing}]
  /\ commitment \in [Commitment -> Rows]
  /\ call \in [Client -> [at : Places, of : Candidate \cup {Nothing}, item : Item \cup {NoItem},
                          ref : Commitment \cup {NoRef}, row : Rows]]
  /\ resolves \in Nat /\ crashes \in 0..MaxCrashes
  /\ accepted \subseteq Candidate \X Commitment
  /\ dropped \subseteq Candidate \cup {Nothing}
  /\ refused \subseteq Candidate /\ overtaken \subseteq Candidate

\* promote_candidate: a promoted candidate names a memory item that names it, whoever
\* else reviews it meanwhile.
PromotedHasItem ==
  \A c \in Candidate :
    cand[c].status = "promoted" => cand[c].item # NoItem /\ item[cand[c].item] = c

\* Promoting again returns the item there is: without a rejection, a crash or another
\* request at the same time a candidate has one item at most.
OneItem ==
  \A c \in Candidate \ (refused \cup dropped) : Cardinality({i \in Item : item[i] = c}) <= 1

\* Once nobody is at work on it, an accepted candidate is a commitment or was merged into
\* one, unless its request died on the way.
AcceptedIsCommitment ==
  \A c \in Candidate \ dropped :
    cand[c].status = "promoted" /\ (\A k \in Client : call[k].of # c)
      => \E m \in Commitment : <<c, m>> \in accepted

\* The commitment a candidate was merged into knows of it, whatever is merged into it
\* or becomes of it later: only a request that had read the commitment before the merge
\* and writes it back after it makes it forget.
MergedRemembered ==
  \A c \in Candidate \ overtaken, m \in Commitment :
    <<c, m>> \in accepted /\ cand[c].dup = m => c \in commitment[m].merged

\* GET /v1/memory/items lists promoted items: each is the item of a promoted candidate.
\* Not kept by the code: README.md, "Departures from the documents".
ListedIsPromoted ==
  \A i \in Item :
    item[i] # Nothing /\ (\A k \in Client : call[k].of # item[i])
      => cand[item[i]].status = "promoted" /\ cand[item[i]].item = i
=============================================================================
