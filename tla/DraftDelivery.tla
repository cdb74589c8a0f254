---------------------------- MODULE DraftDelivery ----------------------------
(***************************************************************************)
(* What becomes of one draft reply in product/service.py: it is approved or*)
(* rejected, an approved one is mailed at once, and when that does not work*)
(* a follow-up, a human task, is opened.  An operator retries the mail from*)
(* the follow-up or completes it by hand; a thread whose follow-up was     *)
(* closed may have it reopened.                                            *)
(*                                                                         *)
(* Calls run concurrently.  The provider is external: a mail is accepted,  *)
(* refused, not tried for want of a Google binding, or accepted with the   *)
(* answer lost on the way.  Every task here is a follow-up of this draft.  *)
(***************************************************************************)
EXTENDS HumanTaskRows, Sequences, FiniteSetsExt

CONSTANTS
  Client,      \* threads that serve requests
  MaxCalls,    \* bound on the calls
  MaxCrashes,  \* bound on restarts of the API process
  ResumesRaise \* whether resuming the approved session may raise

DraftBounds ==
  /\ NobodyIsNoOperator
  /\ Task # {} /\ MaxCalls \in Nat /\ MaxCrashes \in Nat /\ ResumesRaise \in BOOLEAN

VARIABLES
  approval,   \* approval_requests.status
  resolution, \* per task: human_tasks.resolution
  followed,   \* whether an event tells of a follow-up of the thread
  call,       \* per client: the call it serves
  mails,      \* the mails that were tried, [by, task, operator, owner, open, reply]
  told,       \* how many events tell of an accepted mail
  calls,
  crashes

vars == <<task, approval, resolution, followed, call, mails, told, calls, crashes>>

Reply == {"sent", "failed", "skipped", "lost"}
\* "retry_sent" is the resolution "sent" with delivery_mode "retry_send".
Resolution == {"none", "retry_sent", "sent", "failed", "waiting_on_principal"}
ByHand == {"sent", "failed", "waiting_on_principal"}
AnyTask == CHOOSE t \in Task : TRUE
IdleCall == [at |-> "idle", kind |-> "none", task |-> AnyTask, operator |-> Nobody,
             reply |-> "sent", resolution |-> "none"]

Call == [at         : {"idle", "decide", "resume", "send", "sent", "look", "create", "opened",
                       "own", "return", "resolved", "owned", "take"},
         kind       : {"none", "approve", "reject", "retry", "complete", "reopen"},
         task       : Task,
         operator   : Operator \cup {Nobody},
         reply      : Reply,
         resolution : Resolution]

Mailed == [by       : {"approve", "retry"},
           task     : Task,
           operator : Operator \cup {Nobody},
           owner    : Operator \cup {Nobody},
           open     : BOOLEAN,
           reply    : Reply]

TypeOK ==
  /\ RowsTypeOK
  /\ approval \in {"pending", "approved", "denied", "expired"}
  /\ resolution \in [Task -> Resolution]
  /\ followed \in BOOLEAN
  /\ call \in [Client -> Call]
  /\ mails \in Seq(Mailed)
  /\ told \in 0..Len(mails)

Init ==
  /\ task = [t \in Task |-> NoRow]
  /\ approval = "pending"
  /\ resolution = [t \in Task |-> "none"]
  /\ followed = FALSE
  /\ call = [c \in Client |-> IdleCall]
  /\ mails = <<>>
  /\ told = 0
  /\ calls = 0
  /\ crashes = 0

Begin(c, new) ==
  /\ call[c].at = "idle"
  /\ calls < MaxCalls
  /\ call' = [call EXCEPT ![c] = new]
  /\ calls' = calls + 1

Goto(c, place) == call' = [call EXCEPT ![c].at = place]
Leave(c) == call' = [call EXCEPT ![c] = IdleCall]

-----------------------------------------------------------------------------
(* approve_draft and reject_draft *)

\* The draft is among the pending approvals; otherwise 404.
BeginDecision(c, kind) ==
  /\ approval = "pending"
  /\ Begin(c, [IdleCall EXCEPT !.at = "decide", !.kind = kind])
  /\ UNCHANGED <<task, approval, resolution, followed, mails, told, crashes>>

\* The UPDATE decides a pending request once; whoever comes late gets nothing.
Decide(c) ==
  /\ call[c].at = "decide"
  /\ \/ /\ approval # "pending"
        /\ Leave(c)
        /\ UNCHANGED approval
     \/ /\ approval = "pending" /\ call[c].kind = "approve"
        /\ approval' = "approved"
        /\ Goto(c, "resume")
     \/ /\ approval = "pending" /\ call[c].kind = "reject"
        /\ approval' = "denied"
        /\ Leave(c)
  /\ UNCHANGED <<task, resolution, followed, mails, told, calls, crashes>>

\* decide_approval then drives the session; an error of its run ends the call.
Resume(c) ==
  /\ call[c].at = "resume"
  /\ Goto(c, "send")
  /\ UNCHANGED <<task, approval, resolution, followed, mails, told, calls, crashes>>

ResumeRaises(c) ==
  /\ call[c].at = "resume"
  /\ ResumesRaise
  /\ Leave(c)
  /\ UNCHANGED <<task, approval, resolution, followed, mails, told, calls, crashes>>

\* The request's time to live is over.
Expire ==
  /\ approval = "pending"
  /\ approval' = "expired"
  /\ UNCHANGED <<task, resolution, followed, call, mails, told, calls, crashes>>

-----------------------------------------------------------------------------
(* _maybe_send_approved_draft, for an approval and for a retry *)

Mail(c, reply) ==
  [by |-> call[c].kind, task |-> call[c].task, operator |-> call[c].operator, owner |-> task[call[c].task].operator,
   open |-> Open(call[c].task), reply |-> reply]

\* An answer that got lost reads as a failure.
Send(c, reply) ==
  /\ call[c].at = "send"
  /\ mails' = Append(mails, Mail(c, reply))
  /\ call' = [call EXCEPT ![c].at = "sent",
       ![c].reply = IF reply = "lost" THEN "failed" ELSE reply]
  /\ UNCHANGED <<task, approval, resolution, followed, told, calls, crashes>>

\* _ensure_draft_delivery_followup
NeedsFollowup(reply) == reply \in {"failed", "skipped"}

\* draft_sent or draft_send_failed; what did not work is followed up.
RecordSend(c) ==
  /\ call[c].at = "sent" /\ call[c].kind = "approve"
  /\ told' = IF call[c].reply = "sent" THEN told + 1 ELSE told
  /\ IF NeedsFollowup(call[c].reply) THEN Goto(c, "look") ELSE Leave(c)
  /\ UNCHANGED <<task, approval, resolution, followed, mails, calls, crashes>>

-----------------------------------------------------------------------------
(* _open_delivery_followup *)

\* list_human_tasks(status="pending"): a claimed one is not among them.
Followup(t) == task[t].status = "pending"

Found(c, t) == call' = [call EXCEPT ![c].task = t,
                          ![c].at = IF call[c].kind = "reopen" THEN "owned" ELSE "idle"]

Look(c) ==
  /\ call[c].at = "look"
  /\ \/ \E t \in Task : Followup(t) /\ Found(c, t)
     \/ (\A t \in Task : ~Followup(t)) /\ Goto(c, "create")
  /\ UNCHANGED <<task, approval, resolution, followed, mails, told, calls, crashes>>

CreateFollowup(c, t) ==
  /\ call[c].at = "create"
  /\ Insert(t)
  /\ call' = [call EXCEPT ![c].task = t, ![c].at = "opened"]
  /\ UNCHANGED <<approval, resolution, followed, mails, told, calls, crashes>>

\* draft_send_followup_created or _reopened
RecordFollowup(c) ==
  /\ call[c].at = "opened"
  /\ followed' = TRUE
  /\ Found(c, call[c].task)
  /\ UNCHANGED <<task, approval, resolution, mails, told, calls, crashes>>

-----------------------------------------------------------------------------
(* retry_delivery_followup_send *)

\* The follow-up exists and no other operator owns it.
MayRetry(t, o) == task[t] # NoRow /\ task[t].operator \in {Nobody, o}

BeginRetry(c, t, o) ==
  /\ MayRetry(t, o)
  /\ Begin(c, [IdleCall EXCEPT !.at = IF task[t].operator = o THEN "send" ELSE "own",
                               !.kind = "retry", !.task = t, !.operator = o])
  /\ UNCHANGED <<task, approval, resolution, followed, mails, told, crashes>>

\* assign_handoff: whoever has it by now loses it.  A returned one is not assignable.
Own(c) ==
  /\ call[c].at = "own"
  /\ \/ AssignRow(call[c].task, call[c].operator) /\ Goto(c, "send")
     \/ ~Changeable(call[c].task) /\ Leave(c) /\ UNCHANGED task
  /\ UNCHANGED <<approval, resolution, followed, mails, told, calls, crashes>>

\* Mutant of RecordRetry: only a follow-up that can be returned is told of.
RecordRetryOpen(c) ==
  /\ call[c].at = "sent" /\ call[c].kind = "retry"
  /\ told' = IF call[c].reply = "sent" /\ Changeable(call[c].task) THEN told + 1 ELSE told
  /\ IF call[c].reply = "sent"
       THEN call' = [call EXCEPT ![c].at = "return", ![c].resolution = "retry_sent"]
       ELSE Leave(c)
  /\ UNCHANGED <<task, approval, resolution, followed, mails, calls, crashes>>

\* draft_send_retry_attempted; a mail that was not sent raises.
RecordRetry(c) ==
  /\ call[c].at = "sent" /\ call[c].kind = "retry"
  /\ told' = IF call[c].reply = "sent" THEN told + 1 ELSE told
  /\ IF call[c].reply = "sent"
       THEN call' = [call EXCEPT ![c].at = "return", ![c].resolution = "retry_sent"]
       ELSE Leave(c)
  /\ UNCHANGED <<task, approval, resolution, followed, mails, calls, crashes>>

\* return_human_task, for a retry and for complete_handoff; "handoff_not_returnable".
Return(c) ==
  /\ call[c].at = "return"
  /\ LET t == call[c].task
     IN  \/ /\ ReturnRow(t, call[c].operator)
            /\ resolution' = [resolution EXCEPT ![t] = call[c].resolution]
            /\ Goto(c, "resolved")
         \/ /\ ~Changeable(t)
            /\ Leave(c)
            /\ UNCHANGED <<task, resolution>>
  /\ UNCHANGED <<approval, followed, mails, told, calls, crashes>>

\* draft_send_followup_resolved: the thread may be resumed from it.
RecordResolution(c) ==
  /\ call[c].at = "resolved"
  /\ followed' = TRUE
  /\ Leave(c)
  /\ UNCHANGED <<task, approval, resolution, mails, told, calls, crashes>>

-----------------------------------------------------------------------------
(* complete_handoff, resume_thread_delivery_followup, and a claim by /v1/human/tasks *)

BeginComplete(c, t, o, r) ==
  /\ task[t] # NoRow
  /\ Begin(c, [IdleCall EXCEPT !.at = "return", !.kind = "complete", !.task = t,
                               !.operator = o, !.resolution = r])
  /\ UNCHANGED <<task, approval, resolution, followed, mails, told, crashes>>

BeginReopen(c, o) ==
  /\ followed
  /\ Begin(c, [IdleCall EXCEPT !.at = "look", !.kind = "reopen", !.operator = o])
  /\ UNCHANGED <<task, approval, resolution, followed, mails, told, crashes>>

\* The owner is looked up again; another operator's is left alone.
Owned(c) ==
  /\ call[c].at = "owned"
  /\ IF task[call[c].task].operator \in {Nobody, call[c].operator}
       THEN Goto(c, "take")
       ELSE Leave(c)
  /\ UNCHANGED <<task, approval, resolution, followed, mails, told, calls, crashes>>

Take(c) ==
  /\ call[c].at = "take"
  /\ \/ AssignRow(call[c].task, call[c].operator)
     \/ ~Changeable(call[c].task) /\ UNCHANGED task
  /\ Leave(c)
  /\ UNCHANGED <<approval, resolution, followed, mails, told, calls, crashes>>

Claim(t, o) ==
  /\ ClaimRow(t, o)
  /\ UNCHANGED <<approval, resolution, followed, call, mails, told, calls, crashes>>

Crash ==
  /\ crashes < MaxCrashes
  /\ crashes' = crashes + 1
  /\ call' = [c \in Client |-> IdleCall]
  /\ UNCHANGED <<task, approval, resolution, followed, mails, told, calls>>

-----------------------------------------------------------------------------
Ask(c) ==
  \/ \E kind \in {"approve", "reject"} : BeginDecision(c, kind)
  \/ \E t \in Task, o \in Operator :
       \/ BeginRetry(c, t, o)
       \/ \E r \in ByHand : BeginComplete(c, t, o, r)
  \/ \E o \in Operator : BeginReopen(c, o)

Serve(c) ==
  \/ Decide(c) \/ Resume(c) \/ ResumeRaises(c)
  \/ \E reply \in Reply : Send(c, reply)
  \/ RecordSend(c) \/ Look(c) \/ RecordFollowup(c)
  \/ \E t \in Task : CreateFollowup(c, t)
  \/ Own(c) \/ RecordRetry(c) \/ Return(c) \/ RecordResolution(c)
  \/ Owned(c) \/ Take(c)

NextProduct == Expire \/ Crash \/ \E c \in Client : Ask(c) \/ Serve(c)

Next == NextProduct \/ \E t \in Task, o \in Operator : Claim(t, o)

Spec == Init /\ [][Next]_vars

-----------------------------------------------------------------------------
(* Properties *)

Sent(kind) == {i \in DOMAIN mails : mails[i].by = kind}
Accepted == {i \in DOMAIN mails : mails[i].reply \in {"sent", "lost"}}
AtRest == crashes = 0 /\ \A c \in Client : call[c].at = "idle"

\* However many approve it at once, with or without somebody who rejects it, an
\* approval mails the draft once, and only a draft that stays approved is mailed.
ApprovedOnce ==
  /\ Cardinality(Sent("approve")) <= 1
  /\ mails # <<>> => approval = "approved"

\* An approved draft does not get lost: it was mailed, or there is a follow-up.
DeliveredOrFollowed ==
  AtRest /\ approval = "approved" => Accepted # {} \/ \E t \in Task : task[t] # NoRow

\* Every mail the provider said it accepted is told of by an event.
EveryMailTold ==
  AtRest => told = Cardinality({i \in DOMAIN mails : mails[i].reply = "sent"})

\* A follow-up that a retry has closed was mailed, by a retry of that follow-up.
RetriedWasMailed ==
  \A t \in Task : resolution[t] = "retry_sent" =>
    \E i \in Sent("retry") : mails[i].task = t /\ mails[i].reply = "sent"

\* One client after the other, through the product alone: the draft has at most one
\* follow-up that is open.
OneFollowup == Cardinality({t \in Task : Open(t)}) <= 1

\* api/routes/landing_channel.py:243, product/projections/handoffs.py:169: a retry is
\* offered for an open follow-up, and its link is of no use once it was used.
\* Not kept by the code: README.md, "Departures from the documents".
RetriedWhileOpen == \A i \in Sent("retry") : mails[i].open

\* product/service.py:18381: no operator retries a follow-up that another one owns.
\* Not kept by the code: README.md, "Departures from the documents".
RetriedByOwner == \A i \in Sent("retry") : mails[i].operator = mails[i].owner
=============================================================================
