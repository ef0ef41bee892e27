------------------------------ MODULE ReviewChat ------------------------------
(***************************************************************************)
(* The review chat of a lineage of runs.  A message is answered or becomes *)
(* a proposal bound to what the operator saw: the run, its review version  *)
(* and the versions of its work order.  A confirmed proposal records a     *)
(* review and either a new version of the work order or a targeted rerun.  *)
(* Operators also review runs and edit work orders outside the chat, and   *)
(* the chat keeps its row locks while the language model is asked.         *)
(* The text of a message is reduced to what parse_review_chat_intent makes *)
(* of it.                                                                  *)
(***************************************************************************)
EXTENDS Integers, Sequences, FiniteSets

CONSTANTS
  Clients,         \* requests that may be served at once
  MessageKeys,     \* idempotency keys of messages
  ChatMessages,    \* what operators write
  LineageLimit,    \* depth at which no child run is created
  Blocked,         \* problems whose stage cannot be rerun: its integration is
                   \* disabled or its input is not stored
  DocumentLimit,   \* versions of a work order the chat goes up to
  MaxDocuments,    \* bound: versions of the work order
  MaxChatReviews,  \* bound: reviews of a run outside the chat
  MaxRestarts      \* bound: restarts of the server

(* What the parser makes of a message.                                     *)
Intent ==
  [decision : {"none", "approve", "reject", "correct", "keep_human_review"},
   category : {"none", "rag_retrieval_issue", "rag_interpretation_issue",
               "weather_context_issue", "ml_prediction_issue", "fault_analysis_issue",
               "report_draft_issue", "insufficient_evidence", "operational_policy_issue"},
   explicit : BOOLEAN, document : BOOLEAN]
ASSUME ChatAssumption ==
  /\ ChatMessages \subseteq Intent
  /\ LineageLimit \in Nat /\ MaxChatReviews \in Nat /\ MaxRestarts \in Nat
  /\ DocumentLimit \in Nat /\ MaxDocuments \in Nat \ {0} /\ DocumentLimit <= MaxDocuments

VARIABLES
  runs,       \* the root run and its descendants, by creation
  reviews,    \* reviews[r]: agent_run_reviews of run r, by version
  documents,  \* incident_document_versions of the work order
  thread,     \* review_chat_threads: whether it is open, and its context
  messages,   \* messages[k]: whether the message with key k is stored
  proposals,  \* review_chat_action_proposals
  client,     \* client[c]: where the request is
  restarts

chatVars == <<runs, reviews, documents, thread, messages, proposals, client, restarts>>

None == 0
Idle == [step |-> "idle"]
Root == [parent |-> None, depth |-> 0, status |-> "completed", request |-> "none",
         live |-> FALSE, by |-> None]

ChatInit ==
  /\ runs = <<Root>>
  /\ reviews = <<<<>>>>
  /\ documents = <<>>
  /\ thread = [open |-> FALSE, context |-> <<>>]
  /\ messages = [k \in MessageKeys |-> FALSE]
  /\ proposals = <<>>
  /\ client = [c \in Clients |-> Idle]
  /\ restarts = 0
-----------------------------------------------------------------------------
(* What a message asks for.                                                *)
Targeted == {"rag_retrieval_issue", "rag_interpretation_issue", "weather_context_issue",
             "ml_prediction_issue"}
Category(m) ==
  IF /\ m.decision = "correct" /\ m.document
     /\ m.category = "none" \/ (m.category \in Targeted /\ ~m.explicit)
  THEN "report_draft_issue" ELSE m.category
Proposes(m) ==
  /\ m.decision # "none"
  /\ m.decision = "reject" => Category(m) \notin {"none", "report_draft_issue"}
Reruns(m) ==
  /\ m.decision \in {"reject", "correct"} /\ Category(m) \in Targeted
  /\ m.decision = "reject" \/ m.explicit
Revises(m) == m.decision = "correct" /\ Category(m) = "report_draft_issue"
(* record_review refuses contract v2 reviews of these kinds.               *)
Refused(m) == m.decision \in {"reject", "keep_human_review"} /\ Category(m) = "none"

(* What the operator sees: _context_for_run.                               *)
Context(r) == <<r, Len(reviews[r]), Len(documents)>>
LatestRun ==
  CHOOSE r \in DOMAIN runs :
    /\ runs[r].status = "completed"
    /\ \A s \in DOMAIN runs : runs[s].status = "completed" => s <= r

At(c, step) == client[c].step = step
Goes(c, step) == client' = [client EXCEPT ![c].step = step]
Answers(c) == client' = [client EXCEPT ![c] = Idle]
ThreadLocked == \E c \in Clients : client[c].step \in {"locked", "draft", "persist"}
Locked(p) == \E c \in Clients : client[c].step \in {"confirm", "persist"} /\ client[c].proposal = p
Awaiting == {p \in DOMAIN proposals : proposals[p].status = "awaiting_confirmation"}

(* _refresh_context: a new context makes the open proposals stale.         *)
Refresh(all, context) ==
  IF thread.context = context THEN all
  ELSE [p \in DOMAIN all |-> IF all[p].status = "awaiting_confirmation"
                             THEN [all[p] EXCEPT !.status = "stale"] ELSE all[p]]
Refreshes(context) == thread.context # context /\ Awaiting # {}
RowsFree(context) == Refreshes(context) => \A p \in Awaiting : ~Locked(p)
(* Proposals a message in progress has made stale without committing.      *)
Held(p) ==
  \E c \in Clients : At(c, "draft") /\ Refreshes(client[c].context) /\ p \in Awaiting

WithProposal(p, status) == proposals' = [proposals EXCEPT ![p].status = status]
-----------------------------------------------------------------------------
(* open_review_chat, which also writes the first version of the work order.*)
OpenThread ==
  /\ ~ThreadLocked
  /\ documents' = IF documents = <<>> THEN <<[parent |-> None, by |-> None]>> ELSE documents
  /\ LET context == <<LatestRun, Len(reviews[LatestRun]), Len(documents')>> IN
     /\ thread.open => RowsFree(context)
     /\ thread' = [open |-> TRUE, context |-> context]
     /\ proposals' = IF thread.open THEN Refresh(proposals, context) ELSE proposals
  /\ UNCHANGED <<runs, reviews, messages, client, restarts>>

(* list_pending_review_chat_proposals refreshes and expires.               *)
ListPending ==
  LET context == Context(LatestRun) IN
  /\ thread.open /\ ~ThreadLocked /\ \A p \in Awaiting : ~Locked(p)
  /\ thread' = [thread EXCEPT !.context = context]
  /\ LET fresh == Refresh(proposals, context) IN
     proposals' = [p \in DOMAIN fresh |->
                     IF fresh[p].status = "awaiting_confirmation" /\ fresh[p].due
                     THEN [fresh[p] EXCEPT !.status = "expired"] ELSE fresh[p]]
  /\ UNCHANGED <<runs, reviews, documents, messages, client, restarts>>

(* submit_review_chat_message locks the thread ...                         *)
LockThread(c, k, m) ==
  /\ At(c, "idle") /\ thread.open /\ ~ThreadLocked
  /\ client' = [client EXCEPT ![c] = [step |-> "locked", key |-> k, message |-> m]]
  /\ UNCHANGED <<runs, reviews, documents, thread, messages, proposals, restarts>>

Seen(k) == messages[k]

(* ... answers a repeated message, or reads the context ...                *)
ReadContext(c) ==
  LET context == Context(LatestRun) IN
  /\ At(c, "locked")
  /\ \/ Seen(client[c].key) /\ Answers(c)
     \/ /\ ~Seen(client[c].key) /\ RowsFree(context)
        /\ \E base \in DOMAIN documents :
             client' = [client EXCEPT ![c] =
               [step |-> "draft", key |-> client[c].key, message |-> client[c].message,
                context |-> context, base |-> base, latest |-> Len(documents)]]
  /\ UNCHANGED <<runs, reviews, documents, thread, messages, proposals, restarts>>

(* ... asks the model and stores the messages and the proposal.  A draft   *)
(* that fails its validation is only talked about.                         *)
StoreMessage(c) ==
  LET m == client[c].message
      fresh == Refresh(proposals, client[c].context)
      new == [status |-> "awaiting_confirmation", key |-> client[c].key, message |-> m,
              context |-> client[c].context, base |-> client[c].base,
              latest |-> client[c].latest, due |-> FALSE, blocked |-> FALSE, child |-> None]
  IN
  /\ At(c, "draft")
  /\ thread' = [thread EXCEPT !.context = client[c].context]
  /\ messages' = [messages EXCEPT ![client[c].key] = TRUE]
  /\ \/ Proposes(m) /\ proposals' = Append(fresh, new)
     \/ (~Proposes(m) \/ Revises(m)) /\ proposals' = fresh
  /\ Answers(c)
  /\ UNCHANGED <<runs, reviews, documents, restarts>>
-----------------------------------------------------------------------------
(* Seeded fault: a proposal is confirmed whatever its status.              *)
ConfirmableAlways(p) == TRUE
Confirmable(p) == proposals[p].status = "awaiting_confirmation"

(* confirm_review_chat_proposal locks the proposal.  A repeated request    *)
(* hands a child that is not scheduled to the scheduler again.             *)
LockProposal(c, p) ==
  /\ At(c, "idle") /\ ~Locked(p) /\ ~Held(p)
  /\ \/ /\ proposals[p].status = "executed" /\ proposals[p].child # None
        /\ runs[proposals[p].child].request \in {"queued", "schedule_failed"}
        /\ client' = [client EXCEPT ![c] = [step |-> "schedule", run |-> proposals[p].child]]
     \/ /\ Confirmable(p)
        /\ client' = [client EXCEPT ![c] = [step |-> "confirm", proposal |-> p]]
  /\ UNCHANGED <<runs, reviews, documents, thread, messages, proposals, restarts>>

(* Seeded fault: only the time limit is checked.                           *)
NeverStale(q) == FALSE
Stale(q) == Context(q.context[1]) # q.context

(* With the thread and the run's reviews locked, it compares the context.  *)
CheckContext(c) ==
  LET p == client[c].proposal  q == proposals[p] IN
  /\ At(c, "confirm") /\ ~ThreadLocked
  /\ \/ Stale(q) /\ WithProposal(p, "stale") /\ Answers(c)
     \/ ~Stale(q) /\ q.due /\ WithProposal(p, "expired") /\ Answers(c)
     \/ ~Stale(q) /\ ~q.due /\ Goes(c, "persist") /\ UNCHANGED proposals
  /\ UNCHANGED <<runs, reviews, documents, thread, messages, restarts>>

Reviewed(p, r) ==
  reviews' = [i \in 1..Len(runs') |->
                IF i = r THEN Append(reviews[r], [by |-> p, after |-> proposals[p].context[2]])
                ELSE IF i \in DOMAIN reviews THEN reviews[i] ELSE <<>>]

(* Seeded fault: the chat writes past its limit.                           *)
UndraftedUnlimited(q) == ~q.message.document
(* _persist_proposed_document_version: another version since the context   *)
(* was read makes the proposal stale; without a draft or past the limit    *)
(* it is executed as blocked.                                              *)
Undrafted(q) == ~q.message.document \/ Len(documents) >= DocumentLimit
PersistDocument(c) ==
  LET p == client[c].proposal  q == proposals[p] IN
  /\ At(c, "persist") /\ Revises(q.message)
  /\ UNCHANGED <<runs, thread, messages, restarts>>
  /\ \/ /\ q.message.document /\ Len(documents) # q.latest
        /\ WithProposal(p, "stale")
        /\ UNCHANGED <<reviews, documents>>
     \/ /\ q.message.document => Len(documents) = q.latest
        /\ Undrafted(q)
        /\ proposals' = [proposals EXCEPT ![p].status = "executed", ![p].blocked = TRUE]
        /\ UNCHANGED <<reviews, documents>>
     \/ /\ Len(documents) = q.latest /\ ~Undrafted(q)
        /\ documents' = Append(documents, [parent |-> q.base, by |-> p])
        /\ WithProposal(p, "executed")
        /\ Reviewed(p, q.context[1])
  /\ Answers(c)

(* rerun_block_status                                                      *)
RerunBlocked(m, r) == runs[r].depth >= LineageLimit \/ Category(m) \in Blocked

(* record_review and create_targeted_child_run.                            *)
RecordProposedReview(c) ==
  LET p == client[c].proposal
      q == proposals[p]
      r == q.context[1]
      rerun == Reruns(q.message) /\ ~RerunBlocked(q.message, r)
      child == [parent |-> r, depth |-> runs[r].depth + 1, status |-> "queued",
                request |-> "queued", live |-> FALSE, by |-> p]
  IN
  /\ At(c, "persist") /\ ~Revises(q.message) /\ ~Refused(q.message)
  /\ runs' = IF rerun THEN Append(runs, child) ELSE runs
  /\ Reviewed(p, r)
  /\ proposals' = [proposals EXCEPT ![p].status = "executed",
                                    ![p].blocked = Reruns(q.message) /\ ~rerun,
                                    ![p].child = IF rerun THEN Len(runs') ELSE None]
  /\ IF rerun THEN client' = [client EXCEPT ![c] = [step |-> "schedule", run |-> Len(runs')]]
              ELSE Answers(c)
  /\ UNCHANGED <<documents, thread, messages, restarts>>

(* A review record_review refuses: the exception undoes the transaction.   *)
RaiseRefused(c) ==
  /\ At(c, "persist") /\ Refused(proposals[client[c].proposal].message)
  /\ Answers(c)
  /\ UNCHANGED <<runs, reviews, documents, thread, messages, proposals, restarts>>

(* Behind the commit the child is scheduled and its request marked, if it  *)
(* is still queued; either may fail.                                       *)
Marked(r, status) ==
  [runs EXCEPT ![r].request = IF @ = "queued" THEN status ELSE @]
ScheduleChild(c) ==
  LET r == client[c].run IN
  /\ At(c, "schedule")
  /\ \/ runs' = [Marked(r, "scheduled") EXCEPT ![r].live = TRUE]
     \/ runs' = [runs EXCEPT ![r].live = TRUE]
     \/ runs' = Marked(r, "schedule_failed")
  /\ Answers(c)
  /\ UNCHANGED <<reviews, documents, thread, messages, proposals, restarts>>

CancelProposal(p) ==
  /\ proposals[p].status = "awaiting_confirmation" /\ ~Locked(p) /\ ~Held(p) /\ ~ThreadLocked
  /\ WithProposal(p, "cancelled")
  /\ UNCHANGED <<runs, reviews, documents, thread, messages, client, restarts>>
-----------------------------------------------------------------------------
(* A message waits for proposals a confirmation has locked, which waits    *)
(* for the thread the message has locked: PostgreSQL aborts one of them.   *)
DeadlockVictim(c, d) ==
  /\ At(c, "locked") /\ ~Seen(client[c].key) /\ ~RowsFree(Context(LatestRun))
  /\ At(d, "confirm")
  /\ Answers(c) \/ Answers(d)
  /\ UNCHANGED <<runs, reviews, documents, thread, messages, proposals, restarts>>

(* Outside the chat: submit_operator_review, edit_document, the rerun.     *)
SubmitOperatorReview(r) ==
  /\ Len(reviews[r]) < MaxChatReviews
  /\ ~\E c \in Clients : At(c, "persist") /\ proposals[client[c].proposal].context[1] = r
  /\ reviews' = [reviews EXCEPT ![r] = Append(@, [by |-> None, after |-> Len(@)])]
  /\ UNCHANGED <<runs, documents, thread, messages, proposals, client, restarts>>

EditDocument ==
  /\ Len(documents) \in 1..MaxDocuments - 1
  /\ documents' = Append(documents, [parent |-> Len(documents), by |-> None])
  /\ UNCHANGED <<runs, reviews, thread, messages, proposals, client, restarts>>

RunCompletes(r) ==
  /\ runs[r].live /\ runs[r].status = "queued"
  /\ runs' = [runs EXCEPT ![r].status = "completed", ![r].live = FALSE]
  /\ UNCHANGED <<reviews, documents, thread, messages, proposals, client, restarts>>

(* PROPOSAL_TTL has passed.                                                *)
TimePasses(p) ==
  /\ proposals[p].status = "awaiting_confirmation" /\ ~proposals[p].due
  /\ proposals' = [proposals EXCEPT ![p].due = TRUE]
  /\ UNCHANGED <<runs, reviews, documents, thread, messages, client, restarts>>

(* The server dies with its transactions; at startup it schedules queued   *)
(* runs and marks their requests.                                          *)
Restart ==
  /\ restarts < MaxRestarts
  /\ restarts' = restarts + 1
  /\ client' = [c \in Clients |-> Idle]
  /\ runs' = [r \in DOMAIN runs |->
       IF runs[r].status # "queued" THEN runs[r]
       ELSE [runs[r] EXCEPT !.live = TRUE,
               !.request = IF @ \in {"queued", "schedule_failed"} THEN "scheduled" ELSE @]]
  /\ UNCHANGED <<reviews, documents, thread, messages, proposals>>

ChatNext ==
  \/ OpenThread \/ ListPending \/ EditDocument \/ Restart
  \/ \E c \in Clients :
       \/ \E k \in MessageKeys, m \in ChatMessages : LockThread(c, k, m)
       \/ \E p \in DOMAIN proposals : LockProposal(c, p)
       \/ ReadContext(c) \/ StoreMessage(c) \/ CheckContext(c) \/ PersistDocument(c)
       \/ RecordProposedReview(c) \/ RaiseRefused(c) \/ ScheduleChild(c)
       \/ \E d \in Clients : DeadlockVictim(c, d)
  \/ \E p \in DOMAIN proposals : CancelProposal(p) \/ TimePasses(p)
  \/ \E r \in DOMAIN runs : SubmitOperatorReview(r) \/ RunCompletes(r)

ChatSpec == ChatInit /\ [][ChatNext]_chatVars
-----------------------------------------------------------------------------
ProposalStatuses == {"awaiting_confirmation", "executed", "cancelled", "expired", "stale"}
ChatTypeOK ==
  /\ \A r \in DOMAIN runs : /\ runs[r].parent \in 0..r - 1
                            /\ runs[r].depth \in 0..LineageLimit
                            /\ runs[r].status \in {"queued", "completed"}
                            /\ runs[r].request \in
                                 {"none", "queued", "scheduled", "schedule_failed"}
  /\ DOMAIN reviews = DOMAIN runs
  /\ Len(documents) <= MaxDocuments
  /\ messages \in [MessageKeys -> BOOLEAN]
  /\ \A p \in DOMAIN proposals : proposals[p].status \in ProposalStatuses

Of(p, seq) == Cardinality({i \in DOMAIN seq : seq[i].by = p})
ReviewsOf(p) ==
  UNION {{<<r, i>> : i \in {j \in DOMAIN reviews[r] : reviews[r][j].by = p}} : r \in DOMAIN runs}

(* A message that is sent again under its key makes no second proposal.    *)
OneProposalPerMessage ==
  \A p, q \in DOMAIN proposals : proposals[p].key = proposals[q].key => p = q

(* The child of a rerun that is reported as scheduled was handed to the    *)
(* scheduler.                                                              *)
ScheduledIsLive ==
  \A r \in DOMAIN runs :
    runs[r].request = "scheduled" => runs[r].live \/ runs[r].status = "completed"

(* However often a message is sent and its proposal confirmed, and what-   *)
(* ever is confirmed, edited or restarted meanwhile, the proposal acts     *)
(* once and as a whole: a revision that is executed and not blocked has    *)
(* its review and its version of the work order, another one its review    *)
(* and, if it is to be rerun, its child, which is only reported as         *)
(* scheduled where it is; one that is not executed leaves nothing behind.  *)
ActsOnceAsAWhole ==
  /\ OneProposalPerMessage
  /\ \A p \in DOMAIN proposals :
       LET q == proposals[p]
           done == q.status = "executed"
           revised == done /\ Revises(q.message) /\ ~q.blocked
       IN /\ Cardinality(ReviewsOf(p)) =
               IF done /\ (Revises(q.message) => ~q.blocked) THEN 1 ELSE 0
          /\ Of(p, documents) = IF revised THEN 1 ELSE 0
          /\ Of(p, runs) = IF done /\ Reruns(q.message) /\ ~q.blocked THEN 1 ELSE 0
  /\ ScheduledIsLive

(* A proposal acts on what its operator saw: its review follows the review *)
(* version it was proposed at, its version of the work order the one that  *)
(* was the latest then.                                                    *)
ActsOnWhatWasSeen ==
  \A p \in DOMAIN proposals :
    /\ \A x \in ReviewsOf(p) : x = <<proposals[p].context[1], proposals[p].context[2] + 1>>
    /\ \A i \in DOMAIN documents : documents[i].by = p => i = proposals[p].latest + 1

(* A confirmation acts once, as a whole, and on what the operator was      *)
(* shown.                                                                  *)
ActsAsConfirmed == ActsOnceAsAWhole /\ ActsOnWhatWasSeen
=============================================================================
