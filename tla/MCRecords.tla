------------------------------ MODULE MCRecords -------------------------------
(***************************************************************************)
(* The records operators and programs keep, on small instances.  They      *)
(* share no state: a behaviour exercises the one focus names and leaves    *)
(* the others alone.                                                       *)
(*   promote   Retraining on the migrated schema: two jobs train and two   *)
(*             operators promote their candidates, at once                 *)
(*   label     Retraining on the tests' schema: two operators, one job,    *)
(*             the automation may retrain, a crash                         *)
(*   retrain   the same with one operator and two jobs                     *)
(*   revise, rerun, other   ReviewChat: two requests, with messages that   *)
(*             revise the work order, that ask for a rerun, and the others *)
(*   wording   WorkOrderRevision: what messages of few words become and    *)
(*             what is saved of every answer of the language model         *)
(*   review    OperatorReviews: two reviews of a run under two keys        *)
(*   decide    the same: two decisions on each policy candidate            *)
(*   document  IncidentDocuments                                           *)
(*   report    OperationsReports   policy    OperationsPolicy              *)
(*   action    RunActions          migrate   Migrations                    *)
(***************************************************************************)
EXTENDS Integers, Sequences, FiniteSets, TLC,
        OperatorReviews, IncidentDocuments, OperationsReports, OperationsPolicy, RunActions,
        Retraining, Migrations, ReviewChat, WorkOrderRevision

VARIABLE focus

vars == <<focus, retrainingVars, chatVars, wordingVars, migrationVars,
          reviewVars, documentVars, reportVars, policyVars, actionVars>>

One == {"a"}
-----------------------------------------------------------------------------
Label == INSTANCE Retraining WITH Migrated <- FALSE, MaxCrashes <- 1

Message(decision, category, document_) ==
  [decision |-> decision, category |-> category, explicit |-> FALSE, document |-> document_]
Revising == {Message("correct", "none", TRUE)}
Rerun == INSTANCE ReviewChat WITH
  MessageKeys <- One, ChatMessages <- {Message("reject", "rag_retrieval_issue", FALSE)},
  DocumentLimit <- 1, MaxDocuments <- 1, MaxRestarts <- 1
Other == INSTANCE ReviewChat WITH
  MessageKeys <- One,
  ChatMessages <- {Message("none", "none", FALSE), Message("approve", "none", FALSE),
                   Message("correct", "report_draft_issue", FALSE),
                   Message("keep_human_review", "none", FALSE),
                   Message("reject", "rag_interpretation_issue", FALSE)},
  Blocked <- {"rag_interpretation_issue"}, MaxDocuments <- 2

(* Every message of two words; some of three, about an item; some that     *)
(* follow another one; and those of the console, which quotes what it is   *)
(* about, with every instruction of two words of some.                     *)
Said(own, anchor, item) ==
  [own |-> own, frame |-> {}, anchor |-> anchor, asked |-> {}, item |-> item, quoted |-> "none"]
Known == {"approve", "reject", "hold", "revise", "delete", "reinforce", "shorten", "lacking",
          "again", "whole", "title", "safety", "gear", "procedure", "evidence", "summary",
          "search", "weather", "fault", "policy", "why", "recall", "stop", "sushi", "advise",
          "attack", "that", "other"}
Named == [title |-> "title", summary |-> "summary", risk |-> "evidence",
          procedure |-> "procedure", safety |-> "safety", gear |-> "gear", caution |-> "safety",
          other |-> "other"]
Framed(own, quoted, item) ==
  [Said(own, {}, item) EXCEPT !.frame = {"body", "revise", Named[quoted]}, !.quoted = quoted]
SomeSayings ==
  {Said({w, x}, {}, 0) : w, x \in Known}
    \cup {Said({p, v, x}, {}, i) : p \in {"safety", "procedure", "evidence"},
            v \in {"revise", "delete", "shorten"}, x \in {"gear", "why"}, i \in 0..3}
    \cup {Said({p, v}, {}, i) : p \in {"safety", "procedure", "evidence"},
            v \in {"revise", "delete", "shorten"}, i \in 1..3}
    \cup {[Said({"that", v}, a, 0) EXCEPT !.asked = b] : v \in {"shorten", "delete", "stop", "whole"},
            a \in {{"safety", "gear", "revise"}, {"procedure", "revise"}, {"why", "safety"}},
            b \in {{}, {"gear"}}}
    \cup {Framed({v, x}, q, i) : v \in {"revise", "delete", "shorten"},
            x \in {"gear", "reinforce", "sushi"}, q \in DOMAIN Named, i \in 0..1}
    \cup {[Said({v, x}, {}, 0) EXCEPT !.frame = {"body", "revise", "whole"}] :
            v \in {"revise", "delete", "shorten"}, x \in {"gear", "reinforce", "safety"}}
Line(id, traits) == [heading |-> "none", id |-> id, traits |-> traits]
Full == <<Line("t", {}), Heading("summary"), Line("s", {"operational"}),
          Heading("procedure"), Line("p", {"operational"}), Line("q", {"operational"}),
          Heading("safety"), Line("x", {"operational", "strong"}), Line("y", {"strong"})>>
Short == <<Line("t", {}), Heading("risk"), Line("r", {"operational"})>>
Gaps == <<Line("t", {}), Heading("procedure"), Heading("risk"), Line("r", {"operational"}),
          Heading("safety")>>
Said1 == {Heading("safety"), Heading("procedure"), Line("n", {"operational", "strong"}),
          Line("m", {"operational"}), Line("f", {"foreign"}),
          Line("h", {"strong", "unsafe", "mention"})}
SomeWorkOrders == {Full, Short, Gaps}
SomeReplies == {<<>>} \cup {<<l>> : l \in Said1} \cup {<<l, k>> : l, k \in Said1}

(* What the constants of the modules that are extended stand for.          *)
Body(decision, expected, rerun) ==
  [decision |-> decision, expected |-> expected, rerun |-> rerun]
SomeReviews == {Body("correct", 0, TRUE), Body("reject", -1, FALSE)}

Request(op, expected, content) == [op |-> op, expected |-> expected, content |-> content]
SomeRequests ==
  {Request("generate", 0, TRUE)} \cup [op : {"edit"}, expected : 1..2, content : BOOLEAN]
    \cup {Request("approve", v, FALSE) : v \in 1..2}

(* One migrator and one server of the release with 22 migrations, one of   *)
(* each of the release with 18.                                            *)
SomeReleases == [p \in {"a", "b", "s", "t"} |-> IF p \in {"a", "s"} THEN 22 ELSE 18]

-----------------------------------------------------------------------------
Chats == {"revise", "rerun", "other"}
Retrainings == {"promote", "label", "retrain"}
Init ==
  /\ focus \in Retrainings \cup Chats
                 \cup {"wording", "review", "decide", "document", "report", "policy", "action", "migrate"}
  /\ IF focus \in {"label", "retrain"} THEN Label!RetrainingInit ELSE RetrainingInit
  /\ focus \notin Retrainings => task = [t \in Tasks |-> "pending"]
  /\ focus = "promote" => task = [t \in Tasks |-> "corrected"]
  /\ IF focus \in {"rerun", "other"} THEN Rerun!ChatInit ELSE ChatInit
  /\ WordingInit
  /\ focus # "wording" => saying = Said({"approve"}, {}, 0) /\ workOrder = Full /\ ~about
  /\ ReviewInit /\ DocumentInit /\ ReportInit /\ PolicyInit /\ ActionInit /\ MigrationInit
  /\ focus # "report" => now = 32
  /\ focus # "migrate" => schema = {}

(* In a review behaviour nobody decides on candidates; in the other each   *)
(* run has one review and one key is in use.                               *)
NobodyDecides == \A c \in Reviewers : operator[c].step # "decide"
OneReviewEach ==
  /\ \A r \in Runs : LatestReview(r) <= 1
  /\ \A c \in Reviewers : operator[c].step = "record" => operator[c].key = "a"

(* Requests differ only in their names: the first one that is free serves. *)
FirstFree ==
  client["b"].step = "idle" /\ client'["b"].step # "idle" => client["a"].step # "idle"

FirstOperator ==
  handler["b"].step = "idle" /\ handler'["b"].step # "idle" => handler["a"].step # "idle"

(* Where two jobs train, a task does at once what touches nothing but its  *)
(* own job, and nobody rejects or changes the mode; where two candidates   *)
(* are promoted, both jobs are there before one is approved.               *)
TwoJobs ==
  /\ \A j \in DOMAIN trainer :
       trainer[j].step \in {"scheduled", "mark", "complete", "review", "fail"}
         => trainer'[j] # trainer[j]
  /\ \A j \in DOMAIN job : job'[j] # "rejected"
  /\ \A h \in DOMAIN handler : handler'[h].step # "reject"
  /\ mode' = mode \/ handler' # handler
BothJobs == (\E j \in DOMAIN job : job[j] = "absent") => UNCHANGED trainer

Next ==
  /\ UNCHANGED focus
  /\ IF focus \in Retrainings THEN TRUE ELSE UNCHANGED retrainingVars
  /\ IF focus \in Chats THEN TRUE ELSE UNCHANGED chatVars
  /\ IF focus = "wording" THEN TRUE ELSE UNCHANGED wordingVars
  /\ IF focus \in {"review", "decide"} THEN TRUE ELSE UNCHANGED reviewVars
  /\ IF focus = "document" THEN TRUE ELSE UNCHANGED documentVars
  /\ IF focus = "report" THEN TRUE ELSE UNCHANGED reportVars
  /\ IF focus = "policy" THEN TRUE ELSE UNCHANGED policyVars
  /\ IF focus = "action" THEN TRUE ELSE UNCHANGED actionVars
  /\ IF focus = "migrate" THEN TRUE ELSE UNCHANGED migrationVars
  /\ \/ focus = "promote" /\ RetrainingNext /\ FirstOperator /\ TwoJobs /\ BothJobs
     \/ focus = "label" /\ Label!RetrainingNext /\ job'[2] = "absent"
     \/ focus = "retrain" /\ Label!RetrainingNext /\ handler'["b"].step = "idle" /\ TwoJobs
     \/ focus = "revise" /\ ChatNext /\ FirstFree
     \/ focus = "rerun" /\ Rerun!ChatNext
     \/ focus = "other" /\ Other!ChatNext
     \/ focus = "wording" /\ WordingNext
     \/ focus = "review" /\ ReviewNext /\ NobodyDecides'
     \/ focus = "decide" /\ ReviewNext /\ OneReviewEach'
     \/ focus = "document" /\ DocumentNext
     \/ focus = "report" /\ ReportNext
     \/ focus = "policy" /\ PolicyNext
     \/ focus = "action" /\ ActionNext
     \/ focus = "migrate" /\ MigrationNext

Spec == Init /\ [][Next]_vars
-----------------------------------------------------------------------------
(* The type invariant of the module that is exercised.                     *)
TypeOK ==
  CASE focus = "promote" -> RetrainingTypeOK
    [] focus \in {"label", "retrain"} -> Label!RetrainingTypeOK
    [] focus = "revise" -> ChatTypeOK
    [] focus = "rerun" -> Rerun!ChatTypeOK
    [] focus = "other" -> Other!ChatTypeOK
    [] focus \in {"review", "decide"} -> ReviewTypeOK
    [] focus = "document" -> DocumentTypeOK
    [] focus = "report" -> ReportTypeOK
    [] focus = "policy" -> PolicyTypeOK
    [] focus = "action" -> ActionTypeOK
    [] focus = "migrate" -> MigrationTypeOK
    [] OTHER -> TRUE

(* Reviews of a run, decisions on a policy candidate, versions of a        *)
(* document, of a report and of the policy are VersionedRecords: whoever   *)
(* appends has seen the latest version, and nothing is changed.  Records   *)
(* that a behaviour leaves alone stay empty.                               *)
Kept ==
  {<<"document", 1>>, <<"policy", 1>>} \cup {<<"review", r>> : r \in Runs}
    \cup {<<"decision", i>> : i \in 1..4} \cup {<<"report", p>> : p \in Periods}
Empty == [d \in Kept |-> <<>>]
Log ==
  CASE focus = "document" -> [Empty EXCEPT ![<<"document", 1>>] = DocumentLog]
    [] focus = "policy" -> [Empty EXCEPT ![<<"policy", 1>>] = PolicyLog]
    [] focus = "report" -> [d \in {<<"report", p>> : p \in Periods} |-> reports[d[2]]] @@ Empty
    [] focus \in {"review", "decide"} ->
         [d \in {<<"review", r>> : r \in Runs} |-> ReviewLog(d[2])]
           @@ [d \in {<<"decision", i>> : i \in 1..4} |-> DecisionLog(d[2])] @@ Empty
    [] OTHER -> Empty
Abstract == INSTANCE VersionedRecord WITH Records <- Kept, log <- Log

(* This is Abstract!Spec, put so that TLC asks first whether a step is one *)
(* of the log at all.                                                      *)
ImplementsVersionedRecord == Abstract!Init /\ [][Log' # Log => Abstract!Next]_Log
=============================================================================
