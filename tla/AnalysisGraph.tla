---------------------------- MODULE AnalysisGraph ----------------------------
(***************************************************************************)
(* One run of the v1 analysis graph: evidence is collected and scored, a   *)
(* policy decides what to do about it, a chat model may overrule the       *)
(* policy within a guard, the loop ends in an answer that is validated,    *)
(* put up for review and completed.  The state is checkpointed behind      *)
(* every node; an attempt that dies is followed by one that resumes from   *)
(* the checkpoint, so a node may run again after its effects outside the   *)
(* graph: review tasks and the budget ledger of the diagnostic worker.     *)
(***************************************************************************)
EXTENDS Integers, FiniteSets

CONSTANTS
  Contexts,        \* what retrieval and external data may return
  Verifications,   \* what the active models may say of the stored prediction
  Answers,         \* what the chat model may answer to an assessment
  DiagnosticModel, \* whether the process has a diagnostic model and a budget for it
  MaxIterations,   \* agent_max_iterations
  Threshold,       \* agent_evidence_threshold, in hundredths
  RecursionLimit,  \* steps of one invocation of the graph
  MaxTries         \* agent_run_tasks.max_attempts

(* The schema of the chat model's assessment; settings.py bounds           *)
(* agent_max_iterations by 1 and 8.                                        *)
Decisions == {"expand_internal", "rerun_model", "diagnostic_worker", "request_human",
              "finalize"}
(* Whether the citations fit the limit of tokens goes with the retrieved   *)
(* text; 25 points are for a verified prediction, 12 for a partial one.    *)
Context == [chunks : Nat, site : BOOLEAN, weather : BOOLEAN, fits : BOOLEAN]
Verification == [points : {0, 12, 25}, agreement : {"yes", "no", "unknown"}]
ASSUME GraphAssumption ==
  /\ Contexts \subseteq Context /\ Verifications \subseteq Verification
  /\ Answers \subseteq Decisions /\ DiagnosticModel \in BOOLEAN
  /\ MaxIterations \in Nat \ {0} /\ RecursionLimit \in Nat \ {0}
  /\ MaxTries \in Nat \ {0} /\ Threshold \in Nat

VARIABLES
  card,       \* whether the card and its priority are there, review_required,
              \* urgent or high priority
  graph,      \* the checkpointed state of the graph
  steps,      \* nodes run in this invocation
  attempt,    \* attempts at the run
  phase,      \* how far this attempt is in the diagnostic node
  ledger,     \* the diagnostic reservation in agent_budget_ledger
  called,     \* how often the diagnostic model was called
  reviews,    \* task types inserted under agent-review:{run}:{type}
  outcome

graphVars == <<card, graph, steps, attempt, phase, ledger, called, reviews, outcome>>

NoEvidence == [chunks |-> 0, site |-> FALSE, weather |-> FALSE, fits |-> FALSE]
Unverified == [points |-> 0, agreement |-> "unknown"]

Nodes == {"mark_running", "load_ops_input", "get_ops_evidence", "get_external_context",
          "verify_model_output", "assess_collected_evidence", "expand_internal_evidence",
          "rerun_model_verification", "run_diagnostic_worker",
          "generate_operational_answer", "generate_fallback_output", "validate_output",
          "prepare_output_retry", "create_final_review", "write_anomaly_report",
          "complete_run"}

(* The review is the card's to ask for, the urgency the priority's to say. *)
Cards == {c \in [known : BOOLEAN, review : BOOLEAN, urgent : BOOLEAN] :
            c.known \/ ~(c.review /\ c.urgent)}

GraphInit ==
  /\ card \in Cards
  /\ graph = [node |-> "mark_running", context |-> NoEvidence, verification |-> Unverified,
              models |-> 0, iteration |-> 1, revisions |-> 0, force |-> FALSE,
              diagnosed |-> FALSE, decision |-> "none", value |-> "none", mode |-> "none",
              valid |-> FALSE]
  /\ steps = 0 /\ attempt = 1 /\ phase = "none"
  /\ ledger = "none" /\ called = 0 /\ reviews = {} /\ outcome = "open"
-----------------------------------------------------------------------------
(* The attempt dies: it is followed by another, or the run has failed.     *)
Dies ==
  /\ IF attempt < MaxTries
     THEN attempt' = attempt + 1 /\ UNCHANGED outcome
     ELSE outcome' = "failed" /\ UNCHANGED attempt
  /\ steps' = 0 /\ phase' = "none"
  /\ UNCHANGED graph

(* A node ends: its update reaches the checkpoint unless the process dies  *)
(* between the node's effects and the checkpoint.                          *)
Ends(update) ==
  \/ /\ graph' = update
     /\ steps' = steps + 1 /\ phase' = "none"
     /\ UNCHANGED <<attempt, outcome>>
  \/ Dies

At(node) == outcome = "open" /\ steps < RecursionLimit /\ graph.node = node
NoEffects == UNCHANGED <<ledger, called, reviews>>

(* Nodes that leave nothing behind this model looks at.                    *)
Passes == [mark_running |-> "load_ops_input", load_ops_input |-> "get_ops_evidence",
           get_ops_evidence |-> "get_external_context",
           write_anomaly_report |-> "complete_run"]
Pass(node) ==
  /\ At(node)
  /\ Ends([graph EXCEPT !.node = Passes[node]])
  /\ NoEffects /\ UNCHANGED card

GetExternalContext(context) ==
  /\ At("get_external_context")
  /\ Ends([graph EXCEPT !.node = "verify_model_output", !.context = context])
  /\ NoEffects /\ UNCHANGED card

VerifyModelOutput(verification) ==
  /\ At("verify_model_output")
  /\ Ends([graph EXCEPT !.node = "assess_collected_evidence",
                        !.verification = verification, !.models = 1])
  /\ NoEffects /\ UNCHANGED card

(* assess_evidence: points of the card, the models, retrieval, site and    *)
(* weather, in hundredths.                                                 *)
Disagrees == graph.verification.agreement = "no"
Score == (IF card.known THEN 35 ELSE 0) + graph.verification.points
            + (IF graph.verification.agreement = "yes" THEN 10 ELSE 0)
            + (IF graph.context.chunks >= 2 THEN 20 ELSE 10 * graph.context.chunks)
            + (IF graph.context.site THEN 5 ELSE 0) + (IF graph.context.weather THEN 5 ELSE 0)

ReviewRequired == card.review \/ graph.force

DiagnosticAvailable == DiagnosticModel /\ ~graph.diagnosed

(* default_decision_policy: the first rule that applies.                   *)
Policy ==
  CASE Disagrees /\ graph.models < 2 -> "rerun_model"
    [] ~(Disagrees /\ graph.models < 2) /\ graph.context.chunks < 2
         /\ graph.iteration = 1 /\ 1 < MaxIterations -> "expand_internal"
    [] OTHER ->
         IF DiagnosticAvailable /\ (card.urgent \/ ReviewRequired \/ Disagrees)
         THEN "diagnostic_worker"
         ELSE IF ReviewRequired \/ Disagrees \/ Score < Threshold
              THEN "request_human" ELSE "finalize"

(* Seeded faults: a candidate may search on without end; a disagreement    *)
(* need not be checked again.                                              *)
GuardedSearches(candidate) ==
  CASE candidate = "none" -> Policy
    [] candidate \in {"rerun_model", "finalize"} /\ candidate # Policy -> Policy
    [] OTHER -> IF Disagrees /\ graph.models < 2 THEN "rerun_model" ELSE candidate
GuardedTrusts(candidate) ==
  CASE candidate = "none" -> Policy
    [] graph.iteration >= MaxIterations /\ candidate \in {"expand_internal", "rerun_model"} ->
         "request_human"
    [] candidate \in {"rerun_model", "finalize"} /\ candidate # Policy -> Policy
    [] OTHER -> candidate

(* guard_llm_assessment: what a candidate of the chat model may change; no *)
(* candidate, no change.                                                   *)
Guarded(candidate) ==
  CASE candidate = "none" -> Policy
    [] graph.iteration >= MaxIterations /\ candidate \in {"expand_internal", "rerun_model"} ->
         "request_human"
    [] ~(graph.iteration >= MaxIterations /\ candidate = "rerun_model")
         /\ candidate \in {"rerun_model", "finalize"} /\ candidate # Policy -> Policy
    [] OTHER -> IF Disagrees /\ graph.models < 2 THEN "rerun_model" ELSE candidate

Routes == [expand_internal |-> "expand_internal_evidence",
           rerun_model |-> "rerun_model_verification",
           diagnostic_worker |-> "run_diagnostic_worker",
           request_human |-> "generate_operational_answer",
           finalize |-> "generate_operational_answer"]

AssessCollectedEvidence(candidate) ==
  LET decision == Guarded(candidate) IN
  /\ At("assess_collected_evidence")
  /\ reviews' = IF decision = "request_human" /\ Disagrees
                THEN reviews \cup {"model_disagreement"} ELSE reviews
  /\ Ends([graph EXCEPT !.node = Routes[decision], !.decision = decision,
                        !.force = (decision = "request_human")])
  /\ UNCHANGED <<ledger, called, card>>

ExpandInternalEvidence(context) ==
  /\ At("expand_internal_evidence")
  /\ Ends([graph EXCEPT !.node = "assess_collected_evidence", !.context = context,
                        !.iteration = @ + 1])
  /\ NoEffects /\ UNCHANGED card

RerunModelVerification(verification) ==
  /\ At("rerun_model_verification")
  /\ Ends([graph EXCEPT !.node = "assess_collected_evidence", !.iteration = @ + 1,
                        !.verification = verification, !.models = @ + 1])
  /\ NoEffects /\ UNCHANGED card

Diagnosed == [graph EXCEPT !.node = "assess_collected_evidence", !.diagnosed = TRUE,
                           !.force = TRUE]

(* _execute_worker behind prepare_diagnostic_input: nothing is asked       *)
(* without a model, weather or a chunk to cite within the limit of tokens. *)
Diagnosable == DiagnosticModel /\ graph.context.weather /\ graph.context.chunks > 0
                 /\ graph.context.fits

(* Seeded fault: a reservation that is there is taken for a used one.      *)
GrantedOnce == ledger = "none"
(* reserve_diagnostic_budget: one reservation for a run; one that a dead   *)
(* attempt has left reserved is granted again.                             *)
Granted == ledger \in {"none", "reserved"}

ReserveDiagnostic ==
  /\ At("run_diagnostic_worker") /\ phase = "none"
  /\ IF Diagnosable /\ Granted
     THEN /\ ledger' = "reserved" /\ phase' = "reserved"
          /\ UNCHANGED <<graph, steps, attempt, outcome>>
     ELSE Ends(Diagnosed) /\ UNCHANGED ledger
  /\ UNCHANGED <<called, reviews, card>>

CallDiagnosticModel ==
  /\ At("run_diagnostic_worker") /\ phase = "reserved"
  /\ called' = called + 1
  /\ \/ phase' = "called" /\ UNCHANGED <<graph, steps, attempt, outcome>>
     \/ Dies
  /\ UNCHANGED <<ledger, reviews, card>>

FinishDiagnostic ==
  /\ At("run_diagnostic_worker") /\ phase = "called"
  /\ ledger' = "settled"
  /\ Ends(Diagnosed)
  /\ UNCHANGED <<called, reviews, card>>

(* generate_operational_answer: the chat model fails ("none") or answers.  *)
(* After a failure an answer of an earlier try stays, under the mode of a  *)
(* fallback.                                                               *)
GenerateOperationalAnswer(answer) ==
  LET value == IF answer = "none" THEN graph.value ELSE answer IN
  /\ At("generate_operational_answer")
  /\ Ends([graph EXCEPT !.node = IF value = "none" THEN "generate_fallback_output"
                                 ELSE "validate_output",
                        !.value = value,
                        !.mode = IF answer = "none" THEN "fallback" ELSE "llm"])
  /\ NoEffects /\ UNCHANGED card

GenerateFallbackOutput ==
  /\ At("generate_fallback_output")
  /\ Ends([graph EXCEPT !.node = "validate_output", !.value = "note", !.mode = "fallback"])
  /\ NoEffects /\ UNCHANGED card

(* A "certain" answer states a cause without a caution: only an answer of  *)
(* the chat model is refused for that.                                     *)
IsValid == graph.value \in {"sound", "note"} \/ (graph.value = "certain" /\ graph.mode # "llm")

(* Seeded fault: an answer is revised as often as it is refused.           *)
RevisesAlways == ~IsValid /\ graph.mode = "llm"
Revises == ~IsValid /\ graph.mode = "llm" /\ graph.revisions < 1
           /\ graph.iteration < MaxIterations

ValidateOutput ==
  /\ At("validate_output")
  /\ Ends([graph EXCEPT !.node = IF Revises THEN "prepare_output_retry" ELSE "create_final_review",
                        !.valid = IsValid])
  /\ NoEffects /\ UNCHANGED card

PrepareOutputRetry ==
  /\ At("prepare_output_retry")
  /\ Ends([graph EXCEPT !.node = "generate_operational_answer", !.iteration = @ + 1,
                        !.revisions = @ + 1])
  /\ NoEffects /\ UNCHANGED card

CreateFinalReview ==
  /\ At("create_final_review")
  /\ reviews' = reviews \cup {"final_output"}
  /\ Ends([graph EXCEPT !.node = "write_anomaly_report"])
  /\ UNCHANGED <<ledger, called, card>>

CompleteRun ==
  /\ At("complete_run")
  /\ outcome' = "completed"
  /\ UNCHANGED <<graph, steps, attempt, phase, ledger, called, reviews, card>>

(* The graph gives up behind its last allowed step.                        *)
GraphRecursion ==
  /\ outcome = "open" /\ steps = RecursionLimit
  /\ Dies
  /\ NoEffects /\ UNCHANGED card

GraphNext ==
  \/ \E node \in DOMAIN Passes : Pass(node)
  \/ \E context \in Contexts : GetExternalContext(context) \/ ExpandInternalEvidence(context)
  \/ \E v \in Verifications : VerifyModelOutput(v) \/ RerunModelVerification(v)
  \/ \E candidate \in Answers \cup {"none"} : AssessCollectedEvidence(candidate)
  \/ ReserveDiagnostic \/ CallDiagnosticModel \/ FinishDiagnostic
  \/ \E answer \in {"none", "sound", "certain", "short"} : GenerateOperationalAnswer(answer)
  \/ GenerateFallbackOutput \/ ValidateOutput \/ PrepareOutputRetry
  \/ CreateFinalReview \/ CompleteRun \/ GraphRecursion

GraphSpec == GraphInit /\ [][GraphNext]_graphVars
-----------------------------------------------------------------------------
GraphTypeOK ==
  /\ graph.node \in Nodes /\ graph.iteration \in 1..(MaxIterations + 1)
  /\ graph.revisions \in 0..1 /\ graph.models \in 0..2
  /\ steps \in 0..RecursionLimit /\ attempt \in 1..MaxTries
  /\ phase \in {"none", "reserved", "called"} /\ ledger \in {"none", "reserved", "settled"}
  /\ reviews \subseteq {"model_disagreement", "final_output"}
  /\ outcome \in {"open", "completed", "failed"}

(* A disagreement between the stored prediction and the active models is   *)
(* answered only after the models were run a second time, and a review     *)
(* task tells of it; every completed run has a task for its final output.  *)
DisagreementRechecked ==
  outcome = "completed" =>
    /\ "final_output" \in reviews
    /\ Disagrees => graph.models >= 2 /\ "model_disagreement" \in reviews

(* Whatever the chat model answers, a completed run whose decision is not  *)
(* a request for a human has evidence that needs none: a card that asks    *)
(* for no review, models that do not disagree, a sufficient score; where   *)
(* they do disagree, it has checked again and left a task for it.          *)
ReviewNotBypassed ==
  /\ outcome = "completed" /\ graph.decision # "request_human" =>
       ~card.review /\ ~Disagrees /\ Score >= Threshold
  /\ DisagreementRechecked

(* However often the chat model asks for a diagnosis, the diagnostic model *)
(* is called at most once in an attempt, and never behind the settlement;  *)
(* a completed run that has called it, in whichever attempt, was charged.  *)
DiagnosisCharged ==
  /\ called <= attempt
  /\ phase = "reserved" => ledger = "reserved" /\ called < attempt
  /\ outcome = "completed" /\ called > 0 => ledger = "settled"

(* The loop cannot run away: no invocation needs more steps than the graph *)
(* is allowed.                                                             *)
WithinRecursionLimit == steps < RecursionLimit
=============================================================================
