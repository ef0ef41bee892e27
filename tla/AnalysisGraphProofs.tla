------------------------- MODULE AnalysisGraphProofs -------------------------
(***************************************************************************)
(* Proofs about AnalysisGraph, for every evidence, every answer of the     *)
(* chat model that its schema admits, and any number of iterations.        *)
(***************************************************************************)
EXTENDS AnalysisGraph, TLAPS

Searching == {"assess_collected_evidence", "expand_internal_evidence",
              "rerun_model_verification", "run_diagnostic_worker"}
Answering == {"generate_operational_answer", "generate_fallback_output", "validate_output",
              "prepare_output_retry", "create_final_review", "write_anomaly_report",
              "complete_run"}
Beginning == Nodes \ (Searching \cup Answering)

Graphs == [node : Nodes, context : Context, verification : Verification,
           models : Nat, iteration : Nat \ {0}, revisions : Nat, force : BOOLEAN,
           diagnosed : BOOLEAN, decision : Decisions \cup {"none"},
           value : {"none", "sound", "certain", "short", "note"},
           mode : {"none", "llm", "fallback"}, valid : BOOLEAN]

Typed ==
  /\ card \in Cards /\ graph \in Graphs
  /\ steps \in 0..RecursionLimit /\ attempt \in 1..MaxTries
  /\ phase \in {"none", "reserved", "called"} /\ ledger \in {"none", "reserved", "settled"}
  /\ called \in Nat /\ reviews \subseteq {"model_disagreement", "final_output"}
  /\ outcome \in {"open", "completed", "failed"}

(* The models have been run wherever a decision is made; a disagreement of *)
(* their first run is met in the first iteration, and leads nowhere but to *)
(* a second run.                                                           *)
Rechecks ==
  /\ graph.node \in Beginning => graph.iteration = 1
  /\ graph.node \in Searching \cup Answering => graph.models >= 1
  /\ Disagrees /\ graph.models < 2 =>
       /\ graph.node = "assess_collected_evidence" => graph.iteration = 1
       /\ graph.node \notin {"expand_internal_evidence", "run_diagnostic_worker"}

(* Behind the last assessment the decision stands on the evidence, which   *)
(* does not change any more, and what is to be reviewed has its task.      *)
Decided ==
  graph.node \in Answering =>
    /\ graph.decision \in {"request_human", "finalize"}
    /\ graph.decision = "finalize" => ~card.review /\ ~Disagrees /\ Score >= Threshold
    /\ Disagrees => "model_disagreement" \in reviews
    /\ Disagrees /\ MaxIterations >= 2 => graph.models >= 2
Filed ==
  /\ graph.node \in {"write_anomaly_report", "complete_run"} => "final_output" \in reviews
  /\ outcome = "completed" => graph.node = "complete_run"

(* A diagnosis that was called for and not charged still has its           *)
(* reservation, and the graph has not gone past the node that charges it.  *)
Charging == graph.node = "run_diagnostic_worker" /\ ledger = "reserved" /\ Diagnosable
Charged ==
  /\ phase # "none" => Charging /\ outcome = "open"
  /\ called > 0 /\ ledger # "settled" => Charging

GraphInv == Typed /\ Rechecks /\ Decided /\ Filed /\ Charged
-----------------------------------------------------------------------------
(* What default_decision_policy decides.                                   *)
LEMMA PolicyDecides ==
  ASSUME Typed
  PROVE  /\ Policy \in Decisions
         /\ (Policy = "rerun_model") <=> (Disagrees /\ graph.models < 2)
         /\ Policy = "expand_internal" => graph.iteration < MaxIterations
         /\ Policy = "diagnostic_worker" => ~graph.diagnosed
         /\ Policy = "finalize" => ~card.review /\ ~Disagrees /\ Score >= Threshold
<1>1. CASE Disagrees /\ graph.models < 2
  BY <1>1 DEF Policy, Decisions
<1>2. CASE /\ ~(Disagrees /\ graph.models < 2)
           /\ graph.context.chunks < 2 /\ graph.iteration = 1 /\ 1 < MaxIterations
  BY <1>2 DEF Policy, Decisions
<1>3. CASE /\ ~(Disagrees /\ graph.models < 2)
           /\ ~(graph.context.chunks < 2 /\ graph.iteration = 1 /\ 1 < MaxIterations)
  <2>1. Score \in Int /\ Threshold \in Int
    BY GraphAssumption DEF Typed, Graphs, Score, Context, Verification
  <2>2. Policy = IF DiagnosticAvailable /\ (card.urgent \/ ReviewRequired \/ Disagrees)
                 THEN "diagnostic_worker"
                 ELSE IF ReviewRequired \/ Disagrees \/ Score < Threshold
                      THEN "request_human" ELSE "finalize"
    BY <1>3 DEF Policy
  <2> QED
    BY <1>3, <2>1, <2>2 DEF Decisions, DiagnosticAvailable, ReviewRequired
<1> QED
  BY <1>1, <1>2, <1>3

(* What guard_llm_assessment leaves of what the chat model says: it cannot *)
(* finalize against the policy, and it cannot keep a disagreement from     *)
(* being checked again while there are iterations left.                    *)
LEMMA GuardDecides ==
  ASSUME Typed, NEW candidate \in Answers \cup {"none"}
  PROVE  /\ Guarded(candidate) \in Decisions
         /\ Guarded(candidate) = "rerun_model" => Disagrees /\ graph.models < 2
         /\ Disagrees /\ graph.models < 2 =>
              \/ Guarded(candidate) = "rerun_model"
              \/ Guarded(candidate) = "request_human" /\ graph.iteration >= MaxIterations
         /\ Guarded(candidate) = "expand_internal" => graph.iteration < MaxIterations
         /\ Guarded(candidate) = "diagnostic_worker" /\ "diagnostic_worker" \notin Answers
              => ~graph.diagnosed
         /\ Guarded(candidate) = "finalize" => ~card.review /\ ~Disagrees /\ Score >= Threshold
<1> DEFINE exhausted == graph.iteration >= MaxIterations
                          /\ candidate \in {"expand_internal", "rerun_model"}
           overruled == ~(graph.iteration >= MaxIterations /\ candidate = "rerun_model")
                          /\ candidate \in {"rerun_model", "finalize"} /\ candidate # Policy
<1>1. candidate \in Decisions \cup {"none"} /\ MaxIterations \in Int /\ graph.iteration \in Int
  BY GraphAssumption DEF Typed, Graphs
<1>2. CASE candidate = "none"
  BY <1>2, PolicyDecides DEF Guarded
<1>3. CASE candidate # "none" /\ exhausted
  BY <1>3 DEF Guarded, Decisions
<1>4. CASE candidate # "none" /\ ~exhausted /\ overruled
  <2>1. Guarded(candidate) = Policy
    BY <1>4 DEF Guarded
  <2> QED
    BY <2>1, PolicyDecides
<1>5. CASE candidate # "none" /\ ~exhausted /\ ~overruled
  <2>1. Guarded(candidate) = IF Disagrees /\ graph.models < 2 THEN "rerun_model" ELSE candidate
    BY <1>5 DEF Guarded
  <2> HIDE DEF exhausted, overruled
  <2>2. candidate \in {"rerun_model", "finalize"} => candidate = Policy
    BY <1>5, <1>1 DEF exhausted, overruled
  <2>3. candidate = "expand_internal" => graph.iteration < MaxIterations
    BY <1>5, <1>1 DEF exhausted
  <2> QED
    BY <1>5, <2>1, <2>2, <2>3, <1>1, PolicyDecides DEF Decisions
<1> HIDE DEF exhausted, overruled
<1> QED
  BY <1>2, <1>3, <1>4, <1>5
-----------------------------------------------------------------------------
(* The end of an attempt leaves the checkpoint, the tasks and the ledger:  *)
(* what holds of them goes on to hold for the next attempt.                *)
LEMMA DeathKeeps ==
  ASSUME GraphInv, outcome = "open", Dies, UNCHANGED card,
         reviews \subseteq reviews', Typed',
         called' > 0 /\ ledger' # "settled" => Charging'
  PROVE  GraphInv'
<1>1. graph' = graph /\ card' = card /\ phase' = "none" /\ outcome' # "completed"
  BY DEF Dies
<1>2. Rechecks'
  BY <1>1 DEF GraphInv, Rechecks, Disagrees
<1>3. Decided'
  BY <1>1 DEF GraphInv, Decided, Disagrees, Score
<1> QED
  BY <1>1, <1>2, <1>3 DEF GraphInv, Filed, Charged

LEMMA DeathIsTyped ==
  ASSUME Typed, Dies
  PROVE  /\ graph' \in Graphs /\ steps' \in 0..RecursionLimit /\ attempt' \in 1..MaxTries
         /\ phase' \in {"none", "reserved", "called"}
         /\ outcome' \in {"open", "completed", "failed"}
  BY GraphAssumption DEF Typed, Dies

(* The end of a node, with or without its checkpoint, keeps the types.     *)
LEMMA EndIsTyped ==
  ASSUME Typed, NEW update \in Graphs, Ends(update), outcome = "open", steps < RecursionLimit
  PROVE  /\ graph' \in Graphs /\ steps' \in 0..RecursionLimit /\ attempt' \in 1..MaxTries
         /\ phase' \in {"none", "reserved", "called"}
         /\ outcome' \in {"open", "completed", "failed"}
<1>1. CASE Dies
  BY <1>1, DeathIsTyped
<1>2. CASE ~Dies
  BY <1>2, GraphAssumption DEF Typed, Ends
<1> QED
  BY <1>1, <1>2

THEOREM GraphInvariance == GraphSpec => []GraphInv
<1>1. GraphInit => GraphInv
  <2> SUFFICES ASSUME GraphInit PROVE GraphInv
    OBVIOUS
  <2>1. NoEvidence \in Context /\ Unverified \in Verification
    BY DEF NoEvidence, Unverified, Context, Verification
  <2>2. graph \in Graphs
    BY <2>1 DEF GraphInit, Graphs, Nodes
  <2>3. steps \in 0..RecursionLimit /\ attempt \in 1..MaxTries
    BY GraphAssumption DEF GraphInit
  <2>4. Typed
    BY <2>2, <2>3 DEF GraphInit, Typed
  <2> QED
    BY <2>4 DEF GraphInit, GraphInv, Rechecks, Decided, Filed, Charged, Charging, Disagrees,
                Searching, Answering, Beginning, Nodes, NoEvidence, Unverified
<1>2. GraphInv /\ [GraphNext]_graphVars => GraphInv'
  <2> SUFFICES ASSUME GraphInv, [GraphNext]_graphVars PROVE GraphInv'
    OBVIOUS
  <2> USE DEF At, NoEffects
  <2>1. ASSUME NEW node \in DOMAIN Passes, Pass(node) PROVE GraphInv'
    <3> DEFINE update == [graph EXCEPT !.node = Passes[node]]
    <3>1. node \in {"mark_running", "load_ops_input", "get_ops_evidence", "write_anomaly_report"}
      BY DEF Passes
    <3>2. Passes[node] \in {"load_ops_input", "get_ops_evidence", "get_external_context",
                             "complete_run"}
          /\ (Passes[node] = "complete_run" <=> node = "write_anomaly_report")
      BY <3>1 DEF Passes
    <3>3. update \in Graphs
      BY <3>2 DEF GraphInv, Typed, Graphs, Nodes
    <3>4. Typed'
      BY <2>1, <3>3, EndIsTyped DEF Pass, GraphInv, Typed
    <3>5. CASE Dies
      BY <2>1, <3>4, <3>5, DeathKeeps DEF Pass, GraphInv, Charged, Charging, Diagnosable, Dies
    <3>6. CASE ~Dies
      <4>1. graph' = update /\ phase' = "none" /\ outcome' = outcome
        BY <2>1, <3>6 DEF Pass, Ends
      <4>2. /\ graph.node = node /\ graph'.node = Passes[node]
            /\ graph'.context = graph.context /\ graph'.verification = graph.verification
            /\ graph'.models = graph.models /\ graph'.iteration = graph.iteration
            /\ graph'.decision = graph.decision
        BY <2>1, <4>1 DEF Pass, GraphInv, Typed, Graphs
      <4> QED
        BY <2>1, <3>1, <3>2, <3>4, <4>1, <4>2
           DEF Pass, GraphInv, Rechecks, Decided, Filed, Charged, Charging, Diagnosable, Disagrees,
               Score, Searching, Answering, Beginning, Nodes
    <3> QED
      BY <3>5, <3>6
  <2>2. ASSUME NEW context \in Contexts, GetExternalContext(context) PROVE GraphInv'
    <3> DEFINE update == [graph EXCEPT !.node = "verify_model_output", !.context = context]
    <3>1. update \in Graphs
      BY GraphAssumption DEF GraphInv, Typed, Graphs, Nodes
    <3>2. Typed'
      BY <2>2, <3>1, EndIsTyped DEF GetExternalContext, GraphInv, Typed
    <3>3. CASE Dies
      BY <2>2, <3>2, <3>3, DeathKeeps DEF GetExternalContext, GraphInv, Charged, Charging, Diagnosable, Dies
    <3>4. CASE ~Dies
      <4>1. graph.node = "get_external_context" /\ graph' = update /\ phase' = "none" /\ outcome' = outcome
        BY <2>2, <3>4 DEF GetExternalContext, Ends
      <4>2. /\ graph'.node = "verify_model_output" /\ graph'.iteration = graph.iteration
        BY <4>1 DEF GraphInv, Typed, Graphs
      <4> QED
        BY <2>2, <3>2, <4>1, <4>2
           DEF GetExternalContext, GraphInv, Rechecks, Decided, Filed, Charged, Charging, Diagnosable, Disagrees,
               Score, Searching, Answering, Beginning, Nodes
    <3> QED
      BY <3>3, <3>4
  <2>3. ASSUME NEW context \in Contexts, ExpandInternalEvidence(context) PROVE GraphInv'
    <3> DEFINE update == [graph EXCEPT !.node = "assess_collected_evidence", !.context = context,
                               !.iteration = @ + 1]
    <3>1. update \in Graphs
      <4>1. graph \in Graphs /\ graph.iteration + 1 \in Nat \ {0} /\ graph.models + 1 \in Nat
               /\ graph.revisions + 1 \in Nat
        BY DEF GraphInv, Typed, Graphs
      <4> QED
        BY <4>1, GraphAssumption DEF GraphInv, Typed, Graphs, Nodes
    <3>2. Typed'
      BY <2>3, <3>1, EndIsTyped DEF ExpandInternalEvidence, GraphInv, Typed
    <3>3. CASE Dies
      BY <2>3, <3>2, <3>3, DeathKeeps DEF ExpandInternalEvidence, GraphInv, Charged, Charging, Diagnosable, Dies
    <3>4. CASE ~Dies
      <4>1. graph.node = "expand_internal_evidence" /\ graph' = update /\ phase' = "none" /\ outcome' = outcome
        BY <2>3, <3>4 DEF ExpandInternalEvidence, Ends
      <4>2. /\ graph'.node = "assess_collected_evidence" /\ graph'.verification = graph.verification
            /\ graph'.models = graph.models
        BY <4>1 DEF GraphInv, Typed, Graphs
      <4> QED
        BY <2>3, <3>2, <4>1, <4>2
           DEF ExpandInternalEvidence, GraphInv, Rechecks, Decided, Filed, Charged, Charging, Diagnosable, Disagrees,
               Score, Searching, Answering, Beginning, Nodes
    <3> QED
      BY <3>3, <3>4
  <2>4. ASSUME NEW v \in Verifications, VerifyModelOutput(v) PROVE GraphInv'
    <3> DEFINE update == [graph EXCEPT !.node = "assess_collected_evidence",
                               !.verification = v, !.models = 1]
    <3>1. update \in Graphs
      BY GraphAssumption DEF GraphInv, Typed, Graphs, Nodes
    <3>2. Typed'
      BY <2>4, <3>1, EndIsTyped DEF VerifyModelOutput, GraphInv, Typed
    <3>3. CASE Dies
      BY <2>4, <3>2, <3>3, DeathKeeps DEF VerifyModelOutput, GraphInv, Charged, Charging, Diagnosable, Dies
    <3>4. CASE ~Dies
      <4>1. graph.node = "verify_model_output" /\ graph' = update /\ phase' = "none" /\ outcome' = outcome
        BY <2>4, <3>4 DEF VerifyModelOutput, Ends
      <4>2. /\ graph'.node = "assess_collected_evidence" /\ graph'.iteration = graph.iteration
            /\ graph'.models = 1
        BY <4>1 DEF GraphInv, Typed, Graphs
      <4> QED
        BY <2>4, <3>2, <4>1, <4>2
           DEF VerifyModelOutput, GraphInv, Rechecks, Decided, Filed, Charged, Charging, Diagnosable, Disagrees,
               Score, Searching, Answering, Beginning, Nodes
    <3> QED
      BY <3>3, <3>4
  <2>5. ASSUME NEW v \in Verifications, RerunModelVerification(v) PROVE GraphInv'
    <3> DEFINE update == [graph EXCEPT !.node = "assess_collected_evidence", !.iteration = @ + 1,
                               !.verification = v, !.models = @ + 1]
    <3>1. update \in Graphs
      <4>1. graph \in Graphs /\ graph.iteration + 1 \in Nat \ {0} /\ graph.models + 1 \in Nat
               /\ graph.revisions + 1 \in Nat
        BY DEF GraphInv, Typed, Graphs
      <4> QED
        BY <4>1, GraphAssumption DEF GraphInv, Typed, Graphs, Nodes
    <3>2. Typed'
      BY <2>5, <3>1, EndIsTyped DEF RerunModelVerification, GraphInv, Typed
    <3>3. CASE Dies
      BY <2>5, <3>2, <3>3, DeathKeeps DEF RerunModelVerification, GraphInv, Charged, Charging, Diagnosable, Dies
    <3>4. CASE ~Dies
      <4>1. graph.node = "rerun_model_verification" /\ graph' = update /\ phase' = "none" /\ outcome' = outcome
        BY <2>5, <3>4 DEF RerunModelVerification, Ends
      <4>2. /\ graph'.node = "assess_collected_evidence" /\ graph'.models = graph.models + 1
            /\ graph.models \in Nat
        BY <4>1 DEF GraphInv, Typed, Graphs
      <4> QED
        BY <2>5, <3>2, <4>1, <4>2
           DEF RerunModelVerification, GraphInv, Rechecks, Decided, Filed, Charged, Charging, Diagnosable, Disagrees,
               Score, Searching, Answering, Beginning, Nodes
    <3> QED
      BY <3>3, <3>4
  <2>6. ASSUME NEW candidate \in Answers \cup {"none"}, AssessCollectedEvidence(candidate)
        PROVE  GraphInv'
    <3> DEFINE decision == Guarded(candidate)
               update == [graph EXCEPT !.node = Routes[decision], !.decision = decision,
                                       !.force = (decision = "request_human")]
    <3>1. Typed
      BY DEF GraphInv
    <3>2. /\ decision \in Decisions
          /\ decision = "rerun_model" => Disagrees /\ graph.models < 2
          /\ Disagrees /\ graph.models < 2 =>
               \/ decision = "rerun_model"
               \/ decision = "request_human" /\ graph.iteration >= MaxIterations
          /\ decision = "finalize" => ~card.review /\ ~Disagrees /\ Score >= Threshold
      BY <3>1, GuardDecides
    <3> HIDE DEF decision
    <3>3. /\ Routes[decision] \in Nodes
          /\ Routes[decision] = "expand_internal_evidence" <=> decision = "expand_internal"
          /\ Routes[decision] = "rerun_model_verification" <=> decision = "rerun_model"
          /\ Routes[decision] = "run_diagnostic_worker" <=> decision = "diagnostic_worker"
          /\ Routes[decision] = "generate_operational_answer" <=>
               decision \in {"request_human", "finalize"}
          /\ Routes[decision] \in {"expand_internal_evidence", "rerun_model_verification",
                                   "run_diagnostic_worker", "generate_operational_answer"}
      BY <3>2 DEF Routes, Decisions, Nodes
    <3>4. update \in Graphs
      BY <3>1, <3>2, <3>3 DEF Typed, Graphs
    <3>5. /\ At("assess_collected_evidence") /\ Ends(update)
          /\ reviews' = IF decision = "request_human" /\ Disagrees
                        THEN reviews \cup {"model_disagreement"} ELSE reviews
          /\ UNCHANGED <<ledger, called, card>>
      BY <2>6 DEF AssessCollectedEvidence, decision
    <3>6. Typed'
      BY <3>1, <3>4, <3>5, EndIsTyped DEF Typed
    <3>7. CASE Dies
      BY <3>5, <3>6, <3>7, DeathKeeps DEF GraphInv, Charged, Charging, Diagnosable, Dies
    <3>8. CASE ~Dies
      <4>1. graph' = update /\ phase' = "none" /\ outcome' = outcome
        BY <3>5, <3>8 DEF Ends
      <4>2. /\ graph'.node = Routes[decision] /\ graph'.decision = decision
            /\ graph'.context = graph.context /\ graph'.verification = graph.verification
            /\ graph'.models = graph.models /\ graph'.iteration = graph.iteration
        BY <3>1, <4>1 DEF Typed, Graphs
      <4>3. graph.node = "assess_collected_evidence" /\ outcome = "open"
        BY <3>5
      <4>4. Disagrees' = Disagrees /\ Score' = Score
        BY <3>5, <4>2 DEF Disagrees, Score
      <4>5. Rechecks'
        BY <3>2, <3>3, <4>2, <4>3, <4>4 DEF GraphInv, Rechecks, Searching, Answering, Beginning
      <4>6. Decided'
        <5>1. CASE graph'.node \notin Answering
          BY <5>1 DEF Decided
        <5>2. CASE graph'.node \in Answering
          <6>1. decision \in {"request_human", "finalize"}
            BY <5>2, <3>3, <4>2 DEF Answering
          <6>2. MaxIterations >= 2 /\ Disagrees => graph.models >= 2
            BY <3>1, <3>2, <4>3, <6>1, GraphAssumption DEF GraphInv, Rechecks, Typed, Graphs
          <6> QED
            BY <3>2, <3>5, <4>2, <4>4, <6>1, <6>2 DEF Decided
        <5> QED
          BY <5>1, <5>2
      <4> QED
        BY <3>3, <3>5, <3>6, <4>1, <4>2, <4>3, <4>5, <4>6
           DEF GraphInv, Filed, Charged, Charging
    <3> QED
      BY <3>7, <3>8
  <2>7. ASSUME ReserveDiagnostic PROVE GraphInv'
    <3>1. CASE Diagnosable /\ Granted
      BY <2>7, <3>1
         DEF ReserveDiagnostic, GraphInv, Typed, Rechecks, Decided, Filed, Charged, Charging,
             Diagnosable, Disagrees, Score, Answering
    <3>2. CASE ~(Diagnosable /\ Granted)
      <4>1. Ends(Diagnosed) /\ UNCHANGED <<ledger, called, reviews, card>>
            /\ At("run_diagnostic_worker") /\ phase = "none"
        BY <2>7, <3>2 DEF ReserveDiagnostic
      <4>2. ~Charging
        BY <3>2 DEF Charging, Granted
      <4>3. Diagnosed \in Graphs
        BY DEF GraphInv, Typed, Graphs, Nodes, Diagnosed
      <4>4. Typed'
        BY <4>1, <4>3, EndIsTyped DEF GraphInv, Typed
      <4>5. CASE Dies
        BY <4>1, <4>2, <4>4, <4>5, DeathKeeps DEF GraphInv, Charged
      <4>6. CASE ~Dies
        <5>1. graph' = Diagnosed /\ phase' = "none" /\ outcome' = outcome
          BY <4>1, <4>6 DEF Ends
        <5>2. /\ graph'.node = "assess_collected_evidence" /\ graph'.models = graph.models
              /\ graph'.verification = graph.verification
          BY <5>1 DEF GraphInv, Typed, Graphs, Diagnosed
        <5> QED
          BY <4>1, <4>2, <4>4, <5>1, <5>2
             DEF GraphInv, Rechecks, Decided, Filed, Charged, Disagrees, Searching, Answering,
                 Beginning
      <4> QED
        BY <4>5, <4>6
    <3> QED
      BY <3>1, <3>2
  <2>8. ASSUME CallDiagnosticModel PROVE GraphInv'
    <3>1. Charging /\ outcome = "open" /\ called' = called + 1
          /\ UNCHANGED <<ledger, reviews, card>>
      BY <2>8 DEF CallDiagnosticModel, GraphInv, Charged
    <3>2. CASE Dies
      <4>1. Typed'
        BY <3>1, <3>2, DeathIsTyped DEF GraphInv, Typed
      <4> QED
        BY <3>1, <3>2, <4>1, DeathKeeps DEF Charging, Diagnosable, Dies
    <3>3. CASE ~Dies
      BY <2>8, <3>1, <3>3
         DEF CallDiagnosticModel, GraphInv, Typed, Rechecks, Decided, Filed, Charged, Charging,
             Diagnosable, Disagrees, Score, Answering
    <3> QED
      BY <3>2, <3>3
  <2>9. ASSUME FinishDiagnostic PROVE GraphInv'
    <3>1. Diagnosed \in Graphs
      BY DEF GraphInv, Typed, Graphs, Nodes, Diagnosed
    <3>2. Typed'
      BY <2>9, <3>1, EndIsTyped DEF FinishDiagnostic, GraphInv, Typed
    <3>3. CASE Dies
      BY <2>9, <3>2, <3>3, DeathKeeps DEF FinishDiagnostic
    <3>4. CASE ~Dies
      <4>1. graph' = Diagnosed /\ phase' = "none" /\ outcome' = outcome
        BY <2>9, <3>4 DEF FinishDiagnostic, Ends
      <4>2. /\ graph'.node = "assess_collected_evidence" /\ graph'.models = graph.models
            /\ graph'.verification = graph.verification
        BY <4>1 DEF GraphInv, Typed, Graphs, Diagnosed
      <4> QED
        BY <2>9, <3>2, <4>1, <4>2
           DEF FinishDiagnostic, GraphInv, Rechecks, Decided, Filed, Charged, Disagrees,
               Searching, Answering, Beginning
    <3> QED
      BY <3>3, <3>4
  <2>10. ASSUME NEW answer \in {"none", "sound", "certain", "short"},
                GenerateOperationalAnswer(answer)
         PROVE  GraphInv'
    <3> DEFINE value == IF answer = "none" THEN graph.value ELSE answer
               update == [graph EXCEPT !.node = IF value = "none" THEN "generate_fallback_output"
                                                ELSE "validate_output",
                               !.value = value,
                               !.mode = IF answer = "none" THEN "fallback" ELSE "llm"]
    <3>1. update \in Graphs
      <4>1. /\ graph \in Graphs /\ value \in {"none", "sound", "certain", "short", "note"}
            /\ (IF value = "none" THEN "generate_fallback_output" ELSE "validate_output")
                 \in Nodes
            /\ (IF answer = "none" THEN "fallback" ELSE "llm") \in {"none", "llm", "fallback"}
        BY DEF GraphInv, Typed, Graphs, Nodes
      <4> HIDE DEF value
      <4> QED
        BY <4>1, ZenonT(30) DEF Graphs
    <3>2. Typed'
      BY <2>10, <3>1, EndIsTyped DEF GenerateOperationalAnswer, GraphInv, Typed
    <3>3. CASE Dies
      BY <2>10, <3>2, <3>3, DeathKeeps DEF GenerateOperationalAnswer, GraphInv, Charged, Charging, Diagnosable, Dies
    <3>4. CASE ~Dies
      <4>1. graph.node = "generate_operational_answer" /\ graph' = update /\ phase' = "none" /\ outcome' = outcome
        BY <2>10, <3>4 DEF GenerateOperationalAnswer, Ends
      <4>2. /\ graph'.node \in {"generate_fallback_output", "validate_output"} /\ graph'.context = graph.context
            /\ graph'.verification = graph.verification /\ graph'.models = graph.models
            /\ graph'.iteration = graph.iteration /\ graph'.decision = graph.decision
        BY <4>1 DEF GraphInv, Typed, Graphs
      <4> QED
        BY <2>10, <3>2, <4>1, <4>2
           DEF GenerateOperationalAnswer, GraphInv, Rechecks, Decided, Filed, Charged, Charging, Diagnosable, Disagrees,
               Score, Searching, Answering, Beginning, Nodes
    <3> QED
      BY <3>3, <3>4
  <2>11. ASSUME GenerateFallbackOutput PROVE GraphInv'
    <3> DEFINE update == [graph EXCEPT !.node = "validate_output", !.value = "note", !.mode = "fallback"]
    <3>1. update \in Graphs
      BY DEF GraphInv, Typed, Graphs, Nodes
    <3>2. Typed'
      BY <2>11, <3>1, EndIsTyped DEF GenerateFallbackOutput, GraphInv, Typed
    <3>3. CASE Dies
      BY <2>11, <3>2, <3>3, DeathKeeps DEF GenerateFallbackOutput, GraphInv, Charged, Charging, Diagnosable, Dies
    <3>4. CASE ~Dies
      <4>1. graph.node = "generate_fallback_output" /\ graph' = update /\ phase' = "none" /\ outcome' = outcome
        BY <2>11, <3>4 DEF GenerateFallbackOutput, Ends
      <4>2. /\ graph'.node = "validate_output" /\ graph'.context = graph.context
            /\ graph'.verification = graph.verification /\ graph'.models = graph.models
            /\ graph'.iteration = graph.iteration /\ graph'.decision = graph.decision
        BY <4>1 DEF GraphInv, Typed, Graphs
      <4> QED
        BY <2>11, <3>2, <4>1, <4>2
           DEF GenerateFallbackOutput, GraphInv, Rechecks, Decided, Filed, Charged, Charging, Diagnosable, Disagrees,
               Score, Searching, Answering, Beginning, Nodes
    <3> QED
      BY <3>3, <3>4
  <2>12. ASSUME ValidateOutput PROVE GraphInv'
    <3> DEFINE update == [graph EXCEPT !.node = IF Revises THEN "prepare_output_retry"
                                                ELSE "create_final_review",
                               !.valid = IsValid]
    <3>1. update \in Graphs
      <4>1. /\ graph \in Graphs /\ IsValid \in BOOLEAN
            /\ (IF Revises THEN "prepare_output_retry" ELSE "create_final_review") \in Nodes
        BY DEF GraphInv, Typed, Nodes, IsValid
      <4> QED
        BY <4>1 DEF Graphs
    <3>2. Typed'
      BY <2>12, <3>1, EndIsTyped DEF ValidateOutput, GraphInv, Typed
    <3>3. CASE Dies
      BY <2>12, <3>2, <3>3, DeathKeeps DEF ValidateOutput, GraphInv, Charged, Charging, Diagnosable, Dies
    <3>4. CASE ~Dies
      <4>1. graph.node = "validate_output" /\ graph' = update /\ phase' = "none" /\ outcome' = outcome
        BY <2>12, <3>4 DEF ValidateOutput, Ends
      <4>2. /\ graph'.node \in {"prepare_output_retry", "create_final_review"} /\ graph'.context = graph.context
            /\ graph'.verification = graph.verification /\ graph'.models = graph.models
            /\ graph'.iteration = graph.iteration /\ graph'.decision = graph.decision
        BY <4>1 DEF GraphInv, Typed, Graphs
      <4> QED
        BY <2>12, <3>2, <4>1, <4>2
           DEF ValidateOutput, GraphInv, Rechecks, Decided, Filed, Charged, Charging, Diagnosable, Disagrees,
               Score, Searching, Answering, Beginning, Nodes
    <3> QED
      BY <3>3, <3>4
  <2>13. ASSUME PrepareOutputRetry PROVE GraphInv'
    <3> DEFINE update == [graph EXCEPT !.node = "generate_operational_answer", !.iteration = @ + 1,
                               !.revisions = @ + 1]
    <3>1. update \in Graphs
      <4>1. graph \in Graphs /\ graph.iteration + 1 \in Nat \ {0} /\ graph.models + 1 \in Nat
               /\ graph.revisions + 1 \in Nat
        BY DEF GraphInv, Typed, Graphs
      <4> QED
        BY <4>1 DEF GraphInv, Typed, Graphs, Nodes
    <3>2. Typed'
      BY <2>13, <3>1, EndIsTyped DEF PrepareOutputRetry, GraphInv, Typed
    <3>3. CASE Dies
      BY <2>13, <3>2, <3>3, DeathKeeps DEF PrepareOutputRetry, GraphInv, Charged, Charging, Diagnosable, Dies
    <3>4. CASE ~Dies
      <4>1. graph.node = "prepare_output_retry" /\ graph' = update /\ phase' = "none" /\ outcome' = outcome
        BY <2>13, <3>4 DEF PrepareOutputRetry, Ends
      <4>2. /\ graph'.node = "generate_operational_answer" /\ graph'.context = graph.context
            /\ graph'.verification = graph.verification /\ graph'.models = graph.models
            /\ graph'.decision = graph.decision
        BY <4>1 DEF GraphInv, Typed, Graphs
      <4> QED
        BY <2>13, <3>2, <4>1, <4>2
           DEF PrepareOutputRetry, GraphInv, Rechecks, Decided, Filed, Charged, Charging, Diagnosable, Disagrees,
               Score, Searching, Answering, Beginning, Nodes
    <3> QED
      BY <3>3, <3>4
  <2>14. ASSUME CreateFinalReview PROVE GraphInv'
    <3> DEFINE update == [graph EXCEPT !.node = "write_anomaly_report"]
    <3>1. update \in Graphs
      BY DEF GraphInv, Typed, Graphs, Nodes
    <3>2. Typed'
      BY <2>14, <3>1, EndIsTyped DEF CreateFinalReview, GraphInv, Typed
    <3>3. CASE Dies
      BY <2>14, <3>2, <3>3, DeathKeeps DEF CreateFinalReview, GraphInv, Charged, Charging, Diagnosable, Dies
    <3>4. CASE ~Dies
      <4>1. graph.node = "create_final_review" /\ graph' = update /\ phase' = "none" /\ outcome' = outcome
        BY <2>14, <3>4 DEF CreateFinalReview, Ends
      <4>2. /\ graph'.node = "write_anomaly_report" /\ graph'.context = graph.context
            /\ graph'.verification = graph.verification /\ graph'.models = graph.models
            /\ graph'.iteration = graph.iteration /\ graph'.decision = graph.decision
        BY <4>1 DEF GraphInv, Typed, Graphs
      <4> QED
        BY <2>14, <3>2, <4>1, <4>2
           DEF CreateFinalReview, GraphInv, Rechecks, Decided, Filed, Charged, Charging, Diagnosable, Disagrees,
               Score, Searching, Answering, Beginning, Nodes
    <3> QED
      BY <3>3, <3>4
  <2>15. ASSUME CompleteRun PROVE GraphInv'
    BY <2>15 DEF CompleteRun, GraphInv, Typed, Rechecks, Decided, Filed, Charged, Charging,
                 Diagnosable, Disagrees, Score, Answering
  <2>16. ASSUME GraphRecursion PROVE GraphInv'
    <3>1. Typed'
      BY <2>16, DeathIsTyped DEF GraphRecursion, GraphInv, Typed
    <3> QED
      BY <2>16, <3>1, DeathKeeps
         DEF GraphRecursion, GraphInv, Charged, Charging, Diagnosable, Dies
  <2>17. ASSUME UNCHANGED graphVars PROVE GraphInv'
    BY <2>17 DEF graphVars, GraphInv, Typed, Rechecks, Decided, Filed, Charged, Charging,
                 Diagnosable, Disagrees, Score
  <2> QED
    BY <2>1, <2>2, <2>3, <2>4, <2>5, <2>6, <2>7, <2>8, <2>9, <2>10, <2>11, <2>12, <2>13,
       <2>14, <2>15, <2>16, <2>17 DEF GraphNext
<1> QED
  BY <1>1, <1>2, PTL DEF GraphSpec
-----------------------------------------------------------------------------
(* An attempt that has not settled its diagnosis and is not waiting for    *)
(* the model has its call before it.                                       *)
Sparing ==
  /\ called <= attempt
  /\ phase # "called" /\ ledger # "settled" /\ outcome = "open" => called < attempt

LEMMA SparingStays ==
  ASSUME GraphInv, Sparing, GraphNext
  PROVE  Sparing'
<1> USE DEF At, NoEffects
<1>1. /\ called \in Nat /\ attempt \in Nat
      /\ outcome = "open"
  <2>1. called \in Nat /\ attempt \in Nat
    BY GraphAssumption DEF GraphInv, Typed
  <2>2. outcome = "open"
    BY Zenon DEF GraphNext, Pass, GetExternalContext,
     ExpandInternalEvidence, VerifyModelOutput, RerunModelVerification, AssessCollectedEvidence,
     ReserveDiagnostic, CallDiagnosticModel, FinishDiagnostic, GenerateOperationalAnswer,
     GenerateFallbackOutput, ValidateOutput, PrepareOutputRetry, CreateFinalReview, CompleteRun,
     GraphRecursion
  <2> QED
    BY <2>1, <2>2
<1>2. ASSUME Dies, called' \in Nat, called' <= attempt PROVE Sparing'
  <2>1. CASE attempt < MaxTries
    BY <1>1, <1>2, <2>1 DEF Dies, Sparing
  <2>2. CASE ~(attempt < MaxTries)
    BY <1>1, <1>2, <2>2 DEF Dies, Sparing
  <2> QED
    BY <2>1, <2>2
<1>3. ASSUME \E update : Ends(update), called' = called,
             ledger' = "settled" \/ (ledger' = ledger /\ phase # "called")
      PROVE  Sparing'
  <2>1. CASE Dies
    BY <1>1, <1>2, <1>3, <2>1 DEF Sparing
  <2>2. CASE ~Dies
    <3>1. attempt' = attempt /\ outcome' = outcome
      BY <1>3, <2>2 DEF Ends
    <3> QED
      BY <1>1, <1>3, <3>1 DEF Sparing
  <2> QED
    BY <2>1, <2>2
<1>4. graph.node # "run_diagnostic_worker" => phase # "called"
  BY DEF GraphInv, Charged, Charging
<1>5. CASE ReserveDiagnostic
  <2>1. CASE Diagnosable /\ Granted
    BY <1>1, <1>5, <2>1 DEF ReserveDiagnostic, Granted, Sparing
  <2>2. CASE ~(Diagnosable /\ Granted)
    BY <1>3, <1>5, <2>2 DEF ReserveDiagnostic
  <2> QED
    BY <2>1, <2>2
<1>6. CASE CallDiagnosticModel
  <2>1. called' = called + 1 /\ called' <= attempt
    BY <1>1, <1>6 DEF CallDiagnosticModel, GraphInv, Charged, Charging, Sparing
  <2>2. CASE Dies
    BY <1>1, <1>2, <2>1, <2>2
  <2>3. CASE ~Dies
    BY <1>1, <1>6, <2>1, <2>3 DEF CallDiagnosticModel, Sparing
  <2> QED
    BY <2>2, <2>3
<1>7. CASE FinishDiagnostic
  <2>1. Ends(Diagnosed) /\ ledger' = "settled" /\ called' = called
    BY <1>7 DEF FinishDiagnostic
  <2> QED
    BY <1>3, <2>1
<1>8. CASE CompleteRun
  BY <1>8 DEF CompleteRun, Sparing
<1>9. CASE GraphRecursion
  BY <1>1, <1>2, <1>9 DEF GraphRecursion, Sparing
<1>10. ASSUME ~(ReserveDiagnostic \/ CallDiagnosticModel \/ FinishDiagnostic),
              ~(CompleteRun \/ GraphRecursion)
       PROVE  Sparing'
  <2> DEFINE Quiet == /\ graph.node # "run_diagnostic_worker"
                      /\ ledger' = ledger /\ called' = called
                      /\ \E update : Ends(update)
  <2>1. ASSUME NEW node \in DOMAIN Passes, Pass(node)
        PROVE  Quiet
    <3>1. graph.node = node /\ ledger' = ledger /\ called' = called /\ \E update : Ends(update)
      BY <2>1, Zenon DEF Pass
    <3>2. node # "run_diagnostic_worker"
      BY DEF Passes
    <3> QED
      BY <3>1, <3>2
  <2>2. ASSUME NEW context \in Contexts, GetExternalContext(context)
        PROVE  Quiet
    BY <2>2, Zenon DEF GetExternalContext
  <2>3. ASSUME NEW context \in Contexts, ExpandInternalEvidence(context)
        PROVE  Quiet
    BY <2>3, Zenon DEF ExpandInternalEvidence
  <2>4. ASSUME NEW v \in Verifications, VerifyModelOutput(v)
        PROVE  Quiet
    BY <2>4, Zenon DEF VerifyModelOutput
  <2>5. ASSUME NEW v \in Verifications, RerunModelVerification(v)
        PROVE  Quiet
    BY <2>5, Zenon DEF RerunModelVerification
  <2>6. ASSUME NEW candidate \in Answers \cup {"none"}, AssessCollectedEvidence(candidate)
        PROVE  Quiet
    BY <2>6, Zenon DEF AssessCollectedEvidence
  <2>7. ASSUME NEW answer \in {"none", "sound", "certain", "short"}, GenerateOperationalAnswer(answer)
        PROVE  Quiet
    BY <2>7, Zenon DEF GenerateOperationalAnswer
  <2>8. ASSUME GenerateFallbackOutput \/ ValidateOutput \/ PrepareOutputRetry
                 \/ CreateFinalReview
        PROVE  Quiet
    BY <2>8, Zenon DEF GenerateFallbackOutput, ValidateOutput, PrepareOutputRetry, CreateFinalReview
  <2>9. Quiet
    BY <1>10, <2>1, <2>2, <2>3, <2>4, <2>5, <2>6, <2>7, <2>8, Zenon DEF GraphNext
  <2> QED
    BY <1>3, <1>4, <2>9
<1> QED
  BY <1>5, <1>6, <1>7, <1>8, <1>9, <1>10

(* DiagnosisCharged: the diagnostic model is called at most once in an     *)
(* attempt and never behind the settlement, whatever the chat model asks   *)
(* for; a completed run that has called it was charged for it.             *)
THEOREM DiagnosisIsCharged == GraphSpec => []DiagnosisCharged
<1>1. GraphInit => Sparing
  BY DEF GraphInit, Sparing
<1>2. GraphInv /\ Sparing /\ [GraphNext]_graphVars => Sparing'
  <2>1. ASSUME UNCHANGED graphVars, Sparing PROVE Sparing'
    BY <2>1 DEF graphVars, Sparing
  <2> QED
    BY <2>1, SparingStays
<1>3. GraphInv /\ Sparing => DiagnosisCharged
  BY DEF GraphInv, Filed, Charged, Charging, Sparing, DiagnosisCharged
<1> QED
  BY <1>1, <1>2, <1>3, GraphInvariance, PTL DEF GraphSpec

(* ReviewNotBypassed: whatever the chat model answers, a run that does not *)
(* ask for a human has evidence that needs none, and a disagreement of the *)
(* models was checked again and left a review task.  With one iteration    *)
(* nothing is checked again.                                               *)
THEOREM ReviewIsNotBypassed ==
  ASSUME MaxIterations >= 2
  PROVE  GraphSpec => []ReviewNotBypassed
<1>1. GraphInv => ReviewNotBypassed
  BY DEF GraphInv, Decided, Filed, Answering, ReviewNotBypassed, DisagreementRechecked
<1> QED
  BY <1>1, GraphInvariance, PTL
-----------------------------------------------------------------------------
(* The loop's counters: the iterations are used up by searches and one     *)
(* revision, and the models are run at most twice.                         *)
Limits ==
  /\ graph.iteration <= MaxIterations + 1 /\ graph.revisions <= 1 /\ graph.models <= 2
  /\ graph.node \in {"expand_internal_evidence", "rerun_model_verification",
                     "prepare_output_retry"} => graph.iteration <= MaxIterations
  /\ graph.node = "rerun_model_verification" => graph.models < 2
  /\ graph.node = "prepare_output_retry" => graph.revisions < 1

(* The node an update leads to and the counters it leaves.                 *)
LEMMA LimitsStay ==
  ASSUME GraphInv, Limits, GraphNext
  PROVE  Limits'
<1> USE DEF At, NoEffects
<1>1. graph \in Graphs /\ MaxIterations \in Nat \ {0}
  BY GraphAssumption DEF GraphInv, Typed
<1>2. CASE graph' = graph
  BY <1>2 DEF Limits
<1>3. ASSUME NEW node \in DOMAIN Passes, Pass(node), graph' # graph PROVE Limits'
  <2>1. Passes[node] \in {"load_ops_input", "get_ops_evidence", "get_external_context",
                          "complete_run"}
    BY DEF Passes
  <2>2. graph' = [graph EXCEPT !.node = Passes[node]]
    BY <1>3 DEF Pass, Ends, Dies
  <2> QED
    BY <1>1, <2>1, <2>2 DEF Limits, Graphs
<1>4. ASSUME NEW context \in Contexts, GetExternalContext(context), graph' # graph PROVE Limits'
  BY <1>1, <1>4 DEF GetExternalContext, Ends, Dies, Limits, Graphs
<1>5. ASSUME NEW context \in Contexts, ExpandInternalEvidence(context), graph' # graph
      PROVE  Limits'
  <2>1. /\ graph' = [graph EXCEPT !.node = "assess_collected_evidence", !.context = context,
                                !.iteration = @ + 1]
        /\ graph.node = "expand_internal_evidence"
    BY <1>5 DEF ExpandInternalEvidence, Ends, Dies
  <2>2. /\ graph'.node = "assess_collected_evidence" /\ graph'.models = graph.models
        /\ graph'.iteration = graph.iteration + 1 /\ graph'.revisions = graph.revisions
    BY <1>1, <2>1 DEF Graphs
  <2> QED
    BY <1>1, <2>1, <2>2 DEF Limits, Graphs
<1>6. ASSUME NEW v \in Verifications, VerifyModelOutput(v), graph' # graph PROVE Limits'
  <2>1. graph' = [graph EXCEPT !.node = "assess_collected_evidence",
                                !.verification = v, !.models = 1]
    BY <1>6 DEF VerifyModelOutput, Ends, Dies
  <2>2. /\ graph'.node = "assess_collected_evidence" /\ graph'.models = 1
        /\ graph'.iteration = graph.iteration /\ graph'.revisions = graph.revisions
    BY <1>1, <2>1 DEF Graphs
  <2> QED
    BY <1>1, <2>1, <2>2 DEF Limits, Graphs
<1>7. ASSUME NEW v \in Verifications, RerunModelVerification(v), graph' # graph PROVE Limits'
  <2>1. /\ graph' = [graph EXCEPT !.node = "assess_collected_evidence", !.iteration = @ + 1,
                                !.verification = v, !.models = @ + 1]
        /\ graph.node = "rerun_model_verification"
    BY <1>7 DEF RerunModelVerification, Ends, Dies
  <2>2. /\ graph'.node = "assess_collected_evidence" /\ graph'.models = graph.models + 1
        /\ graph'.iteration = graph.iteration + 1 /\ graph'.revisions = graph.revisions
    BY <1>1, <2>1 DEF Graphs
  <2> QED
    BY <1>1, <2>1, <2>2 DEF Limits, Graphs
<1>8. ASSUME NEW candidate \in Answers \cup {"none"}, AssessCollectedEvidence(candidate),
             graph' # graph
      PROVE  Limits'
  <2> DEFINE decision == Guarded(candidate)
  <2>1. /\ decision \in Decisions
        /\ decision = "rerun_model" => Disagrees /\ graph.models < 2
        /\ decision = "expand_internal" => graph.iteration < MaxIterations
    BY GuardDecides DEF GraphInv
  <2>2. /\ graph' = [graph EXCEPT !.node = Routes[decision], !.decision = decision,
                                  !.force = (decision = "request_human")]
        /\ graph.node = "assess_collected_evidence"
    BY <1>8 DEF AssessCollectedEvidence, Ends, Dies
  <2> HIDE DEF decision
  <2>3. /\ Routes[decision] = "expand_internal_evidence" => decision = "expand_internal"
        /\ Routes[decision] = "rerun_model_verification" => decision = "rerun_model"
        /\ Routes[decision] # "prepare_output_retry"
    BY <2>1 DEF Routes, Decisions
  <2>4. /\ graph'.node = Routes[decision] /\ graph'.models = graph.models
        /\ graph'.iteration = graph.iteration /\ graph'.revisions = graph.revisions
    BY <1>1, <2>2 DEF Graphs
  <2>5. /\ decision = "rerun_model" => graph.iteration <= MaxIterations
        /\ decision = "expand_internal" => graph.iteration <= MaxIterations
    BY <1>1, <2>1, <2>2 DEF GraphInv, Rechecks, Graphs
  <2> QED
    BY <2>1, <2>3, <2>4, <2>5 DEF Limits
<1>9. ASSUME ReserveDiagnostic \/ CallDiagnosticModel \/ FinishDiagnostic, graph' # graph
      PROVE  Limits'
  <2>1. graph' = Diagnosed
    BY <1>9 DEF ReserveDiagnostic, CallDiagnosticModel, FinishDiagnostic, Ends, Dies
  <2> QED
    BY <1>1, <2>1 DEF Diagnosed, Limits, Graphs
<1>10. ASSUME NEW answer \in {"none", "sound", "certain", "short"},
              GenerateOperationalAnswer(answer), graph' # graph
       PROVE  Limits'
  BY <1>1, <1>10 DEF GenerateOperationalAnswer, Ends, Dies, Limits, Graphs
<1>11. ASSUME GenerateFallbackOutput \/ CreateFinalReview, graph' # graph PROVE Limits'
  BY <1>1, <1>11 DEF GenerateFallbackOutput, CreateFinalReview, Ends, Dies, Limits, Graphs
<1>12. ASSUME ValidateOutput, graph' # graph PROVE Limits'
  <2>1. graph' = [graph EXCEPT !.node = IF Revises THEN "prepare_output_retry"
                                        ELSE "create_final_review", !.valid = IsValid]
    BY <1>12 DEF ValidateOutput, Ends, Dies
  <2>2. /\ graph'.node = (IF Revises THEN "prepare_output_retry" ELSE "create_final_review")
        /\ graph'.models = graph.models
        /\ graph'.iteration = graph.iteration /\ graph'.revisions = graph.revisions
    BY <1>1, <2>1 DEF Graphs
  <2>3. Revises => graph.revisions < 1 /\ graph.iteration <= MaxIterations
    BY <1>1 DEF Revises, Graphs
  <2> QED
    BY <2>2, <2>3 DEF Limits
<1>13. ASSUME PrepareOutputRetry, graph' # graph PROVE Limits'
  <2>1. /\ graph' = [graph EXCEPT !.node = "generate_operational_answer", !.iteration = @ + 1,
                                !.revisions = @ + 1]
        /\ graph.node = "prepare_output_retry"
    BY <1>13 DEF PrepareOutputRetry, Ends, Dies
  <2>2. /\ graph'.node = "generate_operational_answer" /\ graph'.models = graph.models
        /\ graph'.iteration = graph.iteration + 1
        /\ graph'.revisions = graph.revisions + 1
    BY <1>1, <2>1 DEF Graphs
  <2> QED
    BY <1>1, <2>1, <2>2 DEF Limits, Graphs
<1>14. ASSUME CompleteRun \/ GraphRecursion PROVE graph' = graph
  BY <1>14 DEF CompleteRun, GraphRecursion, Dies
<1> QED
  BY <1>2, <1>3, <1>4, <1>5, <1>6, <1>7, <1>8, <1>9, <1>10, <1>11, <1>12, <1>13, <1>14
     DEF GraphNext

(* The graph's state keeps its types, and its counters their bounds.       *)
THEOREM GraphTypes == GraphSpec => []GraphTypeOK
<1>1. GraphInit => Limits
  BY GraphAssumption DEF GraphInit, Limits
<1>2. GraphInv /\ Limits /\ [GraphNext]_graphVars => Limits'
  <2>1. ASSUME UNCHANGED graphVars, Limits PROVE Limits'
    BY <2>1 DEF graphVars, Limits
  <2> QED
    BY <2>1, LimitsStay
<1>3. GraphInv /\ Limits => GraphTypeOK
  BY GraphAssumption DEF GraphInv, Typed, Graphs, Limits, GraphTypeOK
<1> QED
  BY <1>1, <1>2, <1>3, GraphInvariance, PTL DEF GraphSpec
-----------------------------------------------------------------------------
(* How many nodes an invocation has run, at most, when it reaches a node:  *)
(* two for every search and for the diagnosis, four for a revision.        *)
Rounds == 2 * (graph.iteration - 1 + graph.revisions) + (IF graph.diagnosed THEN 2 ELSE 0)
Reached(node, count) == graph.node = node => steps <= count
Paced ==
  /\ Reached("mark_running", 0) /\ Reached("load_ops_input", 1)
  /\ Reached("get_ops_evidence", 2) /\ Reached("get_external_context", 3)
  /\ Reached("verify_model_output", 4)
  /\ Reached("assess_collected_evidence", 5 + Rounds)
  /\ Reached("expand_internal_evidence", 6 + Rounds)
  /\ Reached("rerun_model_verification", 6 + Rounds)
  /\ Reached("run_diagnostic_worker", 6 + Rounds)
  /\ graph.node = "run_diagnostic_worker" => ~graph.diagnosed
  /\ Reached("generate_operational_answer", 6 + Rounds)
  /\ Reached("generate_fallback_output", 7 + Rounds)
  /\ Reached("validate_output", 8 + Rounds)
  /\ Reached("prepare_output_retry", 9 + Rounds)
  /\ Reached("create_final_review", 9 + Rounds)
  /\ Reached("write_anomaly_report", 10 + Rounds)
  /\ Reached("complete_run", 11 + Rounds)

LEMMA RoundsCount ==
  ASSUME graph \in Graphs
  PROVE  Rounds \in Nat
  BY DEF Rounds, Graphs

(* A step that goes on, with what the counters of the graph become.        *)
LEMMA PaceStays ==
  ASSUME GraphInv, Paced, GraphNext, "diagnostic_worker" \notin Answers
  PROVE  Paced'
<1> USE DEF At, NoEffects
<1>1. graph \in Graphs /\ Rounds \in Nat /\ steps \in Nat
  BY RoundsCount DEF GraphInv, Typed
<1>2. CASE graph' = graph /\ steps' \in {0, steps}
  <2>1. Rounds' = Rounds
    BY <1>2 DEF Rounds
  <2> QED
    BY <1>1, <1>2, <2>1 DEF Paced, Reached
<1>3. SUFFICES ASSUME ~(graph' = graph /\ steps' \in {0, steps}) PROVE Paced'
  BY <1>2
<1>4. ASSUME NEW node \in DOMAIN Passes, Pass(node) PROVE Paced'
  <2>1. /\ graph.node = node /\ steps' = steps + 1
        /\ graph' = [graph EXCEPT !.node = Passes[node]]
    BY <1>3, <1>4 DEF Pass, Ends, Dies
  <2>2. /\ graph'.node = Passes[node] /\ Rounds' = Rounds
    BY <1>1, <2>1 DEF Rounds, Graphs
  <2>3. \/ node = "mark_running" /\ Passes[node] = "load_ops_input"
        \/ node = "load_ops_input" /\ Passes[node] = "get_ops_evidence"
        \/ node = "get_ops_evidence" /\ Passes[node] = "get_external_context"
        \/ node = "write_anomaly_report" /\ Passes[node] = "complete_run"
    BY DEF Passes
  <2> QED
    BY <1>1, <2>1, <2>2, <2>3 DEF Paced, Reached
<1>5. ASSUME NEW context \in Contexts, GetExternalContext(context) PROVE Paced'
  <2>1. /\ graph.node = "get_external_context" /\ steps' = steps + 1
        /\ graph' = [graph EXCEPT !.node = "verify_model_output", !.context = context]
    BY <1>3, <1>5 DEF GetExternalContext, Ends, Dies
  <2>2. /\ graph'.node = "verify_model_output" /\ graph'.diagnosed = graph.diagnosed
        /\ graph'.iteration = graph.iteration /\ graph'.revisions = graph.revisions
    BY <1>1, <2>1 DEF Graphs
  <2> QED
    BY <1>1, <2>1, <2>2 DEF Paced, Reached, Rounds, Graphs
<1>6. ASSUME NEW context \in Contexts, ExpandInternalEvidence(context) PROVE Paced'
  <2>1. /\ graph.node = "expand_internal_evidence" /\ steps' = steps + 1
        /\ graph' = [graph EXCEPT !.node = "assess_collected_evidence", !.context = context,
                                !.iteration = @ + 1]
    BY <1>3, <1>6 DEF ExpandInternalEvidence, Ends, Dies
  <2>2. /\ graph'.node = "assess_collected_evidence" /\ graph'.diagnosed = graph.diagnosed
        /\ graph'.iteration = graph.iteration + 1 /\ graph'.revisions = graph.revisions
    BY <1>1, <2>1 DEF Graphs
  <2> QED
    BY <1>1, <2>1, <2>2 DEF Paced, Reached, Rounds, Graphs
<1>7. ASSUME NEW v \in Verifications, VerifyModelOutput(v) PROVE Paced'
  <2>1. /\ graph.node = "verify_model_output" /\ steps' = steps + 1
        /\ graph' = [graph EXCEPT !.node = "assess_collected_evidence",
                                !.verification = v, !.models = 1]
    BY <1>3, <1>7 DEF VerifyModelOutput, Ends, Dies
  <2>2. /\ graph'.node = "assess_collected_evidence" /\ graph'.diagnosed = graph.diagnosed
        /\ graph'.iteration = graph.iteration /\ graph'.revisions = graph.revisions
    BY <1>1, <2>1 DEF Graphs
  <2> QED
    BY <1>1, <2>1, <2>2 DEF Paced, Reached, Rounds, Graphs
<1>8. ASSUME NEW v \in Verifications, RerunModelVerification(v) PROVE Paced'
  <2>1. /\ graph.node = "rerun_model_verification" /\ steps' = steps + 1
        /\ graph' = [graph EXCEPT !.node = "assess_collected_evidence", !.iteration = @ + 1,
                                !.verification = v, !.models = @ + 1]
    BY <1>3, <1>8 DEF RerunModelVerification, Ends, Dies
  <2>2. /\ graph'.node = "assess_collected_evidence" /\ graph'.diagnosed = graph.diagnosed
        /\ graph'.iteration = graph.iteration + 1 /\ graph'.revisions = graph.revisions
    BY <1>1, <2>1 DEF Graphs
  <2> QED
    BY <1>1, <2>1, <2>2 DEF Paced, Reached, Rounds, Graphs
<1>9. ASSUME NEW candidate \in Answers \cup {"none"}, AssessCollectedEvidence(candidate)
     PROVE  Paced'
  <2> DEFINE decision == Guarded(candidate)
  <2>1. decision \in Decisions /\ (decision = "diagnostic_worker" => ~graph.diagnosed)
    BY GuardDecides DEF GraphInv
  <2>2. /\ graph.node = "assess_collected_evidence" /\ steps' = steps + 1
        /\ graph' = [graph EXCEPT !.node = Routes[decision], !.decision = decision,
                                  !.force = (decision = "request_human")]
    BY <1>3, <1>9 DEF AssessCollectedEvidence, Ends, Dies
  <2> HIDE DEF decision
  <2>3. /\ Routes[decision] \in {"expand_internal_evidence", "rerun_model_verification",
                                 "run_diagnostic_worker", "generate_operational_answer"}
        /\ Routes[decision] = "run_diagnostic_worker" => decision = "diagnostic_worker"
    BY <2>1 DEF Routes, Decisions
  <2>4. /\ graph'.node = Routes[decision] /\ graph'.diagnosed = graph.diagnosed
        /\ graph'.iteration = graph.iteration /\ graph'.revisions = graph.revisions
    BY <1>1, <2>2 DEF Graphs
  <2>5. Rounds' = Rounds /\ steps' <= 6 + Rounds
    BY <1>1, <2>2, <2>4 DEF Paced, Reached, Rounds
  <2> QED
    BY <1>1, <2>1, <2>3, <2>4, <2>5 DEF Paced, Reached
<1>10. ASSUME ReserveDiagnostic \/ CallDiagnosticModel \/ FinishDiagnostic PROVE Paced'
  <2>1. /\ graph.node = "run_diagnostic_worker" /\ steps' = steps + 1
        /\ graph' = Diagnosed
    BY <1>3, <1>10 DEF ReserveDiagnostic, CallDiagnosticModel, FinishDiagnostic, Ends, Dies
  <2>2. /\ graph'.node = "assess_collected_evidence" /\ graph'.diagnosed = TRUE
        /\ graph'.iteration = graph.iteration /\ graph'.revisions = graph.revisions
    BY <1>1, <2>1 DEF Graphs, Diagnosed
  <2> QED
    BY <1>1, <2>1, <2>2 DEF Paced, Reached, Rounds, Graphs
<1>11. ASSUME NEW answer \in {"none", "sound", "certain", "short"}, GenerateOperationalAnswer(answer) PROVE Paced'
  <2>1. /\ graph.node = "generate_operational_answer" /\ steps' = steps + 1
        /\ graph' = [graph EXCEPT
             !.node = IF (IF answer = "none" THEN graph.value ELSE answer) = "none"
                      THEN "generate_fallback_output" ELSE "validate_output",
             !.value = IF answer = "none" THEN graph.value ELSE answer,
             !.mode = IF answer = "none" THEN "fallback" ELSE "llm"]
    BY <1>3, <1>11 DEF GenerateOperationalAnswer, Ends, Dies
  <2>2. /\ graph'.node \in {"generate_fallback_output", "validate_output"} /\ graph'.diagnosed = graph.diagnosed
        /\ graph'.iteration = graph.iteration /\ graph'.revisions = graph.revisions
    BY <1>1, <2>1 DEF Graphs
  <2> QED
    BY <1>1, <2>1, <2>2 DEF Paced, Reached, Rounds, Graphs
<1>12. ASSUME GenerateFallbackOutput PROVE Paced'
  <2>1. /\ graph.node = "generate_fallback_output" /\ steps' = steps + 1
        /\ graph' = [graph EXCEPT !.node = "validate_output", !.value = "note", !.mode = "fallback"]
    BY <1>3, <1>12 DEF GenerateFallbackOutput, Ends, Dies
  <2>2. /\ graph'.node = "validate_output" /\ graph'.diagnosed = graph.diagnosed
        /\ graph'.iteration = graph.iteration /\ graph'.revisions = graph.revisions
    BY <1>1, <2>1 DEF Graphs
  <2> QED
    BY <1>1, <2>1, <2>2 DEF Paced, Reached, Rounds, Graphs
<1>13. ASSUME ValidateOutput PROVE Paced'
  <2>1. /\ graph.node = "validate_output" /\ steps' = steps + 1
        /\ graph' = [graph EXCEPT !.node = IF Revises THEN "prepare_output_retry"
                                        ELSE "create_final_review", !.valid = IsValid]
    BY <1>3, <1>13 DEF ValidateOutput, Ends, Dies
  <2>2. /\ graph'.node \in {"prepare_output_retry", "create_final_review"} /\ graph'.diagnosed = graph.diagnosed
        /\ graph'.iteration = graph.iteration /\ graph'.revisions = graph.revisions
    BY <1>1, <2>1 DEF Graphs
  <2> QED
    BY <1>1, <2>1, <2>2 DEF Paced, Reached, Rounds, Graphs
<1>14. ASSUME PrepareOutputRetry PROVE Paced'
  <2>1. /\ graph.node = "prepare_output_retry" /\ steps' = steps + 1
        /\ graph' = [graph EXCEPT !.node = "generate_operational_answer", !.iteration = @ + 1,
                                !.revisions = @ + 1]
    BY <1>3, <1>14 DEF PrepareOutputRetry, Ends, Dies
  <2>2. /\ graph'.node = "generate_operational_answer" /\ graph'.diagnosed = graph.diagnosed
        /\ graph'.iteration = graph.iteration + 1 /\ graph'.revisions = graph.revisions + 1
    BY <1>1, <2>1 DEF Graphs
  <2> QED
    BY <1>1, <2>1, <2>2 DEF Paced, Reached, Rounds, Graphs
<1>15. ASSUME CreateFinalReview PROVE Paced'
  <2>1. /\ graph.node = "create_final_review" /\ steps' = steps + 1
        /\ graph' = [graph EXCEPT !.node = "write_anomaly_report"]
    BY <1>3, <1>15 DEF CreateFinalReview, Ends, Dies
  <2>2. /\ graph'.node = "write_anomaly_report" /\ graph'.diagnosed = graph.diagnosed
        /\ graph'.iteration = graph.iteration /\ graph'.revisions = graph.revisions
    BY <1>1, <2>1 DEF Graphs
  <2> QED
    BY <1>1, <2>1, <2>2 DEF Paced, Reached, Rounds, Graphs
<1>16. ASSUME CompleteRun \/ GraphRecursion PROVE FALSE
  BY <1>3, <1>16 DEF CompleteRun, GraphRecursion, Dies
<1> QED
  BY <1>4, <1>5, <1>6, <1>7, <1>8, <1>9, <1>10, <1>11, <1>12, <1>13, <1>14, <1>15, <1>16 DEF GraphNext

(* WithinRecursionLimit: no invocation is ended by the recursion limit.    *)
(* graph.py sets it to 64, which is enough for the eight iterations that   *)
(* settings.py admits; but not for a chat model that asks for the          *)
(* diagnostic worker over and over, as its schema lets it.                 *)
THEOREM NoRunaway ==
  ASSUME "diagnostic_worker" \notin Answers, 2 * MaxIterations + 15 < RecursionLimit
  PROVE  GraphSpec => []WithinRecursionLimit
<1>1. GraphInit => Limits /\ Paced
  BY GraphAssumption DEF GraphInit, Limits, Paced, Reached, Rounds
<1>2. GraphInv /\ Limits /\ Paced /\ [GraphNext]_graphVars => Limits' /\ Paced'
  <2>1. ASSUME UNCHANGED graphVars, Limits, Paced PROVE Limits' /\ Paced'
    BY <2>1 DEF graphVars, Limits, Paced, Reached, Rounds
  <2> QED
    BY <2>1, LimitsStay, PaceStays
<1>3. GraphInv /\ Limits /\ Paced => WithinRecursionLimit
  <2> SUFFICES ASSUME GraphInv, Limits, Paced PROVE WithinRecursionLimit
    OBVIOUS
  <2>1. /\ graph \in Graphs /\ steps \in Nat /\ graph.node \in Nodes
        /\ MaxIterations \in Nat \ {0} /\ RecursionLimit \in Nat
    BY GraphAssumption DEF GraphInv, Typed, Graphs
  <2>2. Rounds \in Nat /\ Rounds <= 2 * MaxIterations + 4
    BY <2>1, RoundsCount DEF Limits, Rounds, Graphs
  <2>3. steps <= 11 + Rounds
    BY <2>1, <2>2 DEF Paced, Reached, Nodes
  <2> QED
    BY <2>1, <2>2, <2>3 DEF WithinRecursionLimit
<1> QED
  BY <1>1, <1>2, <1>3, GraphInvariance, PTL DEF GraphSpec
=============================================================================
