------------------------------ MODULE Retraining ------------------------------
(***************************************************************************)
(* From reviewed labels to production models.  Operators decide review     *)
(* tasks; a corrected label is feedback a retraining job can be made of, by *)
(* an operator or, where the automation policy allows it, by the program.  *)
(* An approved job trains in a thread of the server: the pipeline          *)
(* overwrites the production models, which are copied to a candidate       *)
(* directory and then restored.  Candidates are promoted by operators.     *)
(* Migration 007 made training_feedback.source_review_id NOT NULL; the     *)
(* feedback the program inserts has none.  Without the migration the table *)
(* is the one ensure_review_tables creates.                                *)
(* A set of models is named by the job whose labels it was trained on.     *)
(***************************************************************************)
EXTENDS Integers, FiniteSets

CONSTANTS
  Handlers,     \* requests of operators that may be served at once
  Tasks,        \* review tasks whose decisions are feedback
  Migrated,     \* the schema has migration 007, as verify_database_contract demands
  MaxJobs,      \* bound: retraining jobs
  MinReviews,   \* automation_policy.minimum_review_count
  MinRate,      \* automation_policy.minimum_approval_rate, in percent
  AutoExecute,  \* retrain_auto_execute_enabled and auto_transition_enabled
  MaxCrashes    \* bound: crashes of the server

ASSUME RetrainingAssumption ==
  /\ Migrated \in BOOLEAN /\ AutoExecute \in BOOLEAN
  /\ MaxJobs \in Nat /\ MinReviews \in Nat \ {0} /\ MinRate \in 0..100 /\ MaxCrashes \in Nat

Jobs == 1..MaxJobs
Shipped == 0        \* the models the system was installed with
Torn == -1          \* models of which some files are overwritten
Plain == -2         \* models trained on no feedback
Nothing == -3

VARIABLES
  task,        \* human_review_tasks.status
  feedback,    \* training_feedback.decision, one row for a task
  mode,        \* automation_policy.mode
  job,         \* retrain_jobs.status
  candidate,   \* model_candidates.status of the job's candidate
  active,      \* candidates with an active row in model_deployments
  models,      \* ROOT/models
  artifact,    \* artifact[j]: output/model_candidates of job j
  baseline,    \* baseline[j]: output/retrain_jobs/j/baseline_models
  environ,     \* HEATGRID_TRAINING_FEEDBACK_PATH: whose labels, or Plain if unset
  trainer,     \* trainer[j]: where the background task of job j is
  handler,     \* handler[h]: where the request is
  trainings,   \* trainings[j]: how often job j was trained
  crashes,
  disturbed    \* history: since the last undisturbed activation something happened behind
               \* which the models need not be those of the active deployment

retrainingVars == <<task, feedback, mode, job, candidate, active, models, artifact, baseline,
          environ, trainer, handler, trainings, crashes, disturbed>>
reviewed == <<task, feedback, mode>>
files == <<models, artifact, baseline, environ>>

NoRequest == [step |-> "idle", task |-> Nothing, job |-> Nothing, seen |-> {}]
Parked == [step |-> "idle", previous |-> Nothing, failed |-> FALSE]

RetrainingInit ==
  /\ task \in [Tasks -> IF Migrated THEN {"pending", "corrected"} ELSE {"pending"}]
  /\ feedback = [t \in Tasks |-> IF task[t] = "pending" THEN "none" ELSE task[t]]
  /\ mode = "human_only"
  /\ job = [j \in Jobs |-> "absent"]
  /\ candidate = [j \in Jobs |-> "none"]
  /\ active = {}
  /\ models = Shipped
  /\ artifact = [j \in Jobs |-> Nothing]
  /\ baseline = [j \in Jobs |-> Nothing]
  /\ environ = Plain
  /\ trainer = [j \in Jobs |-> Parked]
  /\ handler = [h \in Handlers |-> NoRequest]
  /\ trainings = [j \in Jobs |-> 0]
  /\ crashes = 0
  /\ disturbed = FALSE
-----------------------------------------------------------------------------
(* Requests.                                                               *)
Serves(h, step) == handler[h].step = step
Continues(h, step) == handler' = [handler EXCEPT ![h].step = step]
Responds(h) == handler' = [handler EXCEPT ![h] = NoRequest]

(* submit_review_task reads the task outside its transaction ...           *)
ReadTask(h, t) ==
  /\ Serves(h, "idle") /\ task[t] = "pending"
  /\ handler' = [handler EXCEPT ![h] = [NoRequest EXCEPT !.step = "decide", !.task = t]]
  /\ UNCHANGED <<reviewed, job, candidate, active, files, trainer, trainings, crashes, disturbed>>

(* ... and updates it unconditionally; a second feedback row for the task  *)
(* violates UNIQUE (task_id), one without its review NOT NULL: either      *)
(* undoes the update.                                                      *)
Decide(h, decision) ==
  LET t == handler[h].task IN
  /\ Serves(h, "decide")
  /\ IF Migrated \/ feedback[t] # "none"
     THEN Responds(h) /\ UNCHANGED <<task, feedback>>
     ELSE /\ task' = [task EXCEPT ![t] = decision]
          /\ feedback' = [feedback EXCEPT ![t] = decision]
          /\ IF AutoExecute /\ decision = "corrected" THEN Continues(h, "policy") ELSE Responds(h)
  /\ UNCHANGED <<mode, job, candidate, active, files, trainer, trainings, crashes, disturbed>>

(* Production models may not be those of the active deployment while a job *)
(* holds a copy of them it will restore, or a request is about to copy the *)
(* files of the candidate it has deployed.                                 *)
Retrains(j) == trainer[j].step \in {"train", "training", "copy", "restore"}
Occupied == (\E j \in Jobs : Retrains(j)) \/ \E h \in Handlers : Serves(h, "activate")

Labels == {t \in Tasks : feedback[t] = "corrected"}
Reviews == {t \in Tasks : feedback[t] # "none"}
Approvals == {t \in Tasks : feedback[t] = "approved"}

(* get_automation_policy switches to guarded_auto behind enough reviews of *)
(* which enough approve; decide_approval admits the automatic retraining   *)
(* only in that mode.                                                      *)
Eligible ==
  /\ Cardinality(Reviews) >= MinReviews
  /\ 100 * Cardinality(Approvals) >= MinRate * Cardinality(Reviews)
AskPolicy(h) ==
  /\ Serves(h, "policy")
  /\ mode' = IF Eligible THEN "guarded_auto" ELSE mode
  /\ IF mode' = "guarded_auto" /\ Eligible THEN Continues(h, "jobs") ELSE Responds(h)
  /\ UNCHANGED <<task, feedback, job, candidate, active, files, trainer, trainings, crashes,
                 disturbed>>

CheckJobs(h) ==
  /\ Serves(h, "jobs")
  /\ IF \E j \in Jobs : job[j] \in {"pending_approval", "approved", "running"}
     THEN Responds(h) ELSE Continues(h, "candidates")
  /\ UNCHANGED <<reviewed, job, candidate, active, files, trainer, trainings, crashes, disturbed>>

CheckCandidates(h) ==
  /\ Serves(h, "candidates")
  /\ IF \E j \in Jobs : candidate[j] = "awaiting_promotion"
     THEN Responds(h) ELSE Continues(h, "create")
  /\ UNCHANGED <<reviewed, job, candidate, active, files, trainer, trainings, crashes, disturbed>>

IsNextJob(j) == job[j] = "absent" /\ \A i \in Jobs : job[i] = "absent" => i >= j

(* create_retrain_job refuses a job without a corrected label.             *)
CreateJob(j) == IsNextJob(j) /\ Labels # {} /\ job' = [job EXCEPT ![j] = "pending_approval"]

AutoCreate(h, j) ==
  /\ Serves(h, "create")
  /\ CreateJob(j)
  /\ handler' = [handler EXCEPT ![h] = [NoRequest EXCEPT !.step = "approve", !.job = j]]
  /\ UNCHANGED <<reviewed, candidate, active, files, trainer, trainings, crashes, disturbed>>

AddRetrainJob(j) ==
  /\ CreateJob(j)
  /\ UNCHANGED <<reviewed, candidate, active, files, trainer, handler, trainings, crashes,
                 disturbed>>

(* review_retrain_job; the approved job is handed to a background task.    *)
ApproveJob(j) ==
  /\ job[j] = "pending_approval"
  /\ job' = [job EXCEPT ![j] = "approved"]
  /\ trainer' = [trainer EXCEPT ![j] = [Parked EXCEPT !.step = "scheduled"]]

AutoApprove(h) ==
  /\ Serves(h, "approve")
  /\ \/ ApproveJob(handler[h].job)
     \/ job[handler[h].job] # "pending_approval" /\ UNCHANGED <<job, trainer>>
  /\ Responds(h)
  /\ UNCHANGED <<reviewed, candidate, active, files, trainings, crashes, disturbed>>

ApproveRetrainJob(j) ==
  /\ ApproveJob(j)
  /\ UNCHANGED <<reviewed, candidate, active, files, handler, trainings, crashes, disturbed>>

RejectRetrainJob(j) ==
  /\ job[j] = "pending_approval"
  /\ job' = [job EXCEPT ![j] = "rejected"]
  /\ UNCHANGED <<reviewed, candidate, active, files, trainer, handler, trainings, crashes,
                 disturbed>>

(* review_model_candidate reads the candidate outside its transactions.    *)
ReadModelCandidate(h, j, decision) ==
  /\ Serves(h, "idle") /\ candidate[j] = "awaiting_promotion"
  /\ handler' = [handler EXCEPT ![h] = [NoRequest EXCEPT !.step = decision, !.job = j]]
  /\ UNCHANGED <<reviewed, job, candidate, active, files, trainer, trainings, crashes, disturbed>>

RejectCandidate(h) ==
  /\ Serves(h, "reject")
  /\ candidate' = [candidate EXCEPT ![handler[h].job] = "rejected"]
  /\ Responds(h)
  /\ UNCHANGED <<reviewed, job, active, files, trainer, trainings, crashes, disturbed>>

(* A promotion deactivates the deployments it sees ...                     *)
DeactivateDeployments(h) ==
  /\ Serves(h, "promote")
  /\ handler' = [handler EXCEPT ![h].step = "deploy", ![h].seen = active]
  /\ UNCHANGED <<reviewed, job, candidate, active, files, trainer, trainings, crashes, disturbed>>

(* ... and inserts its own, unless another was committed meanwhile: the    *)
(* unique index on active rows lets only one through.                      *)
Unique(h) == active \subseteq handler[h].seen

DeployCandidate(h) ==
  LET j == handler[h].job IN
  /\ Serves(h, "deploy")
  /\ IF Unique(h)
     THEN /\ active' = (active \ handler[h].seen) \cup {j}
          /\ candidate' = [candidate EXCEPT ![j] = "promoted"]
          /\ disturbed' = (disturbed \/ Occupied)
          /\ Continues(h, "activate")
     ELSE Responds(h) /\ UNCHANGED <<active, candidate, disturbed>>
  /\ UNCHANGED <<reviewed, job, files, trainer, trainings, crashes>>

(* activate_model_candidate copies the candidate's files behind the commit.*)
Undisturbed(h) ==
  /\ handler[h].job \in active
  /\ \A j \in Jobs : ~Retrains(j)
  /\ \A g \in Handlers \ {h} : ~Serves(g, "activate")

ActivateCandidate(h) ==
  /\ Serves(h, "activate")
  /\ models' = artifact[handler[h].job]
  /\ disturbed' = (disturbed /\ ~Undisturbed(h))
  /\ Responds(h)
  /\ UNCHANGED <<reviewed, job, candidate, active, artifact, baseline, environ, trainer,
                 trainings, crashes>>

(* The candidate's directory is gone, a file cannot be read or written, or *)
(* the pointer cannot: the request fails, the deployment stays active.     *)
FailActivation(h) ==
  /\ Serves(h, "activate")
  /\ models' \in {models, Torn, artifact[handler[h].job]}
  /\ disturbed' = TRUE
  /\ Responds(h)
  /\ UNCHANGED <<reviewed, job, candidate, active, artifact, baseline, environ, trainer,
                 trainings, crashes>>

UpdateAutomationPolicy(m) ==
  /\ m # mode
  /\ mode' = IF AutoExecute /\ Eligible THEN "guarded_auto" ELSE m
  /\ UNCHANGED <<task, feedback, job, candidate, active, files, trainer, handler, trainings,
                 crashes, disturbed>>
-----------------------------------------------------------------------------
(* The background task of a job: execute_retrain_job.                      *)
Trains(j, step) == trainer[j].step = step
Proceeds(j, step) == trainer' = [trainer EXCEPT ![j].step = step]

ReadJob(j) ==
  /\ Trains(j, "scheduled")
  /\ IF job[j] = "approved" THEN Proceeds(j, "mark") ELSE Proceeds(j, "idle")
  /\ UNCHANGED <<reviewed, job, candidate, active, files, handler, trainings, crashes, disturbed>>

MarkRunning(j) ==
  /\ Trains(j, "mark")
  /\ job' = [job EXCEPT ![j] = "running"]
  /\ Proceeds(j, "baseline")
  /\ UNCHANGED <<reviewed, candidate, active, files, handler, trainings, crashes, disturbed>>

SaveBaseline(j) ==
  /\ Trains(j, "baseline")
  /\ baseline' = [baseline EXCEPT ![j] = models]
  /\ trainer' = [trainer EXCEPT ![j] = [@ EXCEPT !.step = "train", !.previous = environ]]
  /\ environ' = j
  /\ disturbed' = (disturbed \/ Occupied)
  /\ UNCHANGED <<reviewed, job, candidate, active, models, artifact, handler, trainings,
                 crashes>>

(* full_retrain overwrites the production models file by file with models  *)
(* of the labels the environment names.                                    *)
StartTraining(j) ==
  /\ Trains(j, "train")
  /\ models' = Torn
  /\ trainings' = [trainings EXCEPT ![j] = @ + 1]
  /\ Proceeds(j, "training")
  /\ UNCHANGED <<reviewed, job, candidate, active, artifact, baseline, environ, handler,
                 crashes, disturbed>>

EndTraining(j) ==
  /\ Trains(j, "training")
  /\ models' = environ
  /\ Proceeds(j, "copy")
  /\ UNCHANGED <<reviewed, job, candidate, active, artifact, baseline, environ, handler,
                 trainings, crashes, disturbed>>

(* Seeded fault: the models are not restored when the training fails.      *)
LeaveModels(j) ==
  /\ Trains(j, "training")
  /\ job' = [job EXCEPT ![j] = "failed"]
  /\ Proceeds(j, "idle")
  /\ UNCHANGED <<reviewed, candidate, active, files, handler, trainings, crashes, disturbed>>

(* The training raises, or the copy behind it, which may be half done.     *)
FailTraining(j) ==
  /\ trainer[j].step \in {"training", "copy"}
  /\ trainer' = [trainer EXCEPT ![j] = [@ EXCEPT !.step = "restore", !.failed = TRUE]]
  /\ artifact' = IF Trains(j, "copy") THEN [artifact EXCEPT ![j] = Torn] ELSE artifact
  /\ UNCHANGED <<reviewed, job, candidate, active, models, baseline, environ, handler,
                 trainings, crashes, disturbed>>

CopyCandidate(j) ==
  /\ Trains(j, "copy")
  /\ artifact' = [artifact EXCEPT ![j] = models]
  /\ Proceeds(j, "restore")
  /\ UNCHANGED <<reviewed, job, candidate, active, models, baseline, environ, handler,
                 trainings, crashes, disturbed>>

RestoreBaseline(j) ==
  /\ Trains(j, "restore")
  /\ models' = baseline[j]
  /\ environ' = trainer[j].previous
  /\ Proceeds(j, IF trainer[j].failed THEN "fail" ELSE "candidate")
  /\ UNCHANGED <<reviewed, job, candidate, active, artifact, baseline, handler, trainings,
                 crashes, disturbed>>

(* The restoring copy raises itself: the environment is not reset either.  *)
FailRestore(j) ==
  /\ Trains(j, "restore")
  /\ models' = Torn
  /\ disturbed' = TRUE
  /\ Proceeds(j, "fail")
  /\ UNCHANGED <<reviewed, job, candidate, active, artifact, baseline, environ, handler,
                 trainings, crashes>>

CreateModelCandidate(j) ==
  /\ Trains(j, "candidate")
  /\ candidate' = [candidate EXCEPT ![j] = "awaiting_promotion"]
  /\ Proceeds(j, "complete")
  /\ UNCHANGED <<reviewed, job, active, files, handler, trainings, crashes, disturbed>>

CompleteJob(j) ==
  /\ Trains(j, "complete")
  /\ job' = [job EXCEPT ![j] = "completed"]
  /\ Proceeds(j, "review")
  /\ UNCHANGED <<reviewed, candidate, active, files, handler, trainings, crashes, disturbed>>

CreatePromotionReview(j) ==
  /\ Trains(j, "review")
  /\ Proceeds(j, "idle")
  /\ UNCHANGED <<reviewed, job, candidate, active, files, handler, trainings, crashes, disturbed>>

(* An exception before the training has begun, when its baseline is not    *)
(* whole, or behind it: in the manifest or one of the three transactions.  *)
Raise(j) ==
  /\ trainer[j].step \in {"baseline", "candidate", "complete", "review"}
  /\ Proceeds(j, "fail")
  /\ UNCHANGED <<reviewed, job, candidate, active, files, handler, trainings, crashes, disturbed>>

FailJob(j) ==
  /\ Trains(j, "fail")
  /\ job' = [job EXCEPT ![j] = "failed"]
  /\ Proceeds(j, "idle")
  /\ UNCHANGED <<reviewed, candidate, active, files, handler, trainings, crashes, disturbed>>

(* An exception the task does not handle: nothing moves the job again.     *)
LoseJob(j) ==
  /\ trainer[j].step \in {"scheduled", "mark", "baseline", "fail"}
  /\ Proceeds(j, "idle")
  /\ UNCHANGED <<reviewed, job, candidate, active, files, handler, trainings, crashes, disturbed>>

(* The server dies with its threads and requests; no job is resumed.  An   *)
(* activation, or a restoration, may have copied some of its files.        *)
Crash ==
  /\ crashes < MaxCrashes
  /\ crashes' = crashes + 1
  /\ trainer' = [j \in Jobs |-> Parked]
  /\ handler' = [h \in Handlers |-> NoRequest]
  /\ environ' = Plain
  /\ models' \in {models} \cup (IF Occupied THEN {Torn} ELSE {})
  /\ disturbed' = (disturbed \/ Occupied)
  /\ UNCHANGED <<reviewed, job, candidate, active, artifact, baseline, trainings>>

RetrainingNext ==
  \/ \E h \in Handlers :
       \/ \E t \in Tasks : ReadTask(h, t)
       \/ \E d \in {"approved", "rejected", "corrected"} : Decide(h, d)
       \/ AskPolicy(h) \/ CheckJobs(h) \/ CheckCandidates(h) \/ AutoApprove(h)
       \/ \E j \in Jobs : AutoCreate(h, j)
       \/ \E j \in Jobs, d \in {"promote", "reject"} : ReadModelCandidate(h, j, d)
       \/ RejectCandidate(h) \/ DeactivateDeployments(h) \/ DeployCandidate(h)
       \/ ActivateCandidate(h) \/ FailActivation(h)
  \/ \E m \in {"human_only", "guarded_auto"} : UpdateAutomationPolicy(m)
  \/ \E j \in Jobs :
       \/ AddRetrainJob(j) \/ ApproveRetrainJob(j) \/ RejectRetrainJob(j)
       \/ ReadJob(j) \/ MarkRunning(j) \/ SaveBaseline(j) \/ StartTraining(j)
       \/ EndTraining(j) \/ FailTraining(j) \/ CopyCandidate(j)
       \/ RestoreBaseline(j) \/ FailRestore(j)
       \/ CreateModelCandidate(j) \/ CompleteJob(j) \/ CreatePromotionReview(j)
       \/ Raise(j) \/ FailJob(j) \/ LoseJob(j)
  \/ Crash

RetrainingSpec == RetrainingInit /\ [][RetrainingNext]_retrainingVars
-----------------------------------------------------------------------------
Models == Jobs \cup {Shipped, Torn, Plain}
Trainers ==
  [step : {"idle", "scheduled", "mark", "baseline", "train", "training", "copy", "restore",
           "candidate", "complete", "review", "fail"},
   previous : Jobs \cup {Plain, Nothing}, failed : BOOLEAN]
Attended ==
  [step : {"idle", "decide", "policy", "jobs", "candidates", "create", "approve", "promote",
           "reject", "deploy", "activate"},
   task : Tasks \cup {Nothing}, job : Jobs \cup {Nothing}, seen : SUBSET Jobs]

RetrainingTypeOK ==
  /\ task \in [Tasks -> {"pending", "approved", "rejected", "corrected"}]
  /\ feedback \in [Tasks -> {"none", "approved", "rejected", "corrected"}]
  /\ mode \in {"human_only", "guarded_auto"}
  /\ job \in [Jobs -> {"absent", "pending_approval", "approved", "running", "completed",
                       "failed", "rejected"}]
  /\ candidate \in [Jobs -> {"none", "awaiting_promotion", "promoted", "rejected"}]
  /\ active \subseteq Jobs
  /\ models \in Models /\ environ \in Jobs \cup {Plain}
  /\ artifact \in [Jobs -> Models \cup {Nothing}]
  /\ baseline \in [Jobs -> Models \cup {Nothing}]
  /\ trainer \in [Jobs -> Trainers] /\ handler \in [Handlers -> Attended]
  /\ trainings \in [Jobs -> Nat] /\ crashes \in 0..MaxCrashes
  /\ disturbed \in BOOLEAN

(* A job is trained at most once and never after it was rejected, whether  *)
(* operators or the automation approve it.                                 *)
TrainedOnce ==
  \A j \in DOMAIN job : trainings[j] <= 1 /\ (trainings[j] = 1 => job[j] # "rejected")

(* Promotions that run at once leave one active deployment, of a candidate *)
(* whose files were written.                                               *)
OneActiveDeployment ==
  Cardinality(active) <= 1 /\ \A j \in active : artifact[j] # Nothing

(* docs/14_AGENT_RECURSIVE_AUTOMATION.md:88-89: retraining does not touch  *)
(* the production models, which change together with the active            *)
(* deployment.  While nothing retrains or activates they are those of the  *)
(* active deployment, or the ones the system was installed with, unless    *)
(* since the last activation that was undisturbed                          *)
(*   - an activation or a restoration has failed,                          *)
(*   - the server has died during a retraining or before an activation, or *)
(*   - a retraining or a promotion has begun during another one.           *)
(* So neither a failed training, nor decisions taken one after the other,  *)
(* put models into production that were not promoted, and the next         *)
(* undisturbed promotion repairs what the others left behind.              *)
Deployed == {artifact[j] : j \in active} \cup (IF active = {} THEN {Shipped} ELSE {})
DeploymentFollowed == disturbed \/ Occupied \/ models \in Deployed

(* Jobs are trained once, promotions leave one deployment, and the models  *)
(* follow it.                                                              *)
ModelsFollowDeployment == TrainedOnce /\ OneActiveDeployment /\ DeploymentFollowed

(* docs/14_AGENT_RECURSIVE_AUTOMATION.md:85: a decision is stored as        *)
(* training feedback.  Of the requests that decide a pending task the first *)
(* to end has decided it.                                                  *)
DecisionIsStored ==
  [][\A h \in Handlers :
       Serves(h, "decide") /\ handler'[h].step # "decide" /\ crashes' = crashes
         => feedback'[handler[h].task] # "none"]_retrainingVars
=============================================================================
