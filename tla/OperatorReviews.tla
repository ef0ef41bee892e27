---------------------------- MODULE OperatorReviews ---------------------------
(***************************************************************************)
(* Operators' reviews of agent runs.  submit_operator_review appends a     *)
(* review to the history of a run, decides the review task it belongs to,  *)
(* copies the decision to the run, makes a policy candidate of a           *)
(* correction and requests a targeted rerun, in one transaction; clients   *)
(* repeat a request under its idempotency key.  Runs complete meanwhile,   *)
(* and the policy candidates are decided by others.                        *)
(* A review holds an advisory lock on its run, so its transaction is two   *)
(* steps: what it reads behind the lock, and what it writes.               *)
(***************************************************************************)
EXTENDS Integers, Sequences

CONSTANTS
  Reviewers,     \* requests that may be served at once
  Runs,          \* rows of agent_runs
  ReviewKeys,    \* idempotency keys
  ReviewBodies,  \* requests: [decision, expected, rerun]
  MaxReviews,    \* bound: reviews of a run
  MaxDecisions   \* bound: decisions on a policy candidate

AnyVersion == -1  \* of a request that states no expected_version
NoTask == 0

DecidedAs == [approve |-> "approved", correct |-> "corrected", reject |-> "rejected",
              keep_human_review |-> "rejected"]
ASSUME ReviewsAssumption ==
  /\ ReviewBodies \subseteq
       [decision : DOMAIN DecidedAs, expected : Nat \cup {AnyVersion}, rerun : BOOLEAN]
  /\ MaxReviews \in Nat /\ MaxDecisions \in Nat

VARIABLES
  executing,   \* the runs whose graph has not stored its result
  given,       \* given[r]: agent_run_reviews, by review_version
  tasks,       \* human_review_tasks.status, by creation
  filed,       \* filed[r]: the task of operation_key agent-review:r:final_output
  current,     \* current[r]: agent_runs.review_task_id
  shown,       \* shown[r]: agent_runs.review_status
  candidates,  \* agent_policy_candidates, by creation
  reruns,      \* agent_rerun_requests: the review each belongs to
  operator     \* operator[c]: where the request is

reviewVars == <<executing, given, tasks, filed, current, shown, candidates, reruns, operator>>

NotReviewing == [step |-> "idle"]

ReviewInit ==
  /\ executing = Runs
  /\ given = [r \in Runs |-> <<>>]
  /\ tasks = <<>>
  /\ filed = [r \in Runs |-> NoTask]
  /\ current = [r \in Runs |-> NoTask]
  /\ shown = [r \in Runs |-> "not_ready"]
  /\ candidates = <<>>
  /\ reruns = <<>>
  /\ operator = [c \in Reviewers |-> NotReviewing]
-----------------------------------------------------------------------------
OperatorAt(c, step) == operator[c].step = step
AnswersOperator(c) == operator' = [operator EXCEPT ![c] = NotReviewing]

Recorded == UNION {{<<r, i>> : i \in DOMAIN given[r]} : r \in Runs}
Review(x) == given[x[1]][x[2]]
OfKey(k) == {x \in Recorded : Review(x).key = k}
LatestReview(r) == Len(given[r])
TaskUsed(t) == \E x \in Recorded : Review(x).task = t

(* _lock_or_create_review_task takes the task of the run if it is pending  *)
(* and no review has used it.                                              *)
TakesCurrent(r) == current[r] # NoTask /\ ~TaskUsed(current[r]) /\ tasks[current[r]] = "pending"

RerunExists(x) == \E i \in DOMAIN reruns : reruns[i] = x
(* create_targeted_child_run, which a repeated request calls again.        *)
RequestRerun(x, body) ==
  reruns' = IF body.rerun /\ ~RerunExists(x) THEN Append(reruns, x) ELSE reruns

(* The advisory lock of the run.                                           *)
LocksRun(r) == \E c \in Reviewers : OperatorAt(c, "record") /\ operator[c].run = r

(* A known key with the same body answers with the review recorded under   *)
(* it, whichever run that is of; with another body it is a conflict.       *)
RepeatReview(c, r, k, body) ==
  /\ OperatorAt(c, "idle") /\ OfKey(k) # {} /\ ~LocksRun(r)
  /\ \E x \in OfKey(k) : IF Review(x).body = body THEN RequestRerun(x, body) ELSE UNCHANGED reruns
  /\ UNCHANGED <<executing, given, tasks, filed, current, shown, candidates, operator>>

BeginReview(c, r, k, body) ==
  /\ OperatorAt(c, "idle") /\ OfKey(k) = {} /\ ~LocksRun(r)
  /\ LatestReview(r) < MaxReviews
  /\ operator' = [operator EXCEPT ![c] = [step |-> "record", run |-> r, key |-> k, body |-> body]]
  /\ UNCHANGED <<executing, given, tasks, filed, current, shown, candidates, reruns>>

RunStatus(decision) ==
  IF decision \in {"approve", "correct"} THEN DecidedAs[decision] ELSE "pending"

(* Seeded fault: the expected version is not compared.                     *)
NotStale(r, expected) == FALSE
StaleVersion(r, expected) == expected # AnyVersion /\ expected # LatestReview(r)
KeyTaken(k) == OfKey(k) # {}

(* record_review: the version check, then the unique indexes, which refuse *)
(* a key another run's review has committed meanwhile.  The transaction is *)
(* undone, or, with a task that was there before, answers with that review.*)
RecordReview(c) ==
  LET r == operator[c].run
      body == operator[c].body
      t == IF TakesCurrent(r) THEN current[r] ELSE Len(tasks) + 1
      x == <<r, LatestReview(r) + 1>>
  IN
  /\ OperatorAt(c, "record")
  /\ IF StaleVersion(r, body.expected) \/ KeyTaken(operator[c].key)
     THEN /\ \/ UNCHANGED reruns
             \/ /\ ~StaleVersion(r, body.expected) /\ TakesCurrent(r)
                /\ \E y \in OfKey(operator[c].key) : Review(y).body = body /\ RequestRerun(y, body)
          /\ UNCHANGED <<given, tasks, current, shown, candidates>>
     ELSE /\ given' = [given EXCEPT ![r] =
               Append(@, [key |-> operator[c].key, body |-> body, task |-> t,
                          done |-> r \notin executing])]
          /\ tasks' = IF t \in DOMAIN tasks THEN [tasks EXCEPT ![t] = DecidedAs[body.decision]]
                      ELSE Append(tasks, DecidedAs[body.decision])
          /\ current' = [current EXCEPT ![r] = t]
          /\ shown' = [shown EXCEPT ![r] = RunStatus(body.decision)]
          /\ candidates' = IF body.decision = "correct"
                           THEN Append(candidates, [version |-> 1, history |-> <<>>])
                           ELSE candidates
          /\ RequestRerun(x, body)
  /\ AnswersOperator(c)
  /\ UNCHANGED <<executing, filed>>
-----------------------------------------------------------------------------
(* A coroutine files the final review of the run ...                       *)
CreateFinalReview(r) ==
  /\ r \in executing /\ filed[r] = NoTask
  /\ tasks' = Append(tasks, "pending")
  /\ filed' = [filed EXCEPT ![r] = Len(tasks')]
  /\ UNCHANGED <<executing, given, current, shown, candidates, reruns, operator>>

(* ... and completes it; a second coroutine may do so, too.                *)
(* Seeded fault: complete_agent_run without its guard on the status.       *)
CompletesAlways(r) == TRUE
Completes(r) == r \in executing
CompleteRun(r) ==
  /\ filed[r] # NoTask /\ ~LocksRun(r) /\ Completes(r)
  /\ current' = [current EXCEPT ![r] = filed[r]]
  /\ shown' = [shown EXCEPT ![r] = "pending"]
  /\ executing' = executing \ {r}
  /\ UNCHANGED <<given, tasks, filed, candidates, reruns, operator>>

(* decide_policy_candidate reads the candidate ...                         *)
ReadCandidate(c, i) ==
  /\ OperatorAt(c, "idle") /\ candidates[i].version <= MaxDecisions
  /\ operator' = [operator EXCEPT ![c] =
       [step |-> "decide", candidate |-> i, seen |-> candidates[i]]]
  /\ UNCHANGED <<executing, given, tasks, filed, current, shown, candidates, reruns>>

SameVersion(c) == candidates[operator[c].candidate].version = operator[c].seen.version

(* ... and writes its status and the history it has read, with the         *)
(* decision added, if the version is still the same.                       *)
DecideCandidate(c) ==
  /\ OperatorAt(c, "decide")
  /\ candidates' =
       IF SameVersion(c)
       THEN [candidates EXCEPT ![operator[c].candidate] =
              [version |-> @.version + 1,
               history |-> Append(operator[c].seen.history, operator[c].seen.version)]]
       ELSE candidates
  /\ AnswersOperator(c)
  /\ UNCHANGED <<executing, given, tasks, filed, current, shown, reruns>>

ReviewNext ==
  \/ \E c \in Reviewers :
       \/ \E r \in Runs, k \in ReviewKeys, b \in ReviewBodies :
            BeginReview(c, r, k, b) \/ RepeatReview(c, r, k, b)
       \/ RecordReview(c) \/ DecideCandidate(c)
       \/ \E i \in DOMAIN candidates : ReadCandidate(c, i)
  \/ \E r \in Runs : CreateFinalReview(r) \/ CompleteRun(r)

ReviewSpec == ReviewInit /\ [][ReviewNext]_reviewVars
-----------------------------------------------------------------------------
ReviewTypeOK ==
  /\ executing \subseteq Runs
  /\ \A r \in Runs : /\ Len(given[r]) <= MaxReviews
                     /\ current[r] \in 0..Len(tasks) /\ filed[r] \in 0..Len(tasks)
  /\ \A t \in DOMAIN tasks : tasks[t] \in {"pending", "approved", "corrected", "rejected"}
  /\ shown \in [Runs -> {"not_ready", "pending", "approved", "corrected"}]

(* A review task is decided by one review, and shows that decision.        *)
OneReviewPerTask ==
  \A x, y \in Recorded :
    /\ Review(x).task = Review(y).task => x = y
    /\ tasks[Review(x).task] = DecidedAs[Review(x).body.decision]

(* A request that is sent again, also to another run and also at the same  *)
(* time, records one review and requests one rerun.                        *)
RecordedOnce ==
  /\ \A x, y \in Recorded : Review(x).key = Review(y).key => x = y
  /\ \A i, j \in DOMAIN reruns : reruns[i] = reruns[j] => i = j

(* The review an operator sees on a run is the latest of its history: what *)
(* was recorded on a completed run is neither undone by a late completion  *)
(* nor left behind by a concurrent or repeated review; and every review's  *)
(* task shows its decision.                                                *)
StatusFollowsLatestReview ==
  /\ \A r \in Runs :
       LET n == LatestReview(r) IN
       n > 0 /\ given[r][n].done =>
         /\ shown[r] = RunStatus(given[r][n].body.decision)
         /\ current[r] = given[r][n].task
  /\ OneReviewPerTask
  /\ RecordedOnce

(* The histories as logs: the version each entry is based on.              *)
ReviewLog(r) ==
  [i \in DOMAIN given[r] |->
     IF given[r][i].body.expected = AnyVersion THEN i - 1 ELSE given[r][i].body.expected]
DecisionLog(i) ==
  IF i \notin DOMAIN candidates THEN <<>>
  ELSE [v \in 1..candidates[i].version - 1 |->
          IF v \in DOMAIN candidates[i].history THEN candidates[i].history[v] - 1 ELSE AnyVersion]
=============================================================================
